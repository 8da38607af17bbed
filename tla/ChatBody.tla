------------------------------ MODULE ChatBody ------------------------------
(***************************************************************************)
(* pkg/llmutils/chatcompletions: the fields of /v1/chat/completions bodies.*)
(***************************************************************************)
EXTENDS JsonBody

CollectMessageContentFields(content, base) ==
    IF content.kind = "arr" THEN TextParts(content, base, {"text"}) ELSE TextField(content, base)

CollectFunctionCallFields(msg, base) ==
    TextField(Get(Get(msg, "function_call"), "arguments"), base \o <<"function_call", "arguments">>)

CollectToolCallArgumentFields(msg, base) ==
    IF Get(msg, "tool_calls").kind # "arr" THEN <<>>
    ELSE Each(Get(msg, "tool_calls").items, LAMBDA call, path :
                 TextField(Get(Get(call, "function"), "arguments"), path \o <<"function", "arguments">>),
              Append(base, "tool_calls"))

\* A body without a messages array is not of this format.
ExtractRequestContent(body) ==
    LET messages == Get(body, "messages")
    IN  [ok |-> messages.kind = "arr",
         fields |-> IF messages.kind # "arr" THEN <<>>
                    ELSE Each(messages.items, LAMBDA msg, path :
                                 CollectMessageContentFields(Get(msg, "content"), Append(path, "content"))
                                 \o CollectFunctionCallFields(msg, path)
                                 \o CollectToolCallArgumentFields(msg, path),
                              <<"messages">>)]

OutputTexts == <<"content", "reasoning", "reasoning_content", "refusal">>

ExtractOutputFields(body) ==
    Each(Array(Get(body, "choices")), LAMBDA choice, path :
            LET message == Get(choice, "message")
                base == Append(path, "message")
            IN  FlattenSeq([n \in DOMAIN OutputTexts |->
                               TextField(Get(message, OutputTexts[n]), Append(base, OutputTexts[n]))])
                \o TextField(Get(Get(message, "function_call"), "arguments"), base \o <<"function_call", "arguments">>)
                \o Each(Array(Get(message, "tool_calls")), LAMBDA call, at :
                           TextField(Get(Get(call, "function"), "arguments"), at \o <<"function", "arguments">>),
                        Append(base, "tool_calls")),
         <<"choices">>)
=============================================================================
