---------------------------- MODULE ResponsesBody ----------------------------
(***************************************************************************)
(* pkg/llmutils/responses: the fields of OpenAI /v1/responses bodies.      *)
(***************************************************************************)
EXTENDS JsonBody

CollectResponsesTextParts(v, base) == TextParts(v, base, {"output_text", "input_text", "text"})

TextOrParts(v, base) == IF v.kind = "arr" THEN CollectResponsesTextParts(v, base) ELSE TextField(v, base)

CollectResponsesInputItemFields(item, path) ==
    CASE TypeIs(item, {"function_call_output"}) -> TextOrParts(Get(item, "output"), Append(path, "output"))
      [] TypeIs(item, {"function_call"}) -> TextField(Get(item, "arguments"), Append(path, "arguments"))
      [] OTHER -> TextOrParts(Get(item, "content"), Append(path, "content"))

\* A body with neither input nor instructions is not of this format.
ExtractRequestContent(body) ==
    LET input == Get(body, "input")
        instructions == Get(body, "instructions")
    IN  [ok |-> input # Missing \/ instructions # Missing,
         fields |-> TextField(instructions, <<"instructions">>)
                    \o IF input.kind = "arr" THEN Each(input.items, CollectResponsesInputItemFields, <<"input">>)
                       ELSE TextField(input, <<"input">>)]

ExtractItemFields(item, path) ==
    CASE TypeIs(item, {"message"}) -> TextParts(Get(item, "content"), Append(path, "content"), {"output_text"})
      [] TypeIs(item, {"function_call"}) -> TextField(Get(item, "arguments"), Append(path, "arguments"))
      [] TypeIs(item, {"reasoning"}) ->
            TextParts(Get(item, "summary"), Append(path, "summary"), {"summary_text"})
            \o TextParts(Get(item, "content"), Append(path, "content"), {"reasoning_text"})
      [] OTHER -> <<>>

ExtractOutputFields(body) ==
    IF Get(body, "output").kind # "arr" THEN <<>>
    ELSE Each(Get(body, "output").items, ExtractItemFields, <<"output">>)
=============================================================================
