------------------------------ MODULE MCGateway ------------------------------
EXTENDS Gateway

M(key, value) == Member(key, value)
T(type) == M("type", Str(<<type>>))

\* "s" is a harmless original, "S" one with a quote in it; "s" has two rules.
MCRules == {[id |-> 1, type |-> 1, matches |-> {"s"}], [id |-> 2, type |-> 2, matches |-> {"s", "S"}]}
MCPlaceholderOf == "s" :> "<s>" @@ "S" :> "<S>"
MCEscapedOf == "s" :> "s" @@ "S" :> "eS"
MCStreamTexts == {{}, {<<"a">>}}
MCDottedKeys == "a.b" :> <<"a", "b">>

MCPaths == <<"v1", "chat">> :> "chat_completions" @@ <<"v1", "messages">> :> "messages"
           @@ <<"messages">> :> "chat_completions" @@ <<"v1", "responses">> :> "responses"
MCPathBases == <<"v1", "responses">> :> <<"other">>
PathOf == [chat_completions |-> <<"v1", "chat">>, messages |-> <<"openai", "v1", "messages">>,
           responses |-> <<"v1", "responses">>]

Clean == Str(<<"a">>)
One == Str(<<"a", "s">>)
Two == Str(<<"S", "s">>)
Args(word) == Str(<<"{", word, "}">>)

Text(value) == Obj(<<T("text"), M("text", value)>>)
Image == Obj(<<T("image_url"), M("image_url", Str(<<"s">>))>>)

Chat1(msg) == Obj(<<M("model", Clean), M("messages", Arr(<<Obj(<<M("role", Clean), M("content", Clean)>>), Obj(msg)>>))>>)

ChatDocs ==
    UNION { { Chat1(<<M("content", x)>>),
              Chat1(<<M("content", Arr(<<Text(x), Image, Text(y), Text(Two)>>))>>),
              Chat1(<<M("content", x), M("role", Clean), M("content", y)>>),      \* repeated keys
              Chat1(<<M("content", x), EscapedMember("content", y)>>) } : x, y \in {Clean, One, Two} }
    \cup
    { Chat1(<<M("content", Scalar("null")), M("function_call", Obj(<<M("arguments", Args("s"))>>)),
              M("tool_calls", Arr(<<Obj(<<M("function", Obj(<<M("arguments", Args("b"))>>))>>),
                                    Obj(<<M("function", Obj(<<M("arguments", Args("s"))>>))>>)>>))>>),
      Obj(<<M("messages", Arr(<<>>)), M("temperature", Scalar("nonfinite")), M("stream", Scalar("true")),
            M("messages", Arr(<<Obj(<<M("content", One)>>)>>))>>),
      Obj(<<M("messages", Arr(<<Obj(<<M("content", Clean), M("content", One)>>)>>)), M("n", Scalar("garbage"))>>),
      \* another format, no body
      Obj(<<M("prompt", One), M("prompt", Two)>>), Missing }

MessagesDocs ==
    { Obj(<<M("system", One), M("messages", Arr(<<Obj(<<M("content", Two)>>)>>))>>),
      Obj(<<M("system", Arr(<<Text(Clean), Text(One)>>)),
            M("messages", Arr(<<Obj(<<M("content", Arr(<<
                Obj(<<T("tool_use"), M("input", Obj(<<M("a.b", One), M("a", Obj(<<M("b", Clean)>>)),
                                                      M("list", Arr(<<Clean, Two>>)), M("n", Scalar("number"))>>))>>),
                Obj(<<T("tool_result"), M("content", One)>>),
                Obj(<<T("tool_result"), M("content", Arr(<<Text(One), Image>>))>>), Text(Two)>>))>>)>>))>>) }

ResponsesDocs ==
    { Obj(<<M("instructions", One), M("input", Two)>>),
      Obj(<<M("input", Arr(<<
          Obj(<<M("role", Clean), M("content", One)>>),
          Obj(<<M("content", Arr(<<Obj(<<T("input_text"), M("text", Two)>>), Obj(<<T("input_image"), M("text", One)>>),
                                   Obj(<<T("output_text"), M("text", One)>>)>>))>>),
          Obj(<<T("function_call"), M("arguments", Args("s"))>>),
          Obj(<<T("function_call_output"), M("output", One)>>),
          Obj(<<T("function_call_output"), M("output", Arr(<<Obj(<<T("output_text"), M("text", Two)>>)>>))>>),
          Obj(<<T("reasoning"), M("encrypted_content", Clean)>>)>>))>>) }

Req(api, path, guarded, method, delivery, headers, doc) ==
    [api |-> api, path |-> path, guarded |-> guarded, method |-> method, delivery |-> delivery,
     headers |-> headers, doc |-> doc]

AllHeaders == {"Connection", "X-Listed", "Override", "Accept-Encoding", "Idempotency-Key"}

MCRequests ==
    {Req("chat_completions", PathOf.chat_completions, TRUE, "POST", "ok", AllHeaders, d) : d \in ChatDocs}
    \cup {Req("messages", PathOf.messages, TRUE, "POST", "ok", {"Accept-Encoding"}, d) : d \in MessagesDocs}
    \cup {Req("responses", PathOf.responses, TRUE, "POST", "ok", {}, d) : d \in ResponsesDocs}
    \cup {Req("chat_completions", <<"v1", "models">>, FALSE, "POST", "ok", AllHeaders, Chat1(<<M("content", One)>>)),
          Req("chat_completions", PathOf.chat_completions, TRUE, "GET", "ok", {}, Missing)}
    \cup {Req("chat_completions", PathOf.chat_completions, TRUE, "POST", delivery, {}, Chat1(<<M("content", One)>>))
             : delivery \in {"large", "broken"}}

MCPolicies ==
    {[enabled |-> TRUE, mode |-> m, types |-> ts] : m \in {"enforce", "detect"}, ts \in {{1}, {1, 2}}}
    \cup {[enabled |-> FALSE, mode |-> "enforce", types |-> {1}], [enabled |-> TRUE, mode |-> "enforce", types |-> {}]}

MCConfigs ==
    {[limit |-> b, upstream |-> [base |-> <<"llm">>], expose |-> b, named |-> {"types", "rules", "counts"}, audit |-> b]
        : b \in BOOLEAN}
    \cup {[limit |-> FALSE, upstream |-> None, expose |-> TRUE, named |-> {"rules"}, audit |-> TRUE]}

\* The upstream answers with placeholders it was or was not given.
Reply == Str(<<"<s>", "a", "<S>">>)

Failure == Obj(<<M("error", Obj(<<M("message", Clean)>>))>>)

MCAnswers(api) ==
    {Failure} \cup
    CASE api = "chat_completions" ->
            {Obj(<<M("id", Clean), M("choices", Arr(<<
                Obj(<<M("message", Obj(<<M("content", Reply), M("refusal", Clean), M("reasoning", Reply)>>))>>),
                Obj(<<M("message", Obj(<<M("content", Scalar("null")),
                    M("function_call", Obj(<<M("arguments", Args("<S>"))>>)),
                    M("tool_calls", Arr(<<Obj(<<M("function", Obj(<<M("arguments", Args("<s>"))>>))>>),
                                          Obj(<<M("function", Obj(<<M("arguments", Args("<S>"))>>))>>)>>))>>))>>)>>))>>)}
      [] api = "messages" ->
            {Obj(<<M("content", Arr(<<
                Obj(<<T("thinking"), M("thinking", Reply), M("signature", Str(<<"<s>">>))>>), Text(Reply),
                Obj(<<T("tool_use"), M("input", Obj(<<M("k", Reply), M("l", Arr(<<Reply>>))>>))>>),
                Obj(<<T("tool_use"), M("input", Obj(<<>>))>>),
                Obj(<<T("redacted_thinking"), M("data", Str(<<"<S>">>))>>)>>))>>)}
      [] OTHER ->
            {Obj(<<M("output", Arr(<<
                Obj(<<T("message"), M("content", Arr(<<Obj(<<T("output_text"), M("text", Reply)>>)>>))>>),
                Obj(<<T("function_call"), M("arguments", Args("<S>"))>>),
                Obj(<<T("reasoning"), M("encrypted_content", Str(<<"<s>">>)),
                      M("summary", Arr(<<Obj(<<T("summary_text"), M("text", Reply)>>)>>)),
                      M("content", Arr(<<Obj(<<T("reasoning_text"), M("text", Reply)>>)>>))>>)>>))>>)}
=============================================================================
