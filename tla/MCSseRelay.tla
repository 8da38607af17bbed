----------------------------- MODULE MCSseRelay -----------------------------
(* Streams of up to MaxFrames frames for SseRelay, drawn from small scripts. *)
EXTENDS SseRelay

Comment == Frame(<<"comment">>, <<>>)
DoneFrame == Frame(<<"[DONE]">>, <<>>)

-----------------------------------------------------------------------------
Choice(c) == Chat!EmptyChoice(c)
Data(choice) == Chat!Chunk(<<choice>>, FALSE)
Text1(c, r, t) == [Choice(c) EXCEPT !.reasoning = r, !.content = t]
Call1(c, t, id, args) == [Choice(c) EXCEPT !.tools = <<[index |-> t, id |-> id, args |-> args]>>]
Legacy(args) == [Choice(0) EXCEPT !.fn = <<[name |-> "f", args |-> args]>>]
Finish(choice) == [choice EXCEPT !.finish = TRUE]

Open == <<"{", "q", "<">>
Brace == <<"}", "<">>   \* a brace inside of a string
Close == <<">", "q", "}">>

ChatScripts ==
    { \* reasoning, then content, with a keepalive and usage in between
      {Data(Text1(0, <<"a", "<">>, <<>>)), Data(Text1(0, <<">">>, <<"<">>)), Data(Text1(0, <<>>, <<">">>)),
       Data(Finish(Choice(0))), Data([Choice(0) EXCEPT !.role = "r"])},
      {Data(Text1(0, <<>>, <<"a", "<">>)), Data(Finish(Text1(0, <<>>, <<">", "<">>))),
       Chat!Chunk(<<Text1(0, <<>>, <<">">>)>>, TRUE), Chat!Chunk(<<>>, TRUE), DoneFrame},
      \* a tool call, announced without arguments, and a second one
      {Data(Call1(0, 0, "x", <<>>)), Data(Call1(0, 0, "x", Open)), Data(Call1(0, 0, "", Close)),
       Data(Call1(0, 1, "y", Open)), Data(Finish(Choice(0)))},
      {Data(Call1(0, 0, "x", <<"{", "q">>)), Data(Call1(0, 0, "", Brace)), Data(Call1(0, 0, "", <<">">>)),
       Data(Call1(0, 0, "", Close)), DoneFrame},
      \* the legacy function call
      {Data(Legacy(Open)), Data(Finish(Legacy(Close))), Data(Text1(0, <<>>, <<"<">>)), Comment},
      \* two choices, in one frame or in turn
      {Chat!Chunk(<<Text1(0, <<>>, <<"<">>), Text1(1, <<>>, <<"<">>)>>, FALSE),
       Chat!Chunk(<<Text1(1, <<>>, <<">">>), Finish(Text1(0, <<>>, <<">">>))>>, FALSE),
       Data(Text1(1, <<">">>, <<"a">>)), Data(Finish(Choice(1))), DoneFrame} }

ChatKeys ==
    <<Chat!Reasoning(0), Chat!Content(0), Chat!Tool(0, 0), Chat!Tool(0, 1), Chat!FunctionCall(0),
      Chat!Reasoning(1), Chat!Content(1)>>

-----------------------------------------------------------------------------
Event(type, b, delta) ==
    Frame(<<"event", "data">>, [type |-> type, index |-> b, delta |-> delta, text |-> <<>>])
Start(b, type) == Event("content_block_start", b, type)
Stop(b) == Event("content_block_stop", b, "")

MessagesScripts ==
    { {Start(0, "text"), Messages!Delta(0, "text_delta", <<"a", "<">>),
       Messages!Delta(0, "text_delta", <<">">>), Stop(0), Event("ping", 0, "")},
      {Start(0, "thinking"), Messages!Delta(0, "thinking_delta", <<"<">>),
       Messages!Delta(0, "signature_delta", <<"a">>), Messages!Delta(0, "text_delta", <<"<">>), Stop(0), DoneFrame},
      {Start(0, "tool_use"), Messages!Delta(0, "input_json_delta", <<"{", "q">>),
       Messages!Delta(0, "input_json_delta", Brace), Messages!Delta(0, "input_json_delta", <<>>),
       Messages!Delta(0, "input_json_delta", Close)},
      {Start(1, "redacted_thinking"), Messages!Delta(1, "thinking_delta", <<"<">>),
       Messages!Delta(0, "text_delta", <<"<">>), Messages!Delta(1, "text_delta", <<>>), Stop(1)} }

MessagesKeys ==
    <<Messages!Key(0, "text"), Messages!Key(0, "thinking"), Messages!Key(0, "tool_input"),
      Messages!Key(1, "text"), Messages!Key(1, "thinking")>>

-----------------------------------------------------------------------------
OutputText == Responses!Key(0, 0, "output_text")
Args == Responses!Key(0, 0, "function_args")
Think == Responses!Key(1, 0, "reasoning_text")

Resp(type, key, text, embedded) ==
    Frame(<<"event", "data">>,
          [type |-> type, field |-> key.field, output |-> key.output, content |-> key.content,
           item |-> "i", seq |-> 0, text |-> text, embedded |-> embedded])
Embed(key, text) == <<[key |-> key, text |-> text]>>

Whole == <<"a", "<", ">">>

ResponsesScripts ==
    { {Resp("delta", OutputText, <<"a", "<">>, <<>>), Resp("delta", OutputText, <<">">>, <<>>),
       Resp("done", OutputText, Whole, <<>>), Resp("part_done", OutputText, Whole, <<>>),
       Resp("item_done", OutputText, <<>>, Embed(OutputText, Whole)),
       Resp("terminal", OutputText, <<>>, Embed(OutputText, Whole))},
      {Resp("delta", Args, Open, <<>>), Resp("delta", Args, Close, <<>>),
       Resp("done", Args, Open \o Close, <<>>), Resp("delta", Args, <<>>, <<>>),
       Resp("terminal", Args, <<>>, Embed(Args, Open \o Close))},
      {Resp("delta", OutputText, <<"<">>, <<>>), Resp("delta", Think, <<"<">>, <<>>),
       Resp("done", Think, <<"<", ">">>, <<>>), Resp("other", OutputText, <<>>, <<>>),
       Resp("delta", Think, <<">">>, <<>>), DoneFrame} }

ResponsesKeys == <<OutputText, Args, Think>>

-----------------------------------------------------------------------------
MCScripts ==
    [f \in {"chat", "messages", "responses", "unknown"} |->
        CASE f = "chat" -> ChatScripts [] f = "messages" -> MessagesScripts
          [] f = "responses" -> ResponsesScripts [] f = "unknown" -> {{Comment, DoneFrame}}]

Both(keys) == {keys, Reverse(keys)}

MCKeyOrders ==
    [f \in {"chat", "messages", "responses", "unknown"} |->
        CASE f = "chat" -> Both(ChatKeys) [] f = "messages" -> Both(MessagesKeys)
          [] f = "responses" -> Both(ResponsesKeys) [] f = "unknown" -> Both(<<>>)]
=============================================================================
