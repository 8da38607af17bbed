------------------------------ MODULE SseChat ------------------------------
(***************************************************************************)
(* The processor of chat-completions streams                               *)
(* (internal/sseproc/chatcompletions).  A chunk has choices; a choice has  *)
(* a role, reasoning, content, tool calls, a legacy function call (an      *)
(* optional value is a sequence of at most one) and a finish reason.  The  *)
(* processor is a record, and each of its methods an operator from the     *)
(* record before to the record after.                                      *)
(*                                                                         *)
(* env is what the code does not determine: env.fails holds the keys whose *)
(* scans fail in this call, and env.order is the order in which Go's maps  *)
(* happen to be walked.                                                    *)
(***************************************************************************)
EXTENDS SseCommon

\* demaskerKey.
Key(c, t, f) == [choice |-> c, tool |-> t, field |-> f]
Reasoning(c) == Key(c, 0, "reasoning")
Content(c) == Key(c, 0, "content")
Tool(c, t) == Key(c, t, "tool_arguments")
FunctionCall(c) == Tool(c, -1)

New ==
    [tail |-> <<>>, out |-> <<>>, demaskers |-> <<>>, trackers |-> <<>>,
     merged |-> <<>>,      \* aggregator.merged: by choice, what frames repeat
     started |-> {},       \* contentStarted
     done |-> FALSE, masked |-> <<>>]

-----------------------------------------------------------------------------
(* The aggregator: the first role, ids and names seen.                      *)

FirstSeen(old, new) == IF old = "" THEN new ELSE old

\* mergeChoice on a tool call.
MergeTool(tools, tc) ==
    LET old == IF tc.index \in DOMAIN tools THEN tools[tc.index] ELSE ""
    IN  (tc.index :> FirstSeen(old, tc.id)) @@ tools

\* mergeFunctionCall.
MergeFunctionCall(fn, in) ==
    IF fn = <<>> THEN [i \in DOMAIN in |-> in[i].name]
    ELSE [i \in DOMAIN fn |-> IF in = <<>> THEN fn[i] ELSE FirstSeen(fn[i], in[1].name)]

\* mergeChoice; texts are not kept.
MergeChoice(merged, in) ==
    LET old == IF in.index \in DOMAIN merged THEN merged[in.index]
               ELSE [role |-> "", tools |-> <<>>, fn |-> <<>>]
        new == [role |-> FirstSeen(old.role, in.role),
                tools |-> FoldLeft(MergeTool, old.tools, in.tools),
                fn |-> MergeFunctionCall(old.fn, in.fn)]
    IN  (in.index :> new) @@ merged

-----------------------------------------------------------------------------
(* Output frames.                                                           *)

Chunk(choices, usage) == Frame(<<"data">>, [choices |-> choices, usage |-> usage])

EmptyChoice(c) ==
    [index |-> c, role |-> "", reasoning |-> <<>>, content |-> <<>>, tools |-> <<>>, fn |-> <<>>,
     finish |-> FALSE]

\* outputTextFrame, with the role of the first delta.
OutputTextFrame(p, key, text) ==
    LET c == [EmptyChoice(key.choice) EXCEPT !.role = p.merged[key.choice].role]
    IN  Write(p, Chunk(<<IF key.field = "content" THEN [c EXCEPT !.content = text]
                         ELSE [c EXCEPT !.reasoning = text]>>, FALSE))

\* outputToolCallFrame, with the id and the name of the call.
OutputToolCallFrame(p, key, text) ==
    LET tools == p.merged[key.choice].tools
        call == [index |-> key.tool, id |-> tools[key.tool], args |-> text]
    IN  IF key.tool \notin DOMAIN tools THEN p
        ELSE Write(p, Chunk(<<[EmptyChoice(key.choice) EXCEPT !.tools = <<call>>]>>, FALSE))

\* outputFunctionCallFrame.
OutputFunctionCallFrame(p, key, text) ==
    LET fn == p.merged[key.choice].fn
    IN  IF fn = <<>> THEN p
        ELSE Write(p, Chunk(<<[EmptyChoice(key.choice) EXCEPT
                                  !.fn = <<[name |-> fn[1], args |-> text]>>]>>, FALSE))

\* Nothing is written for an empty text or a choice that was never merged.
Output(p, key, text) ==
    CASE text = <<>> \/ key.choice \notin DOMAIN p.merged -> p
      [] OTHER -> CASE key.field # "tool_arguments" -> OutputTextFrame(p, key, text)
                    [] key = FunctionCall(key.choice) -> OutputFunctionCallFrame(p, key, text)
                    [] OTHER -> OutputToolCallFrame(p, key, text)

-----------------------------------------------------------------------------
(* Demasking and flushing.                                                  *)

Emit(p, key, d) == Output(SetPending(p, key, d.pending), key, d.emit)

\* Emit what the demasker of the key returns; after a failure that is all it
\* held, as it is.
Demask(p, key, text, flush, env) ==
    Emit(p, key, DemaskChunk(Pending(p, key), text, flush, key.field = "tool_arguments", key \in env.fails))

\* flushFieldForChoice, flushToolCallForChoice.
FlushKey(p, key, env) ==
    IF key \in DOMAIN p.demaskers THEN Demask(p, key, <<>>, TRUE, env) ELSE p

FlushFunctionCallForChoice(p, c, env) == FlushKey(p, FunctionCall(c), env)

FlushAllToolCallsForChoice(p, c, env) ==
    FoldLeft(LAMBDA q, k : FlushKey(q, k, env), p,
             SelectSeq(env.order, LAMBDA k : k.choice = c /\ k.field = "tool_arguments"))

\* flushChoice: reasoning, content, function call, then the tool calls.
FlushChoice(p, c, env) ==
    LET texts == FlushKey(FlushKey(p, Reasoning(c), env), Content(c), env)
    IN  FlushAllToolCallsForChoice(FlushFunctionCallForChoice(texts, c, env), c, env)

FlushFinished(p, c, env) == IF c.finish THEN FlushChoice(p, c.index, env) ELSE p

\* flushAllDemaskers.
FlushAllDemaskers(p, env) ==
    FoldLeft(LAMBDA q, k : IF k \in DOMAIN q.demaskers THEN FlushChoice(q, k.choice, env) ELSE q,
             p, env.order)

\* processTextField: the text is recorded as it came.
ProcessTextField(p, key, text, env) ==
    IF text = <<>> THEN p
    ELSE Demask([p EXCEPT !.masked = Record(@, key, text)], key, text, FALSE, env)

\* Arguments that wait for the end of the choice like a text.
ProcessArgumentsHeld(p, key, args, env) ==
    LET fed == Feed(Tracker(p, key), args)
    IN  Demask([p EXCEPT !.trackers = (key :> fed.tracker) @@ @], key, args, FALSE, env)

\* AppendToolArguments and the demasker; a closed object is flushed at once.
ProcessArguments(p, key, args, env) ==
    LET fed == Feed(Tracker(p, key), args)
    IN  Demask([p EXCEPT !.trackers = (key :> fed.tracker) @@ @], key, args, fed.closed, env)

\* processToolCalls for one call; without arguments it is passed on.
ProcessToolCall(p, c, tc, env) ==
    IF tc.args = <<>> THEN Write(p, Chunk(<<[EmptyChoice(c) EXCEPT !.tools = <<tc>>]>>, FALSE))
    ELSE ProcessArguments(p, Tool(c, tc.index), tc.args, env)

ProcessToolCalls(p, choices, env) ==
    FoldLeft(LAMBDA q, c : FoldLeft(LAMBDA r, tc : ProcessToolCall(r, c.index, tc, env), q, c.tools),
             p, choices)

\* processFunctionCall.
ProcessFunctionCall(p, choices, env) ==
    FoldLeft(LAMBDA q, c : IF c.fn = <<>> \/ c.fn[1].args = <<>> THEN q
                           ELSE ProcessArguments(q, FunctionCall(c.index), c.fn[1].args, env),
             p, choices)

\* A choice whose reasoning is not flushed when its content starts.
ProcessChoiceUnordered(p, c, env) ==
    IF c.content = <<>> /\ c.reasoning = <<>> THEN p
    ELSE FlushFinished(ProcessTextField(ProcessTextField(p, Reasoning(c.index), c.reasoning, env),
                                        Content(c.index), c.content, env), c, env)

\* The rest of the reasoning comes before the first content.
StartContent(p, c, env) ==
    IF c.content = <<>> \/ c.index \in p.started THEN p
    ELSE [FlushKey(p, Reasoning(c.index), env) EXCEPT !.started = @ \cup {c.index}]

\* processChoice.
ProcessChoice(p, c, env) ==
    LET reasoned == ProcessTextField(p, Reasoning(c.index), c.reasoning, env)
        spoken == ProcessTextField(StartContent(reasoned, c, env), Content(c.index), c.content, env)
    IN  IF c.content = <<>> /\ c.reasoning = <<>> THEN p ELSE FlushFinished(spoken, c, env)

ProcessChoices(p, choices, env) ==
    FoldLeft(LAMBDA q, c : ProcessChoice(q, c, env), p, choices)

-----------------------------------------------------------------------------
(* Frames.                                                                  *)

Some(choices, Test(_)) == \E i \in DOMAIN choices : Test(choices[i])

\* chunkHasText, chunkHasToolCalls, chunkHasFunctionCall.
HasData(choices) ==
    \/ Some(choices, LAMBDA c : c.content # <<>> \/ c.reasoning # <<>>)
    \/ Some(choices, LAMBDA c : c.tools # <<>>)
    \/ Some(choices, LAMBDA c : c.fn # <<>> /\ c.fn[1].args # <<>>)

\* isMetadataChunk.
IsMetadataChunk(chunk) == chunk.usage \/ Some(chunk.choices, LAMBDA c : c.finish)

\* metadataOnlyFrame.
MetadataOnlyFrame(chunk) ==
    Chunk([i \in DOMAIN chunk.choices |->
              [EmptyChoice(chunk.choices[i].index) EXCEPT !.finish = chunk.choices[i].finish]],
          chunk.usage)

\* handleMetadataFrame: what is held back comes before the finish reason.
HandleMetadataFrame(p, chunk, frame, env) ==
    Write(FoldLeft(LAMBDA q, c : FlushFinished(q, c, env), p, chunk.choices), frame)

\* Tool calls, the function call, then texts; their finish reason comes last.
ProcessData(p, chunk, env) ==
    ProcessChoices(ProcessFunctionCall(ProcessToolCalls(p, chunk.choices, env), chunk.choices, env),
                   chunk.choices, env)

MetadataLast(p, chunk, env) ==
    IF IsMetadataChunk(chunk) THEN HandleMetadataFrame(p, chunk, MetadataOnlyFrame(chunk), env) ELSE p

\* handleDataFrame.
HandleDataFrame(p, f, env) ==
    LET chunk == f.payload
        merged == [p EXCEPT !.merged = FoldLeft(MergeChoice, @, chunk.choices)]
    IN  CASE ~f.valid \/ chunk.choices = <<>> -> Write(p, f)
          [] OTHER ->
                CASE HasData(chunk.choices) -> MetadataLast(ProcessData(merged, chunk, env), chunk, env)
                  [] ~HasData(chunk.choices) /\ IsMetadataChunk(chunk) -> HandleMetadataFrame(merged, chunk, f, env)
                  [] OTHER -> Write(merged, f)

\* processFrame and handleDoneFrame.
ProcessFrame(p, f, env) ==
    CASE ClassifyFrame(f) = "done" -> Write([FlushAllDemaskers(p, env) EXCEPT !.done = TRUE], f)
      [] ClassifyFrame(f) = "passthrough" -> Write(p, f)
      [] ClassifyFrame(f) = "event" -> HandleDataFrame(p, f, env)

\* A stream that ends without [DONE] is flushed.
FlushAtEnd(p, eos, env) == IF eos /\ ~p.done THEN FlushAllDemaskers(p, env) ELSE p

\* ProcessChunk.
ProcessChunk(p, body, eos, env) ==
    LET in == PrepareFrames(p.tail, body, eos, env.whole)
        start == [p EXCEPT !.tail = in.tail, !.out = <<>>]
    IN  FlushAtEnd(FoldLeft(LAMBDA q, f : ProcessFrame(q, f, env), start, in.frames), eos, env)

-----------------------------------------------------------------------------
(* What a client reads from a stream of frames.                             *)

ChoicesIn(f, c) ==
    IF f.valid /\ ClassifyFrame(f) = "event"
    THEN SelectSeq(f.payload.choices, LAMBDA x : x.index = c) ELSE <<>>

\* The text of a key in one frame; a client finds the fragments of a tool
\* call by its index.
Fragment(f, key) ==
    LET of(c) == CASE key.field = "content" -> c.content
                   [] key.field = "reasoning" -> c.reasoning
                   [] key = FunctionCall(key.choice) -> FlattenSeq([i \in DOMAIN c.fn |-> c.fn[i].args])
                   [] OTHER -> LET ts == SelectSeq(c.tools, LAMBDA t : t.index = key.tool)
                               IN  FlattenSeq([i \in DOMAIN ts |-> ts[i].args])
        cs == ChoicesIn(f, key.choice)
    IN  FlattenSeq([i \in DOMAIN cs |-> of(cs[i])])

\* The frame ends the field: the finish reason of its choice, [DONE], and for
\* reasoning the first content.
Ends(f, key) ==
    \/ ClassifyFrame(f) = "done"
    \/ \E i \in DOMAIN ChoicesIn(f, key.choice) :
          LET c == ChoicesIn(f, key.choice)[i]
          IN  c.finish \/ (key.field = "reasoning" /\ c.content # <<>>)

IsText(key) == key.field # "tool_arguments"
=============================================================================
