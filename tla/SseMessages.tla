---------------------------- MODULE SseMessages ----------------------------
(***************************************************************************)
(* The processor of Anthropic Messages streams                             *)
(* (internal/sseproc/messages).  A payload has a type; content_block_start *)
(* names a block and its type, content_block_delta carries a fragment of   *)
(* one field of a block, content_block_stop ends the block.  env is as in  *)
(* module SseChat.                                                         *)
(***************************************************************************)
EXTENDS SseCommon

\* demaskerKey.
Key(b, f) == [block |-> b, field |-> f]

New ==
    [tail |-> <<>>, out |-> <<>>, demaskers |-> <<>>, trackers |-> <<>>,
     types |-> <<>>,     \* blocks: the type of each block that was started
     done |-> FALSE, masked |-> <<>>]

Delta(b, delta, text) ==
    Frame(<<"event", "data">>,
          [type |-> "content_block_delta", index |-> b, delta |-> delta, text |-> text])

\* handleContentBlockDelta and deltaWireForField: which field a delta carries.
FieldOf(delta) ==
    CASE delta = "text_delta" -> "text"
      [] delta = "thinking_delta" -> "thinking"
      [] delta = "input_json_delta" -> "tool_input"
      [] OTHER -> "none"

DeltaOf(field) ==
    CASE field = "text" -> "text_delta"
      [] field = "thinking" -> "thinking_delta"
      [] field = "tool_input" -> "input_json_delta"

-----------------------------------------------------------------------------
(* Flushing: the rest of a field goes out in a delta of its own.            *)

EmitSyntheticDeltaFrame(p, key, text) ==
    IF text = <<>> THEN p ELSE Write(p, Delta(key.block, DeltaOf(key.field), text))

\* flushBlock for one of the block's demaskers.
FlushKey(p, key, env) ==
    LET d == DemaskChunk(Pending(p, key), <<>>, TRUE, key.field = "tool_input", key \in env.fails)
    IN  IF key \notin DOMAIN p.demaskers THEN p
        ELSE EmitSyntheticDeltaFrame(SetPending(p, key, d.pending), key, d.emit)

\* A flush of the field that goes with the block's recorded type.
FlushBlockByType(p, b, env) ==
    LET field == CASE b \in DOMAIN p.types /\ p.types[b] = "thinking" -> "thinking"
                   [] b \in DOMAIN p.types /\ p.types[b] = "tool_use" -> "tool_input"
                   [] b \in DOMAIN p.types /\ p.types[b] = "text" -> "text"
                   [] OTHER -> "none"
    IN  FlushKey(p, Key(b, field), env)

\* flushBlock: every demasker the block has, whatever its type.
FlushBlock(p, b, env) ==
    FoldLeft(LAMBDA q, k : FlushKey(q, k, env), p, SelectSeq(env.order, LAMBDA k : k.block = b))

\* flushAllBlocks.
FlushAllBlocks(p, env) ==
    FoldLeft(LAMBDA q, k : IF k \in DOMAIN q.demaskers THEN FlushBlock(q, k.block, env) ELSE q,
             p, env.order)

-----------------------------------------------------------------------------
(* Events.                                                                  *)

\* handleContentBlockStart: a fresh accumulator, the demaskers stay.
HandleContentBlockStart(p, f) ==
    LET b == f.payload.index
    IN  Write([p EXCEPT !.types = (b :> f.payload.delta) @@ @, !.trackers = (b :> NewTracker) @@ @], f)

\* The demasker's text takes the place of the fragment; a delta that is wholly
\* held back is not sent.
DemaskDelta(p, f, key, env) ==
    LET b == f.payload.index
        text == f.payload.text
        tool == key.field = "tool_input"
        fed == Feed(Tracker(p, b), text)
        d == DemaskChunk(Pending(p, key), text, tool /\ fed.closed, tool, key \in env.fails)
        q == [SetPending(p, key, d.pending) EXCEPT
                !.types = @ @@ (b :> ""),
                !.trackers = IF tool THEN (b :> fed.tracker) @@ @ ELSE @,
                !.masked = IF tool THEN @ ELSE Record(@, key, text)]
    IN  IF d.emit = <<>> THEN q ELSE Write(q, [f EXCEPT !.payload.text = d.emit])

\* handleContentBlockDelta.
HandleContentBlockDelta(p, f, env) ==
    LET b == f.payload.index
        field == FieldOf(f.payload.delta)
        redacted == b \in DOMAIN p.types /\ p.types[b] = "redacted_thinking"
    IN  IF field = "none" \/ f.payload.text = <<>> \/ redacted THEN Write(p, f)
        ELSE DemaskDelta(p, f, Key(b, field), env)

\* handleContentBlockStop.
HandleContentBlockStop(p, f, env) == Write(FlushBlock(p, f.payload.index, env), f)

\* handleEventFrame.
HandleEventFrame(p, f, env) ==
    CASE f.valid /\ f.payload.type = "content_block_start" -> HandleContentBlockStart(p, f)
      [] f.valid /\ f.payload.type = "content_block_delta" -> HandleContentBlockDelta(p, f, env)
      [] f.valid /\ f.payload.type = "content_block_stop" -> HandleContentBlockStop(p, f, env)
      [] OTHER -> Write(p, f)

\* processFrame and handleDoneFrame.
ProcessFrame(p, f, env) ==
    CASE ClassifyFrame(f) = "done" -> Write([FlushAllBlocks(p, env) EXCEPT !.done = TRUE], f)
      [] ClassifyFrame(f) = "passthrough" -> Write(p, f)
      [] ClassifyFrame(f) = "event" -> HandleEventFrame(p, f, env)

\* A stream that ends without [DONE], as Anthropic's do, is
\* flushed.
FlushAtEnd(p, eos, env) == IF eos /\ ~p.done THEN FlushAllBlocks(p, env) ELSE p

\* ProcessChunk.
ProcessChunk(p, body, eos, env) ==
    LET in == PrepareFrames(p.tail, body, eos, env.whole)
        start == [p EXCEPT !.tail = in.tail, !.out = <<>>]
    IN  FlushAtEnd(FoldLeft(LAMBDA q, f : ProcessFrame(q, f, env), start, in.frames), eos, env)

-----------------------------------------------------------------------------
(* What a client reads from a stream of frames.                             *)

Of(f, b, type) ==
    f.valid /\ ClassifyFrame(f) = "event" /\ f.payload.type = type /\ f.payload.index = b

Fragment(f, key) ==
    IF Of(f, key.block, "content_block_delta") /\ FieldOf(f.payload.delta) = key.field
    THEN f.payload.text ELSE <<>>

Ends(f, key) == ClassifyFrame(f) = "done" \/ Of(f, key.block, "content_block_stop")

Begins(f, key) == Of(f, key.block, "content_block_start")

\* The block is encrypted: it is not for the demasker.
Redacts(f, key) == Begins(f, key) /\ f.payload.delta = "redacted_thinking"

IsText(key) == key.field # "tool_input"
=============================================================================
