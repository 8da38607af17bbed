---------------------------- MODULE SseResponses ----------------------------
(***************************************************************************)
(* The processor of Responses API streams (internal/sseproc/responses).    *)
(* An event names its item by item_id and output_index; its text is in     *)
(* "delta", "text", "part.text" or "arguments", and the whole output is    *)
(* repeated in the events that end an item or the response.  seq is the    *)
(* sequence_number, -1 if there is none.  env is as in module SseChat.     *)
(***************************************************************************)
EXTENDS SseCommon

\* demaskerKey; the content index is always 0 for arguments.
Key(o, c, f) == [output |-> o, content |-> c, field |-> f]

\* keyFromPayload.
KeyOf(e) == Key(e.output, IF e.field = "function_args" THEN 0 ELSE e.content, e.field)

New ==
    [tail |-> <<>>, out |-> <<>>, demaskers |-> <<>>, trackers |-> <<>>,
     itemIDs |-> <<>>, outSeq |-> -1, done |-> FALSE, masked |-> <<>>]

-----------------------------------------------------------------------------
(* Events are renumbered, so that the ones added by a flush do not collide  *)
(* with what the upstream sends next.                                       *)

\* Numbers that are passed on as they come.
NextOutSeqUpstream(p, upstream) == upstream

\* nextOutSeq.
NextOutSeq(p, upstream) == IF upstream > p.outSeq THEN upstream ELSE p.outSeq + 1

\* forwardEventFrame and emitEventData.
EmitEventData(p, f) ==
    IF f.payload.seq = -1 THEN Write(p, f)
    ELSE LET n == NextOutSeq(p, f.payload.seq)
         IN  Write([p EXCEPT !.outSeq = n], [f EXCEPT !.payload.seq = n])

\* emitPatchedFrame.
EmitPatchedFrame(p, f, text) == EmitEventData(p, [f EXCEPT !.payload.text = text])

\* emitSyntheticDeltaFrame.
EmitSyntheticDeltaFrame(p, key, text) ==
    LET item == IF key \in DOMAIN p.itemIDs THEN p.itemIDs[key] ELSE ""
        e == [type |-> "delta", field |-> key.field, output |-> key.output, content |-> key.content,
              item |-> item, seq |-> p.outSeq + 1, text |-> text, embedded |-> <<>>]
    IN  IF text = <<>> THEN p
        ELSE Write([p EXCEPT !.outSeq = @ + 1], Frame(<<"event", "data">>, e))

\* flushKey.
FlushKey(p, key, env) ==
    LET d == DemaskChunk(Pending(p, key), <<>>, TRUE, key.field = "function_args", key \in env.fails)
    IN  IF key \notin DOMAIN p.demaskers THEN p
        ELSE EmitSyntheticDeltaFrame(SetPending(p, key, d.pending), key, d.emit)

\* flushAll.
FlushAll(p, env) ==
    LET flushed[n \in 0 .. Len(env.order)] ==
            IF n = 0 THEN p ELSE FlushKey(flushed[n - 1], env.order[n], env)
    IN  flushed[Len(env.order)]

-----------------------------------------------------------------------------
(* Events.                                                                  *)

\* handleDelta.
HandleDelta(p, f, env) ==
    LET e == f.payload
        key == KeyOf(e)
        args == key.field = "function_args"
        fed == Feed(Tracker(p, key), e.text)
        named == IF e.item = "" THEN p ELSE [p EXCEPT !.itemIDs = (key :> e.item) @@ @]
        d == DemaskChunk(Pending(p, key), e.text, args /\ fed.closed, args, key \in env.fails)
        q == [SetPending(named, key, d.pending) EXCEPT
                !.trackers = IF args THEN (key :> fed.tracker) @@ @ ELSE @,
                !.masked = IF args THEN @ ELSE Record(@, key, e.text)]
    IN  CASE e.text = <<>> -> EmitEventData(named, f)
          [] e.text # <<>> /\ d.emit = <<>> -> q
          [] OTHER -> EmitPatchedFrame(q, f, d.emit)

\* A field's whole text, demasked at once; the masked text stays when the scan
\* fails.
DemaskWhole(text, field, fails) ==
    LET arguments == DemaskJSONArguments(text, fails)
    IN  CASE field = "function_args" -> IF arguments.ok THEN arguments.value ELSE text
          [] OTHER -> IF fails THEN text ELSE Restore(text, FALSE)

\* A "done" whose text still has its placeholders.
HandleFieldDoneMasked(p, f, env) == EmitEventData(FlushKey(p, KeyOf(f.payload), env), f)

\* handleFieldTextDone and handleArgsDone: first the rest of the deltas.
HandleFieldDone(p, f, env) ==
    LET e == f.payload
    IN  EmitPatchedFrame(FlushKey(p, KeyOf(e), env), f,
                         DemaskWhole(e.text, e.field, KeyOf(e) \in env.fails))

\* handleContentPartDone: the part's text, if it has one.
HandleContentPartDone(p, f, env) ==
    EmitPatchedFrame(p, f, DemaskWhole(f.payload.text, f.payload.field, KeyOf(f.payload) \in env.fails))

\* patchEmbeddedFields; a field that cannot be demasked stays masked.
PatchEmbeddedFields(f, env) ==
    LET patched(x) == [x EXCEPT !.text = DemaskWhole(x.text, x.key.field, x.key \in env.fails)]
    IN  [f EXCEPT !.payload.embedded = [i \in DOMAIN @ |-> patched(@[i])]]

\* handleItemDone.
HandleItemDone(p, f, env) == EmitEventData(p, PatchEmbeddedFields(f, env))

\* handleTerminal.
HandleTerminal(p, f, env) ==
    EmitEventData([FlushAll(p, env) EXCEPT !.done = TRUE], PatchEmbeddedFields(f, env))

\* handleEventFrame.
HandleEventFrame(p, f, env) ==
    IF ~f.valid THEN Write(p, f)
    ELSE CASE f.payload.type = "delta" -> HandleDelta(p, f, env)
           [] f.payload.type = "done" -> HandleFieldDone(p, f, env)
           [] f.payload.type = "part_done" -> HandleContentPartDone(p, f, env)
           [] f.payload.type = "item_done" -> HandleItemDone(p, f, env)
           [] f.payload.type = "terminal" -> HandleTerminal(p, f, env)
           [] OTHER -> EmitEventData(p, f)

\* processFrame.
ProcessFrame(p, f, env) ==
    CASE ClassifyFrame(f) = "done" -> Write([FlushAll(p, env) EXCEPT !.done = TRUE], f)
      [] ClassifyFrame(f) = "passthrough" -> Write(p, f)
      [] ClassifyFrame(f) = "event" -> HandleEventFrame(p, f, env)

\* A stream that ends without a terminal event is flushed.
FlushAtEnd(p, eos, env) == IF eos /\ ~p.done THEN FlushAll(p, env) ELSE p

ProcessFrames(p, frames, env) ==
    LET processed[n \in 0 .. Len(frames)] ==
            IF n = 0 THEN p ELSE ProcessFrame(processed[n - 1], frames[n], env)
    IN  processed[Len(frames)]

\* ProcessChunk.
ProcessChunk(p, body, eos, env) ==
    LET in == PrepareFrames(p.tail, body, eos, env.whole)
    IN  FlushAtEnd(ProcessFrames([p EXCEPT !.tail = in.tail, !.out = <<>>], in.frames, env), eos, env)

-----------------------------------------------------------------------------
(* What a client reads from a stream of frames.                             *)

IsEvent(f) == f.valid /\ ClassifyFrame(f) = "event"

\* A client finds the item by its id.
Fragment(f, key) ==
    IF IsEvent(f) /\ f.payload.type = "delta" /\ f.payload.item # "" /\ KeyOf(f.payload) = key
    THEN f.payload.text ELSE <<>>

Ends(f, key) ==
    \/ ClassifyFrame(f) = "done"
    \/ IsEvent(f) /\ f.payload.type = "terminal"
    \/ IsEvent(f) /\ f.payload.type = "done" /\ KeyOf(f.payload) = key

\* The whole texts of a key that an event repeats.
Repeats(f, key) ==
    CASE IsEvent(f) /\ f.payload.type \in {"done", "part_done"} /\ KeyOf(f.payload) = key -> {f.payload.text}
      [] IsEvent(f) /\ f.payload.type \in {"item_done", "terminal"} ->
            {x.text : x \in {y \in ToSet(f.payload.embedded) : y.key = key}}
      [] OTHER -> {}

IsText(key) == key.field # "function_args"
=============================================================================
