----------------------------- MODULE SseCommon -----------------------------
(***************************************************************************)
(* What the three SSE processors share (internal/sseproc/common): frames,  *)
(* the demasker of one field, the tracker that finds the end of a streamed *)
(* JSON object, and the recorder of masked texts.                          *)
(*                                                                         *)
(* A text is a sequence of tokens: "<" ">" are the two halves of a         *)
(* placeholder; "{" "}", "q" (a quote) and the backslash matter to the     *)
(* JSON tracker; "a" is anything else.  The original contains a quote: "S" *)
(* is the original as it is, "E" the original escaped for a JSON string.   *)
(***************************************************************************)
EXTENDS Integers, SequencesExt

CONSTANT HoldBack    \* maxPending of the demaskers, in tokens

ASSUME HoldBackAssumption == HoldBack \in Nat \ {0}

-----------------------------------------------------------------------------
(* Frames: the lines of an event, its JSON payload, and whether the payload *)
(* can be parsed.  On the wire a frame is two pieces; the second one ends   *)
(* with the blank line.                                                     *)

Frame(lines, payload) == [lines |-> lines, valid |-> TRUE, payload |-> payload]

\* A frame cut off in the middle of its payload.
Cut(f) == [f EXCEPT !.valid = FALSE]

Pieces(frames) ==
    [i \in 1 .. 2 * Len(frames) |->
        [frame |-> frames[(i + 1) \div 2], last |-> i % 2 = 0]]

\* SplitFrames.
SplitFrames(pieces) ==
    LET complete[n \in 0 .. Len(pieces)] ==
            IF n = 0 THEN <<>>
            ELSE IF pieces[n].last THEN Append(complete[n - 1], pieces[n].frame) ELSE complete[n - 1]
    IN  [frames |-> complete[Len(pieces)],
         tail |-> IF pieces = <<>> \/ Last(pieces).last THEN <<>> ELSE <<Last(pieces)>>]

\* prepareFrames: at the end of the stream an incomplete frame counts as a
\* frame; "whole" when only its blank line was missing.
PrepareFrames(tail, body, eos, whole) ==
    LET split == SplitFrames(tail \o body)
        rest == [i \in DOMAIN split.tail |->
                    IF whole THEN split.tail[i].frame ELSE Cut(split.tail[i].frame)]
    IN  IF eos THEN [frames |-> split.frames \o rest, tail |-> <<>>] ELSE split

\* ClassifyFrame, line by line: comments and event names may come first.
ClassifyFrame(f) ==
    CASE "[DONE]" \in ToSet(f.lines) -> "done"
      [] "data" \in ToSet(f.lines) /\ "[DONE]" \notin ToSet(f.lines) -> "event"
      [] OTHER -> "passthrough"

-----------------------------------------------------------------------------
(* The demasker of one field: what module Demasker shows of it, in tokens.  *)

Opens(text, i) == i \in 1 .. Len(text) - 1 /\ text[i] = "<" /\ text[i + 1] = ">"

\* Every complete placeholder replaced by the original.
Restore(text, json) ==
    FlattenSeq([i \in DOMAIN text |->
        CASE Opens(text, i) -> <<IF json THEN "E" ELSE "S">>
          [] Opens(text, i - 1) -> <<>>
          [] OTHER -> <<text[i]>>])

\* All but the last n tokens of a text.
Release(text, n) ==
    LET end == IF Len(text) > n THEN Len(text) - n ELSE 0
    IN  [emit |-> SubSeq(text, 1, end), pending |-> SubSeq(text, end + 1, Len(text))]

\* DemaskChunk: what it returns and what it holds back.  When the scan fails
\* it hands back everything it was holding, and the callers emit that; the
\* placeholder stands for one in a drifted form, which only the scan restores.
DemaskChunk(pending, chunk, flush, json, fails) ==
    IF fails THEN [emit |-> pending \o chunk, pending |-> <<>>]
    ELSE Release(Restore(pending \o chunk, json), IF flush THEN 0 ELSE HoldBack)

-----------------------------------------------------------------------------
(* JSONCloseTracker.                                                        *)

NewTracker == [depth |-> 0, inString |-> FALSE, escaped |-> FALSE, opened |-> FALSE]

TrackToken(t, ch) ==
    IF t.escaped THEN [t EXCEPT !.escaped = FALSE]
    ELSE CASE ch = "\\" -> [t EXCEPT !.escaped = TRUE]
           [] ch = "q" -> [t EXCEPT !.inString = ~@]
           [] ch = "{" /\ ~t.inString -> [t EXCEPT !.depth = @ + 1, !.opened = TRUE]
           [] ch = "}" /\ ~t.inString -> [t EXCEPT !.depth = @ - 1]
           [] OTHER -> t

\* A scan of each fragment that forgets whether it began inside a string.
FeedEachAlone(t, s) ==
    FoldLeft(LAMBDA acc, ch :
                LET u == TrackToken(acc.tracker, ch)
                IN  [tracker |-> u,
                     closed |-> acc.closed \/ (u.depth < acc.tracker.depth /\ u.opened /\ u.depth = 0)],
             [tracker |-> [t EXCEPT !.inString = FALSE], closed |-> FALSE], s)

\* Feed: the object closed in this fragment when a brace outside of any string
\* brought the depth back to zero.
Feed(t, s) ==
    FoldLeft(LAMBDA acc, ch :
                LET u == TrackToken(acc.tracker, ch)
                IN  [tracker |-> u,
                     closed |-> acc.closed \/ (u.depth < acc.tracker.depth /\ u.opened /\ u.depth = 0)],
             [tracker |-> t, closed |-> FALSE], s)

\* json.Valid for the texts of a tool call: one object, closed.
IsObject(text) ==
    LET end == Feed(NewTracker, text)
    IN  text # <<>> /\ text[1] = "{" /\ end.closed /\ end.tracker = [NewTracker EXCEPT !.opened = TRUE]

\* DemaskJSONArguments: the plain substitution if the result is valid JSON,
\* else leaf by leaf; ok is FALSE if the masked value must stay.
DemaskJSONArguments(text, fails) ==
    LET naive == Restore(text, FALSE)
    IN  CASE text = <<>> \/ ~IsObject(text) \/ fails -> [ok |-> FALSE, value |-> <<>>]
          [] IsObject(text) /\ ~fails /\ "S" \notin ToSet(naive) -> [ok |-> TRUE, value |-> naive]
          [] OTHER -> [ok |-> TRUE, value |-> Restore(text, TRUE)]

-----------------------------------------------------------------------------
(* MaskedTextRecorder: the texts by key, in the order the keys were seen.   *)

\* A recorder that keeps the last fragment of a key.
RecordLatest(masked, key, text) ==
    Append(SelectSeq(masked, LAMBDA x : x.key # key), [key |-> key, text |-> text])

\* Add.
Record(masked, key, text) ==
    LET at == {i \in DOMAIN masked : masked[i].key = key}
    IN  CASE text = <<>> -> masked
          [] text # <<>> /\ at = {} -> Append(masked, [key |-> key, text |-> text])
          [] OTHER -> [masked EXCEPT ![CHOOSE i \in at : TRUE].text = @ \o text]

-----------------------------------------------------------------------------
(* What every processor does with the demasker of a key.                    *)

Pending(p, key) == IF key \in DOMAIN p.demaskers THEN p.demaskers[key] ELSE <<>>

SetPending(p, key, text) == [p EXCEPT !.demaskers = (key :> text) @@ @]

Tracker(p, key) == IF key \in DOMAIN p.trackers THEN p.trackers[key] ELSE NewTracker

\* writeOutput.
Write(p, frame) == [p EXCEPT !.out = Append(@, frame)]
=============================================================================
