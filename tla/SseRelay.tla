------------------------------ MODULE SseRelay ------------------------------
(***************************************************************************)
(* A streamed response on its way to the client: the loop of demaskSSE     *)
(* (internal/controller/gateway/response.go) around the processor of the   *)
(* request's API format (internal/sseproc).  The upstream sends frames;    *)
(* reads cut them anywhere, return several at once, and may fail; the      *)
(* client may go away.                                                     *)
(***************************************************************************)
EXTENDS SseCommon

CONSTANTS
    Scripts,       \* Scripts[f]: sets of frames an upstream of format f draws from
    KeyOrders,     \* KeyOrders[f]: orders of the keys of f's demaskers
    MaxFrames,     \* bound: frames of a stream
    MaxFails       \* bound: reads in which the scan of a field fails

Chat == INSTANCE SseChat
Messages == INSTANCE SseMessages
Responses == INSTANCE SseResponses

Formats == DOMAIN Scripts

\* The events of a Responses stream have a number, or -1 for none.
ASSUME RelayAssumption ==
    /\ Formats \subseteq {"chat", "messages", "responses", "unknown"}
    /\ \A f \in Formats : \A s \in Scripts[f] : \A x \in s :
          /\ DOMAIN x = {"lines", "valid", "payload"}
          /\ (f = "responses" /\ ClassifyFrame(x) = "event") =>
                "seq" \in DOMAIN x.payload /\ x.payload.seq \in Int
    /\ DOMAIN KeyOrders = Formats
    /\ \A f \in Formats : \A o \in KeyOrders[f] : o \in Seq(ToSet(o))
    /\ {MaxFrames, MaxFails} \subseteq Nat

VARIABLES
    format, script,
    received,    \* the frames read so far; the last one may be incomplete
    proc,        \* the processor; proc.tail is the incomplete frame
    out,         \* the frames the client can read
    state,       \* "relaying", or how the loop ended
    audited,     \* the texts handed to the audit trail
    failed       \* the keys whose scan failed, one for each failure

vars == <<format, script, received, proc, out, state, audited, failed>>

Keys == ToSet(CHOOSE o \in KeyOrders[format] : TRUE)

-----------------------------------------------------------------------------
(* NewForFormat.                                                            *)

\* passthroughProcessor; frames are what the client makes of the bytes.
Passthrough(p, body, eos, env) ==
    LET in == PrepareFrames(p.tail, body, eos, env.whole)
    IN  [p EXCEPT !.tail = in.tail, !.out = in.frames]

NewForFormat(f) ==
    CASE f = "messages" -> Messages!New
      [] f = "responses" -> Responses!New
      [] f \in {"chat", "unknown"} -> Chat!New

ProcessChunk(p, body, eos, env) ==
    CASE format = "messages" -> Messages!ProcessChunk(p, body, eos, env)
      [] format = "responses" -> Responses!ProcessChunk(p, body, eos, env)
      [] format = "chat" -> Chat!ProcessChunk(p, body, eos, env)
      [] format = "unknown" -> Passthrough(p, body, eos, env)

-----------------------------------------------------------------------------
(* The upstream and the reads.                                              *)

Init ==
    /\ format \in Formats /\ script \in Scripts[format]
    /\ received = <<>> /\ proc = NewForFormat(format) /\ out = <<>>
    /\ state = "relaying" /\ audited = <<>> /\ failed = <<>>

\* Events of a Responses stream are numbered by the upstream.
Numbered(f, n) ==
    IF format = "responses" /\ ClassifyFrame(f) = "event" /\ f.payload.seq # -1
    THEN [f EXCEPT !.payload.seq = n] ELSE f

\* The upstream sends nothing after [DONE].
NextFrames ==
    IF Len(received) < MaxFrames /\ \A i \in DOMAIN received : ClassifyFrame(received[i]) # "done"
    THEN {Numbered(f, Len(received)) : f \in script} ELSE {}

\* What a read returns and the frames that are then received: the rest of the
\* incomplete frame, the next frame, the next frame but for its end, or some
\* of these together.
Reads ==
    LET rest == IF proc.tail = <<>> THEN <<>> ELSE <<[proc.tail[1] EXCEPT !.last = TRUE]>>
        more(f, n) == [body |-> rest \o SubSeq(Pieces(<<f>>), 1, n), frames |-> <<f>>]
    IN  {more(x[1], x[2]) : x \in NextFrames \X {1, 2}}
        \cup (IF rest = <<>> THEN {} ELSE {[body |-> rest, frames |-> <<>>]})

\* An end of the stream, with or without the blank line of its last frame.
AtEnd(whole) ==
    IF proc.tail = <<>> \/ whole THEN received
    ELSE [received EXCEPT ![Len(received)] = Cut(@)]

\* The maps are walked in some order, and the scan of one field may fail.
Env(fails, order, whole) == [fails |-> fails, order |-> order, whole |-> whole]

\* The processors, and the failed scans, that one call may leave behind.
Outcomes(good, bad) ==
    {[p |-> good, failed |-> failed]}
    \cup {c \in {[p |-> bad[k], failed |-> Append(failed, k)] : k \in DOMAIN bad} : c.p # good}

Call(body, eos, whole) ==
    LET after(fails, order) == ProcessChunk(proc, body, eos, Env(fails, order, whole))
        failing == IF Len(failed) < MaxFails THEN Keys ELSE {}
    IN  UNION {Outcomes(after({}, order), [k \in failing |-> after({k}, order)])
                 : order \in KeyOrders[format]}

\* takeOutput and the write.
Forward(c) == proc' = [c.p EXCEPT !.out = <<>>] /\ out' = out \o c.p.out /\ failed' = c.failed

\* A read returns n > 0 bytes and no error.
Read ==
    /\ state = "relaying"
    /\ \E r \in Reads :
          /\ received' = received \o r.frames
          /\ \E c \in Call(r.body, FALSE, FALSE) : Forward(c)
    /\ UNCHANGED <<format, script, state, audited>>

\* The read returns io.EOF: the processor flushes, the masked texts are
\* handed to the audit trail.
ReadEOF ==
    /\ state = "relaying" /\ state' = "eof"
    /\ \E whole \in BOOLEAN :
          /\ received' = AtEnd(whole)
          /\ \E c \in Call(<<>>, TRUE, whole) : Forward(c) /\ audited' = c.p.masked
    /\ UNCHANGED <<format, script>>

\* The upstream breaks off: the loop returns at once.
ReadError ==
    /\ state = "relaying" /\ state' = "broken"
    /\ UNCHANGED <<format, script, received, proc, out, audited, failed>>

\* The client's context is cancelled: the texts so far are recorded.
ClientGone ==
    /\ state = "relaying" /\ state' = "gone" /\ audited' = proc.masked
    /\ UNCHANGED <<format, script, received, proc, out, failed>>

\* A write to the client fails: the loop returns, nothing is recorded.
WriteFails ==
    /\ state = "relaying" /\ state' = "write failed"
    /\ \E r \in Reads, order \in KeyOrders[format] :
          ProcessChunk(proc, r.body, FALSE, Env({}, order, FALSE)).out # <<>>
    /\ UNCHANGED <<format, script, received, proc, out, audited, failed>>

Ended == state # "relaying" /\ UNCHANGED vars

Next == Read \/ ReadEOF \/ ReadError \/ ClientGone \/ WriteFails \/ Ended

Spec == Init /\ [][Next]_vars

-----------------------------------------------------------------------------
(* What a client, and what the processor, make of a sequence of frames.     *)

Fragment(f, key) ==
    CASE format = "chat" -> Chat!Fragment(f, key)
      [] format = "messages" -> Messages!Fragment(f, key)
      [] format = "responses" -> Responses!Fragment(f, key)

Ends(f, key) ==
    CASE format = "chat" -> Chat!Ends(f, key)
      [] format = "messages" -> Messages!Ends(f, key)
      [] format = "responses" -> Responses!Ends(f, key)

IsText(key) ==
    CASE format = "chat" -> Chat!IsText(key)
      [] format = "messages" -> Messages!IsText(key)
      [] format = "responses" -> Responses!IsText(key)

Text(frames, key) == FlattenSeq([i \in DOMAIN frames |-> Fragment(frames[i], key)])

\* The complete frames that were received.
Complete ==
    IF proc.tail = <<>> THEN received ELSE SubSeq(received, 1, Len(received) - 1)

\* Nothing of a field comes after the frame that ends it.
Orderly(frames, key) ==
    \A i \in DOMAIN frames : Ends(frames[i], key) =>
        \A j \in i + 1 .. Len(frames) : Fragment(frames[j], key) = <<>>

\* No block is started after its first delta.
StartsFirst(frames, key) ==
    format = "messages" => \A j \in DOMAIN frames : Messages!Begins(frames[j], key) =>
        \A i \in 1 .. j - 1 : Fragment(frames[i], key) = <<>>

\* Blocks that are not demasked.
Demasked(key) ==
    format # "messages" \/ \A i \in DOMAIN received : ~Messages!Redacts(received[i], key)

\* Arguments are one JSON object, or the beginning of one.
IsArguments(text) ==
    \A n \in 1 .. Len(text) - 1 : ~Feed(NewTracker, SubSeq(text, 1, n)).closed

Unmask(text) ==
    FlattenSeq([i \in DOMAIN text |-> IF text[i] \in {"S", "E"} THEN <<"<", ">">> ELSE <<text[i]>>])

-----------------------------------------------------------------------------
(* Properties.                                                              *)

\* No text is lost, repeated or moved to another field, whatever scans fail:
\* what the client has of a field, followed by what the demasker holds, is
\* what the upstream sent.  When the stream has ended nothing is held.
NothingIsLost ==
    state \in {"relaying", "eof"} =>
        IF format = "unknown" THEN out = Complete
        ELSE \A key \in Keys : Demasked(key) /\ Orderly(received, key) =>
                /\ Unmask(Text(out, key) \o Pending(proc, key)) = Text(Complete, key)
                /\ state = "eof" => Unmask(Text(out, key)) = Text(received, key)

\* The same when the upstream breaks off: "flush any demaskers still buffering
\* when the stream ends without a [DONE] sentinel (upstream died ...)".
FlushedWhenUpstreamDies ==
    (state = "broken" /\ format # "unknown") =>
        \A key \in Keys : Unmask(Text(out, key)) = Text(Complete, key)

\* A placeholder is restored however the stream was cut, split over frames or
\* interleaved with other fields, and escaped where a client parses JSON: a
\* client of an orderly stream reads what demasking the whole field gives.
FieldsMatchWhole ==
    (format # "unknown" /\ failed = <<>>) =>
        \A key \in Keys :
            (Demasked(key) /\ Orderly(received, key) /\ (IsText(key) \/ IsArguments(Text(received, key)))) =>
                IsPrefix(Text(out, key), Restore(Text(received, key), ~IsText(key)))

\* No text of a field reaches the client after the event that ends the field:
\* a finish reason, the start of the content after the reasoning, the end of a
\* block or an item, [DONE].
NoTextAfterEnd ==
    format # "unknown" => \A key \in Keys : Orderly(received, key) => Orderly(out, key)

\* A closed JSON object is delivered at once: a client that acts on complete
\* arguments does not wait for the next frame.
ClosedArgumentsDelivered ==
    (format # "unknown" /\ state = "relaying") =>
        \A key \in Keys :
            (/\ ~IsText(key) /\ StartsFirst(received, key)
             /\ IsObject(Text(Complete, key)) /\ IsArguments(Text(Complete, key))) =>
                Pending(proc, key) = <<>>

\* The sequence numbers of a Responses stream increase strictly, also around
\* the events that flushes add.
SequenceNumbersIncrease ==
    format = "responses" =>
        \A i, j \in DOMAIN out :
            (i < j /\ Responses!IsEvent(out[i]) /\ Responses!IsEvent(out[j])
                   /\ out[i].payload.seq # -1 /\ out[j].payload.seq # -1) =>
                out[i].payload.seq < out[j].payload.seq

\* A client that assembles the deltas and one that waits for the event that
\* repeats the whole text read the same.
RepeatsAgreeWithDeltas ==
    (format = "responses" /\ failed = <<>>) =>
        LET agree(frames) == \A key \in Keys, i \in DOMAIN frames :
                \A t \in Responses!Repeats(frames[i], key) :
                    t = Text(SubSeq(frames, 1, i), key)
            parses == \A key \in Keys : IsText(key) \/ IsArguments(Text(received, key))
            whole == \A key \in Keys, i \in DOMAIN received :
                \A t \in Responses!Repeats(received[i], key) : IsText(key) \/ IsObject(t)
            orderly == \A key \in Keys : Orderly(received, key)
            ended == \A key \in Keys, i \in DOMAIN received :
                Responses!Repeats(received[i], key) # {} =>
                    \E j \in 1 .. i : Responses!Ends(received[j], key)
        IN  (agree(Complete) /\ parses /\ whole /\ orderly /\ ended) => agree(out)

\* The audit trail gets the texts of the stream with their placeholders, never
\* an original, and only of a stream that ended or whose client left.
AuditedAsReceived ==
    format # "unknown" =>
        /\ \A i \in DOMAIN audited : Demasked(audited[i].key) =>
              audited[i].text = Text(Complete, audited[i].key) /\ IsText(audited[i].key)
        /\ state \in {"eof", "gone"} =>
              \A key \in Keys : (IsText(key) /\ Text(Complete, key) # <<>> /\ Demasked(key)) =>
                  \E i \in DOMAIN audited : audited[i].key = key
=============================================================================
