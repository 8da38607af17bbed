------------------------------ MODULE Demasker ------------------------------
(***************************************************************************)
(* The streaming demasker of one response field                            *)
(* (internal/guardrails/demask): the response comes in chunks, each call   *)
(* of DemaskChunk restores the placeholders it can see, and holds back a   *)
(* tail long enough for a placeholder that the next chunk may complete.    *)
(*                                                                         *)
(* A text is a sequence of bytes.  "z1" "z2" are the bytes of a two-byte   *)
(* rune and "k1" "k2" "k3" those of the Kelvin sign, which the             *)
(* case-insensitive placeholder regex accepts for a K; every other byte is *)
(* a rune of its own.  The placeholder type is K, " " is any white space.  *)
(***************************************************************************)
EXTENDS Naturals, SequencesExt

CONSTANTS
    Originals,     \* Originals[n]: the value that <K_n> stands for
    Responses,     \* what the model may answer
    MaxDrift,      \* maxDrift of the placeholder regex
    IndexLen,      \* indexLen, the digits it accepts
    MaxErrors,     \* bound: failing scans
    MaxReloads     \* bound: registry swaps while the factory is built

Digit == <<"1", "2", "3", "4", "5", "6", "7", "8", "9">>
Digits == ToSet(Digit) \cup {"0"}
Value(d) == IF d = "0" THEN 0 ELSE CHOOSE n \in DOMAIN Digit : Digit[n] = d

ASSUME DemaskerAssumption ==
    /\ DOMAIN Originals \subseteq DOMAIN Digit
    /\ {MaxDrift, MaxErrors, MaxReloads} \subseteq Nat /\ IndexLen \in Nat \ {0}

VARIABLES
    response,    \* the field's text, as the upstream sends it
    jsonCtx,     \* a JSONDemasker: originals are restored escaped
    registered,  \* the triggered rule is in the current registry snapshot
    maxPending,  \* the length of the tail held back
    scanned,     \* the rule was resolved: drifted placeholders are recognized
    phase, pos,  \* bytes of the response received so far
    pending, out,
    errors, reloads

config == <<response, jsonCtx, registered, maxPending, scanned, reloads>>
vars == <<config, phase, pos, pending, out, errors>>

-----------------------------------------------------------------------------
(* Bytes and runes.                                                         *)

RuneStart(b) == b \notin {"z2", "k2", "k3"}
RuneLen(b) == CASE b = "z1" -> 2 [] b = "k1" -> 3 [] OTHER -> 1

\* A cut that ignores runes.
CutAnywhere(s, end) == end

\* utf8SafePrefixEnd: back to the start of a rune that "end" would split.
Utf8SafePrefixEnd(s, end) ==
    IF end >= Len(s) THEN Len(s)
    ELSE LET starts == {i \in 1 .. end : RuneStart(s[i])}
             i == CHOOSE i \in starts : \A j \in starts : j <= i
         IN  IF starts = {} THEN 0
             ELSE IF i - 1 + RuneLen(s[i]) <= end THEN end ELSE i - 1

RuneBoundary(s, end) == \A j \in DOMAIN s : j = end + 1 => RuneStart(s[j])

\* A sequence of whole runes: none lacks a byte, and no byte is astray.
WholeRunes(s) ==
    \A i \in DOMAIN s :
        IF RuneStart(s[i])
          THEN /\ i - 1 + RuneLen(s[i]) <= Len(s)
               /\ \A j \in i + 1 .. i - 1 + RuneLen(s[i]) : ~RuneStart(s[j])
          ELSE \E j \in 1 .. i - 1 : RuneStart(s[j]) /\ i <= j - 1 + RuneLen(s[j])

\* Originals and decoded JSON strings are valid UTF-8.
ASSUME TextsAssumption ==
    \A s \in Responses \cup {Originals[n] : n \in DOMAIN Originals} :
        s \in Seq(STRING) /\ WholeRunes(s)

\* jsonEscapeString.
JsonEscape(s) ==
    FlattenSeq([i \in DOMAIN s |-> IF s[i] \in {"\"", "\\"} THEN <<"\\", s[i]>> ELSE <<s[i]>>])

-----------------------------------------------------------------------------
(* Finding and replacing placeholders; a hit is the first and the last of   *)
(* its bytes and the index of the placeholder.                              *)

\* placeholderfmt.Format.
Format(n) == <<"<", "K", "_", Digit[n], ">">>

ExactHits(text) ==
    {[start |-> h[1], end |-> h[1] + 4, index |-> h[2]] : h \in
        {x \in (1 .. Len(text)) \X DOMAIN Originals :
            x[1] + 4 <= Len(text) /\ SubSeq(text, x[1], x[1] + 4) = Format(x[2])}}

\* What (?i) lets stand for the type's name.
Names == {<<"K">>, <<"k">>, <<"k1", "k2", "k3">>}

\* buildDefaultPlaceholderRegexp: < space* name separator* digits space* >.
Shapes(text) ==
    [start : {i \in DOMAIN text : text[i] = "<"}, before : 0 .. MaxDrift, name : Names,
     sep : 0 .. MaxDrift, digits : 1 .. IndexLen, after : 0 .. MaxDrift]

NameAt(s) == s.start + 1 + s.before
DigitsAt(s) == NameAt(s) + Len(s.name) + s.sep
ClosesAt(s) == DigitsAt(s) + s.digits + s.after

Occurs(text, s) ==
    LET all(first, last, class) == \A j \in first .. last : text[j] \in class
    IN  /\ ClosesAt(s) <= Len(text) /\ text[ClosesAt(s)] = ">"
        /\ all(s.start + 1, NameAt(s) - 1, {" "})
        /\ SubSeq(text, NameAt(s), NameAt(s) + Len(s.name) - 1) = s.name
        /\ all(NameAt(s) + Len(s.name), DigitsAt(s) - 1, {" ", "_"})
        /\ all(DigitsAt(s), DigitsAt(s) + s.digits - 1, Digits)
        /\ all(DigitsAt(s) + s.digits, ClosesAt(s) - 1, {" "})

\* Of a sequence of digits.
Atoi(digits) == FoldLeft(LAMBDA n, d : 10 * n + Value(d), 0, digits)

Index(text, s) == Atoi(SubSeq(text, DigitsAt(s), DigitsAt(s) + s.digits - 1))

\* The hits of the placeholder scanner that stand for an original.
RegexHits(text) ==
    {[start |-> s.start, end |-> ClosesAt(s), index |-> Index(text, s)] : s \in
        {x \in Shapes(text) : Occurs(text, x) /\ Index(text, x) \in DOMAIN Originals}}

\* A bound on the length of what the regex matches that forgets the drift.
PlaceholderLenExact == 4 + IndexLen

\* regexpMaxLen: a literal counts with its own length in bytes.
PlaceholderLen == 3 + 3 * MaxDrift + IndexLen

\* A demasker that inserts originals into JSON as they are.
RestoredVerbatim(n, escaped) == Originals[n]

\* buildLookupIndex: an original, verbatim or escaped.
Restored(n, escaped) == IF escaped THEN JsonEscape(Originals[n]) ELSE Originals[n]

\* strings.Replacer and applyTextReplacements; no two hits overlap.
Splice(text, hits, escaped) ==
    LET at(j) == {h \in hits : h.start <= j /\ j <= h.end}
        piece(j) == IF at(j) = {} THEN <<text[j]>>
                    ELSE LET h == CHOOSE h \in at(j) : TRUE
                         IN  IF h.start = j THEN Restored(h.index, escaped) ELSE <<>>
    IN  FlattenSeq([j \in DOMAIN text |-> piece(j)])

ApplyExact(text) == Splice(text, ExactHits(text), jsonCtx)

\* applyPlaceholderRegex, when the scan succeeds.
ApplyPlaceholderRegex(text) ==
    IF scanned THEN Splice(text, RegexHits(text), jsonCtx) ELSE text

-----------------------------------------------------------------------------
(* The factory: two reads of the registry.                                  *)

stream == <<pos, pending, out, errors>>

Init ==
    /\ response \in Responses /\ jsonCtx \in BOOLEAN /\ registered \in BOOLEAN
    /\ maxPending = 0 /\ scanned = FALSE
    /\ phase = "length" /\ pos = 0 /\ pending = <<>> /\ out = <<>>
    /\ errors = 0 /\ reloads = 0

\* GetMaxPlaceholderLenByRuleIDs; never less than the request's placeholders.
ReadMaxPlaceholderLen ==
    /\ phase = "length" /\ phase' = "rules"
    /\ maxPending' = IF registered /\ PlaceholderLen > 5 THEN PlaceholderLen ELSE 5
    /\ UNCHANGED <<response, jsonCtx, registered, scanned, reloads, stream>>

\* ResolveRules.
ResolveRules ==
    /\ phase = "rules" /\ phase' = "stream"
    /\ scanned' = registered
    /\ UNCHANGED <<response, jsonCtx, registered, maxPending, reloads, stream>>

\* A Reload adds or removes the rule.  After the factory is built it is of no
\* concern any more.
Reload ==
    /\ phase \in {"length", "rules"} /\ reloads < MaxReloads
    /\ registered' = ~registered /\ reloads' = reloads + 1
    /\ UNCHANGED <<response, jsonCtx, maxPending, scanned, phase, stream>>

-----------------------------------------------------------------------------
(* DemaskChunk.                                                             *)

Received(q) == pending \o SubSeq(response, pos + 1, q)

\* The chunk up to byte q arrives; chunks are decoded strings, so they do not
\* split runes.
Arrives(q) ==
    /\ phase = "stream" /\ q > pos /\ RuneBoundary(response, q)
    /\ pos' = q

\* A demasker that holds everything back until the end.
ChunkHeldBack(q) ==
    /\ Arrives(q)
    /\ pending' = ApplyPlaceholderRegex(ApplyExact(Received(q))) /\ out' = out
    /\ UNCHANGED <<config, phase, errors>>

\* DemaskChunk(chunk, false): emit what is safe, hold the tail back.
Chunk(q) ==
    /\ Arrives(q)
    /\ LET text == ApplyPlaceholderRegex(ApplyExact(Received(q)))
           end == IF Len(text) <= maxPending THEN 0
                  ELSE Utf8SafePrefixEnd(text, Len(text) - maxPending)
       IN  /\ out' = out \o SubSeq(text, 1, end)
           /\ pending' = SubSeq(text, end + 1, Len(text))
    /\ UNCHANGED <<config, phase, errors>>

\* A failing scan whose text is dropped.
ChunkDropped(q) ==
    /\ Arrives(q)
    /\ scanned /\ errors < MaxErrors /\ errors' = errors + 1
    /\ pending' = <<>> /\ UNCHANGED <<config, phase, out>>

\* The scan fails: all that was not yet emitted is handed back, and the caller
\* emits it.  The demasker is used again for the next chunk.
ChunkFails(q) ==
    /\ Arrives(q)
    /\ scanned /\ errors < MaxErrors /\ errors' = errors + 1
    /\ out' = out \o ApplyExact(Received(q)) /\ pending' = <<>>
    /\ UNCHANGED <<config, phase>>

\* DemaskChunk("", true) at the end of the field.
Flush ==
    /\ phase = "stream" /\ pos = Len(response) /\ phase' = "done"
    /\ \/ out' = out \o ApplyPlaceholderRegex(ApplyExact(pending)) /\ UNCHANGED errors
       \/ /\ scanned /\ errors < MaxErrors /\ errors' = errors + 1
          /\ out' = out \o ApplyExact(pending)
    /\ pending' = <<>>
    /\ UNCHANGED <<config, pos>>

Done == phase = "done" /\ UNCHANGED vars

Next ==
    \/ ReadMaxPlaceholderLen \/ ResolveRules \/ Reload
    \/ \E q \in DOMAIN response : Chunk(q) \/ ChunkFails(q)
    \/ Flush \/ Done

Spec == Init /\ [][Next]_vars

-----------------------------------------------------------------------------
(* Properties.                                                              *)

\* The response with all its placeholders, or only the exact ones, restored at
\* once.
Whole(text, drifted) ==
    Splice(text, ExactHits(text) \cup (IF drifted THEN RegexHits(text) ELSE {}), jsonCtx)

\* The length and the rules were read from the same registry contents.
SameSnapshot == scanned => maxPending >= PlaceholderLen

\* Chunk boundaries do not matter: what is sent is final at every moment, and
\* at the end it is what demasking the whole response at once gives.
StreamMatchesWhole ==
    (phase \in {"stream", "done"} /\ errors = 0 /\ SameSnapshot) =>
        /\ IsPrefix(out, Whole(response, scanned))
        /\ phase = "done" => out = Whole(response, scanned)

\* Nothing is lost, repeated or reordered, also when scans fail or a reload
\* came between the factory's two reads: what was sent, what is held back and
\* what is still to come are the response, but for placeholders that are
\* restored or not.
Lossless ==
    LET rest == SubSeq(response, pos + 1, Len(response))
    IN  Whole(out \o pending \o rest, TRUE) = Whole(response, TRUE)

\* What may stand inside a placeholder.
Inner == {" ", "_", "K", "k", "k1", "k2", "k3"} \cup Digits

\* A text that is no part of a placeholder, whatever stands around it: it is
\* not inside of one, does not end one, begin one or hold one.
Inert(s) ==
    /\ \/ \E i \in DOMAIN s : s[i] \notin Inner
       \/ Len(s) > IndexLen /\ \A i \in DOMAIN s : s[i] \in Digits
    /\ \A j \in DOMAIN s : s[j] = ">" => \E i \in 1 .. j - 1 : s[i] \notin Inner
    /\ \A j \in DOMAIN s : s[j] = "<" => \E i \in j + 1 .. Len(s) : s[i] \notin Inner
    /\ ExactHits(s) = {} /\ RegexHits(s) = {}

\* The originals are such texts.
InertOriginals == \A n \in DOMAIN Originals, escaped \in BOOLEAN : Inert(Restored(n, escaped))

\* The model's answers have no Kelvin sign, which the tail is too short for.
NoKelvinSign == \A s \in Responses : \A i \in DOMAIN s : s[i] # "k1"

\* No rune is torn: what has been sent is whole runes, and so is what is held
\* back, which the end of the field or a failing scan sends as it is.
RunesWhole == WholeRunes(out) /\ WholeRunes(pending)

\* The tail held back is bounded, whatever the originals restored into it: a
\* client waits for no more than a placeholder and a rune.
PendingBounded == phase = "stream" => Len(pending) < maxPending + 4

\* What a JSON reader makes of the content of a string literal.
JsonValue(s) ==
    FoldLeft(LAMBDA acc, b :
                IF acc.escaped THEN [escaped |-> FALSE, value |-> Append(acc.value, b)]
                ELSE CASE b = "\\" -> [acc EXCEPT !.escaped = TRUE]
                       [] b = "\"" -> [acc EXCEPT !.value = Append(@, "end of string")]
                       [] OTHER -> [acc EXCEPT !.value = Append(@, b)],
             [escaped |-> FALSE, value |-> <<>>], s).value

\* A client that puts the fragments of a JSON string together and parses it
\* gets the originals, quotes and backslashes included.
JsonStaysValid ==
    (phase = "done" /\ jsonCtx /\ errors = 0 /\ SameSnapshot) =>
        LET value == JsonValue(response)
            hits == ExactHits(value) \cup (IF scanned THEN RegexHits(value) ELSE {})
        IN  JsonValue(out) = Splice(value, hits, FALSE)
=============================================================================
