------------------------------ MODULE Masking -------------------------------
(***************************************************************************)
(* Masking a request and restoring its response.  The mask use case        *)
(* (internal/usecases/guardrails/mask) pins a registry snapshot, scans the *)
(* texts concurrently, coalesces overlapping matches                       *)
(* (scanners/sensitive.resolveConflicts) and replaces each by a numbered   *)
(* placeholder; the demasker (internal/guardrails/demask) puts the         *)
(* originals back.  The registry may be swapped at any moment.             *)
(*                                                                         *)
(* A text is a sequence of atoms: a character, an exact placeholder token  *)
(* such as <EMAIL_1>, or a drifted form of one (< email-1 >) that only the *)
(* placeholder regex recognizes.  Which of the spans that a rule's regex   *)
(* accepts it finds is chosen freely; a rule's own matches do not overlap. *)
(* Offsets are 0-based and ends exclusive, as in the code.                 *)
(***************************************************************************)
EXTENDS KeywordPrefilter, FiniteSets

CONSTANTS
    Scenarios,     \* [request, rulebook, prefilter]: the texts; the rules that
                   \* exist, by number (the code orders them as strings): their
                   \* placeholder type ("" for none), regex and keywords; whether
                   \* the pre-filter is on
    MaxMatches,    \* bound: matches in one text
    MaxReloads     \* bound: registry swaps during one request

Exact(type, n) == <<"exact", type, n>>
Drifted(type, n) == <<"drifted", type, n>>

Atoms == {"char", "exact", "drifted"} \X STRING \X Nat
Rule == [type : STRING, regex : Regexes, keywords : SUBSET Seq(Atoms)]

ASSUME MaskingAssumption ==
    /\ \A s \in Scenarios :
          /\ s.request \in Seq(Seq(Atoms)) /\ s.prefilter \in BOOLEAN
          /\ IsFiniteSet(DOMAIN s.rulebook) /\ DOMAIN s.rulebook \subseteq Nat
          /\ \A r \in DOMAIN s.rulebook : s.rulebook[r] \in Rule
    /\ MaxMatches \in Nat /\ MaxReloads \in Nat

VARIABLES
    request,     \* the texts extracted from the body
    rulebook, prefilter,
    registry,    \* the rules of the current registry snapshot
    pinned,      \* the rules the request is scanned with
    phase,       \* where the request is
    scan,        \* scan[i]: outcome of scanning text i
    found,       \* found[i]: the matches of the pinned rules in text i
    reps,        \* the replacements, in the order they were made
    counters,    \* the last index used, per placeholder type
    seen,        \* the rules that triggered
    masked,      \* the texts masked so far
    kept,        \* history: the offsets of each text that were copied
    demaskRules, \* the rules whose placeholder regex the response is scanned with
    reloads

given == <<request, rulebook, prefilter>>
maskerState == <<reps, counters, seen, masked, kept>>
vars == <<given, registry, pinned, phase, scan, found, maskerState, demaskRules, reloads>>

Texts == DOMAIN request
Rules == DOMAIN rulebook
Types == {rulebook[r].type : r \in Rules}

-----------------------------------------------------------------------------
(* Matches.                                                                 *)

Overlap(a, b) == a.start < b.end /\ b.start < a.end
Size(m) == m.end - m.start
Covered(ms) == UNION {m.start .. m.end - 1 : m \in ms}
Slice(text, start, end) == SubSeq(text, start + 1, end)

\* scanRule: the span is a nonempty match of the regex, or a capture group
\* inside one.
Matches(text, rules) ==
    {m \in [start : 0 .. Len(text), end : 0 .. Len(text), rule : rules] :
        /\ m.start < m.end
        /\ \E s \in Accepted(text)[rulebook[m.rule].regex] : s.start <= m.start /\ m.end <= s.end}

\* The sort order of resolveConflicts.
Before(a, b) ==
    \/ a.start < b.start
    \/ a.start = b.start /\ Size(a) > Size(b)
    \/ a.start = b.start /\ Size(a) = Size(b) /\ a.rule < b.rule

\* preferAsPrimary.
Preferred(a, b) ==
    \/ Size(a) > Size(b)
    \/ Size(a) = Size(b) /\ a.start < b.start
    \/ Size(a) = Size(b) /\ a.start = b.start /\ a.rule < b.rule

\* sort.Slice.
Sorted(ms) ==
    [n \in 1 .. Cardinality(ms) |-> CHOOSE m \in ms : Cardinality({o \in ms : Before(o, m)}) = n - 1]

\* coalesce: the run's union, attributed to its preferred member.
Coalesce(run) ==
    [start |-> run.start, end |-> run.end,
     rule |-> (CHOOSE m \in run.members : \A o \in run.members \ {m} : Preferred(m, o)).rule]

\* Mutant: a match that overlaps the one before it is dropped.
DropOverlapping(runs, m) ==
    IF runs # <<>> /\ m.start < runs[Len(runs)].end THEN runs
    ELSE Append(runs, [start |-> m.start, end |-> m.end, members |-> {m}])

\* A match that overlaps the current run grows it, another begins a run.
Sweep(runs, m) ==
    IF runs # <<>> /\ m.start < runs[Len(runs)].end
      THEN [runs EXCEPT ![Len(runs)] = [start |-> @.start, members |-> @.members \cup {m},
                                        end |-> IF m.end > @.end THEN m.end ELSE @.end]]
      ELSE Append(runs, [start |-> m.start, end |-> m.end, members |-> {m}])

\* resolveConflicts: sweep the sorted matches.
Runs(sorted) ==
    LET runs[k \in 0 .. Len(sorted)] == IF k = 0 THEN <<>> ELSE Sweep(runs[k - 1], sorted[k])
    IN  runs[Len(sorted)]

ResolveConflicts(ms) ==
    LET runs == Runs(Sorted(ms)) IN [k \in DOMAIN runs |-> Coalesce(runs[k])]

\* ScanRules, given what the regexes of the rules would find.
ScanRules(text, hits) ==
    ResolveConflicts({m \in hits : prefilter => KeptByKeywords(text, rulebook[m.rule])})

-----------------------------------------------------------------------------
(* The masker.                                                              *)

\* reservedPlaceholders: the exact tokens already in the source texts.
Reserved == {a \in UNION {{request[i][k] : k \in DOMAIN request[i]} : i \in Texts} : a[1] = "exact"}

\* Numbering that takes the next index whatever the client's texts contain.
NextIndexUnreserved(type, used) == used[type] + 1

\* nextPlaceholder: the next index whose token is not reserved.
NextIndex(type, used) ==
    CHOOSE n \in used[type] + 1 .. used[type] + 1 + Cardinality(Reserved) :
        /\ Exact(type, n) \notin Reserved
        /\ \A m \in used[type] + 1 .. n - 1 : Exact(type, m) \in Reserved

\* A masker that forgets what it has replaced before.
NoneKnown(replacements, original) == {}

\* originalToPlaceholder.
Known(replacements, original) ==
    {k \in DOMAIN replacements : replacements[k].original = original}

\* One match: reuse the original's placeholder or mint one.
Replace(acc, text, m) ==
    LET original == Slice(text, m.start, m.end)
        type == rulebook[m.rule].type
        known == Known(acc.reps, original)
        n == NextIndex(type, acc.counters)
        fresh == [rule |-> m.rule, original |-> original, type |-> type, n |-> n]
        rep == IF known = {} THEN fresh ELSE acc.reps[CHOOSE k \in known : TRUE]
    IN  [acc EXCEPT !.reps = IF known = {} THEN Append(@, fresh) ELSE @,
                    !.counters = IF known = {} THEN [@ EXCEPT ![type] = n] ELSE @,
                    !.seen = @ \cup {m.rule},
                    !.out = @ \o Slice(text, acc.pos, m.start) \o <<Exact(rep.type, rep.n)>>,
                    !.kept = @ \cup acc.pos .. m.start - 1,
                    !.pos = m.end]

\* A match that starts before the position, or of a rule without a
\* placeholder type, is skipped.
MaskMatch(acc, text, m) ==
    IF m.start < acc.pos \/ rulebook[m.rule].type = "" THEN acc ELSE Replace(acc, text, m)

\* maskText.
MaskText(text, ms) ==
    LET start == [reps |-> reps, counters |-> counters, seen |-> seen,
                  out |-> <<>>, kept |-> {}, pos |-> 0]
        acc[k \in 0 .. Len(ms)] == IF k = 0 THEN start ELSE MaskMatch(acc[k - 1], text, ms[k])
        last == acc[Len(ms)]
    IN  [last EXCEPT !.out = @ \o Slice(text, last.pos, Len(text)),
                     !.kept = @ \cup last.pos .. Len(text) - 1]

-----------------------------------------------------------------------------
(* The request.                                                             *)

Init ==
    /\ \E s \in Scenarios : request = s.request /\ rulebook = s.rulebook /\ prefilter = s.prefilter
    /\ registry \in SUBSET Rules
    /\ pinned = {} /\ phase = "start"
    /\ scan = [i \in Texts |-> "no"] /\ found = [i \in Texts |-> {}]
    /\ reps = <<>> /\ counters = [t \in Types |-> 0] /\ seen = {}
    /\ masked = <<>> /\ kept = <<>>
    /\ demaskRules = {} /\ reloads = 0

\* ResolveForDataTypes pins one snapshot; without rules nothing is masked.
Pin ==
    /\ phase = "start"
    /\ pinned' = registry
    /\ phase' = IF registry = {} THEN "unchanged" ELSE "scan"
    /\ UNCHANGED <<given, registry, scan, found, maskerState, demaskRules, reloads>>

\* One text is scanned, by the handler or by a worker of its own; a panic or
\* an error of the scanner is the text's outcome.
ScanText(i) ==
    /\ phase = "scan" /\ scan[i] = "no"
    /\ \/ /\ \E ms \in SUBSET Matches(request[i], pinned) :
                /\ Cardinality(ms) <= MaxMatches
                /\ \A a, b \in ms : a # b /\ a.rule = b.rule => ~Overlap(a, b)
                /\ found' = [found EXCEPT ![i] = ms]
          /\ scan' = [scan EXCEPT ![i] = "ok"]
       \/ scan' = [scan EXCEPT ![i] = "failed"] /\ UNCHANGED found
    /\ UNCHANGED <<given, registry, pinned, phase, maskerState, demaskRules, reloads>>

\* All texts are scanned, or a sequential scan stopped at its first failure.
ScanDone ==
    /\ phase = "scan"
    /\ \/ (\A i \in Texts : scan[i] = "ok") /\ phase' = "mask"
       \/ /\ \E i \in Texts : scan[i] = "failed" /\ \A j \in Texts : j < i => scan[j] # "no"
          /\ phase' = "unchanged"
    /\ UNCHANGED <<given, registry, pinned, scan, found, maskerState, demaskRules, reloads>>

\* The texts are masked one after the other through one masker.
MaskNext ==
    /\ phase = "mask" /\ Len(masked) < Len(request)
    /\ LET i == Len(masked) + 1
           m == MaskText(request[i], ScanRules(request[i], found[i]))
       IN  /\ reps' = m.reps /\ counters' = m.counters /\ seen' = m.seen
           /\ masked' = Append(masked, m.out)
           /\ kept' = Append(kept, m.kept)
    /\ UNCHANGED <<given, registry, pinned, phase, scan, found, demaskRules, reloads>>

\* Handle returns; without a replacement the body is forwarded as it came.
MaskDone ==
    /\ phase = "mask" /\ Len(masked) = Len(request)
    /\ phase' = IF reps = <<>> THEN "unchanged" ELSE "masked"
    /\ UNCHANGED <<given, registry, pinned, scan, found, maskerState, demaskRules, reloads>>

\* newDemaskConfig resolves the triggered rules in the registry of that moment.
NewFactory ==
    /\ phase = "masked" /\ phase' = "stream"
    /\ demaskRules' = seen \cap registry
    /\ UNCHANGED <<given, registry, pinned, scan, found, maskerState, reloads>>

\* A Reload of the rules swaps the registry.
Reload ==
    /\ reloads < MaxReloads /\ reloads' = reloads + 1
    /\ registry' \in SUBSET Rules
    /\ UNCHANGED <<given, pinned, phase, scan, found, maskerState, demaskRules>>

\* The response is streamed, or the request was forwarded as it came.
Served == phase \in {"stream", "unchanged"} /\ UNCHANGED vars

Next ==
    \/ Pin \/ ScanDone \/ MaskNext \/ MaskDone \/ NewFactory \/ Reload \/ Served
    \/ \E i \in Texts : ScanText(i)

Spec == Init /\ [][Next]_vars

-----------------------------------------------------------------------------
(* Restoring a response.                                                    *)

Placeholder(rep) == Exact(rep.type, rep.n)

\* applyExact, then applyPlaceholderRegex: an exact token of the request, or a
\* drifted one of a type that some resolved rule recognizes, is restored.
DemaskAtom(a) ==
    LET hit == {k \in DOMAIN reps : reps[k].type = a[2] /\ reps[k].n = a[3]}
        recognized == a[1] = "exact" \/ (a[1] = "drifted" /\ \E r \in demaskRules : rulebook[r].type = a[2])
    IN  IF recognized /\ hit # {} THEN reps[CHOOSE k \in hit : TRUE].original ELSE <<a>>

Demask(text) ==
    LET restored[k \in 0 .. Len(text)] == IF k = 0 THEN <<>> ELSE restored[k - 1] \o DemaskAtom(text[k])
    IN  restored[Len(text)]

-----------------------------------------------------------------------------
(* Properties.                                                              *)

\* No request is half masked: unless every text was scanned none is masked,
\* and of a masked text exactly the characters outside every match are
\* forwarded; overlapping matches are masked as their union, and no match is
\* lost to the pre-filter.
DetectedIsMasked ==
    /\ masked # <<>> => \A i \in Texts : scan[i] = "ok"
    /\ \A i \in DOMAIN masked : kept[i] = (0 .. Len(request[i]) - 1) \ Covered(found[i])

\* One original, one placeholder: within a request no two replacements share
\* an original or a placeholder, across texts and across rules.
OnePlaceholderPerOriginal ==
    \A j, k \in DOMAIN reps : j # k =>
        /\ reps[j].original # reps[k].original
        /\ Placeholder(reps[j]) # Placeholder(reps[k])

\* A response that repeats the masked texts gives the client its own texts
\* back, whatever placeholder-like tokens they contain.
RoundTrip ==
    phase = "stream" => \A i \in Texts : Demask(masked[i]) = request[i]
=============================================================================
