-------------------------- MODULE KeywordPrefilter --------------------------
(***************************************************************************)
(* The keyword pre-filter of the sensitive scanner: a rule whose regex is  *)
(* sure to match one of its keywords is skipped for a text without any     *)
(* (pkg/guardrails/regex/registry and scanners/sensitive).                 *)
(*                                                                         *)
(* A regex is the tree of regexp/syntax; runes are opaque.  Lowering maps  *)
(* a rune to a rune, and under (?i) a rune matches its whole fold orbit,   *)
(* which may be larger than its two cases.                                 *)
(***************************************************************************)
EXTENDS Integers, Sequences

CONSTANTS
    Lowered,       \* unicode.ToLower of the runes that it changes
    FoldOrbits,    \* the orbits of unicode.SimpleFold
    Regexes,       \* the syntax trees of the rules, with their subtrees
    Height         \* of each of them

ToLower(r) == IF r \in DOMAIN Lowered THEN Lowered[r] ELSE r
SimpleFolds(r) == {r} \cup UNION {o \in FoldOrbits : r \in o}

LowerText(s) == [i \in DOMAIN s |-> ToLower(s[i])]
HasSubstring(s, t) == \E n \in 0 .. Len(s) - Len(t) : \A k \in 1 .. Len(t) : s[n + k] = t[k]

-----------------------------------------------------------------------------
(* Regexes, and what they match in a text.                                  *)

Regexp(op, sub) == [op |-> op, sub |-> sub, runes |-> <<>>, fold |-> FALSE, min |-> 0]
Literal(runes, fold) == [Regexp("literal", <<>>) EXCEPT !.runes = runes, !.fold = fold]
Repeat(re, min) == [Regexp("repeat", <<re>>) EXCEPT !.min = min]
AnyChar == Regexp("any", <<>>)

ASSUME RegexAssumption ==
    \A re \in Regexes :
        /\ Height[re] \in Nat /\ re.min \in Nat /\ re.fold \in BOOLEAN
        /\ Len(re.sub) \in Nat /\ DOMAIN re.sub = 1 .. Len(re.sub)
        /\ Len(re.runes) \in Nat /\ DOMAIN re.runes = 1 .. Len(re.runes)
        /\ re.op \in {"capture", "quest", "star", "plus", "repeat"} => Len(re.sub) = 1
        /\ \A k \in DOMAIN re.sub : re.sub[k] \in Regexes /\ Height[re.sub[k]] < Height[re]

Span(i, j) == [start |-> i, end |-> j]
Spans(text) == {s \in [start : 0 .. Len(text), end : 0 .. Len(text)] : s.start <= s.end}

\* A literal at offset i of the text.
LiteralAt(text, i, re) ==
    \A k \in DOMAIN re.runes :
        text[i + k] = re.runes[k] \/ (re.fold /\ text[i + k] \in SimpleFolds(re.runes[k]))

\* From i to j in steps, each of which is a span of the corresponding set.
Chain(spans, i, j) ==
    \E at \in [0 .. Len(spans) -> i .. j] :
        at[0] = i /\ at[Len(spans)] = j /\ \A k \in 1 .. Len(spans) : Span(at[k - 1], at[k]) \in spans[k]

\* From i to j in any number of steps that are spans of one set.
Iterated(spans, i, j) ==
    \E cuts \in SUBSET (i .. j) :
        /\ i \in cuts /\ j \in cuts
        /\ \A a, b \in cuts : a < b /\ (\A c \in cuts : c <= a \/ b <= c) => Span(a, b) \in spans

\* The spans of a text that a regex matches, from those of its parts.
Matched(text, re, parts) ==
    {s \in Spans(text) :
        \/ re.op = "literal" /\ s.end = s.start + Len(re.runes) /\ LiteralAt(text, s.start, re)
        \/ re.op = "any" /\ s.end = s.start + 1
        \/ re.op = "concat" /\ Chain(parts, s.start, s.end)
        \/ re.op = "alternate" /\ \E k \in DOMAIN parts : s \in parts[k]
        \/ re.op = "capture" /\ s \in parts[1]
        \/ re.op = "quest" /\ (s.start = s.end \/ s \in parts[1])
        \/ re.op = "star" /\ Iterated(parts[1], s.start, s.end)
        \/ re.op = "plus" /\ \E i \in s.start .. s.end : Span(s.start, i) \in parts[1] /\ Iterated(parts[1], i, s.end)
        \/ re.op = "repeat" /\ \E i \in s.start .. s.end :
              Chain([k \in 1 .. re.min |-> parts[1]], s.start, i) /\ Iterated(parts[1], i, s.end)}

Accepted(text) ==
    LET spans[re \in Regexes] == Matched(text, re, [k \in DOMAIN re.sub |-> spans[re.sub[k]]])
    IN  spans

-----------------------------------------------------------------------------
(* Which rules may be skipped.                                              *)

\* Mutant: two cases, no larger orbits.
FoldAssumedSafe(runes, foldCase) == TRUE

\* foldSafeForToLower: whatever (?i) matches lowers to the same rune.
FoldSafeForToLower(runes, foldCase) ==
    foldCase => \A i \in DOMAIN runes : \A f \in SimpleFolds(runes[i]) : ToLower(f) = ToLower(runes[i])

\* Mutant: one branch of an alternative is enough.
SomeBranchGuarantees(regex, keywords) ==
    LET sure[re \in Regexes] ==
          \/ /\ re.op = "literal" /\ FoldSafeForToLower(re.runes, re.fold)
             /\ \E kw \in keywords : HasSubstring(LowerText(re.runes), kw)
          \/ re.op \in {"concat", "alternate", "plus", "capture"} /\ \E k \in DOMAIN re.sub : sure[re.sub[k]]
          \/ re.op = "repeat" /\ re.min # 0 /\ sure[re.sub[1]]
    IN  sure[regex]

\* regexGuaranteesKeyword: a part that every match has contains a keyword, in
\* each branch of an alternative.  FALSE if that cannot be shown.
RegexGuaranteesKeyword(regex, keywords) ==
    LET sure[re \in Regexes] ==
          \/ /\ re.op = "literal" /\ FoldSafeForToLower(re.runes, re.fold)
             /\ \E kw \in keywords : HasSubstring(LowerText(re.runes), kw)
          \/ re.op \in {"concat", "plus", "capture"} /\ \E k \in DOMAIN re.sub : sure[re.sub[k]]
          \/ re.op = "alternate" /\ re.sub # <<>> /\ \A k \in DOMAIN re.sub : sure[re.sub[k]]
          \/ re.op = "repeat" /\ re.min # 0 /\ sure[re.sub[1]]
    IN  sure[regex]

\* prefilterKeywords: the keywords, lowered, if they may be used.
PrefilterKeywords(regex, keywords) ==
    LET lowered == {LowerText(kw) : kw \in keywords}
    IN  IF RegexGuaranteesKeyword(regex, lowered) THEN lowered ELSE {}

ContainsAnyKeyword(lowerText, keywords) == \E kw \in keywords : HasSubstring(lowerText, kw)

\* filterByKeywords, for one rule: is its regex run on the text?
KeptByKeywords(text, rule) ==
    LET keywords == PrefilterKeywords(rule.regex, rule.keywords)
    IN  keywords = {} \/ ContainsAnyKeyword(LowerText(text), keywords)
=============================================================================
