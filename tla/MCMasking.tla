----------------------------- MODULE MCMasking ------------------------------
(* Three rules that match anything, two of which share a placeholder type,  *)
(* with requests of two texts that repeat a value and contain tokens of     *)
(* their own; and one rule with keywords, with the texts that it matches.   *)
EXTENDS Masking, TLC

RECURSIVE TreeHeight(_)
TreeHeight(re) == CHOOSE n \in 1 .. 9 :
    /\ \A k \in DOMAIN re.sub : TreeHeight(re.sub[k]) < n
    /\ n = 1 \/ \E k \in DOMAIN re.sub : TreeHeight(re.sub[k]) = n - 1

Char(c) == <<"char", c, 0>>
x == Char("x")
y == Char("y")

Anything == Regexp("plus", <<AnyChar>>)
TwoTypes == [r \in 1 .. 3 |-> [type |-> IF r = 3 THEN "KEY" ELSE "EMAIL", regex |-> Anything, keywords |-> {}]]

Plain == {<<<<x, y, x>>, <<x, Exact("EMAIL", 1)>>>>,
          <<<<Exact("KEY", 2), x, y>>, <<y>>>>,
          <<<<x, Exact("KEY", 1)>>, <<x, x>>>>}

-----------------------------------------------------------------------------
\* The orbit of k has a third rune that lowers to k, the orbit of s one that
\* does not lower to s.
k == Char("k")
s == Char("s")
LongS == Char("long s")
Kelvin == Char("Kelvin sign")

MCLowered == Char("K") :> k @@ Kelvin :> k @@ Char("S") :> s
MCFoldOrbits == {{k, Char("K"), Kelvin}, {s, Char("S"), LongS}}

Letters == {k, Kelvin, s, Char("S"), LongS}
Strings == {<<a>> : a \in Letters} \cup {<<a, b>> : a, b \in Letters}

Literals == {Literal(runes, fold) : runes \in {<<k>>, <<s>>, <<Char("S"), k>>}, fold \in BOOLEAN}

Regexps ==
    Literals \cup {Regexp(op, <<a>>) : a \in Literals, op \in {"plus", "star", "quest", "capture"}}
    \cup {Repeat(a, n) : a \in Literals, n \in 0 .. 1}
    \cup {Regexp(op, <<a, b>>) : a, b \in Literals \cup {AnyChar}, op \in {"concat", "alternate"}}
    \cup {Regexp("concat", <<Regexp("quest", <<a>>), AnyChar>>) : a \in Literals}

Subtrees == {AnyChar} \cup {Regexp("quest", <<a>>) : a \in Literals}

MCRegexes == {Anything} \cup Subtrees \cup Regexps
MCHeight == [re \in MCRegexes |-> TreeHeight(re)]

Keywords == {{<<k>>}, {<<Char("S")>>}, {<<s, k>>}, {<<k>>, <<s>>}, {<<>>}}

Filtered ==
    {[request |-> <<text>>, rulebook |-> <<[type |-> "KEY", regex |-> re, keywords |-> kws]>>, prefilter |-> TRUE]
        : text \in Strings, re \in Regexps, kws \in Keywords}

MCScenarios ==
    {[request |-> r, rulebook |-> TwoTypes, prefilter |-> FALSE] : r \in Plain}
    \cup {f \in Filtered : Span(0, Len(f.request[1])) \in Accepted(f.request[1])[f.rulebook[1].regex]}
=============================================================================
