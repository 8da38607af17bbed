--------------------------- MODULE MaskingProofs ----------------------------
(***************************************************************************)
(* What masking promises, for any rules, texts and matches: detected text  *)
(* is masked, one original has one placeholder, and a response that        *)
(* repeats the masked texts is restored.  First, that the keyword          *)
(* pre-filter loses no match: for every syntax tree, set of keywords and   *)
(* text, a rule that is skipped would have found nothing, by induction on  *)
(* the height of the tree.                                                 *)
(***************************************************************************)
EXTENDS Masking, SequenceTheorems, Integers, FiniteSets, FiniteSetTheorems, WellFoundedInduction, TLAPS

-----------------------------------------------------------------------------
(* Induction over data, in the first-order form that the provers can use:  *)
(* properties are sets and recursive definitions are functions, so that    *)
(* every lemma can be instantiated.                                        *)

LessNat == {ss \in Nat \X Nat : ss[1] < ss[2]}

LEMMA LessNatWellFounded == IsWellFoundedOn(LessNat, Nat)
  BY NatLessThanWellFounded, Zenon DEF OpToRel, LessNat

\* A set of numbers has a least one.
LEMMA NatMinimum ==
  ASSUME NEW T \in SUBSET Nat, T # {}
  PROVE  \E x \in T : \A y \in T : x <= y
<1>1. \E x \in T : \A y \in T : ~ (<<y, x>> \in LessNat)
  BY LessNatWellFounded, WFMin
<1>2. ASSUME NEW x \in Nat, NEW y \in Nat, ~ (<<y, x>> \in LessNat) PROVE x <= y
  BY <1>2 DEF LessNat
<1> QED
  BY <1>1, <1>2

\* A set that holds n whenever it holds every smaller number holds them all.
LEMMA NatStrongInduction ==
  ASSUME NEW S, \A n \in Nat : (\A m \in 0 .. n - 1 : m \in S) => n \in S
  PROVE  Nat \subseteq S
<1> SUFFICES ASSUME Nat \ S # {} PROVE FALSE
  OBVIOUS
<1>1. PICK x \in Nat \ S : \A y \in Nat \ S : x <= y
  BY NatMinimum
<1> QED
  BY <1>1

\* A set that holds 0, and n + 1 whenever it holds n, holds every number.
LEMMA NatInductive ==
  ASSUME NEW S, 0 \in S, \A n \in Nat : n \in S => n + 1 \in S
  PROVE  Nat \subseteq S
<1>1. ASSUME NEW n \in Nat, \A m \in 0 .. n - 1 : m \in S PROVE n \in S
  <2>1. CASE n = 0
    BY <2>1
  <2>2. CASE n # 0
    <3>1. n - 1 \in Nat /\ n - 1 \in 0 .. n - 1 /\ n = (n - 1) + 1
      BY <2>2
    <3> QED
      BY <1>1, <3>1
  <2> QED
    BY <2>1, <2>2
<1> QED
  BY <1>1, NatStrongInduction

\* The same up to N.
LEMMA IndexInduction ==
  ASSUME NEW N \in Nat, NEW S, 0 \in S, \A k \in 1 .. N : k - 1 \in S => k \in S
  PROVE  0 .. N \subseteq S
<1> DEFINE T == {n \in Nat : n <= N => n \in S}
<1>1. 0 \in T
  OBVIOUS
<1>2. ASSUME NEW n \in Nat, n \in T PROVE n + 1 \in T
  <2>1. SUFFICES ASSUME n + 1 <= N PROVE n + 1 \in S
    OBVIOUS
  <2>2. n + 1 \in 1 .. N /\ (n + 1) - 1 = n /\ n \in S
    BY <1>2, <2>1
  <2> QED
    BY <2>2
<1> HIDE DEF T
<1>3. Nat \subseteq T
  BY <1>1, <1>2, NatInductive
<1> QED
  BY <1>3 DEF T

-----------------------------------------------------------------------------
(* Recursive functions.                                                     *)

IndexDefinition(step, N, V, base) == N \in Nat /\ base \in V /\ step \in [V \X (1 .. N) -> V]

\* A function on 0 .. N can be defined by its first value and by how each
\* value follows from the one before.
LEMMA IndexRecursion ==
  ASSUME NEW N, NEW V, NEW base, NEW step, IndexDefinition(step, N, V, base)
  PROVE  \E f \in [0 .. N -> V] : f[0] = base /\ \A k \in 1 .. N : f[k] = step[<<f[k - 1], k>>]
<1> DEFINE Good(f, n) == f[0] = base /\ \A k \in 1 .. n : f[k] = step[<<f[k - 1], k>>]
           S == {n \in Nat : n <= N => \E f \in [0 .. N -> V] : Good(f, n)}
<1>0. N \in Nat /\ base \in V /\ step \in [V \X (1 .. N) -> V]
  BY DEF IndexDefinition
<1>1. 0 \in S
  <2>1. Good([k \in 0 .. N |-> base], 0)
    BY <1>0
  <2> QED
    BY <1>0, <2>1
<1>2. ASSUME NEW n \in Nat, n \in S PROVE n + 1 \in S
  <2>1. SUFFICES ASSUME n + 1 <= N PROVE \E f \in [0 .. N -> V] : Good(f, n + 1)
    OBVIOUS
  <2>2. PICK f \in [0 .. N -> V] : Good(f, n)
    BY <1>0, <1>2, <2>1
  <2> DEFINE g == [f EXCEPT ![n + 1] = step[<<f[n], n + 1>>]]
  <2>3. n \in 0 .. N /\ n + 1 \in 1 .. N /\ f[n] \in V
    BY <1>0, <2>1
  <2>4. g \in [0 .. N -> V]
    BY <1>0, <2>3
  <2>5. g[0] = base
    BY <2>2, <2>3
  <2>6. ASSUME NEW k \in 1 .. n + 1 PROVE g[k] = step[<<g[k - 1], k>>]
    <3>1. k - 1 \in 0 .. N /\ k \in 0 .. N /\ k - 1 # n + 1 /\ g[k - 1] = f[k - 1]
      BY <1>0, <2>1
    <3>2. CASE k = n + 1
      BY <2>3, <3>1, <3>2
    <3>3. CASE k # n + 1
      <4>1. k \in 1 .. n /\ g[k] = f[k]
        BY <3>1, <3>3
      <4> QED
        BY <2>2, <3>1, <4>1
    <3> QED
      BY <3>2, <3>3
  <2> QED
    BY <2>4, <2>5, <2>6
<1> HIDE DEF S
<1>3. N \in S
  BY <1>0, <1>1, <1>2, NatInductive
<1> QED
  BY <1>0, <1>3 DEF S

\* F makes values of V, and what it makes of a function at x depends on what
\* that is at the arguments that are lower than x.
HeightDefinition(F, X, V, height) ==
    /\ height \in [X -> Nat] /\ F \in [[X -> V] \X X -> V] /\ [X -> V] # {}
    /\ \A x \in X : \A f, g \in [X -> V] :
          (\A y \in X : height[y] < height[x] => f[y] = g[y]) => F[<<f, x>>] = F[<<g, x>>]

\* A function can be defined by recursion on the height of its argument.
LEMMA HeightRecursion ==
  ASSUME NEW X, NEW V, NEW height, NEW F, HeightDefinition(F, X, V, height)
  PROVE  \E f \in [X -> V] : \A x \in X : f[x] = F[<<f, x>>]
<1>0. /\ height \in [X -> Nat] /\ F \in [[X -> V] \X X -> V] /\ [X -> V] # {}
      /\ \A x \in X : height[x] \in Nat
  BY DEF HeightDefinition
<1> DEFINE Good(f, n) == \A x \in X : height[x] < n => f[x] = F[<<f, x>>]
           S == {n \in Nat : \E f \in [X -> V] : Good(f, n)}
\* Two functions that are right below n agree below n.
<1>1. ASSUME NEW n \in Nat, NEW f \in [X -> V], NEW g \in [X -> V], Good(f, n), Good(g, n),
             NEW x \in X, height[x] < n
      PROVE  f[x] = g[x]
  <2> DEFINE A == {m \in Nat : m < n => \A y \in X : height[y] = m => f[y] = g[y]}
  <2>1. ASSUME NEW m \in Nat, \A l \in 0 .. m - 1 : l \in A PROVE m \in A
    <3>1. SUFFICES ASSUME m < n, NEW y \in X, height[y] = m PROVE f[y] = g[y]
      OBVIOUS
    <3>2. ASSUME NEW z \in X, height[z] < height[y] PROVE f[z] = g[z]
      <4>1. height[z] \in 0 .. m - 1 /\ height[z] < n
        BY <1>0, <3>1, <3>2
      <4> QED
        BY <2>1, <4>1
    <3>3. F[<<f, y>>] = F[<<g, y>>]
      BY <3>2 DEF HeightDefinition
    <3> QED
      BY <1>1, <3>1, <3>3
  <2> HIDE DEF A
  <2>2. height[x] \in A
    BY <1>0, <2>1, NatStrongInduction
  <2> QED
    BY <1>1, <2>2 DEF A
<1>2. 0 \in S
  <2>1. PICK f \in [X -> V] : TRUE
    BY <1>0
  <2>2. Good(f, 0)
    BY <1>0
  <2> QED
    BY <2>1, <2>2
<1>3. ASSUME NEW n \in Nat, n \in S PROVE n + 1 \in S
  <2>1. PICK f \in [X -> V] : Good(f, n)
    BY <1>3
  <2> DEFINE g == [x \in X |-> F[<<f, x>>]]
  <2>2. g \in [X -> V]
    BY <1>0
  <2>3. ASSUME NEW x \in X, height[x] < n + 1 PROVE g[x] = F[<<g, x>>]
    <3>1. ASSUME NEW y \in X, height[y] < height[x] PROVE f[y] = g[y]
      BY <1>0, <2>1, <2>3, <3>1
    <3>2. F[<<f, x>>] = F[<<g, x>>]
      BY <2>2, <3>1 DEF HeightDefinition
    <3> QED
      BY <3>2
  <2>4. Good(g, n + 1)
    BY <2>3, Zenon
  <2>5. n + 1 \in Nat
    OBVIOUS
  <2> HIDE DEF Good, g
  <2> QED
    BY <2>2, <2>4, <2>5, Zenon
<1>4. \A n \in Nat : \E f \in [X -> V] : Good(f, n)
  <2> HIDE DEF S
  <2>1. Nat \subseteq S
    BY <1>2, <1>3, NatInductive
  <2> QED
    BY <2>1 DEF S
\* The limit takes at x what a function that is right up to x takes there.
<1>5. PICK upTo \in [Nat -> [X -> V]] : \A n \in Nat : Good(upTo[n], n)
  <2> DEFINE u == [n \in Nat |-> CHOOSE f \in [X -> V] : Good(f, n)]
  <2>1. ASSUME NEW n \in Nat PROVE u[n] \in [X -> V] /\ Good(u[n], n)
    <3> HIDE DEF Good
    <3> QED
      BY <1>4
  <2> HIDE DEF Good
  <2> QED
    BY <2>1
<1> DEFINE lim == [x \in X |-> upTo[height[x] + 1][x]]
<1>6. lim \in [X -> V]
  BY <1>0
<1>7. ASSUME NEW x \in X PROVE lim[x] = F[<<lim, x>>]
  <2>0. \A y \in X : height[y] \in Nat /\ height[y] + 1 \in Nat
    BY <1>0
  <2> DEFINE f == upTo[height[x] + 1]
  <2>1. f \in [X -> V] /\ Good(f, height[x] + 1)
    BY <1>5, <2>0
  <2> HIDE DEF f
  <2>2. ASSUME NEW y \in X, height[y] < height[x] PROVE f[y] = lim[y]
    <3> DEFINE g == upTo[height[y] + 1]
    <3>1. g \in [X -> V] /\ Good(g, height[y] + 1)
      BY <1>5, <2>0
    <3> HIDE DEF g
    <3>2. height[y] < height[y] + 1 /\ \A z \in X : height[z] < height[y] + 1 => height[z] < height[x] + 1
      BY <2>0, <2>2
    <3>3. Good(f, height[y] + 1)
      BY <2>1, <3>2, Zenon
    <3> HIDE DEF Good
    <3>4. f[y] = g[y]
      BY <1>1, <2>0, <2>1, <3>1, <3>2, <3>3
    <3> QED
      BY <3>4 DEF g
  <2>3. F[<<f, x>>] = F[<<lim, x>>]
    BY <1>6, <2>1, <2>2 DEF HeightDefinition
  <2>4. f[x] = F[<<f, x>>]
    <3>1. height[x] < height[x] + 1
      BY <2>0
    <3> QED
      BY <2>1, <3>1, Zenon
  <2>5. lim[x] = f[x]
    BY DEF f
  <2> QED
    BY <2>3, <2>4, <2>5
<1> QED
  BY <1>6, <1>7

-----------------------------------------------------------------------------
(* Sorting.                                                                 *)

StrictlyOrders(R, S) ==
    /\ \A x, y, z \in S : <<x, y>> \in R /\ <<y, z>> \in R => <<x, z>> \in R
    /\ \A x \in S : <<x, x>> \notin R
    /\ \A x, y \in S : x # y => <<x, y>> \in R \/ <<y, x>> \in R

\* The members of a finite set that R orders, listed by the number of their
\* predecessors.
ByRank(S, R) ==
    [n \in 1 .. Cardinality(S) |-> CHOOSE x \in S : Cardinality({y \in S : <<y, x>> \in R}) = n - 1]

\* That lists all of them, each once and in order.
LEMMA RankListing ==
  ASSUME NEW S, IsFiniteSet(S), NEW R, StrictlyOrders(R, S)
  PROVE  /\ Cardinality(S) \in Nat /\ ByRank(S, R) \in [1 .. Cardinality(S) -> S]
         /\ \A m, n \in 1 .. Cardinality(S) : m < n => <<ByRank(S, R)[m], ByRank(S, R)[n]>> \in R
         /\ \A x \in S : \E n \in 1 .. Cardinality(S) : ByRank(S, R)[n] = x
<1> DEFINE below(x) == {y \in S : <<y, x>> \in R}
           N == Cardinality(S)
           rank == [x \in S |-> Cardinality(below(x)) + 1]
<1>0. /\ \A x \in S : below(x) \in SUBSET S /\ x \notin below(x)
      /\ \A x, y \in S : <<x, y>> \in R => below(x) \in SUBSET below(y) /\ x \in below(y)
  BY DEF StrictlyOrders
<1> HIDE DEF below
<1>1. N \in Nat
  BY FS_CardinalityType
<1>2. ASSUME NEW x \in S PROVE IsFiniteSet(below(x)) /\ Cardinality(below(x)) \in Nat /\ Cardinality(below(x)) < N
  <2>1. IsFiniteSet(below(x)) /\ Cardinality(below(x)) <= N /\ Cardinality(below(x)) # N
    BY <1>0, FS_Subset
  <2>2. Cardinality(below(x)) \in Nat
    BY <2>1, FS_CardinalityType
  <2> QED
    BY <1>1, <2>1, <2>2
<1>3. \A x \in S : rank[x] \in 1 .. N /\ Cardinality(below(x)) = rank[x] - 1
  BY <1>1, <1>2
<1> HIDE DEF N
<1>4. rank \in [S -> 1 .. N]
  BY <1>3
<1>5. ASSUME NEW x \in S, NEW y \in S, <<x, y>> \in R PROVE rank[x] < rank[y]
  <2>1. Cardinality(below(x)) <= Cardinality(below(y)) /\ Cardinality(below(x)) # Cardinality(below(y))
    BY <1>0, <1>2, <1>5, FS_Subset
  <2> HIDE DEF rank
  <2> QED
    BY <1>1, <1>3, <2>1
<1> HIDE DEF rank
<1>6. \A x, y \in S : rank[x] = rank[y] => x = y
  <2> SUFFICES ASSUME NEW x \in S, NEW y \in S, x # y PROVE rank[x] # rank[y]
    OBVIOUS
  <2>1. rank[x] \in Int /\ rank[y] \in Int
    BY <1>4
  <2>2. <<x, y>> \in R \/ <<y, x>> \in R
    BY DEF StrictlyOrders
  <2> QED
    BY <1>5, <2>1, <2>2
<1>7. rank \in Injection(S, 1 .. N)
  BY <1>4, <1>6 DEF Injection, IsInjective
<1>8. rank \in Surjection(S, 1 .. N)
  <2>1. IsFiniteSet(1 .. N) /\ Cardinality(1 .. N) = N
    BY <1>1, FS_Interval
  <2> QED
    BY <1>7, <2>1, FS_Injection DEF N
<1>9. \A n \in 1 .. N : \E x \in S : rank[x] = n
  BY <1>8 DEF Surjection
<1>10. ASSUME NEW x \in S, NEW y \in S, rank[x] < rank[y] PROVE <<x, y>> \in R
  <2>1. rank[x] \in Int /\ rank[y] \in Int
    BY <1>4
  <2>2. x # y /\ ~ (<<y, x>> \in R)
    BY <1>5, <1>10, <2>1
  <2> QED
    BY <2>2 DEF StrictlyOrders
<1> DEFINE list == ByRank(S, R)
<1>0a. list = [n \in 1 .. N |-> CHOOSE x \in S : Cardinality(below(x)) = n - 1]
  BY DEF ByRank, N, below
<1> HIDE DEF list
<1>11. ASSUME NEW n \in 1 .. N PROVE list[n] \in S /\ rank[list[n]] = n
  <2>1. \E x \in S : Cardinality(below(x)) = n - 1
    BY <1>3, <1>9
  <2>2. list[n] = CHOOSE x \in S : Cardinality(below(x)) = n - 1
    BY <1>0a
  <2>3. list[n] \in S /\ Cardinality(below(list[n])) = n - 1
    BY <2>1, <2>2
  <2> QED
    BY <1>1, <1>3, <2>3
<1>12. ASSUME NEW m \in 1 .. N, NEW n \in 1 .. N, m < n PROVE <<list[m], list[n]>> \in R
  <2>1. list[m] \in S /\ list[n] \in S /\ rank[list[m]] = m /\ rank[list[n]] = n
    BY <1>11
  <2>2. rank[list[m]] < rank[list[n]]
    BY <1>12, <2>1, Zenon
  <2> QED
    BY <1>10, <2>1, <2>2
<1>13. ASSUME NEW x \in S PROVE \E n \in 1 .. N : list[n] = x
  <2>1. rank[x] \in 1 .. N
    BY <1>4
  <2>2. list[rank[x]] \in S /\ rank[list[rank[x]]] = rank[x]
    BY <1>11, <2>1
  <2> QED
    BY <1>6, <2>1, <2>2
<1>14. list \in [1 .. N -> S]
  BY <1>11, <1>0a
<1> QED
  BY <1>1, <1>12, <1>13, <1>14 DEF list, N


-----------------------------------------------------------------------------
(* What the recursive definitions define.                                   *)

HeightOf == [re \in Regexes |-> Height[re]]

LEMMA AcceptedRec ==
  ASSUME NEW text
  PROVE  /\ Accepted(text) = [re \in Regexes |->
                Matched(text, re, [k \in DOMAIN re.sub |-> Accepted(text)[re.sub[k]]])]
         /\ \A re \in Regexes : Accepted(text)[re] \subseteq Spans(text)
<1> DEFINE V == SUBSET Spans(text)
           none == [re \in Regexes |-> {}]
           parts(f, re) == [k \in DOMAIN re.sub |-> f[re.sub[k]]]
           F == [p \in [Regexes -> V] \X Regexes |-> Matched(text, p[2], parts(p[1], p[2]))]
<1>1. \A re, ps : Matched(text, re, ps) \in V
  BY DEF Matched
<1>2. HeightOf \in [Regexes -> Nat]
  BY RegexAssumption DEF HeightOf
<1>3. F \in [[Regexes -> V] \X Regexes -> V]
  BY <1>1
<1>4. ASSUME NEW re \in Regexes, NEW f \in [Regexes -> V], NEW g \in [Regexes -> V],
             \A y \in Regexes : HeightOf[y] < HeightOf[re] => f[y] = g[y]
      PROVE  F[<<f, re>>] = F[<<g, re>>]
  <2>1. \A k \in DOMAIN re.sub : f[re.sub[k]] = g[re.sub[k]]
    BY <1>4, RegexAssumption DEF HeightOf
  <2>2. parts(f, re) = parts(g, re)
    BY <2>1
  <2> HIDE DEF parts, V
  <2> QED
    BY <2>2
<1>5. none \in [Regexes -> V]
  OBVIOUS
<1>6. PICK f \in [Regexes -> V] : \A re \in Regexes : f[re] = F[<<f, re>>]
  <2> HIDE DEF F, V, none
  <2>1. HeightDefinition(F, Regexes, V, HeightOf)
    BY <1>2, <1>3, <1>4, <1>5 DEF HeightDefinition
  <2> QED
    BY <2>1, HeightRecursion
<1>7. f = [re \in Regexes |-> Matched(text, re, parts(f, re))]
  <2> HIDE DEF parts, V
  <2> QED
    BY <1>6
<1>8. Accepted(text) = [re \in Regexes |-> Matched(text, re, parts(Accepted(text), re))]
  BY <1>7 DEF Accepted
<1>9. \A re \in Regexes : Accepted(text)[re] \in V
  <2> HIDE DEF V, parts
  <2> QED
    BY <1>1, <1>8
<1> QED
  BY <1>8, <1>9

\* The body of regexGuaranteesKeyword, given the answers for the parts.
SureGiven(sure, re, keywords) ==
    \/ /\ re.op = "literal" /\ FoldSafeForToLower(re.runes, re.fold)
       /\ \E kw \in keywords : HasSubstring(LowerText(re.runes), kw)
    \/ re.op \in {"concat", "plus", "capture"} /\ \E k \in DOMAIN re.sub : sure[re.sub[k]]
    \/ re.op = "alternate" /\ re.sub # <<>> /\ \A k \in DOMAIN re.sub : sure[re.sub[k]]
    \/ re.op = "repeat" /\ re.min # 0 /\ sure[re.sub[1]]

LEMMA GuaranteesRec ==
  ASSUME NEW keywords
  PROVE  \E sure \in [Regexes -> BOOLEAN] : \A re \in Regexes :
            /\ RegexGuaranteesKeyword(re, keywords) = sure[re]
            /\ sure[re] <=> SureGiven(sure, re, keywords)
<1> DEFINE all == [re \in Regexes |-> TRUE]
           F == [p \in [Regexes -> BOOLEAN] \X Regexes |-> SureGiven(p[1], p[2], keywords)]
<1>1. \A f, re : SureGiven(f, re, keywords) \in BOOLEAN
  BY DEF SureGiven
<1>2. HeightOf \in [Regexes -> Nat]
  BY RegexAssumption DEF HeightOf
<1>3. F \in [[Regexes -> BOOLEAN] \X Regexes -> BOOLEAN]
  BY <1>1
<1>4. ASSUME NEW re \in Regexes, NEW f \in [Regexes -> BOOLEAN], NEW g \in [Regexes -> BOOLEAN],
             \A y \in Regexes : HeightOf[y] < HeightOf[re] => f[y] = g[y]
      PROVE  F[<<f, re>>] = F[<<g, re>>]
  <2>1. \A k \in DOMAIN re.sub : f[re.sub[k]] = g[re.sub[k]]
    BY <1>4, RegexAssumption DEF HeightOf
  <2>2. re.op = "repeat" => 1 \in DOMAIN re.sub
    BY RegexAssumption
  <2>3. SureGiven(f, re, keywords) <=> SureGiven(g, re, keywords)
    BY <2>1, <2>2, Zenon DEF SureGiven
  <2> QED
    BY <1>1, <2>3
<1>5. all \in [Regexes -> BOOLEAN]
  OBVIOUS
<1>6. PICK f \in [Regexes -> BOOLEAN] : \A re \in Regexes : f[re] = F[<<f, re>>]
  <2> HIDE DEF F, all
  <2>1. HeightDefinition(F, Regexes, BOOLEAN, HeightOf)
    BY <1>2, <1>3, <1>4, <1>5 DEF HeightDefinition
  <2> QED
    BY <2>1, HeightRecursion
<1> DEFINE g == CHOOSE sure : sure = [re \in Regexes |-> SureGiven(sure, re, keywords)]
<1>7. f = [re \in Regexes |-> SureGiven(f, re, keywords)]
  BY <1>6
<1>8. g = [re \in Regexes |-> SureGiven(g, re, keywords)]
  BY <1>7
<1>9. \A re : RegexGuaranteesKeyword(re, keywords) = g[re]
  BY DEF RegexGuaranteesKeyword, SureGiven
<1> HIDE DEF g
<1>10. g \in [Regexes -> BOOLEAN]
  BY <1>1, <1>8
<1>11. \A re \in Regexes : g[re] <=> SureGiven(g, re, keywords)
  BY <1>8
<1> QED
  BY <1>9, <1>10, <1>11

-----------------------------------------------------------------------------
(* The analysis is sound.                                                   *)

\* A keyword occurs, whatever its case, between the ends of the span.
KeywordIn(text, s, keywords) ==
    \E kw \in keywords : \E n \in Int :
        /\ s.start <= n /\ n + Len(kw) <= s.end
        /\ \A k \in 1 .. Len(kw) : ToLower(text[n + k]) = kw[k]

LEMMA KeywordInWider ==
  ASSUME NEW text, NEW keywords, \A kw \in keywords : Len(kw) \in Nat,
         NEW i \in Int, NEW j \in Int, NEW a \in Int, NEW b \in Int, i <= a, b <= j,
         KeywordIn(text, Span(a, b), keywords)
  PROVE  KeywordIn(text, Span(i, j), keywords)
<1>1. PICK kw \in keywords, n \in Int :
         /\ a <= n /\ n + Len(kw) <= b
         /\ \A k \in 1 .. Len(kw) : ToLower(text[n + k]) = kw[k]
  BY DEF KeywordIn, Span
<1>2. i <= n /\ n + Len(kw) <= j
  BY <1>1
<1> QED
  BY <1>1, <1>2 DEF KeywordIn, Span

LEMMA LiteralHasKeyword ==
  ASSUME NEW text, NEW keywords, \A kw \in keywords : Len(kw) \in Nat,
         NEW re \in Regexes, NEW i \in Int, LiteralAt(text, i, re),
         FoldSafeForToLower(re.runes, re.fold),
         \E kw \in keywords : HasSubstring(LowerText(re.runes), kw)
  PROVE  KeywordIn(text, Span(i, i + Len(re.runes)), keywords)
<1> DEFINE lower == LowerText(re.runes)
<1>1. Len(re.runes) \in Nat /\ DOMAIN re.runes = 1 .. Len(re.runes)
  BY RegexAssumption
<1>2. Len(lower) = Len(re.runes) /\ \A k \in 1 .. Len(re.runes) : lower[k] = ToLower(re.runes[k])
  BY <1>1 DEF LowerText
<1>3. PICK kw \in keywords, n \in Int :
         /\ n \in 0 .. Len(lower) - Len(kw)
         /\ \A k \in 1 .. Len(kw) : lower[n + k] = kw[k]
  BY DEF HasSubstring
<1>4. Len(kw) \in Nat /\ n \in Nat /\ n + Len(kw) <= Len(re.runes)
  BY <1>1, <1>2, <1>3
<1>5. \A k \in 1 .. Len(re.runes) : ToLower(text[i + k]) = ToLower(re.runes[k])
  <2>1. SUFFICES ASSUME NEW k \in 1 .. Len(re.runes) PROVE ToLower(text[i + k]) = ToLower(re.runes[k])
    OBVIOUS
  <2>2. text[i + k] = re.runes[k] \/ (re.fold /\ text[i + k] \in SimpleFolds(re.runes[k]))
    BY <1>1 DEF LiteralAt
  <2> QED
    BY <1>1, <2>2 DEF FoldSafeForToLower
<1>6. ASSUME NEW k \in 1 .. Len(kw) PROVE ToLower(text[(i + n) + k]) = kw[k]
  <2>1. n + k \in 1 .. Len(re.runes) /\ (i + n) + k = i + (n + k)
    BY <1>1, <1>4
  <2> QED
    BY <1>2, <1>3, <1>5, <2>1
<1>7. i + n \in Int /\ i <= i + n /\ (i + n) + Len(kw) <= i + Len(re.runes)
  BY <1>1, <1>4
<1> QED
  BY <1>6, <1>7 DEF KeywordIn, Span

\* A chain has a step for each of its parts.
LEMMA ChainStep ==
  ASSUME NEW spans, Len(spans) \in Nat, NEW i, NEW j, Chain(spans, i, j)
  PROVE  \A k \in 1 .. Len(spans) : \E a, b \in i .. j : Span(a, b) \in spans[k]
<1> SUFFICES ASSUME NEW k \in 1 .. Len(spans) PROVE \E a, b \in i .. j : Span(a, b) \in spans[k]
  OBVIOUS
<1>1. PICK at \in [0 .. Len(spans) -> i .. j] : \A m \in 1 .. Len(spans) : Span(at[m - 1], at[m]) \in spans[m]
  BY DEF Chain
<1>2. k - 1 \in 0 .. Len(spans) /\ k \in 0 .. Len(spans)
  OBVIOUS
<1> QED
  BY <1>1, <1>2

\* Where the analysis says that a keyword is sure, every match contains one.
LEMMA GuaranteeSound ==
  ASSUME NEW text, Len(text) \in Nat, NEW keywords, \A kw \in keywords : Len(kw) \in Nat
  PROVE  \A re \in Regexes : \A s \in Accepted(text)[re] :
            RegexGuaranteesKeyword(re, keywords) => KeywordIn(text, s, keywords)
<1>1. PICK sure \in [Regexes -> BOOLEAN] : \A re \in Regexes :
         /\ RegexGuaranteesKeyword(re, keywords) = sure[re]
         /\ sure[re] <=> SureGiven(sure, re, keywords)
  BY GuaranteesRec
<1> DEFINE parts(re) == [k \in DOMAIN re.sub |-> Accepted(text)[re.sub[k]]]
           Sound(re) == sure[re] => \A s \in Accepted(text)[re] : KeywordIn(text, s, keywords)
           H == {n \in Nat : \A re \in Regexes : Height[re] = n => Sound(re)}
<1>2. ASSUME NEW re \in Regexes, \A k \in DOMAIN re.sub : Sound(re.sub[k]) PROVE Sound(re)
  <2> SUFFICES ASSUME sure[re], NEW s \in Accepted(text)[re] PROVE KeywordIn(text, s, keywords)
    OBVIOUS
  <2>1. Accepted(text)[re] = Matched(text, re, parts(re))
    BY AcceptedRec
  <2>2. /\ s.start \in Nat /\ s.end \in Nat /\ s.start <= s.end
        /\ s = Span(s.start, s.end) /\ s \in Matched(text, re, parts(re))
    <3>1. s \in Matched(text, re, parts(re))
      BY <2>1
    <3>2. s \in Spans(text)
      BY AcceptedRec
    <3> HIDE DEF parts
    <3> QED
      BY <3>1, <3>2 DEF Spans, Span
  <2>3. /\ Len(re.sub) \in Nat /\ DOMAIN re.sub = 1 .. Len(re.sub)
        /\ re.op \in {"capture", "plus", "repeat"} => Len(re.sub) = 1
    BY RegexAssumption
  <2>4. SureGiven(sure, re, keywords)
    BY <1>1
  \* A part that is sure, inside the span.
  <2>5. ASSUME NEW k \in DOMAIN re.sub, sure[re.sub[k]],
               NEW a \in s.start .. s.end, NEW b \in s.start .. s.end, Span(a, b) \in parts(re)[k]
        PROVE  KeywordIn(text, s, keywords)
    <3>1. KeywordIn(text, Span(a, b), keywords)
      BY <1>2, <2>5
    <3>2. a \in Int /\ b \in Int /\ s.start \in Int /\ s.end \in Int /\ s.start <= a /\ b <= s.end
      BY <2>2
    <3>3. KeywordIn(text, Span(s.start, s.end), keywords)
      BY <3>1, <3>2, KeywordInWider
    <3> QED
      BY <2>2, <3>3
  <2>6. DOMAIN parts(re) = 1 .. Len(re.sub) /\ Len(parts(re)) = Len(re.sub)
    BY <2>3
  <2> HIDE DEF parts, Sound
  <2>7. CASE re.op = "literal"
    <3>1. s.end = s.start + Len(re.runes) /\ LiteralAt(text, s.start, re)
      BY <2>2, <2>7 DEF Matched
    <3>2. FoldSafeForToLower(re.runes, re.fold) /\ \E kw \in keywords : HasSubstring(LowerText(re.runes), kw)
      BY <2>4, <2>7 DEF SureGiven
    <3>3. s.start \in Int
      BY <2>2
    <3>4. KeywordIn(text, Span(s.start, s.start + Len(re.runes)), keywords)
      BY <3>1, <3>2, <3>3, LiteralHasKeyword
    <3> QED
      BY <2>2, <3>1, <3>4
  <2>8. CASE re.op = "concat"
    <3>1. PICK k \in DOMAIN re.sub : sure[re.sub[k]]
      BY <2>4, <2>8 DEF SureGiven
    <3>2. Chain(parts(re), s.start, s.end)
      BY <2>2, <2>8 DEF Matched
    <3>3. k \in 1 .. Len(parts(re)) /\ Len(parts(re)) \in Nat
      BY <2>3, <2>6
    <3>4. \E a, b \in s.start .. s.end : Span(a, b) \in parts(re)[k]
      BY <3>2, <3>3, ChainStep
    <3> QED
      BY <2>5, <3>1, <3>4
  <2>9. CASE re.op = "alternate"
    <3>1. \A k \in DOMAIN re.sub : sure[re.sub[k]]
      BY <2>4, <2>9 DEF SureGiven
    <3>2. PICK k \in DOMAIN re.sub : s \in parts(re)[k]
      BY <2>2, <2>3, <2>6, <2>9 DEF Matched
    <3>3. Span(s.start, s.end) \in parts(re)[k] /\ s.start \in s.start .. s.end /\ s.end \in s.start .. s.end
      BY <2>2, <3>2
    <3> QED
      BY <2>5, <3>1, <3>3
  <2>10. CASE re.op = "capture"
    <3>1. 1 \in DOMAIN re.sub /\ sure[re.sub[1]]
      BY <2>3, <2>4, <2>10 DEF SureGiven
    <3>2. s \in parts(re)[1]
      BY <2>2, <2>10 DEF Matched
    <3>3. Span(s.start, s.end) \in parts(re)[1] /\ s.start \in s.start .. s.end /\ s.end \in s.start .. s.end
      BY <2>2, <3>2
    <3> QED
      BY <2>5, <3>1, <3>3
  <2>11. CASE re.op = "plus"
    <3>1. 1 \in DOMAIN re.sub /\ sure[re.sub[1]]
      BY <2>3, <2>4, <2>11 DEF SureGiven
    <3>2. PICK i \in s.start .. s.end : Span(s.start, i) \in parts(re)[1]
      BY <2>2, <2>11 DEF Matched
    <3>3. s.start \in s.start .. s.end
      BY <2>2
    <3> QED
      BY <2>5, <3>1, <3>2, <3>3
  <2>12. CASE re.op = "repeat"
    <3>1. 1 \in DOMAIN re.sub /\ sure[re.sub[1]] /\ re.min # 0 /\ re.min \in Nat
      BY <2>3, <2>4, <2>12, RegexAssumption DEF SureGiven
    <3> DEFINE copies == [k \in 1 .. re.min |-> parts(re)[1]]
    <3>2. PICK i \in s.start .. s.end : Chain(copies, s.start, i)
      BY <2>2, <2>12 DEF Matched
    <3>3. Len(copies) \in Nat /\ copies[1] = parts(re)[1] /\ 1 \in 1 .. Len(copies)
      BY <3>1
    <3> HIDE DEF copies
    <3>4. \E a, b \in s.start .. i : Span(a, b) \in copies[1]
      BY <3>2, <3>3, ChainStep
    <3>5. PICK a \in s.start .. s.end, b \in s.start .. s.end : Span(a, b) \in parts(re)[1]
      BY <2>2, <3>3, <3>4
    <3> QED
      BY <2>5, <3>1, <3>5
  <2> QED
    BY <2>4, <2>7, <2>8, <2>9, <2>10, <2>11, <2>12 DEF SureGiven
<1> HIDE DEF Sound
<1>3. ASSUME NEW n \in Nat, \A m \in 0 .. n - 1 : m \in H PROVE n \in H
  <2> SUFFICES ASSUME NEW re \in Regexes, Height[re] = n PROVE Sound(re)
    OBVIOUS
  <2>1. ASSUME NEW k \in DOMAIN re.sub PROVE Sound(re.sub[k])
    <3>1. re.sub[k] \in Regexes /\ Height[re.sub[k]] \in 0 .. n - 1
      BY RegexAssumption
    <3> QED
      BY <1>3, <3>1
  <2> QED
    BY <1>2, <2>1
<1>4. Nat \subseteq H
  <2> HIDE DEF H
  <2> QED
    BY <1>3, NatStrongInduction
<1>5. \A re \in Regexes : Sound(re)
  BY <1>4, RegexAssumption
<1> QED
  BY <1>1, <1>5 DEF Sound

\* A rule that the pre-filter skips for a text matches nothing in it: for any
\* syntax trees, keywords and text, whatever the case of its letters.
THEOREM PrefilterLosesNothing ==
  ASSUME NEW text, Len(text) \in Nat, DOMAIN text = 1 .. Len(text),
         NEW rule, rule.regex \in Regexes,
         \A kw \in rule.keywords : Len(kw) \in Nat /\ DOMAIN kw = 1 .. Len(kw),
         ~ KeptByKeywords(text, rule)
  PROVE  Accepted(text)[rule.regex] = {}
<1> DEFINE lowered == {LowerText(kw) : kw \in rule.keywords}
<1>1. \A kw \in lowered : Len(kw) \in Nat
  BY DEF LowerText
<1>2. RegexGuaranteesKeyword(rule.regex, lowered) /\ ~ ContainsAnyKeyword(LowerText(text), lowered)
  BY DEF KeptByKeywords, PrefilterKeywords
<1>3. Len(LowerText(text)) = Len(text) /\ \A k \in 1 .. Len(text) : LowerText(text)[k] = ToLower(text[k])
  BY DEF LowerText
<1> HIDE DEF lowered
<1> SUFFICES ASSUME NEW s \in Accepted(text)[rule.regex] PROVE FALSE
  OBVIOUS
<1>4. KeywordIn(text, s, lowered)
  BY <1>1, <1>2, GuaranteeSound
<1>5. s \in Spans(text)
  BY AcceptedRec
<1>6. PICK kw \in lowered, n \in Int :
         /\ s.start <= n /\ n + Len(kw) <= s.end
         /\ \A k \in 1 .. Len(kw) : ToLower(text[n + k]) = kw[k]
  BY <1>4 DEF KeywordIn
<1>7. n \in 0 .. Len(text) - Len(kw) /\ Len(kw) \in Nat
  BY <1>1, <1>5, <1>6 DEF Spans
<1>8. ASSUME NEW k \in 1 .. Len(kw) PROVE LowerText(text)[n + k] = kw[k]
  <2>1. n + k \in 1 .. Len(text)
    BY <1>7
  <2> QED
    BY <1>3, <1>6, <2>1
<1>9. HasSubstring(LowerText(text), kw)
  BY <1>3, <1>7, <1>8 DEF HasSubstring
<1> QED
  BY <1>2, <1>9 DEF ContainsAnyKeyword


-----------------------------------------------------------------------------
(* Matches and their order.                                                 *)

\* A nonempty span of a text of length L, attributed to one of some rules.
Hits(L, rules) == {m \in [start : 0 .. L, end : 0 .. L, rule : rules] : m.start < m.end}

LEMMA MatchesAreHits ==
  ASSUME NEW text, NEW rules
  PROVE  Matches(text, rules) \subseteq Hits(Len(text), rules)
  BY DEF Matches, Hits

LEMMA HitFields ==
  ASSUME NEW L \in Nat, NEW rules
  PROVE  /\ \A m \in Hits(L, rules) :
               /\ m.start \in 0 .. L /\ m.end \in 0 .. L /\ m.rule \in rules /\ m.start < m.end
               /\ m = [start |-> m.start, end |-> m.end, rule |-> m.rule]
         /\ \A i, j \in 0 .. L : \A r \in rules :
               i < j => [start |-> i, end |-> j, rule |-> r] \in Hits(L, rules)
  BY DEF Hits

LEMMA HitsFinite ==
  ASSUME NEW L \in Nat, NEW rules, IsFiniteSet(rules)
  PROVE  IsFiniteSet(Hits(L, rules))
<1> DEFINE P == ((0 .. L) \X (0 .. L)) \X rules
           f == [m \in Hits(L, rules) |-> <<<<m.start, m.end>>, m.rule>>]
<1>1. IsFiniteSet(0 .. L)
  BY FS_Interval
<1>2. IsFiniteSet(P)
  BY <1>1, FS_Product
<1>3. f \in [Hits(L, rules) -> P]
  BY HitFields
<1>4. \A a, b \in Hits(L, rules) : f[a] = f[b] => a = b
  BY HitFields
<1>5. f \in Injection(Hits(L, rules), P)
  BY <1>3, <1>4 DEF Injection, IsInjective
<1> HIDE DEF P, f
<1> QED
  BY <1>2, <1>5, FS_Injection

BeforeIn(ms) == {p \in ms \X ms : Before(p[1], p[2])}
PreferredIn(ms) == {p \in ms \X ms : Preferred(p[1], p[2])}

LEMMA HitNumbers ==
  ASSUME NEW L \in Nat, NEW rules, rules \subseteq Nat, NEW ms, ms \subseteq Hits(L, rules)
  PROVE  /\ \A m \in ms : m.start \in Int /\ Size(m) \in Int /\ m.end = m.start + Size(m) /\ m.rule \in Int
         /\ \A a, b \in ms : a.start = b.start /\ Size(a) = Size(b) /\ a.rule = b.rule => a = b
<1>1. \A m \in ms : m.start \in Int /\ Size(m) \in Int /\ m.end = m.start + Size(m) /\ m.rule \in Int
  BY HitFields DEF Size
<1>2. \A a, b \in ms : a.start = b.start /\ Size(a) = Size(b) /\ a.rule = b.rule => a = b
  <2> SUFFICES ASSUME NEW a \in ms, NEW b \in ms, a.start = b.start /\ Size(a) = Size(b) /\ a.rule = b.rule
               PROVE  a = b
    OBVIOUS
  <2>1. a.end = b.end
    BY <1>1
  <2> QED
    BY <2>1, HitFields
<1> QED
  BY <1>1, <1>2

LEMMA BeforeOrders ==
  ASSUME NEW L \in Nat, NEW rules, rules \subseteq Nat, NEW ms, ms \subseteq Hits(L, rules)
  PROVE  StrictlyOrders(BeforeIn(ms), ms)
<1>1. /\ \A m \in ms : m.start \in Int /\ Size(m) \in Int /\ m.rule \in Int
      /\ \A a, b \in ms : a.start = b.start /\ Size(a) = Size(b) /\ a.rule = b.rule => a = b
  BY HitNumbers
<1>2. \A a, b \in ms : <<a, b>> \in BeforeIn(ms) <=> Before(a, b)
  BY DEF BeforeIn
<1>3. \A a, b, c \in ms : Before(a, b) /\ Before(b, c) => Before(a, c)
  BY <1>1 DEF Before
<1>4. \A a \in ms : ~ Before(a, a)
  BY <1>1 DEF Before
<1>5. \A a, b \in ms : a # b => Before(a, b) \/ Before(b, a)
  BY <1>1 DEF Before
<1> QED
  BY <1>2, <1>3, <1>4, <1>5 DEF StrictlyOrders

LEMMA PreferredOrders ==
  ASSUME NEW L \in Nat, NEW rules, rules \subseteq Nat, NEW ms, ms \subseteq Hits(L, rules)
  PROVE  StrictlyOrders(PreferredIn(ms), ms)
<1>1. /\ \A m \in ms : m.start \in Int /\ Size(m) \in Int /\ m.rule \in Int
      /\ \A a, b \in ms : a.start = b.start /\ Size(a) = Size(b) /\ a.rule = b.rule => a = b
  BY HitNumbers
<1>2. \A a, b \in ms : <<a, b>> \in PreferredIn(ms) <=> Preferred(a, b)
  BY DEF PreferredIn
<1>3. \A a, b, c \in ms : Preferred(a, b) /\ Preferred(b, c) => Preferred(a, c)
  BY <1>1 DEF Preferred
<1>4. \A a \in ms : ~ Preferred(a, a)
  BY <1>1 DEF Preferred
<1>5. \A a, b \in ms : a # b => Preferred(a, b) \/ Preferred(b, a)
  BY <1>1 DEF Preferred
<1> QED
  BY <1>2, <1>3, <1>4, <1>5 DEF StrictlyOrders

\* Some matches of some rules.
Detected(ms, L, rules) ==
    L \in Nat /\ IsFiniteSet(rules) /\ rules \subseteq Nat /\ ms \subseteq Hits(L, rules)

\* The sorted matches: all of them, from left to right.
LEMMA SortedMatches ==
  ASSUME NEW L, NEW rules, NEW ms, Detected(ms, L, rules)
  PROVE  /\ Sorted(ms) \in Seq(ms)
         /\ \A j, k \in DOMAIN Sorted(ms) : j < k => Sorted(ms)[j].start <= Sorted(ms)[k].start
         /\ \A m \in ms : \E k \in DOMAIN Sorted(ms) : Sorted(ms)[k] = m
<1> DEFINE N == Cardinality(ms)
           R == BeforeIn(ms)
<1>0a. L \in Nat /\ IsFiniteSet(rules) /\ rules \subseteq Nat /\ ms \subseteq Hits(L, rules)
  BY DEF Detected
<1>1. IsFiniteSet(ms)
  BY <1>0a, HitsFinite, FS_Subset
<1>2. StrictlyOrders(R, ms)
  BY <1>0a, BeforeOrders
<1>3. Sorted(ms) = ByRank(ms, R)
  <2>1. \A m \in ms : {o \in ms : Before(o, m)} = {o \in ms : <<o, m>> \in R}
    BY DEF BeforeIn
  <2> HIDE DEF R
  <2> DEFINE byOrder(n) == CHOOSE m \in ms : Cardinality({o \in ms : Before(o, m)}) = n - 1
             byRank(n) == CHOOSE m \in ms : Cardinality({o \in ms : <<o, m>> \in R}) = n - 1
  <2>2. \A n : byOrder(n) = byRank(n)
    BY <2>1
  <2>3. Sorted(ms) = [n \in 1 .. N |-> byOrder(n)]
    BY DEF Sorted
  <2>4. ByRank(ms, R) = [n \in 1 .. N |-> byRank(n)]
    BY DEF ByRank
  <2> HIDE DEF byOrder, byRank
  <2> QED
    BY <2>2, <2>3, <2>4
<1> DEFINE list == Sorted(ms)
<1>4. /\ N \in Nat /\ list \in [1 .. N -> ms]
      /\ \A m, n \in 1 .. N : m < n => <<list[m], list[n]>> \in R
      /\ \A x \in ms : \E n \in 1 .. N : list[n] = x
  BY <1>1, <1>2, <1>3, RankListing
<1> HIDE DEF list, N
<1>5. list \in Seq(ms) /\ DOMAIN list = 1 .. N
  BY <1>4
<1>6. ASSUME NEW j \in 1 .. N, NEW k \in 1 .. N, j < k PROVE list[j].start <= list[k].start
  <2>1. Before(list[j], list[k]) /\ list[j] \in ms /\ list[k] \in ms
    BY <1>4, <1>6 DEF BeforeIn
  <2>2. list[j].start \in Int /\ list[k].start \in Int
    BY <1>0a, <2>1, HitFields
  <2> QED
    BY <2>1, <2>2 DEF Before
<1> QED
  BY <1>4, <1>5, <1>6 DEF list

\* A nonempty set of matches has a preferred member.
LEMMA PreferredExists ==
  ASSUME NEW L, NEW rules, NEW ms, Detected(ms, L, rules), ms # {}
  PROVE  \E m \in ms : \A o \in ms \ {m} : Preferred(m, o)
<1> DEFINE N == Cardinality(ms)
           R == PreferredIn(ms)
           list == ByRank(ms, R)
<1>0a. L \in Nat /\ IsFiniteSet(rules) /\ rules \subseteq Nat /\ ms \subseteq Hits(L, rules)
  BY DEF Detected
<1>1. IsFiniteSet(ms)
  BY <1>0a, HitsFinite, FS_Subset
<1>2. StrictlyOrders(R, ms)
  BY <1>0a, PreferredOrders
<1>3. /\ N \in Nat /\ list \in [1 .. N -> ms]
      /\ \A m, n \in 1 .. N : m < n => <<list[m], list[n]>> \in R
      /\ \A x \in ms : \E n \in 1 .. N : list[n] = x
  BY <1>1, <1>2, RankListing
<1> HIDE DEF list, N
<1>0. N # 0
  BY <1>1, FS_EmptySet DEF N
<1>4. 1 \in 1 .. N /\ list[1] \in ms
  BY <1>0, <1>3
<1>5. ASSUME NEW o \in ms, o # list[1] PROVE Preferred(list[1], o)
  <2>1. PICK n \in 1 .. N : list[n] = o
    BY <1>3
  <2>2. <<list[1], list[n]>> \in R
    BY <1>3, <1>4, <1>5, <2>1
  <2> QED
    BY <2>1, <2>2 DEF PreferredIn
<1> QED
  BY <1>4, <1>5

-----------------------------------------------------------------------------
(* Overlapping matches are coalesced.                                       *)

RunsOver(L, rules) ==
    {r \in [start : 0 .. L, end : 0 .. L, members : (SUBSET Hits(L, rules)) \ {{}}] : r.start < r.end}

\* Spans from left to right, none of which overlap.
Apart(spans) == \A i, j \in DOMAIN spans : i < j => spans[i].end <= spans[j].start

\* One of the spans has p in it.
Holds(spans, p) == \E j \in DOMAIN spans : spans[j].start <= p /\ p < spans[j].end

LEMMA RunFields ==
  ASSUME NEW L \in Nat, NEW rules
  PROVE  /\ \A r \in RunsOver(L, rules) :
               /\ r.start \in 0 .. L /\ r.end \in 0 .. L /\ r.start < r.end
               /\ r.members \subseteq Hits(L, rules) /\ r.members # {}
         /\ \A i, j \in 0 .. L : \A ms \in SUBSET Hits(L, rules) :
               i < j /\ ms # {} => [start |-> i, end |-> j, members |-> ms] \in RunsOver(L, rules)
  BY DEF RunsOver

\* The two cases of a sweep.
LEMMA SweepCases ==
  ASSUME NEW L \in Nat, NEW rules, NEW runs \in Seq(RunsOver(L, rules)), NEW m \in Hits(L, rules)
  PROVE  /\ Sweep(runs, m) \in Seq(RunsOver(L, rules))
         /\ \/ /\ runs # <<>> /\ m.start < runs[Len(runs)].end
               /\ Len(Sweep(runs, m)) = Len(runs)
               /\ \A j \in 1 .. Len(runs) - 1 : Sweep(runs, m)[j] = runs[j]
               /\ Sweep(runs, m)[Len(runs)].start = runs[Len(runs)].start
               /\ Sweep(runs, m)[Len(runs)].end
                     = IF m.end > runs[Len(runs)].end THEN m.end ELSE runs[Len(runs)].end
            \/ /\ runs # <<>> => runs[Len(runs)].end <= m.start
               /\ Len(Sweep(runs, m)) = Len(runs) + 1
               /\ \A j \in 1 .. Len(runs) : Sweep(runs, m)[j] = runs[j]
               /\ Sweep(runs, m)[Len(runs) + 1].start = m.start
               /\ Sweep(runs, m)[Len(runs) + 1].end = m.end
<1> DEFINE V == RunsOver(L, rules)
           n == Len(runs)
<1>1. n \in Nat /\ (runs # <<>> => n \in 1 .. n /\ runs[n] \in V) /\ \A j \in 1 .. n : runs[j] \in V
  OBVIOUS
<1>2. m.start \in 0 .. L /\ m.end \in 0 .. L /\ m.start < m.end
  BY HitFields
<1>3. CASE runs # <<>> /\ m.start < runs[n].end
  <2> DEFINE last == runs[n]
             new == [start |-> last.start, members |-> last.members \cup {m},
                     end |-> IF m.end > last.end THEN m.end ELSE last.end]
  <2>1. last.start \in 0 .. L /\ last.end \in 0 .. L /\ last.start < last.end /\ last.members \subseteq Hits(L, rules)
    BY <1>1, <1>3, RunFields
  <2>2. new.end \in 0 .. L /\ last.start < new.end
    BY <1>2, <2>1
  <2>3. new \in V
    <3>1. last.members \cup {m} \in SUBSET Hits(L, rules) /\ last.members \cup {m} # {}
      BY <2>1
    <3>2. new = [start |-> last.start, end |-> new.end, members |-> last.members \cup {m}]
      OBVIOUS
    <3> HIDE DEF new, last
    <3> QED
      BY <2>1, <2>2, <3>1, <3>2, RunFields
  <2>4. Sweep(runs, m) = [runs EXCEPT ![n] = new]
    BY <1>3 DEF Sweep
  <2> HIDE DEF V
  <2>5. new.start = last.start /\ new.end = IF m.end > last.end THEN m.end ELSE last.end
    OBVIOUS
  <2> HIDE DEF new
  <2>6. [runs EXCEPT ![n] = new] \in Seq(V) /\ Len([runs EXCEPT ![n] = new]) = n
        /\ (\A j \in 1 .. n - 1 : [runs EXCEPT ![n] = new][j] = runs[j])
        /\ [runs EXCEPT ![n] = new][n] = new
    BY <1>1, <1>3, <2>3
  <2> QED
    BY <1>3, <2>4, <2>5, <2>6 DEF V
<1>4. CASE ~ (runs # <<>> /\ m.start < runs[n].end)
  <2> DEFINE new == [start |-> m.start, end |-> m.end, members |-> {m}]
  <2>1. new \in V
    BY <1>2, RunFields
  <2>2. Sweep(runs, m) = Append(runs, new)
    BY <1>4 DEF Sweep
  <2>3. runs # <<>> => runs[n].end <= m.start
    <3>1. runs # <<>> => runs[n].end \in Int
      BY <1>1, RunFields
    <3> HIDE DEF V, n
    <3> QED
      BY <1>2, <1>4, <3>1
  <2>4. new.start = m.start /\ new.end = m.end
    OBVIOUS
  <2> HIDE DEF new, V
  <2>5. /\ Append(runs, new) \in Seq(V) /\ Len(Append(runs, new)) = n + 1
        /\ \A j \in 1 .. n : Append(runs, new)[j] = runs[j]
        /\ Append(runs, new)[n + 1] = new
    BY <2>1, AppendProperties DEF V
  <2> QED
    BY <2>2, <2>3, <2>4, <2>5 DEF V
<1> QED
  BY <1>3, <1>4

\* A sweep keeps the runs apart and covers what they and the match covered.
LEMMA SweepStep ==
  ASSUME NEW L \in Nat, NEW rules, NEW runs \in Seq(RunsOver(L, rules)), NEW m \in Hits(L, rules),
         Apart(runs), \A j \in DOMAIN runs : runs[j].start <= m.start
  PROVE  /\ Apart(Sweep(runs, m))
         /\ \A j \in DOMAIN Sweep(runs, m) : Sweep(runs, m)[j].start <= m.start
         /\ \A p \in Int : Holds(Sweep(runs, m), p) <=> Holds(runs, p) \/ (m.start <= p /\ p < m.end)
<1> DEFINE n == Len(runs)
           new == Sweep(runs, m)
<1>1. /\ n \in Nat /\ DOMAIN runs = 1 .. n /\ (runs # <<>> => n # 0)
      /\ \A j \in 1 .. n : runs[j].start \in Int /\ runs[j].end \in Int /\ runs[j].start < runs[j].end
  <2>1. n \in Nat /\ DOMAIN runs = 1 .. n /\ (runs # <<>> => n # 0) /\ \A j \in 1 .. n : runs[j] \in RunsOver(L, rules)
    OBVIOUS
  <2> QED
    BY <2>1, RunFields
<1>2. m.start \in Int /\ m.end \in Int /\ m.start < m.end
  BY HitFields
<1>3. new \in Seq(RunsOver(L, rules)) /\ DOMAIN new = 1 .. Len(new)
  BY SweepCases
<1>4. CASE /\ runs # <<>> /\ m.start < runs[n].end
           /\ Len(new) = n
           /\ \A j \in 1 .. n - 1 : new[j] = runs[j]
           /\ new[n].start = runs[n].start
           /\ new[n].end = IF m.end > runs[n].end THEN m.end ELSE runs[n].end
  <2>1. n \in 1 .. n /\ DOMAIN new = 1 .. n
    BY <1>1, <1>3, <1>4
  <2> HIDE DEF new, n
  <2>2. Apart(new)
    BY <1>1, <1>4, <2>1 DEF Apart
  <2>3. \A j \in DOMAIN new : new[j].start <= m.start
    BY <1>1, <1>4, <2>1
  <2>4. ASSUME NEW p \in Int PROVE Holds(new, p) <=> Holds(runs, p) \/ (m.start <= p /\ p < m.end)
    <3>1. ASSUME NEW j \in 1 .. n, new[j].start <= p, p < new[j].end
          PROVE  Holds(runs, p) \/ (m.start <= p /\ p < m.end)
      <4>1. CASE j = n
        BY <1>1, <1>2, <1>4, <2>1, <3>1, <4>1 DEF Holds
      <4>2. CASE j # n
        BY <1>1, <1>4, <3>1, <4>2 DEF Holds
      <4> QED
        BY <4>1, <4>2
    <3>2. ASSUME NEW j \in 1 .. n, runs[j].start <= p, p < runs[j].end PROVE Holds(new, p)
      <4>1. new[j].start <= p /\ p < new[j].end
        BY <1>1, <1>2, <1>4, <2>1, <3>2
      <4> QED
        BY <2>1, <4>1 DEF Holds
    <3>3. ASSUME m.start <= p, p < m.end PROVE Holds(new, p)
      <4>1. runs[n].start <= m.start
        BY <1>1, <2>1
      <4>2. new[n].start <= p /\ p < new[n].end
        BY <1>1, <1>2, <1>4, <2>1, <3>3, <4>1
      <4> QED
        BY <2>1, <4>2 DEF Holds
    <3> QED
      BY <1>1, <2>1, <3>1, <3>2, <3>3 DEF Holds
  <2> QED
    BY <2>2, <2>3, <2>4 DEF new
<1>5. CASE /\ runs # <<>> => runs[n].end <= m.start
           /\ Len(new) = n + 1
           /\ \A j \in 1 .. n : new[j] = runs[j]
           /\ new[n + 1].start = m.start
           /\ new[n + 1].end = m.end
  <2>1. n + 1 \in 1 .. n + 1 /\ DOMAIN new = 1 .. n + 1 /\ \A j \in 1 .. n : runs # <<>> /\ n \in 1 .. n
    BY <1>1, <1>3, <1>5
  <2> HIDE DEF new, n
  <2>2. \A j \in 1 .. n : runs[j].end <= m.start
    <3>1. ASSUME NEW j \in 1 .. n PROVE runs[j].end <= m.start
      <4>1. j = n \/ runs[j].end <= runs[n].start
        BY <1>1, <2>1 DEF Apart
      <4> QED
        BY <1>1, <1>2, <1>5, <2>1, <4>1
    <3> QED
      BY <3>1
  <2>3. Apart(new)
    BY <1>1, <1>2, <1>5, <2>1, <2>2 DEF Apart
  <2>4. \A j \in DOMAIN new : new[j].start <= m.start
    BY <1>1, <1>2, <1>5, <2>1
  <2>5. ASSUME NEW p \in Int PROVE Holds(new, p) <=> Holds(runs, p) \/ (m.start <= p /\ p < m.end)
    <3>1. ASSUME NEW j \in 1 .. n + 1, new[j].start <= p, p < new[j].end
          PROVE  Holds(runs, p) \/ (m.start <= p /\ p < m.end)
      <4>1. CASE j = n + 1
        BY <1>5, <3>1, <4>1
      <4>2. CASE j # n + 1
        <5>1. j \in 1 .. n
          BY <1>1, <4>2
        <5>2. runs[j].start <= p /\ p < runs[j].end
          BY <1>5, <3>1, <5>1
        <5> QED
          BY <1>1, <5>1, <5>2 DEF Holds
      <4> QED
        BY <4>1, <4>2
    <3>2. ASSUME NEW j \in 1 .. n, runs[j].start <= p, p < runs[j].end PROVE Holds(new, p)
      <4>1. j \in 1 .. n + 1 /\ new[j].start <= p /\ p < new[j].end
        BY <1>1, <1>5, <3>2
      <4> QED
        BY <2>1, <4>1 DEF Holds
    <3>3. ASSUME m.start <= p, p < m.end PROVE Holds(new, p)
      BY <1>5, <2>1, <3>3 DEF Holds
    <3> QED
      BY <1>1, <2>1, <3>1, <3>2, <3>3 DEF Holds
  <2> QED
    BY <2>3, <2>4, <2>5 DEF new
<1> QED
  BY <1>4, <1>5, SweepCases

\* The runs of sorted matches.
LEMMA RunsOfSorted ==
  ASSUME NEW L \in Nat, NEW rules, NEW sorted \in Seq(Hits(L, rules)),
         \A j, k \in DOMAIN sorted : j < k => sorted[j].start <= sorted[k].start
  PROVE  /\ Runs(sorted) \in Seq(RunsOver(L, rules))
         /\ Apart(Runs(sorted))
         /\ \A p \in Int : Holds(Runs(sorted), p) <=> Holds(sorted, p)
<1> DEFINE N == Len(sorted)
           V == Seq(RunsOver(L, rules))
           step == [q \in V \X (1 .. N) |-> Sweep(q[1], sorted[q[2]])]
<1>1. N \in Nat /\ DOMAIN sorted = 1 .. N /\ \A k \in 1 .. N : sorted[k] \in Hits(L, rules)
  OBVIOUS
<1>2. \A runs \in V : \A k \in 1 .. N : Sweep(runs, sorted[k]) \in V
  BY <1>1, SweepCases
<1>3. PICK f \in [0 .. N -> V] : f[0] = <<>> /\ \A k \in 1 .. N : f[k] = Sweep(f[k - 1], sorted[k])
  <2>1. step \in [V \X (1 .. N) -> V]
    BY <1>2
  <2>2. <<>> \in V
    OBVIOUS
  <2>3. ASSUME NEW f \in [0 .. N -> V], NEW k \in 1 .. N
        PROVE  step[<<f[k - 1], k>>] = Sweep(f[k - 1], sorted[k])
    <3> HIDE DEF V, N
    <3>1. k - 1 \in 0 .. N
      BY <1>1
    <3>2. <<f[k - 1], k>> \in V \X (1 .. N)
      BY <3>1
    <3> QED
      BY <3>2
  <2> HIDE DEF step, V, N
  <2>4. IndexDefinition(step, N, V, <<>>)
    BY <1>1, <2>1, <2>2 DEF IndexDefinition
  <2>5. PICK f \in [0 .. N -> V] : f[0] = <<>> /\ \A k \in 1 .. N : f[k] = step[<<f[k - 1], k>>]
    BY <2>4, IndexRecursion
  <2> QED
    BY <2>3, <2>5
<1>4. f = [k \in 0 .. N |-> IF k = 0 THEN <<>> ELSE Sweep(f[k - 1], sorted[k])]
  <2> HIDE DEF V, N
  <2>1. f = [k \in 0 .. N |-> f[k]]
    BY <1>3
  <2>2. \A k \in 0 .. N : f[k] = IF k = 0 THEN <<>> ELSE Sweep(f[k - 1], sorted[k])
    BY <1>1, <1>3
  <2> QED
    BY <2>1, <2>2
<1> DEFINE g == CHOOSE h : h = [k \in 0 .. N |-> IF k = 0 THEN <<>> ELSE Sweep(h[k - 1], sorted[k])]
<1>5. g = [k \in 0 .. N |-> IF k = 0 THEN <<>> ELSE Sweep(g[k - 1], sorted[k])]
  BY <1>4
<1>6. Runs(sorted) = g[N]
  BY DEF Runs
<1> HIDE DEF g, N, V
<1>7. g[0] = <<>> /\ \A k \in 1 .. N : g[k] = Sweep(g[k - 1], sorted[k])
  BY <1>1, <1>5
\* The runs after k matches.
<1> DEFINE Good(k) ==
             /\ g[k] \in V /\ Apart(g[k])
             /\ \A i \in DOMAIN g[k] : \A j \in k + 1 .. N : g[k][i].start <= sorted[j].start
             /\ \A p \in Int : Holds(g[k], p) <=> \E j \in 1 .. k : sorted[j].start <= p /\ p < sorted[j].end
           S == {k \in 0 .. N : Good(k)}
<1>8. 0 \in S
  <2>1. g[0] \in V /\ DOMAIN g[0] = {} /\ 0 \in 0 .. N
    BY <1>1, <1>7 DEF V
  <2> QED
    BY <2>1 DEF Apart, Holds
<1>9. ASSUME NEW k \in 1 .. N, k - 1 \in S PROVE k \in S
  <2> DEFINE old == g[k - 1]
             m == sorted[k]
  <2>1. old \in V /\ Apart(old) /\ m \in Hits(L, rules) /\ g[k] = Sweep(old, m) /\ Good(k - 1)
    BY <1>1, <1>7, <1>9
  <2>2. \A i \in DOMAIN old : old[i].start <= m.start
    BY <1>1, <1>9
  <2>3. /\ Sweep(old, m) \in V
        /\ Apart(Sweep(old, m))
        /\ \A j \in DOMAIN Sweep(old, m) : Sweep(old, m)[j].start <= m.start
        /\ \A p \in Int : Holds(Sweep(old, m), p) <=> Holds(old, p) \/ (m.start <= p /\ p < m.end)
    <3> HIDE DEF old, m
    <3> QED
      BY <2>1, <2>2, SweepCases, SweepStep DEF V
  <2>4. ASSUME NEW i \in DOMAIN g[k], NEW j \in k + 1 .. N PROVE g[k][i].start <= sorted[j].start
    <3>1. g[k][i].start <= m.start /\ g[k][i] \in RunsOver(L, rules)
      BY <2>1, <2>3 DEF V
    <3>2. m.start <= sorted[j].start /\ j \in 1 .. N
      BY <1>1
    <3>3. g[k][i].start \in Int /\ m.start \in Int /\ sorted[j].start \in Int
      BY <1>1, <3>1, <3>2, HitFields, RunFields
    <3> QED
      BY <3>1, <3>2, <3>3
  <2>5. ASSUME NEW p \in Int
        PROVE  Holds(g[k], p) <=> \E j \in 1 .. k : sorted[j].start <= p /\ p < sorted[j].end
    <3>1. Holds(g[k], p) <=> Holds(old, p) \/ (m.start <= p /\ p < m.end)
      BY <2>1, <2>3
    <3>2. Holds(old, p) <=> \E j \in 1 .. k - 1 : sorted[j].start <= p /\ p < sorted[j].end
      BY <2>1
    <3>3. \A j : j \in 1 .. k <=> j \in 1 .. k - 1 \/ j = k
      BY <1>1
    <3> HIDE DEF old, Good, S
    <3> QED
      BY <3>1, <3>2, <3>3
  <2> HIDE DEF old, m
  <2> QED
    BY <2>1, <2>3, <2>4, <2>5
<1> HIDE DEF S
<1>10. Good(N)
  <2>1. 0 .. N \subseteq S
    BY <1>1, <1>8, <1>9, IndexInduction
  <2>2. N \in S
    BY <1>1, <2>1
  <2> QED
    BY <2>2 DEF S
<1> QED
  BY <1>1, <1>6, <1>10 DEF V, Holds

\* Conflicts are resolved into spans that are apart and cover what the matches
\* cover.
LEMMA Resolved ==
  ASSUME NEW L, NEW rules, NEW ms, Detected(ms, L, rules)
  PROVE  /\ ResolveConflicts(ms) \in Seq(Hits(L, rules))
         /\ Apart(ResolveConflicts(ms))
         /\ \A p \in Int : Holds(ResolveConflicts(ms), p) <=> p \in Covered(ms)
<1> DEFINE sorted == Sorted(ms)
           runs == Runs(sorted)
           spans == ResolveConflicts(ms)
<1>0a. L \in Nat /\ IsFiniteSet(rules) /\ rules \subseteq Nat /\ ms \subseteq Hits(L, rules)
  BY DEF Detected
<1>1. /\ sorted \in Seq(ms)
      /\ \A j, k \in DOMAIN sorted : j < k => sorted[j].start <= sorted[k].start
      /\ \A m \in ms : \E k \in DOMAIN sorted : sorted[k] = m
  BY SortedMatches
<1>2. sorted \in Seq(Hits(L, rules)) /\ \A k \in DOMAIN sorted : sorted[k] \in ms
  BY <1>0a, <1>1
<1>3. \A p \in Int : Holds(sorted, p) <=> p \in Covered(ms)
  <2>1. SUFFICES ASSUME NEW p \in Int PROVE Holds(sorted, p) <=> \E m \in ms : p \in m.start .. m.end - 1
    BY DEF Covered
  <2>2. \A m \in ms : m.start \in Int /\ m.end \in Int
    BY <1>0a, HitFields
  <2>3. \A m \in ms : (m.start <= p /\ p < m.end) <=> p \in m.start .. m.end - 1
    BY <2>2
  <2> QED
    BY <1>1, <1>2, <2>3 DEF Holds
<1> HIDE DEF sorted
<1>4. /\ runs \in Seq(RunsOver(L, rules)) /\ Apart(runs)
      /\ \A p \in Int : Holds(runs, p) <=> Holds(sorted, p)
  BY <1>0a, <1>1, <1>2, RunsOfSorted
<1>5. spans = [k \in DOMAIN runs |-> Coalesce(runs[k])]
  BY DEF ResolveConflicts, sorted
<1> HIDE DEF runs, spans
<1>6. ASSUME NEW r \in RunsOver(L, rules)
      PROVE  Coalesce(r) \in Hits(L, rules) /\ Coalesce(r).start = r.start /\ Coalesce(r).end = r.end
  <2> DEFINE best == CHOOSE m \in r.members : \A o \in r.members \ {m} : Preferred(m, o)
  <2>1. r.members \subseteq Hits(L, rules) /\ r.members # {}
    BY <1>0a, RunFields
  <2>1a. Detected(r.members, L, rules)
    BY <1>0a, <2>1 DEF Detected
  <2>2. best \in r.members
    <3>1. \E m \in r.members : \A o \in r.members \ {m} : Preferred(m, o)
      BY <2>1, <2>1a, PreferredExists
    <3> QED
      BY <3>1
  <2> HIDE DEF best
  <2>3. best.rule \in rules
    BY <1>0a, <2>1, <2>2, HitFields
  <2>4. Coalesce(r) = [start |-> r.start, end |-> r.end, rule |-> best.rule]
    BY DEF Coalesce, best
  <2>5. r.start \in 0 .. L /\ r.end \in 0 .. L /\ r.start < r.end
    BY <1>0a, RunFields
  <2> QED
    BY <1>0a, <2>3, <2>4, <2>5, HitFields
<1>7. Len(runs) \in Nat /\ DOMAIN runs = 1 .. Len(runs) /\ \A k \in DOMAIN runs : runs[k] \in RunsOver(L, rules)
  BY <1>4
<1>8. DOMAIN spans = DOMAIN runs /\ \A k \in DOMAIN runs :
         spans[k] \in Hits(L, rules) /\ spans[k].start = runs[k].start /\ spans[k].end = runs[k].end
  BY <1>5, <1>6, <1>7
<1>9. spans \in Seq(Hits(L, rules))
  BY <1>5, <1>7, <1>8
<1>10. Apart(spans)
  BY <1>4, <1>8 DEF Apart
<1>11. \A p \in Int : Holds(spans, p) <=> Holds(runs, p)
  BY <1>8 DEF Holds
<1> QED
  BY <1>3, <1>4, <1>9, <1>10, <1>11 DEF spans

-----------------------------------------------------------------------------
(* What a state holds.                                                      *)

RulebookOK ==
    /\ IsFiniteSet(Rules) /\ Rules \subseteq Nat
    /\ \A r \in Rules : rulebook[r] \in Rule

\* No match is lost to the pre-filter.
LEMMA ScanKeepsMatches ==
  ASSUME RulebookOK, NEW text \in Seq(Atoms), NEW rules, rules \subseteq Rules,
         NEW hits, hits \subseteq Matches(text, rules)
  PROVE  ScanRules(text, hits) = ResolveConflicts(hits)
<1>1. ASSUME NEW m \in hits PROVE KeptByKeywords(text, rulebook[m.rule])
  <2>1. m.rule \in Rules /\ Accepted(text)[rulebook[m.rule].regex] # {}
    BY DEF Matches
  <2> DEFINE rule == rulebook[m.rule]
  <2>2. rule.regex \in Regexes /\ rule.keywords \in SUBSET Seq(Atoms)
    BY <2>1 DEF RulebookOK, Rule
  <2>3. \A kw \in rule.keywords : Len(kw) \in Nat /\ DOMAIN kw = 1 .. Len(kw)
    BY <2>2
  <2>4. Len(text) \in Nat /\ DOMAIN text = 1 .. Len(text)
    OBVIOUS
  <2> HIDE DEF rule
  <2>5. KeptByKeywords(text, rule)
    BY <2>1, <2>2, <2>3, <2>4, PrefilterLosesNothing DEF rule
  <2> QED
    BY <2>5 DEF rule
<1>2. {m \in hits : prefilter => KeptByKeywords(text, rulebook[m.rule])} = hits
  BY <1>1
<1> QED
  BY <1>2 DEF ScanRules

-----------------------------------------------------------------------------
(* Numbering.                                                               *)

RequestOK == request \in Seq(Seq(Atoms))

Replacement == [rule : Rules, original : Seq(Atoms), type : Types, n : Nat]

\* Replacements are numbered up to the counters, around the client's tokens,
\* and no two share an original or a placeholder.
Numbered(rp, used) ==
    /\ \A k \in DOMAIN rp : rp[k].n <= used[rp[k].type] /\ Placeholder(rp[k]) \notin Reserved
    /\ \A j, k \in DOMAIN rp : j # k =>
          /\ rp[j].original # rp[k].original
          /\ Placeholder(rp[j]) # Placeholder(rp[k])

Grows(rp, more) ==
    /\ DOMAIN rp \subseteq DOMAIN more
    /\ \A k \in DOMAIN rp : more[k] = rp[k]

LEMMA ValuesFinite ==
  ASSUME NEW S, IsFiniteSet(S), NEW f
  PROVE  IsFiniteSet({f[k] : k \in S})
<1> DEFINE T == {f[k] : k \in S}
           g == [k \in S |-> f[k]]
<1>1. g \in Surjection(S, T)
  BY DEF Surjection
<1> QED
  BY <1>1, FS_Surjection

LEMMA ReservedFinite ==
  ASSUME RequestOK
  PROVE  IsFiniteSet(Reserved)
<1> DEFINE atoms == [i \in Texts |-> {request[i][k] : k \in DOMAIN request[i]}]
           All == {atoms[i] : i \in Texts}
<1>1. IsFiniteSet(Texts)
  <2>1. Texts = 1 .. Len(request) /\ Len(request) \in Nat
    BY DEF Texts, RequestOK
  <2> QED
    BY <2>1, FS_Interval
<1>2. ASSUME NEW i \in Texts PROVE IsFiniteSet(atoms[i])
  <2>1. DOMAIN request[i] = 1 .. Len(request[i]) /\ Len(request[i]) \in Nat
    BY DEF Texts, RequestOK
  <2>2. IsFiniteSet(DOMAIN request[i])
    BY <2>1, FS_Interval
  <2> DEFINE text == request[i]
  <2> HIDE DEF text
  <2>3. IsFiniteSet({text[k] : k \in DOMAIN text})
    BY <2>2, ValuesFinite DEF text
  <2> QED
    BY <2>3 DEF text
<1> HIDE DEF atoms
<1>3. IsFiniteSet(All)
  BY <1>1, ValuesFinite
<1>4. IsFiniteSet(UNION All)
  BY <1>2, <1>3, FS_UNION
<1>5. Reserved \in SUBSET UNION All
  BY DEF Reserved, atoms
<1> HIDE DEF All
<1> QED
  BY <1>4, <1>5, FS_Subset

\* There is a next index whose token the client does not use.
LEMMA NextIndexFree ==
  ASSUME RequestOK, NEW type, NEW used, used[type] \in Nat
  PROVE  /\ NextIndex(type, used) \in Nat
         /\ NextIndex(type, used) > used[type]
         /\ Exact(type, NextIndex(type, used)) \notin Reserved
<1> DEFINE c == used[type]
           K == Cardinality(Reserved)
           I == c + 1 .. c + 1 + K
           f == [n \in I |-> Exact(type, n)]
           T == {n \in I : Exact(type, n) \notin Reserved}
<1>1. IsFiniteSet(Reserved) /\ K \in Nat
  BY ReservedFinite, FS_CardinalityType
<1> HIDE DEF K
<1>2. IsFiniteSet(I) /\ Cardinality(I) = K + 1
  <2>1. c + 1 \in Int /\ c + 1 + K \in Int /\ ~ (c + 1 > c + 1 + K) /\ (c + 1 + K) - (c + 1) + 1 = K + 1
    BY <1>1
  <2> QED
    BY <2>1, FS_Interval
<1>3. T # {}
  <2> SUFFICES ASSUME \A n \in I : Exact(type, n) \in Reserved PROVE FALSE
    OBVIOUS
  <2>1. f \in [I -> Reserved]
    OBVIOUS
  <2>2. \A a, b \in I : f[a] = f[b] => a = b
    BY DEF Exact
  <2> HIDE DEF f, I
  <2>3. Cardinality(Reserved) < Cardinality(I)
    BY <1>1, <1>2 DEF K
  <2> QED
    BY <1>1, <1>2, <2>1, <2>2, <2>3, FS_PigeonHole
<1>4. PICK x \in T : \A y \in T : x <= y
  <2>1. T \in SUBSET Nat
    BY <1>1
  <2> HIDE DEF T
  <2> QED
    BY <1>3, <2>1, NatMinimum
<1>5. x \in I /\ Exact(type, x) \notin Reserved /\ \A m \in c + 1 .. x - 1 : Exact(type, m) \in Reserved
  BY <1>1, <1>4
<1>6. NextIndex(type, used) \in I /\ Exact(type, NextIndex(type, used)) \notin Reserved
  <2>1. NextIndex(type, used) = CHOOSE n \in I :
           Exact(type, n) \notin Reserved /\ \A m \in c + 1 .. n - 1 : Exact(type, m) \in Reserved
    BY DEF NextIndex, K
  <2> HIDE DEF I, T
  <2> QED
    BY <1>5, <2>1
<1> QED
  BY <1>1, <1>6

-----------------------------------------------------------------------------
(* Masking a text.                                                          *)

Maskers(text) ==
    [reps : Seq(Replacement), counters : [Types -> Nat], seen : SUBSET Rules,
     out : Seq(Atoms), kept : SUBSET Int, pos : 0 .. Len(text)]

LEMMA SliceOK ==
  ASSUME NEW text \in Seq(Atoms), NEW i \in 0 .. Len(text), NEW j \in 0 .. Len(text)
  PROVE  /\ Slice(text, i, j) \in Seq(Atoms)
         /\ i <= j => Len(Slice(text, i, j)) = j - i
         /\ \A k \in 1 .. j - i : Slice(text, i, j)[k] = text[i + k]
<1>1. i \in Int /\ j \in Int /\ i + 1 \in Int /\ \A k \in i + 1 .. j : text[k] \in Atoms
  OBVIOUS
<1>2. /\ SubSeq(text, i + 1, j) \in Seq(Atoms)
      /\ Len(SubSeq(text, i + 1, j)) = IF i + 1 <= j THEN j - (i + 1) + 1 ELSE 0
      /\ \A k \in 1 .. j - (i + 1) + 1 : SubSeq(text, i + 1, j)[k] = text[(i + 1) + k - 1]
  BY <1>1, SubSeqProperties
<1>3. \A k \in Int : (i + 1) + k - 1 = i + k
  OBVIOUS
<1>4. j - (i + 1) + 1 = j - i /\ (i <= j => (IF i + 1 <= j THEN j - (i + 1) + 1 ELSE 0) = j - i)
  OBVIOUS
<1> DEFINE slice == SubSeq(text, i + 1, j)
<1>5. Slice(text, i, j) = slice
  BY DEF Slice
<1>6. slice \in Seq(Atoms) /\ (i <= j => Len(slice) = j - i)
  BY <1>2, <1>4
<1>7. ASSUME NEW k \in 1 .. j - i PROVE slice[k] = text[i + k]
  <2>1. k \in 1 .. j - (i + 1) + 1 /\ k \in Int
    BY <1>4
  <2>2. slice[k] = text[(i + 1) + k - 1]
    BY <1>2, <2>1
  <2> QED
    BY <1>3, <2>1, <2>2
<1> HIDE DEF slice
<1> QED
  BY <1>5, <1>6, <1>7

LEMMA PlaceholderIsAtom ==
  ASSUME RulebookOK, NEW rep \in Replacement
  PROVE  Placeholder(rep) \in Atoms
<1>1. rep.type \in Types /\ rep.n \in Nat
  BY DEF Replacement
<1>2. rep.type \in STRING
  BY <1>1 DEF Types, RulebookOK, Rule
<1> QED
  BY <1>1, <1>2 DEF Placeholder, Exact, Atoms

\* What one replacement does.
Replaced(acc, new, text, m) ==
    /\ new \in Maskers(text)
    /\ new.pos = m.end /\ new.kept = acc.kept \cup acc.pos .. m.start - 1
    /\ Grows(acc.reps, new.reps)
    /\ \E k \in DOMAIN new.reps :
          /\ new.reps[k].original = Slice(text, m.start, m.end)
          /\ new.out = acc.out \o Slice(text, acc.pos, m.start) \o <<Placeholder(new.reps[k])>>
    /\ Numbered(acc.reps, acc.counters) => Numbered(new.reps, new.counters)

LEMMA ReplaceStep ==
  ASSUME RulebookOK, RequestOK, NEW text \in Seq(Atoms), NEW acc \in Maskers(text),
         NEW m \in Hits(Len(text), Rules), acc.pos <= m.start
  PROVE  Replaced(acc, Replace(acc, text, m), text, m)
<1> DEFINE original == Slice(text, m.start, m.end)
           type == rulebook[m.rule].type
           known == Known(acc.reps, original)
           n == NextIndex(type, acc.counters)
           fresh == [rule |-> m.rule, original |-> original, type |-> type, n |-> n]
           k == IF known = {} THEN Len(acc.reps) + 1 ELSE CHOOSE j \in known : TRUE
           more == IF known = {} THEN Append(acc.reps, fresh) ELSE acc.reps
           used == IF known = {} THEN [acc.counters EXCEPT ![type] = n] ELSE acc.counters
           out == acc.out \o Slice(text, acc.pos, m.start) \o <<Placeholder(more[k])>>
           new == Replace(acc, text, m)
<1>1. /\ acc.reps \in Seq(Replacement) /\ acc.counters \in [Types -> Nat] /\ acc.seen \in SUBSET Rules
      /\ acc.out \in Seq(Atoms) /\ acc.kept \in SUBSET Int /\ acc.pos \in 0 .. Len(text)
  BY DEF Maskers
<1>2. /\ m.start \in 0 .. Len(text) /\ m.end \in 0 .. Len(text) /\ m.rule \in Rules /\ m.start < m.end
      /\ Len(text) \in Nat
  <2>1. Len(text) \in Nat
    OBVIOUS
  <2> QED
    BY <2>1, HitFields
<1>3. original \in Seq(Atoms) /\ type \in Types
  BY <1>2, SliceOK DEF Types
<1> HIDE DEF original, type
<1>4. n \in Nat /\ n > acc.counters[type] /\ Exact(type, n) \notin Reserved
  BY <1>1, <1>3, NextIndexFree
<1> HIDE DEF n
<1>5. fresh \in Replacement /\ fresh.original = original /\ fresh.type = type /\ fresh.n = n
  BY <1>2, <1>3, <1>4 DEF Replacement
<1> HIDE DEF fresh
<1>6. \A j \in known : j \in DOMAIN acc.reps /\ acc.reps[j].original = original
  BY DEF Known
<1>7. Len(acc.reps) \in Nat /\ DOMAIN acc.reps = 1 .. Len(acc.reps)
  BY <1>1
<1>8. /\ more \in Seq(Replacement) /\ k \in DOMAIN more /\ more[k].original = original
      /\ Grows(acc.reps, more) /\ used \in [Types -> Nat]
      /\ Numbered(acc.reps, acc.counters) => Numbered(more, used)
  <2>1. CASE known = {}
    <3>1. more = Append(acc.reps, fresh) /\ k = Len(acc.reps) + 1 /\ used = [acc.counters EXCEPT ![type] = n]
      BY <2>1
    <3>2. /\ more \in Seq(Replacement) /\ DOMAIN more = 1 .. Len(acc.reps) + 1
          /\ \A j \in DOMAIN acc.reps : more[j] = acc.reps[j]
          /\ more[k] = fresh
      BY <1>1, <1>5, <1>7, <3>1
    <3>3. used \in [Types -> Nat] /\ used[type] = n /\ \A t \in Types : used[t] >= acc.counters[t]
      BY <1>1, <1>3, <1>4, <3>1
    <3> HIDE DEF more, used, k
    <3>4. k \in DOMAIN more /\ DOMAIN acc.reps \subseteq DOMAIN more /\ \A j \in DOMAIN more : j = k \/ j \in DOMAIN acc.reps
      BY <1>7, <3>1, <3>2
    <3>5. \A j \in DOMAIN acc.reps : /\ acc.reps[j] \in Replacement /\ acc.reps[j].original # original
                                     /\ acc.reps[j].type \in Types /\ acc.reps[j].n \in Nat
      <4>1. \A j \in DOMAIN acc.reps : acc.reps[j] \in Replacement /\ acc.reps[j].original # original
        BY <1>1, <2>1 DEF Known
      <4> QED
        BY <4>1 DEF Replacement
    <3>6. ASSUME Numbered(acc.reps, acc.counters) PROVE Numbered(more, used)
      <4>1. \A j \in DOMAIN acc.reps : /\ acc.reps[j].n <= acc.counters[acc.reps[j].type]
                                       /\ Placeholder(acc.reps[j]) \notin Reserved
        BY <3>6 DEF Numbered
      <4>2. ASSUME NEW j \in DOMAIN more PROVE more[j].n <= used[more[j].type] /\ Placeholder(more[j]) \notin Reserved
        <5>1. CASE j = k
          BY <1>4, <1>5, <3>2, <3>3, <5>1 DEF Placeholder
        <5>2. CASE j \in DOMAIN acc.reps
          <6>1. acc.counters[acc.reps[j].type] \in Nat /\ used[acc.reps[j].type] \in Nat
            BY <1>1, <3>3, <3>5, <5>2
          <6> QED
            BY <3>2, <3>3, <3>5, <4>1, <5>2, <6>1
        <5> QED
          BY <3>4, <5>1, <5>2
      <4>3. ASSUME NEW j \in DOMAIN acc.reps
            PROVE  acc.reps[j].original # fresh.original /\ Placeholder(acc.reps[j]) # Placeholder(fresh)
        <5>1. acc.reps[j].type = type => acc.reps[j].n # n
          BY <1>1, <1>3, <1>4, <3>5, <4>1
        <5> QED
          BY <1>5, <3>5, <5>1 DEF Placeholder, Exact
      <4>4. ASSUME NEW i \in DOMAIN more, NEW j \in DOMAIN more, i # j
            PROVE  more[i].original # more[j].original /\ Placeholder(more[i]) # Placeholder(more[j])
        <5>1. CASE i \in DOMAIN acc.reps /\ j \in DOMAIN acc.reps
          BY <3>2, <3>6, <4>4, <5>1 DEF Numbered
        <5>2. CASE i = k /\ j \in DOMAIN acc.reps
          BY <3>2, <4>3, <5>2
        <5>3. CASE i \in DOMAIN acc.reps /\ j = k
          BY <3>2, <4>3, <5>3
        <5> QED
          BY <3>4, <4>4, <5>1, <5>2, <5>3
      <4> QED
        BY <4>2, <4>4 DEF Numbered
    <3> QED
      BY <1>5, <3>2, <3>3, <3>4, <3>6 DEF Grows
  <2>2. CASE known # {}
    <3>1. more = acc.reps /\ used = acc.counters /\ k \in known
      BY <2>2
    <3> HIDE DEF more, used, k, known
    <3> QED
      BY <1>1, <1>6, <3>1 DEF Grows
  <2> QED
    BY <2>1, <2>2
<1>9. new = [reps |-> more, counters |-> used, seen |-> acc.seen \cup {m.rule}, out |-> out,
             kept |-> acc.kept \cup acc.pos .. m.start - 1, pos |-> m.end]
  <2>1. acc = [reps |-> acc.reps, counters |-> acc.counters, seen |-> acc.seen, out |-> acc.out,
               kept |-> acc.kept, pos |-> acc.pos]
    BY DEF Maskers
  <2> DEFINE rep == IF known = {} THEN fresh ELSE acc.reps[CHOOSE j \in known : TRUE]
  <2>2. more[k] = rep
    <3>1. CASE known = {}
      <4>1. Append(acc.reps, fresh)[Len(acc.reps) + 1] = fresh
        BY <1>1, <1>5, AppendProperties
      <4> QED
        BY <3>1, <4>1
    <3>2. CASE known # {}
      BY <3>2
    <3> QED
      BY <3>1, <3>2
  <2>3. new = [acc EXCEPT !.reps = IF known = {} THEN Append(@, fresh) ELSE @,
                          !.counters = IF known = {} THEN [@ EXCEPT ![type] = n] ELSE @,
                          !.seen = @ \cup {m.rule},
                          !.out = @ \o Slice(text, acc.pos, m.start) \o <<Exact(rep.type, rep.n)>>,
                          !.kept = @ \cup acc.pos .. m.start - 1,
                          !.pos = m.end]
    BY DEF Replace, original, type, n, fresh
  <2> HIDE DEF known, rep, new
  <2> QED
    BY <2>1, <2>2, <2>3 DEF Placeholder
<1> HIDE DEF known, k, more, used, new
<1>10. more[k] \in Replacement
  BY <1>8
<1>11. Placeholder(more[k]) \in Atoms
  BY <1>10, PlaceholderIsAtom
<1>12. out \in Seq(Atoms)
  <2>1. Slice(text, acc.pos, m.start) \in Seq(Atoms)
    BY <1>1, <1>2, SliceOK
  <2> DEFINE slice == Slice(text, acc.pos, m.start)
             token == Placeholder(more[k])
  <2> HIDE DEF slice, token
  <2>2. acc.out \o slice \o <<token>> \in Seq(Atoms)
    BY <1>1, <1>11, <2>1 DEF slice, token
  <2> QED
    BY <2>2 DEF slice, token
<1>13. acc.kept \cup acc.pos .. m.start - 1 \in SUBSET Int /\ acc.seen \cup {m.rule} \in SUBSET Rules
  BY <1>1, <1>2
<1> HIDE DEF out
<1>14. new \in Maskers(text)
  BY <1>2, <1>8, <1>9, <1>12, <1>13 DEF Maskers
<1>15. /\ new.reps = more /\ new.counters = used /\ new.out = out /\ new.pos = m.end
       /\ new.kept = acc.kept \cup acc.pos .. m.start - 1
  BY <1>9
<1>16. Replaced(acc, new, text, m)
  BY <1>8, <1>14, <1>15 DEF Replaced, original, out
<1> QED
  BY <1>16 DEF new

\* The atom stands for the text from i to j: it is its only atom, or the
\* placeholder of it.
Piece(text, i, j, atom, rp) ==
    \/ j = i + 1 /\ atom = text[j]
    \/ i <= j /\ \E k \in DOMAIN rp : atom = Placeholder(rp[k]) /\ rp[k].original = Slice(text, i, j)

\* The atoms of out stand for pieces that make up the text up to pos.
StandsFor(out, text, pos, rp) ==
    \E cuts \in [0 .. Len(out) -> 0 .. Len(text)] :
        /\ cuts[0] = 0 /\ cuts[Len(out)] = pos
        /\ \A n \in 1 .. Len(out) : Piece(text, cuts[n - 1], cuts[n], out[n], rp)

LEMMA StandsForGrows ==
  ASSUME NEW out, NEW text, NEW pos, NEW rp, NEW more, StandsFor(out, text, pos, rp), Grows(rp, more)
  PROVE  StandsFor(out, text, pos, more)
<1>1. \A i, j, atom : Piece(text, i, j, atom, rp) => Piece(text, i, j, atom, more)
  BY DEF Piece, Grows
<1> QED
  BY <1>1 DEF StandsFor

LEMMA StandsForCopy ==
  ASSUME NEW text \in Seq(Atoms), NEW out \in Seq(Atoms), NEW rp,
         NEW i \in 0 .. Len(text), NEW j \in 0 .. Len(text), i <= j, StandsFor(out, text, i, rp)
  PROVE  StandsFor(out \o Slice(text, i, j), text, j, rp)
<1> DEFINE slice == Slice(text, i, j)
           N == Len(out)
<1>1. slice \in Seq(Atoms) /\ Len(slice) = j - i /\ \A k \in 1 .. j - i : slice[k] = text[i + k]
  BY SliceOK
<1> HIDE DEF slice
<1>2. PICK cuts \in [0 .. N -> 0 .. Len(text)] :
         cuts[0] = 0 /\ cuts[N] = i /\ \A n \in 1 .. N : Piece(text, cuts[n - 1], cuts[n], out[n], rp)
  BY DEF StandsFor
<1>3. N \in Nat /\ Len(text) \in Nat /\ N + (j - i) \in Nat
  OBVIOUS
<1>4. /\ Len(out \o slice) = N + (j - i)
      /\ \A n \in 1 .. N + (j - i) : (out \o slice)[n] = IF n <= N THEN out[n] ELSE slice[n - N]
  <2>1. /\ Len(out \o slice) = Len(out) + Len(slice)
        /\ \A n \in 1 .. Len(out) + Len(slice) : (out \o slice)[n] = IF n <= Len(out) THEN out[n] ELSE slice[n - Len(out)]
    <3> DEFINE S == Atoms
    <3>1. out \in Seq(S) /\ slice \in Seq(S)
      BY <1>1
    <3> HIDE DEF S
    <3> QED
      BY <3>1, ConcatProperties
  <2> QED
    BY <1>1, <2>1
<1> HIDE DEF N
<1> DEFINE more == [n \in 0 .. N + (j - i) |-> IF n <= N THEN cuts[n] ELSE i + (n - N)]
<1>5. more \in [0 .. N + (j - i) -> 0 .. Len(text)]
  <2>1. ASSUME NEW n \in 0 .. N + (j - i) PROVE (IF n <= N THEN cuts[n] ELSE i + (n - N)) \in 0 .. Len(text)
    <3>1. CASE n <= N
      <4>1. n \in 0 .. N
        BY <1>3, <3>1
      <4> QED
        BY <1>2, <3>1, <4>1
    <3>2. CASE ~ (n <= N)
      BY <1>3, <3>2
    <3> QED
      BY <3>1, <3>2
  <2> QED
    BY <2>1
<1>6. more[0] = 0 /\ more[N + (j - i)] = j
  BY <1>2, <1>3
<1>7. ASSUME NEW n \in 1 .. N + (j - i) PROVE Piece(text, more[n - 1], more[n], (out \o slice)[n], rp)
  <2>1. n - 1 \in 0 .. N + (j - i) /\ n \in 0 .. N + (j - i)
    BY <1>3
  <2>2. CASE n <= N
    <3>1. n \in 1 .. N /\ more[n - 1] = cuts[n - 1] /\ more[n] = cuts[n] /\ (out \o slice)[n] = out[n]
      BY <1>3, <1>4, <2>1, <2>2
    <3> QED
      BY <1>2, <3>1, Zenon
  <2>3. CASE ~ (n <= N)
    <3>1. n - N \in 1 .. j - i /\ more[n] = i + (n - N) /\ (out \o slice)[n] = slice[n - N]
      BY <1>3, <1>4, <2>1, <2>3
    <3>2. more[n] = more[n - 1] + 1
      <4>1. CASE n - 1 = N
        BY <1>2, <1>3, <2>1, <2>3, <4>1
      <4>2. CASE n - 1 # N
        BY <1>3, <2>1, <2>3, <4>2
      <4> QED
        BY <4>1, <4>2
    <3>3. (out \o slice)[n] = text[more[n]]
      BY <1>1, <3>1
    <3> HIDE DEF more
    <3> QED
      BY <3>2, <3>3 DEF Piece
  <2> QED
    BY <2>2, <2>3
<1> HIDE DEF more
<1>8. StandsFor(out \o slice, text, j, rp)
  BY <1>4, <1>5, <1>6, <1>7 DEF StandsFor
<1> QED
  BY <1>8 DEF slice

LEMMA StandsForReplaced ==
  ASSUME NEW text \in Seq(Atoms), NEW out \in Seq(Atoms), NEW rp, NEW k \in DOMAIN rp, Placeholder(rp[k]) \in Atoms,
         NEW i \in 0 .. Len(text), NEW j \in 0 .. Len(text), i <= j, StandsFor(out, text, i, rp),
         rp[k].original = Slice(text, i, j)
  PROVE  StandsFor(out \o <<Placeholder(rp[k])>>, text, j, rp)
<1> DEFINE token == Placeholder(rp[k])
           N == Len(out)
<1>1. PICK cuts \in [0 .. N -> 0 .. Len(text)] :
         cuts[0] = 0 /\ cuts[N] = i /\ \A n \in 1 .. N : Piece(text, cuts[n - 1], cuts[n], out[n], rp)
  BY DEF StandsFor
<1>2. N \in Nat /\ Len(text) \in Nat
  OBVIOUS
<1>3. /\ Len(out \o <<token>>) = N + 1
      /\ \A n \in 1 .. N : (out \o <<token>>)[n] = out[n]
      /\ (out \o <<token>>)[N + 1] = token
  <2> HIDE DEF token
  <2> QED
    BY <1>2
<1>4. Piece(text, i, j, token, rp)
  BY DEF Piece
<1> HIDE DEF N, token
<1> DEFINE more == [n \in 0 .. N + 1 |-> IF n <= N THEN cuts[n] ELSE j]
<1>5. more \in [0 .. N + 1 -> 0 .. Len(text)]
  BY <1>1, <1>2
<1>6. more[0] = 0 /\ more[N + 1] = j
  BY <1>1, <1>2
<1>7. ASSUME NEW n \in 1 .. N + 1 PROVE Piece(text, more[n - 1], more[n], (out \o <<token>>)[n], rp)
  <2>1. n - 1 \in 0 .. N + 1 /\ n \in 0 .. N + 1
    BY <1>2
  <2>2. CASE n <= N
    <3>1. n \in 1 .. N /\ more[n - 1] = cuts[n - 1] /\ more[n] = cuts[n] /\ (out \o <<token>>)[n] = out[n]
      BY <1>2, <1>3, <2>1, <2>2
    <3> QED
      BY <1>1, <3>1, Zenon
  <2>3. CASE ~ (n <= N)
    <3>1. n = N + 1 /\ more[n - 1] = i /\ more[n] = j /\ (out \o <<token>>)[n] = token
      BY <1>1, <1>2, <1>3, <2>1, <2>3
    <3> QED
      BY <1>4, <3>1, Zenon
  <2> QED
    BY <2>2, <2>3
<1> HIDE DEF more
<1>8. StandsFor(out \o <<token>>, text, j, rp)
  BY <1>3, <1>5, <1>6, <1>7 DEF StandsFor
<1> QED
  BY <1>8 DEF token

MaskerOK ==
    /\ reps \in Seq(Replacement) /\ counters \in [Types -> Nat] /\ seen \subseteq Rules
    /\ Numbered(reps, counters)

\* One of the first n spans has p in it, and a placeholder type.
Masks(spans, n, p) ==
    \E j \in 1 .. n : rulebook[spans[j].rule].type # "" /\ spans[j].start <= p /\ p < spans[j].end

\* What is true of the masker after the first n spans.
MaskedUpTo(text, spans, n, acc) ==
    /\ acc \in Maskers(text)
    /\ Grows(reps, acc.reps) /\ Numbered(acc.reps, acc.counters)
    /\ \A j \in n + 1 .. Len(spans) : acc.pos <= spans[j].start
    /\ \A p \in Int : Masks(spans, n, p) => p < acc.pos
    /\ \A p \in Int : p \in acc.kept <=> 0 <= p /\ p < acc.pos /\ ~ Masks(spans, n, p)
    /\ StandsFor(acc.out, text, acc.pos, acc.reps)

LEMMA MaskMatchType ==
  ASSUME RulebookOK, RequestOK, NEW text \in Seq(Atoms), NEW acc \in Maskers(text), NEW m \in Hits(Len(text), Rules)
  PROVE  /\ MaskMatch(acc, text, m) \in Maskers(text)
         /\ m.start \in Int /\ acc.pos \in Int
<1>1. Len(text) \in Nat
  OBVIOUS
<1>2. m.start \in Int
  BY <1>1, HitFields
<1>3. acc.pos \in Int
  BY DEF Maskers
<1>4. ~ (m.start < acc.pos) => acc.pos <= m.start
  BY <1>2, <1>3
<1>5. acc.pos <= m.start => Replace(acc, text, m) \in Maskers(text)
  BY ReplaceStep DEF Replaced
<1> QED
  BY <1>2, <1>3, <1>4, <1>5 DEF MaskMatch

LEMMA MaskMatchStep ==
  ASSUME RulebookOK, RequestOK, NEW text \in Seq(Atoms), NEW spans \in Seq(Hits(Len(text), Rules)), Apart(spans),
         NEW n \in 1 .. Len(spans), NEW acc, MaskedUpTo(text, spans, n - 1, acc)
  PROVE  MaskedUpTo(text, spans, n, MaskMatch(acc, text, spans[n]))
<1> DEFINE m == spans[n]
           L == Len(text)
           N == Len(spans)
           typed == rulebook[m.rule].type # ""
<1>1. acc \in Maskers(text) /\ m \in Hits(L, Rules) /\ L \in Nat /\ N \in Nat /\ DOMAIN spans = 1 .. N
  BY DEF MaskedUpTo
<1>2. /\ m.start \in Int /\ m.end \in Int /\ m.start < m.end /\ m.start \in 0 .. L /\ m.end \in 0 .. L
      /\ \A j \in 1 .. N : spans[j].start \in Int /\ spans[j].end \in Int /\ spans[j].start < spans[j].end
  <2>1. \A j \in 1 .. N : spans[j] \in Hits(L, Rules)
    OBVIOUS
  <2> HIDE DEF L, N
  <2> QED
    BY <1>1, <2>1, HitFields
<1>3. acc.pos \in 0 .. L /\ acc.pos \in Int /\ acc.kept \in SUBSET Int /\ acc.out \in Seq(Atoms)
  BY <1>1 DEF Maskers
<1>4. acc.pos <= m.start
  BY <1>1 DEF MaskedUpTo
<1>5. \A p \in Int : Masks(spans, n, p) <=> Masks(spans, n - 1, p) \/ (typed /\ m.start <= p /\ p < m.end)
  <2>1. \A j : j \in 1 .. n <=> j \in 1 .. n - 1 \/ j = n
    BY <1>1
  <2> QED
    BY <2>1 DEF Masks
<1>6. \A j \in n + 1 .. N : j \in 1 .. N /\ j \in (n - 1) + 1 .. N /\ m.end <= spans[j].start
  BY <1>1 DEF Apart
<1>7. CASE ~ typed
  <2>1. MaskMatch(acc, text, m) = acc
    BY <1>7 DEF MaskMatch
  <2> HIDE DEF m, N, L, typed
  <2>2. \A p \in Int : Masks(spans, n, p) <=> Masks(spans, n - 1, p)
    BY <1>5, <1>7
  <2>3. \A j \in n + 1 .. N : acc.pos <= spans[j].start
    BY <1>6 DEF MaskedUpTo, N
  <2>4. MaskedUpTo(text, spans, n, acc)
    BY <2>2, <2>3 DEF MaskedUpTo, N
  <2> QED
    BY <2>1, <2>4 DEF m
<1>8. CASE typed
  <2> DEFINE new == Replace(acc, text, m)
  <2>1. MaskMatch(acc, text, m) = new
    <3>1. ~ (m.start < acc.pos)
      <4> HIDE DEF m, L
      <4> QED
        BY <1>2, <1>3, <1>4
    <3> QED
      BY <1>8, <3>1 DEF MaskMatch
  <2>2. Replaced(acc, new, text, m)
    BY <1>1, <1>4, ReplaceStep
  <2> HIDE DEF new
  <2>3. PICK k \in DOMAIN new.reps :
          /\ new.reps[k].original = Slice(text, m.start, m.end)
          /\ new.out = acc.out \o Slice(text, acc.pos, m.start) \o <<Placeholder(new.reps[k])>>
    BY <2>2 DEF Replaced
  <2>4. /\ new \in Maskers(text) /\ Grows(acc.reps, new.reps)
        /\ new.pos = m.end /\ new.kept = acc.kept \cup acc.pos .. m.start - 1
    BY <2>2 DEF Replaced
  <2>5. Grows(reps, new.reps) /\ Numbered(new.reps, new.counters)
    BY <2>2 DEF Replaced, MaskedUpTo, Grows
  <2>6. new.reps[k] \in Replacement
    BY <2>4 DEF Maskers
  <2>7. StandsFor(new.out, text, m.end, new.reps)
    <3> DEFINE slice == Slice(text, acc.pos, m.start)
    <3>1. StandsFor(acc.out, text, acc.pos, new.reps)
      BY <2>4, StandsForGrows DEF MaskedUpTo
    <3>2. StandsFor(acc.out \o slice, text, m.start, new.reps)
      BY <1>2, <1>3, <1>4, <3>1, StandsForCopy
    <3>3. acc.out \o slice \in Seq(Atoms)
      <4>1. slice \in Seq(Atoms)
        BY <1>2, <1>3, SliceOK
      <4> HIDE DEF slice
      <4> QED
        BY <1>3, <4>1
    <3>4. Placeholder(new.reps[k]) \in Atoms
      BY <2>6, PlaceholderIsAtom
    <3> DEFINE out == acc.out \o slice
    <3>5. out \in Seq(Atoms) /\ StandsFor(out, text, m.start, new.reps) /\ m.start <= m.end
      BY <1>2, <3>2, <3>3
    <3>6. new.out = out \o <<Placeholder(new.reps[k])>>
      BY <2>3
    <3> HIDE DEF out, m, L
    <3>7. m.start \in 0 .. Len(text) /\ m.end \in 0 .. Len(text)
      BY <1>2 DEF L
    <3> QED
      BY <2>3, <3>4, <3>5, <3>6, <3>7, StandsForReplaced
  <2>8. \A j \in n + 1 .. N : new.pos <= spans[j].start
    BY <1>6, <2>4
  <2> HIDE DEF m, N, L, typed
  <2>9. ASSUME NEW p \in Int
        PROVE  /\ Masks(spans, n, p) => p < new.pos
               /\ p \in new.kept <=> 0 <= p /\ p < new.pos /\ ~ Masks(spans, n, p)
    <3>1. Masks(spans, n, p) <=> Masks(spans, n - 1, p) \/ (m.start <= p /\ p < m.end)
      BY <1>5, <1>8
    <3>2. /\ Masks(spans, n - 1, p) => p < acc.pos
          /\ p \in acc.kept <=> 0 <= p /\ p < acc.pos /\ ~ Masks(spans, n - 1, p)
      BY DEF MaskedUpTo
    <3>3. p \in new.kept <=> p \in acc.kept \/ (acc.pos <= p /\ p < m.start)
      BY <1>2, <1>3, <2>4
    <3>4. 0 <= acc.pos /\ 0 <= m.start
      BY <1>1, <1>2, <1>3
    <3> QED
      BY <1>2, <1>3, <1>4, <2>4, <3>1, <3>2, <3>3, <3>4
  <2>10. MaskedUpTo(text, spans, n, new)
    BY <2>4, <2>5, <2>7, <2>8, <2>9 DEF MaskedUpTo, N
  <2> QED
    BY <2>1, <2>10 DEF m
<1> QED
  BY <1>7, <1>8

\* maskText: the characters outside the spans that have a placeholder type are
\* copied, and the masked text stands for the whole text.
LEMMA MaskTextCorrect ==
  ASSUME RulebookOK, RequestOK, MaskerOK,
         NEW text \in Seq(Atoms), NEW spans \in Seq(Hits(Len(text), Rules)), Apart(spans)
  PROVE  /\ MaskText(text, spans) \in Maskers(text)
         /\ Grows(reps, MaskText(text, spans).reps)
         /\ Numbered(MaskText(text, spans).reps, MaskText(text, spans).counters)
         /\ StandsFor(MaskText(text, spans).out, text, Len(text), MaskText(text, spans).reps)
         /\ \A p \in Int : p \in MaskText(text, spans).kept
               <=> p \in 0 .. Len(text) - 1 /\ ~ Masks(spans, Len(spans), p)
<1> DEFINE N == Len(spans)
           L == Len(text)
           V == Maskers(text)
           start == [reps |-> reps, counters |-> counters, seen |-> seen, out |-> <<>>, kept |-> {}, pos |-> 0]
           step == [q \in V \X (1 .. N) |-> MaskMatch(q[1], text, spans[q[2]])]
<1>1. N \in Nat /\ L \in Nat /\ DOMAIN spans = 1 .. N /\ \A k \in 1 .. N : spans[k] \in Hits(Len(text), Rules)
  OBVIOUS
<1>2. \A acc \in V : \A k \in 1 .. N : MaskMatch(acc, text, spans[k]) \in V
  BY <1>1, MaskMatchType
<1>3. start \in V
  <2>1. 0 \in 0 .. Len(text) /\ <<>> \in Seq(Atoms) /\ {} \in SUBSET Int /\ seen \in SUBSET Rules
    BY <1>1 DEF MaskerOK
  <2> QED
    BY <2>1 DEF MaskerOK, Maskers
<1> HIDE DEF start
<1>4. PICK f \in [0 .. N -> V] : f[0] = start /\ \A k \in 1 .. N : f[k] = MaskMatch(f[k - 1], text, spans[k])
  <2>1. step \in [V \X (1 .. N) -> V]
    BY <1>2
  <2> HIDE DEF V, N
  <2>2. ASSUME NEW f \in [0 .. N -> V], NEW k \in 1 .. N
        PROVE  step[<<f[k - 1], k>>] = MaskMatch(f[k - 1], text, spans[k])
    <3>1. f[k - 1] \in V
      BY <1>1
    <3> QED
      BY <3>1
  <2> HIDE DEF step
  <2>3. IndexDefinition(step, N, V, start)
    BY <1>1, <1>3, <2>1 DEF IndexDefinition
  <2>4. PICK f \in [0 .. N -> V] : f[0] = start /\ \A k \in 1 .. N : f[k] = step[<<f[k - 1], k>>]
    BY <2>3, IndexRecursion
  <2> QED
    BY <2>2, <2>4
<1>5. f = [k \in 0 .. N |-> IF k = 0 THEN start ELSE MaskMatch(f[k - 1], text, spans[k])]
  <2> HIDE DEF V, N
  <2>1. f = [k \in 0 .. N |-> f[k]]
    BY <1>4
  <2>2. \A k \in 0 .. N : f[k] = IF k = 0 THEN start ELSE MaskMatch(f[k - 1], text, spans[k])
    BY <1>1, <1>4
  <2> QED
    BY <2>1, <2>2
<1> DEFINE g == CHOOSE h : h = [k \in 0 .. N |-> IF k = 0 THEN start ELSE MaskMatch(h[k - 1], text, spans[k])]
           last == g[N]
<1>6. g = [k \in 0 .. N |-> IF k = 0 THEN start ELSE MaskMatch(g[k - 1], text, spans[k])]
  BY <1>5
<1>7. MaskText(text, spans) = [last EXCEPT !.out = @ \o Slice(text, last.pos, Len(text)),
                                           !.kept = @ \cup last.pos .. Len(text) - 1]
  BY DEF MaskText, start
<1> HIDE DEF g, N
<1>8. g[0] = start /\ \A k \in 1 .. N : g[k] = MaskMatch(g[k - 1], text, spans[k])
  BY <1>1, <1>6
<1> DEFINE S == {k \in 0 .. N : MaskedUpTo(text, spans, k, g[k])}
<1>9. 0 \in S
  <2>1. start \in Maskers(text) /\ start.reps = reps /\ start.counters = counters /\ start.out = <<>>
        /\ start.kept = {} /\ start.pos = 0
    BY <1>3 DEF start
  <2>2. Grows(reps, reps) /\ Numbered(reps, counters)
    BY DEF Grows, MaskerOK
  <2>3. \A p \in Int : ~ Masks(spans, 0, p)
    BY DEF Masks
  <2>4. \A j \in 1 .. N : 0 <= spans[j].start
    BY <1>1, HitFields
  <2>5. StandsFor(<<>>, text, 0, reps)
    <3> DEFINE cuts == [n \in 0 .. 0 |-> 0]
    <3>1. Len(<<>>) = 0 /\ cuts \in [0 .. 0 -> 0 .. Len(text)] /\ cuts[0] = 0 /\ ~ \E n \in Int : n \in 1 .. 0
      BY <1>1
    <3> HIDE DEF cuts
    <3> QED
      BY <3>1 DEF StandsFor
  <2>6. MaskedUpTo(text, spans, 0, start)
    <3> HIDE DEF L
    <3> QED
      BY <2>1, <2>2, <2>3, <2>4, <2>5 DEF MaskedUpTo, N
  <2> QED
    BY <1>1, <1>8, <2>6
<1>10. ASSUME NEW k \in 1 .. N, k - 1 \in S PROVE k \in S
  <2>1. MaskedUpTo(text, spans, k - 1, g[k - 1]) /\ g[k] = MaskMatch(g[k - 1], text, spans[k])
    BY <1>8, <1>10
  <2>2. MaskedUpTo(text, spans, k, g[k])
    BY <2>1, MaskMatchStep DEF N
  <2> QED
    BY <1>1, <2>2
<1>11. MaskedUpTo(text, spans, N, last)
  <2> HIDE DEF S
  <2>1. 0 .. N \subseteq S
    BY <1>1, <1>9, <1>10, IndexInduction
  <2>2. N \in S
    BY <1>1, <2>1
  <2> QED
    BY <2>2 DEF S
<1> DEFINE slice == Slice(text, last.pos, Len(text))
           result == MaskText(text, spans)
           out == last.out \o slice
<1> HIDE DEF last
<1>12. /\ last \in Maskers(text) /\ last.pos \in 0 .. Len(text) /\ last.pos \in Int
       /\ last.kept \in SUBSET Int /\ last.out \in Seq(Atoms) /\ last.reps \in Seq(Replacement)
       /\ last.counters \in [Types -> Nat] /\ last.seen \in SUBSET Rules
       /\ last = [reps |-> last.reps, counters |-> last.counters, seen |-> last.seen,
                  out |-> last.out, kept |-> last.kept, pos |-> last.pos]
  <2>1. last \in Maskers(text)
    BY <1>11 DEF MaskedUpTo
  <2> QED
    BY <1>1, <2>1 DEF Maskers
<1>13. result = [reps |-> last.reps, counters |-> last.counters, seen |-> last.seen,
                 out |-> out, kept |-> last.kept \cup last.pos .. Len(text) - 1, pos |-> last.pos]
  <2> HIDE DEF slice
  <2> QED
    BY <1>7, <1>12 DEF slice
<1>14. out \in Seq(Atoms)
  <2>1. slice \in Seq(Atoms)
    <3>1. Len(text) \in 0 .. Len(text)
      BY <1>1
    <3> QED
      BY <1>12, <3>1, SliceOK
  <2> HIDE DEF slice
  <2> QED
    BY <1>12, <2>1
<1>15. StandsFor(out, text, Len(text), last.reps)
  <2>1. StandsFor(last.out, text, last.pos, last.reps)
    BY <1>11 DEF MaskedUpTo
  <2>2. Len(text) \in 0 .. Len(text) /\ last.pos <= Len(text)
    BY <1>1, <1>12
  <2> QED
    BY <1>12, <2>1, <2>2, StandsForCopy
<1> HIDE DEF result, out
<1>16. result \in Maskers(text)
  <2>1. last.kept \cup last.pos .. Len(text) - 1 \in SUBSET Int
    BY <1>1, <1>12
  <2> QED
    BY <1>12, <1>13, <1>14, <2>1 DEF Maskers
<1>17. /\ result.reps = last.reps /\ result.counters = last.counters /\ result.out = out
       /\ result.kept = last.kept \cup last.pos .. Len(text) - 1
  BY <1>13
<1>18. ASSUME NEW p \in Int PROVE p \in result.kept <=> p \in 0 .. Len(text) - 1 /\ ~ Masks(spans, N, p)
  <2>1. /\ Masks(spans, N, p) => p < last.pos
        /\ p \in last.kept <=> 0 <= p /\ p < last.pos /\ ~ Masks(spans, N, p)
    BY <1>11 DEF MaskedUpTo
  <2>2. p \in result.kept <=> p \in last.kept \/ (last.pos <= p /\ p < L)
    BY <1>1, <1>12, <1>17
  <2>3. last.pos <= L /\ 0 <= last.pos
    BY <1>1, <1>12
  <2> QED
    BY <1>1, <1>12, <2>1, <2>2, <2>3
<1>19. Grows(reps, last.reps) /\ Numbered(last.reps, last.counters)
  BY <1>11 DEF MaskedUpTo
<1> QED
  BY <1>15, <1>16, <1>17, <1>18, <1>19 DEF result, N

-----------------------------------------------------------------------------
(* The inductive invariant.                                                 *)

FromScenario == \E s \in Scenarios : request = s.request /\ rulebook = s.rulebook /\ prefilter = s.prefilter

ScansOK ==
    /\ registry \subseteq Rules /\ pinned \subseteq Rules
    /\ DOMAIN scan = Texts /\ DOMAIN found = Texts
    /\ \A i \in Texts : found[i] \subseteq Matches(request[i], pinned)
    /\ phase = "start" => \A i \in Texts : found[i] = {}

\* Masking begins when every text is scanned; a request to be demasked is
\* masked as a whole.
PhasesOK ==
    /\ phase \in {"start", "scan"} => masked = <<>>
    /\ phase \in {"mask", "masked", "stream"} \/ masked # <<>> => \A i \in Texts : scan[i] = "ok"
    /\ phase \in {"masked", "stream"} => Len(masked) = Len(request)

MaskedOK ==
    /\ masked \in Seq(Seq(Atoms)) /\ kept \in Seq(SUBSET Int)
    /\ Len(kept) = Len(masked) /\ Len(masked) <= Len(request)
    /\ \A i \in DOMAIN masked : StandsFor(masked[i], request[i], Len(request[i]), reps)

\* What is kept of a text is what no span with a placeholder type has.
KeptSpans(text, ms, offsets) ==
    \A p \in Int : p \in offsets
        <=> p \in 0 .. Len(text) - 1 /\ ~ Masks(ResolveConflicts(ms), Len(ResolveConflicts(ms)), p)

KeptOK == \A i \in DOMAIN masked : KeptSpans(request[i], found[i], kept[i])

IInv == FromScenario /\ ScansOK /\ PhasesOK /\ MaskerOK /\ MaskedOK /\ KeptOK

LEMMA InputsOK ==
  ASSUME FromScenario
  PROVE  RulebookOK /\ RequestOK /\ prefilter \in BOOLEAN
  BY MaskingAssumption DEF FromScenario, RulebookOK, RequestOK, Rules

LEMMA InitIInv ==
  ASSUME Init
  PROVE  IInv
<1>1. FromScenario
  BY DEF Init, FromScenario
<1>2. RequestOK
  BY <1>1, InputsOK
<1>3. ScansOK
  BY DEF Init, ScansOK
<1>4. PhasesOK
  BY DEF Init, PhasesOK
<1>5. MaskerOK
  <2>1. reps = <<>> /\ counters = [t \in Types |-> 0] /\ seen = {}
    BY DEF Init
  <2> QED
    BY <2>1 DEF MaskerOK, Numbered
<1>6. MaskedOK /\ KeptOK
  <2>1. masked = <<>> /\ kept = <<>> /\ Len(request) \in Nat
    BY <1>2 DEF Init, RequestOK
  <2> QED
    BY <2>1 DEF MaskedOK, KeptOK
<1> QED
  BY <1>1, <1>3, <1>4, <1>5, <1>6 DEF IInv

\* The texts, the rules and what is made of them do not change.
LEMMA SameGiven ==
  ASSUME UNCHANGED given
  PROVE  /\ request' = request /\ rulebook' = rulebook /\ prefilter' = prefilter
         /\ Texts' = Texts /\ Rules' = Rules /\ Types' = Types /\ Reserved' = Reserved
         /\ Replacement' = Replacement
         /\ \A text, rules : Matches(text, rules)' = Matches(text, rules)
         /\ \A spans, n, p : Masks(spans, n, p)' = Masks(spans, n, p)
  BY DEF given, Texts, Rules, Types, Reserved, Replacement, Matches, Masks

LEMMA MaskNextIInv ==
  ASSUME IInv, MaskNext
  PROVE  IInv'
<1> DEFINE i == Len(masked) + 1
           text == request[i]
           spans == ResolveConflicts(found[i])
           m == MaskText(text, spans)
<1>1. RulebookOK /\ RequestOK
  BY InputsOK DEF IInv
<1>2. i \in Texts /\ text \in Seq(Atoms) /\ Len(masked) \in Nat /\ DOMAIN masked = 1 .. Len(masked)
  BY <1>1 DEF MaskNext, IInv, MaskedOK, RequestOK, Texts
<1>3. found[i] \subseteq Matches(text, pinned) /\ pinned \subseteq Rules
  BY <1>2 DEF IInv, ScansOK
<1>4. ScanRules(text, found[i]) = spans
  <2> HIDE DEF text, i
  <2> QED
    BY <1>1, <1>2, <1>3, ScanKeepsMatches
<1>5. spans \in Seq(Hits(Len(text), Rules)) /\ Apart(spans)
  <2>1. Detected(found[i], Len(text), pinned)
    <3>1. IsFiniteSet(pinned) /\ pinned \subseteq Nat
      BY <1>1, <1>3, FS_Subset DEF RulebookOK
    <3>2. found[i] \subseteq Hits(Len(text), pinned)
      BY <1>3, MatchesAreHits
    <3>3. Len(text) \in Nat
      BY <1>2
    <3> QED
      BY <3>1, <3>2, <3>3 DEF Detected
  <2>2. spans \in Seq(Hits(Len(text), pinned)) /\ Apart(spans)
    BY <2>1, Resolved
  <2>3. Hits(Len(text), pinned) \subseteq Hits(Len(text), Rules)
    BY <1>3 DEF Hits
  <2> HIDE DEF spans
  <2> QED
    BY <2>2, <2>3
<1>6. /\ m \in Maskers(text)
      /\ Grows(reps, m.reps)
      /\ Numbered(m.reps, m.counters)
      /\ StandsFor(m.out, text, Len(text), m.reps)
      /\ \A p \in Int : p \in m.kept <=> p \in 0 .. Len(text) - 1 /\ ~ Masks(spans, Len(spans), p)
  <2> HIDE DEF text, spans
  <2> QED
    BY <1>1, <1>2, <1>5, MaskTextCorrect DEF IInv
<1> HIDE DEF m
<1>7. /\ reps' = m.reps /\ counters' = m.counters /\ seen' = m.seen
      /\ masked' = Append(masked, m.out) /\ kept' = Append(kept, m.kept)
      /\ UNCHANGED given /\ UNCHANGED <<registry, pinned, phase, scan, found>>
      /\ phase = "mask" /\ Len(masked) < Len(request)
  BY <1>4 DEF MaskNext, m
<1>8. /\ m.reps \in Seq(Replacement) /\ m.counters \in [Types -> Nat] /\ m.seen \in SUBSET Rules
      /\ m.out \in Seq(Atoms) /\ m.kept \in SUBSET Int
  BY <1>6 DEF Maskers
<1>9. /\ masked \in Seq(Seq(Atoms)) /\ kept \in Seq(SUBSET Int)
      /\ Len(kept) = Len(masked) /\ Len(request) \in Nat
  BY <1>1 DEF IInv, MaskedOK, RequestOK
<1>10. /\ masked' \in Seq(Seq(Atoms)) /\ kept' \in Seq(SUBSET Int) /\ Len(masked') = i /\ Len(kept') = i
       /\ DOMAIN masked' = 1 .. i
       /\ \A j \in DOMAIN masked : masked'[j] = masked[j] /\ kept'[j] = kept[j]
       /\ masked'[i] = m.out /\ kept'[i] = m.kept
  <2>1. /\ Append(masked, m.out) \in Seq(Seq(Atoms)) /\ Len(Append(masked, m.out)) = Len(masked) + 1
        /\ \A j \in 1 .. Len(masked) : Append(masked, m.out)[j] = masked[j]
        /\ Append(masked, m.out)[Len(masked) + 1] = m.out
    <3> DEFINE S == Seq(Atoms)
    <3> HIDE DEF S
    <3>1. m.out \in S /\ masked \in Seq(S)
      BY <1>8, <1>9 DEF S
    <3>2. /\ Append(masked, m.out) \in Seq(S) /\ Len(Append(masked, m.out)) = Len(masked) + 1
          /\ \A j \in 1 .. Len(masked) : Append(masked, m.out)[j] = masked[j]
          /\ Append(masked, m.out)[Len(masked) + 1] = m.out
      BY <3>1, AppendProperties
    <3> QED
      BY <3>2 DEF S
  <2>2. /\ Append(kept, m.kept) \in Seq(SUBSET Int) /\ Len(Append(kept, m.kept)) = Len(kept) + 1
        /\ \A j \in 1 .. Len(kept) : Append(kept, m.kept)[j] = kept[j]
        /\ Append(kept, m.kept)[Len(kept) + 1] = m.kept
    <3> DEFINE S == SUBSET Int
    <3> HIDE DEF S
    <3>1. m.kept \in S /\ kept \in Seq(S)
      BY <1>8, <1>9 DEF S
    <3>2. /\ Append(kept, m.kept) \in Seq(S) /\ Len(Append(kept, m.kept)) = Len(kept) + 1
          /\ \A j \in 1 .. Len(kept) : Append(kept, m.kept)[j] = kept[j]
          /\ Append(kept, m.kept)[Len(kept) + 1] = m.kept
      BY <3>1, AppendProperties
    <3> QED
      BY <3>2 DEF S
  <2> QED
    BY <1>2, <1>7, <1>9, <2>1, <2>2
<1>11. \A j \in 1 .. i : j = i \/ j \in DOMAIN masked
  BY <1>2
<1> HIDE DEF i
<1>12. /\ request' = request /\ Texts' = Texts /\ Rules' = Rules /\ Types' = Types /\ Reserved' = Reserved
       /\ Replacement' = Replacement
       /\ \A t, rules : Matches(t, rules)' = Matches(t, rules)
       /\ \A sp, n, p : Masks(sp, n, p)' = Masks(sp, n, p)
  BY <1>7, SameGiven
<1>13. FromScenario'
  BY <1>7 DEF IInv, FromScenario, given
<1>14. ScansOK'
  BY <1>7, <1>12 DEF IInv, ScansOK
<1>15. PhasesOK'
  BY <1>7, <1>12 DEF IInv, PhasesOK
<1>16. MaskerOK'
  BY <1>6, <1>7, <1>8, <1>12 DEF MaskerOK, Numbered
<1>17. MaskedOK'
  <2>1. ASSUME NEW j \in DOMAIN masked' PROVE StandsFor(masked'[j], request[j], Len(request[j]), m.reps)
    <3>1. CASE j = i
      BY <1>6, <1>10, <3>1 DEF text
    <3>2. CASE j \in DOMAIN masked
      <4>1. StandsFor(masked[j], request[j], Len(request[j]), reps)
        BY <3>2 DEF IInv, MaskedOK
      <4> QED
        BY <1>6, <1>10, <3>2, <4>1, StandsForGrows
    <3> QED
      BY <1>10, <1>11, <3>1, <3>2
  <2>2. i <= Len(request)
    BY <1>7, <1>9 DEF i
  <2> QED
    BY <1>7, <1>10, <1>12, <2>1, <2>2 DEF MaskedOK
<1>18. KeptOK'
  <2>1. ASSUME NEW j \in DOMAIN masked' PROVE KeptSpans(request[j], found[j], kept'[j])
    <3>1. CASE j = i
      BY <1>6, <1>10, <3>1 DEF text, spans, KeptSpans
    <3>2. CASE j \in DOMAIN masked
      BY <1>10, <3>2 DEF IInv, KeptOK
    <3> QED
      BY <1>10, <1>11, <3>1, <3>2
  <2>2. \A t, ms, offsets : KeptSpans(t, ms, offsets)' = KeptSpans(t, ms, offsets)
    BY <1>12 DEF KeptSpans
  <2> QED
    BY <1>7, <1>12, <2>1, <2>2 DEF KeptOK
<1> QED
  BY <1>13, <1>14, <1>15, <1>16, <1>17, <1>18 DEF IInv

\* A step that leaves the masker and the scans alone.
LEMMA QuietIInv ==
  ASSUME IInv, UNCHANGED <<given, scan, found, maskerState>>, ScansOK', PhasesOK'
  PROVE  IInv'
<1>1. /\ UNCHANGED given /\ scan' = scan /\ found' = found
      /\ reps' = reps /\ counters' = counters /\ seen' = seen /\ masked' = masked /\ kept' = kept
  BY DEF maskerState
<1>2. /\ request' = request /\ Texts' = Texts /\ Rules' = Rules /\ Types' = Types /\ Reserved' = Reserved
      /\ Replacement' = Replacement
      /\ \A sp, n, p : Masks(sp, n, p)' = Masks(sp, n, p)
  BY <1>1, SameGiven
<1>3. FromScenario'
  BY <1>1 DEF IInv, FromScenario, given
<1>4. MaskerOK'
  BY <1>1, <1>2 DEF IInv, MaskerOK, Numbered
<1>5. MaskedOK'
  BY <1>1, <1>2 DEF IInv, MaskedOK
<1>6. KeptOK'
  BY <1>1, <1>2 DEF IInv, KeptOK, KeptSpans
<1> QED
  BY <1>3, <1>4, <1>5, <1>6 DEF IInv

LEMMA ScanTextIInv ==
  ASSUME IInv, NEW i \in Texts, ScanText(i)
  PROVE  IInv'
<1>1. /\ phase = "scan" /\ scan[i] = "no"
      /\ UNCHANGED given /\ UNCHANGED <<registry, pinned, phase, maskerState>>
  BY DEF ScanText
<1>2. /\ request' = request /\ Texts' = Texts /\ Rules' = Rules /\ Types' = Types /\ Reserved' = Reserved
      /\ Replacement' = Replacement
      /\ \A t, rules : Matches(t, rules)' = Matches(t, rules)
  BY <1>1, SameGiven
<1>3. masked = <<>> /\ masked' = <<>> /\ reps' = reps /\ counters' = counters /\ seen' = seen /\ kept' = kept
  BY <1>1 DEF IInv, PhasesOK, maskerState
<1>4. FromScenario'
  BY <1>1 DEF IInv, FromScenario, given
<1>5. ScansOK'
  <2>1. DOMAIN scan' = Texts /\ DOMAIN found' = Texts
    BY DEF IInv, ScansOK, ScanText
  <2>2. ASSUME NEW j \in Texts PROVE found'[j] \subseteq Matches(request[j], pinned)
    <3>1. CASE found' = found
      BY <3>1 DEF IInv, ScansOK
    <3>2. CASE \E ms \in SUBSET Matches(request[i], pinned) : found' = [found EXCEPT ![i] = ms]
      BY <3>2 DEF IInv, ScansOK
    <3> QED
      BY <3>1, <3>2 DEF ScanText
  <2> QED
    BY <1>1, <1>2, <2>1, <2>2 DEF IInv, ScansOK
<1>6. PhasesOK'
  BY <1>1, <1>3 DEF PhasesOK
<1>7. MaskerOK'
  BY <1>2, <1>3 DEF IInv, MaskerOK, Numbered
<1>8. MaskedOK' /\ KeptOK'
  BY <1>2, <1>3 DEF IInv, MaskedOK, KeptOK
<1> QED
  BY <1>4, <1>5, <1>6, <1>7, <1>8 DEF IInv

LEMMA NextIInv ==
  ASSUME IInv, [Next]_vars
  PROVE  IInv'
<1> USE DEF IInv
<1>0. ASSUME UNCHANGED given PROVE /\ request' = request /\ Texts' = Texts /\ Rules' = Rules
                                  /\ \A t, rules : Matches(t, rules)' = Matches(t, rules)
  BY <1>0, SameGiven
<1>1. CASE Pin
  <2>1. /\ UNCHANGED <<given, scan, found, maskerState>> /\ UNCHANGED registry
        /\ phase = "start" /\ pinned' = registry /\ phase' \in {"unchanged", "scan"}
    BY <1>1 DEF Pin
  <2>2. ScansOK'
    BY <1>0, <2>1 DEF ScansOK
  <2>3. PhasesOK'
    BY <1>0, <2>1 DEF PhasesOK, maskerState
  <2> QED
    BY <2>1, <2>2, <2>3, QuietIInv
<1>2. CASE ScanDone
  <2>1. /\ UNCHANGED <<given, scan, found, maskerState>> /\ UNCHANGED <<registry, pinned>>
        /\ phase = "scan" /\ phase' \in {"mask", "unchanged"}
        /\ phase' = "mask" => \A i \in Texts : scan[i] = "ok"
    BY <1>2 DEF ScanDone
  <2>2. ScansOK'
    BY <1>0, <2>1 DEF ScansOK
  <2>3. PhasesOK'
    BY <1>0, <2>1 DEF PhasesOK, maskerState
  <2> QED
    BY <2>1, <2>2, <2>3, QuietIInv
<1>3. CASE MaskNext
  BY <1>3, MaskNextIInv
<1>4. CASE MaskDone
  <2>1. /\ UNCHANGED <<given, scan, found, maskerState>> /\ UNCHANGED <<registry, pinned>>
        /\ phase = "mask" /\ phase' \in {"masked", "unchanged"} /\ Len(masked) = Len(request)
    BY <1>4 DEF MaskDone
  <2>2. ScansOK'
    BY <1>0, <2>1 DEF ScansOK
  <2>3. PhasesOK'
    BY <1>0, <2>1 DEF PhasesOK, maskerState
  <2> QED
    BY <2>1, <2>2, <2>3, QuietIInv
<1>5. CASE NewFactory
  <2>1. /\ UNCHANGED <<given, scan, found, maskerState>> /\ UNCHANGED <<registry, pinned>>
        /\ phase = "masked" /\ phase' = "stream"
    BY <1>5 DEF NewFactory
  <2>2. ScansOK'
    BY <1>0, <2>1 DEF ScansOK
  <2>3. PhasesOK'
    BY <1>0, <2>1 DEF PhasesOK, maskerState
  <2> QED
    BY <2>1, <2>2, <2>3, QuietIInv
<1>6. CASE Reload
  <2>1. /\ UNCHANGED <<given, scan, found, maskerState>> /\ UNCHANGED <<pinned, phase>>
        /\ registry' \subseteq Rules
    BY <1>6 DEF Reload
  <2>2. ScansOK'
    BY <1>0, <2>1 DEF ScansOK
  <2>3. PhasesOK'
    BY <1>0, <2>1 DEF PhasesOK, maskerState
  <2> QED
    BY <2>1, <2>2, <2>3, QuietIInv
<1>7. CASE UNCHANGED vars
  <2>1. UNCHANGED <<given, scan, found, maskerState>> /\ UNCHANGED <<registry, pinned, phase>>
    BY <1>7 DEF vars
  <2>2. ScansOK'
    BY <1>0, <2>1 DEF ScansOK
  <2>3. PhasesOK'
    BY <1>0, <2>1 DEF PhasesOK, maskerState
  <2> QED
    BY <2>1, <2>2, <2>3, QuietIInv
<1>8. CASE \E i \in Texts : ScanText(i)
  BY <1>8, ScanTextIInv
<1> QED
  BY <1>1, <1>2, <1>3, <1>4, <1>5, <1>6, <1>7, <1>8 DEF Next, Served

LEMMA IInvCorrect == Spec => []IInv
  BY InitIInv, NextIInv, PTL DEF Spec

-----------------------------------------------------------------------------
(* What follows from it.                                                    *)

\* One original has one placeholder, in every request: the numbering of
\* masker.nextPlaceholder and the lookup of masker.maskText.
THEOREM OnePlaceholderCorrect == Spec => []OnePlaceholderPerOriginal
<1>1. IInv => OnePlaceholderPerOriginal
  BY DEF IInv, MaskerOK, Numbered, OnePlaceholderPerOriginal
<1> QED
  BY <1>1, IInvCorrect, PTL

\* Every pinned rule names a placeholder type.
PinnedRulesMask == \A r \in pinned : rulebook[r].type # ""

LEMMA DetectedFromIInv ==
  ASSUME IInv, PinnedRulesMask
  PROVE  DetectedIsMasked
<1>1. RulebookOK /\ RequestOK
  BY InputsOK DEF IInv
<1>2. masked # <<>> => \A i \in Texts : scan[i] = "ok"
  BY DEF IInv, PhasesOK
<1>3. ASSUME NEW i \in DOMAIN masked
      PROVE  kept[i] = (0 .. Len(request[i]) - 1) \ Covered(found[i])
  <2> DEFINE spans == ResolveConflicts(found[i])
             text == request[i]
  <2>1. i \in Texts /\ text \in Seq(Atoms) /\ kept[i] \in SUBSET Int
    <3>1. /\ masked \in Seq(Seq(Atoms)) /\ kept \in Seq(SUBSET Int)
          /\ Len(kept) = Len(masked) /\ Len(masked) <= Len(request) /\ request \in Seq(Seq(Atoms))
      BY <1>1 DEF IInv, MaskedOK, RequestOK
    <3>2. i \in 1 .. Len(kept) /\ i \in 1 .. Len(request)
      BY <3>1
    <3> QED
      BY <3>1, <3>2 DEF Texts
  <2>2. Detected(found[i], Len(text), pinned)
    <3>1. found[i] \subseteq Matches(text, pinned) /\ pinned \subseteq Rules
      BY <2>1 DEF IInv, ScansOK
    <3>2. IsFiniteSet(pinned) /\ pinned \subseteq Nat
      BY <1>1, <3>1, FS_Subset DEF RulebookOK
    <3>3. Len(text) \in Nat
      BY <2>1
    <3> QED
      BY <3>1, <3>2, <3>3, MatchesAreHits DEF Detected
  <2>3. /\ spans \in Seq(Hits(Len(text), pinned))
        /\ \A p \in Int : Holds(spans, p) <=> p \in Covered(found[i])
    BY <2>2, Resolved
  <2>4. \A j \in DOMAIN spans : spans[j].rule \in pinned
    <3>1. Len(text) \in Nat /\ \A j \in DOMAIN spans : spans[j] \in Hits(Len(text), pinned)
      BY <2>1, <2>3
    <3> HIDE DEF spans
    <3> QED
      BY <3>1, HitFields
  <2>5. DOMAIN spans = 1 .. Len(spans)
    BY <2>3
  <2>6. \A p \in Int : Masks(spans, Len(spans), p) <=> Holds(spans, p)
    BY <2>4, <2>5 DEF Masks, Holds, PinnedRulesMask
  <2>7. KeptSpans(text, found[i], kept[i])
    BY DEF IInv, KeptOK
  <2>8. \A p \in Int : p \in kept[i] <=> p \in 0 .. Len(text) - 1 /\ p \notin Covered(found[i])
    BY <2>3, <2>6, <2>7 DEF KeptSpans
  <2>9. \A p \in 0 .. Len(text) - 1 : p \in Int
    BY <2>1
  <2> HIDE DEF text
  <2>10. kept[i] = (0 .. Len(text) - 1) \ Covered(found[i])
    BY <2>1, <2>8, <2>9
  <2> QED
    BY <2>10 DEF text
<1> QED
  BY <1>2, <1>3 DEF DetectedIsMasked

\* Detected text is masked: with any scanner outcomes, overlaps, pre-filtering
\* and reloads, provided that the pinned rules name placeholder types (the code
\* does not require one of a rule; without it a match is left as it is).
THEOREM DetectedIsMaskedCorrect == Spec => [](PinnedRulesMask => DetectedIsMasked)
<1>1. IInv => (PinnedRulesMask => DetectedIsMasked)
  BY DetectedFromIInv
<1> QED
  BY <1>1, IInvCorrect, PTL

-----------------------------------------------------------------------------
(* Restoring.                                                               *)

LEMMA DemaskAtomType ==
  ASSUME MaskerOK, NEW a \in Atoms
  PROVE  DemaskAtom(a) \in Seq(Atoms)
<1> DEFINE hit == {k \in DOMAIN reps : reps[k].type = a[2] /\ reps[k].n = a[3]}
<1>1. \A k \in hit : reps[k].original \in Seq(Atoms)
  <2>1. \A k \in DOMAIN reps : reps[k] \in Replacement
    BY DEF MaskerOK
  <2> QED
    BY <2>1 DEF Replacement
<1>2. hit # {} => (CHOOSE k \in hit : TRUE) \in hit
  OBVIOUS
<1>3. <<a>> \in Seq(Atoms)
  OBVIOUS
<1>4. DemaskAtom(a) = <<a>> \/ (hit # {} /\ DemaskAtom(a) = reps[CHOOSE k \in hit : TRUE].original)
  BY DEF DemaskAtom
<1> HIDE DEF hit
<1> QED
  BY <1>1, <1>2, <1>3, <1>4

\* The demasker restores a text atom by atom.
LEMMA DemaskRec ==
  ASSUME MaskerOK, NEW text \in Seq(Atoms)
  PROVE  \E restored : /\ restored[0] = <<>> /\ Demask(text) = restored[Len(text)]
                       /\ \A k \in 1 .. Len(text) : restored[k] = restored[k - 1] \o DemaskAtom(text[k])
<1> DEFINE N == Len(text)
           V == Seq(Atoms)
           step == [q \in V \X (1 .. N) |-> q[1] \o DemaskAtom(text[q[2]])]
<1>1. N \in Nat /\ <<>> \in V /\ \A k \in 1 .. N : DemaskAtom(text[k]) \in V
  <2>1. \A k \in 1 .. N : text[k] \in Atoms
    OBVIOUS
  <2> QED
    BY <2>1, DemaskAtomType
<1>2. \A done \in V : \A k \in 1 .. N : done \o DemaskAtom(text[k]) \in V
  BY <1>1
<1>3. step \in [V \X (1 .. N) -> V]
  BY <1>2
<1> HIDE DEF V, N
<1>4. PICK f \in [0 .. N -> V] : f[0] = <<>> /\ \A k \in 1 .. N : f[k] = f[k - 1] \o DemaskAtom(text[k])
  <2>1. ASSUME NEW f \in [0 .. N -> V], NEW k \in 1 .. N
        PROVE  step[<<f[k - 1], k>>] = f[k - 1] \o DemaskAtom(text[k])
    <3>1. f[k - 1] \in V
      BY <1>1
    <3> QED
      BY <3>1
  <2> HIDE DEF step
  <2>2. IndexDefinition(step, N, V, <<>>)
    BY <1>1, <1>3 DEF IndexDefinition
  <2>3. PICK f \in [0 .. N -> V] : f[0] = <<>> /\ \A k \in 1 .. N : f[k] = step[<<f[k - 1], k>>]
    BY <2>2, IndexRecursion
  <2> QED
    BY <2>1, <2>3
<1>5. f = [k \in 0 .. N |-> IF k = 0 THEN <<>> ELSE f[k - 1] \o DemaskAtom(text[k])]
  <2>1. f = [k \in 0 .. N |-> f[k]]
    BY <1>4
  <2>2. \A k \in 0 .. N : f[k] = IF k = 0 THEN <<>> ELSE f[k - 1] \o DemaskAtom(text[k])
    BY <1>1, <1>4
  <2> QED
    BY <2>1, <2>2
<1> DEFINE g == CHOOSE h : h = [k \in 0 .. N |-> IF k = 0 THEN <<>> ELSE h[k - 1] \o DemaskAtom(text[k])]
<1>6. g = [k \in 0 .. N |-> IF k = 0 THEN <<>> ELSE g[k - 1] \o DemaskAtom(text[k])]
  BY <1>5
<1>7. Demask(text) = g[N]
  BY DEF Demask, N
<1> HIDE DEF g
<1>8. g[0] = <<>> /\ \A k \in 1 .. N : g[k] = g[k - 1] \o DemaskAtom(text[k])
  BY <1>1, <1>6
<1> QED
  BY <1>7, <1>8 DEF N

\* What an atom of a masked text stands for is what it is restored to.
LEMMA DemaskPiece ==
  ASSUME MaskerOK, NEW text \in Seq(Atoms),
         \A k \in DOMAIN text : text[k][1] # "drifted" /\ (text[k][1] = "exact" => text[k] \in Reserved),
         NEW i \in 0 .. Len(text), NEW j \in 0 .. Len(text), NEW a, Piece(text, i, j, a, reps)
  PROVE  DemaskAtom(a) = Slice(text, i, j) /\ i <= j
<1> DEFINE hit == {k \in DOMAIN reps : reps[k].type = a[2] /\ reps[k].n = a[3]}
<1>1. CASE j = i + 1 /\ a = text[j]
  <2>1. j \in DOMAIN text /\ a \in Atoms
    BY <1>1
  <2>2. a = <<a[1], a[2], a[3]>> /\ a[1] # "drifted" /\ (a[1] = "exact" => a \in Reserved)
    BY <1>1, <2>1 DEF Atoms
  <2>3. a[1] = "exact" => hit = {}
    <3> SUFFICES ASSUME a[1] = "exact", NEW k \in hit PROVE FALSE
      OBVIOUS
    <3>1. Placeholder(reps[k]) = a
      BY <2>2 DEF Placeholder, Exact
    <3> QED
      BY <2>2, <3>1 DEF MaskerOK, Numbered
  <2>4. DemaskAtom(a) = <<a>>
    BY <2>2, <2>3 DEF DemaskAtom
  <2>5. Slice(text, i, j) = <<a>>
    <3>1. /\ Slice(text, i, j) \in Seq(Atoms) /\ Len(Slice(text, i, j)) = 1
          /\ Slice(text, i, j)[1] = a
      <4>1. i <= j /\ j - i = 1 /\ 1 \in 1 .. j - i /\ text[i + 1] = a
        BY <1>1
      <4> QED
        BY <4>1, SliceOK
    <3> DEFINE slice == Slice(text, i, j)
    <3> HIDE DEF slice
    <3>2. slice = <<a>>
      BY <3>1 DEF slice
    <3> QED
      BY <3>2 DEF slice
  <2> QED
    BY <1>1, <2>4, <2>5
<1>2. CASE i <= j /\ \E k \in DOMAIN reps : a = Placeholder(reps[k]) /\ reps[k].original = Slice(text, i, j)
  <2>1. PICK k \in DOMAIN reps : a = Placeholder(reps[k]) /\ reps[k].original = Slice(text, i, j)
    BY <1>2
  <2>2. a[1] = "exact" /\ a[2] = reps[k].type /\ a[3] = reps[k].n
    BY <2>1 DEF Placeholder, Exact
  <2>3. ASSUME NEW h \in hit PROVE h = k
    <3>1. Placeholder(reps[h]) = Placeholder(reps[k])
      BY <2>2 DEF Placeholder, Exact
    <3> QED
      BY <3>1 DEF MaskerOK, Numbered
  <2>4. k \in hit
    BY <2>2
  <2>5. hit # {} /\ (CHOOSE h \in hit : TRUE) = k
    <3>1. (CHOOSE h \in hit : TRUE) \in hit
      BY <2>4
    <3> QED
      BY <2>3, <2>4, <3>1
  <2>6. DemaskAtom(a) = IF (a[1] = "exact" \/ (a[1] = "drifted" /\ \E r \in demaskRules : rulebook[r].type = a[2])) /\ hit # {}
                        THEN reps[CHOOSE h \in hit : TRUE].original ELSE <<a>>
    BY DEF DemaskAtom
  <2> HIDE DEF hit
  <2> QED
    BY <1>2, <2>1, <2>2, <2>5, <2>6
<1> QED
  BY <1>1, <1>2 DEF Piece

LEMMA StandsForRestores ==
  ASSUME MaskerOK, NEW text \in Seq(Atoms), NEW out \in Seq(Atoms),
         \A k \in DOMAIN text : text[k][1] # "drifted" /\ (text[k][1] = "exact" => text[k] \in Reserved),
         StandsFor(out, text, Len(text), reps)
  PROVE  Demask(out) = text
<1> DEFINE N == Len(out)
<1>1. PICK cuts \in [0 .. N -> 0 .. Len(text)] :
         cuts[0] = 0 /\ cuts[N] = Len(text) /\ \A n \in 1 .. N : Piece(text, cuts[n - 1], cuts[n], out[n], reps)
  BY DEF StandsFor
<1>2. PICK restored :
         /\ restored[0] = <<>> /\ Demask(out) = restored[N]
         /\ \A k \in 1 .. N : restored[k] = restored[k - 1] \o DemaskAtom(out[k])
  BY DemaskRec
<1>3. N \in Nat /\ Len(text) \in Nat
  OBVIOUS
<1> HIDE DEF N
<1> DEFINE S == {n \in 0 .. N : restored[n] = SubSeq(text, 1, cuts[n])}
<1>4. 0 \in S
  <2>1. SubSeq(text, 1, 0) = <<>>
    BY SubSeqEmpty
  <2>2. restored[0] = SubSeq(text, 1, cuts[0])
    BY <1>1, <1>2, <2>1
  <2> QED
    BY <1>3, <2>2
<1>5. ASSUME NEW n \in 1 .. N, n - 1 \in S PROVE n \in S
  <2> DEFINE i == cuts[n - 1]
             j == cuts[n]
  <2>1. i \in 0 .. Len(text) /\ j \in 0 .. Len(text) /\ Piece(text, i, j, out[n], reps)
    BY <1>1, <1>3
  <2> HIDE DEF i, j
  <2>2. DemaskAtom(out[n]) = Slice(text, i, j) /\ i <= j
    BY <2>1, DemaskPiece
  <2>3. restored[n] = SubSeq(text, 1, i) \o SubSeq(text, i + 1, j)
    BY <1>2, <1>5, <2>2 DEF i, Slice
  <2>4. SubSeq(text, 1, i) \o SubSeq(text, i + 1, j) = SubSeq(text, 1, j)
    <3>1. 1 \in 1 .. Len(text) + 1 /\ i \in 1 - 1 .. Len(text) /\ j \in i .. Len(text)
      BY <1>3, <2>1, <2>2
    <3> QED
      BY <3>1, ConcatAdjacentSubSeq
  <2>5. restored[n] = SubSeq(text, 1, cuts[n])
    BY <2>3, <2>4 DEF j
  <2> QED
    BY <1>3, <2>5
<1>6. N \in S
  <2> HIDE DEF S
  <2>1. 0 .. N \subseteq S
    BY <1>3, <1>4, <1>5, IndexInduction
  <2> QED
    BY <1>3, <2>1
<1>7. Demask(out) = SubSeq(text, 1, Len(text))
  BY <1>1, <1>2, <1>6
<1> QED
  BY <1>7, SubSeqFull

\* The client's texts have no token that only a placeholder regex recognizes.
NoDriftedTokens == \A i \in Texts : \A k \in DOMAIN request[i] : request[i][k][1] # "drifted"

LEMMA RoundTripFromIInv ==
  ASSUME IInv, NoDriftedTokens
  PROVE  RoundTrip
<1> SUFFICES ASSUME phase = "stream", NEW i \in Texts PROVE Demask(masked[i]) = request[i]
  BY DEF RoundTrip
<1>1. RequestOK /\ MaskerOK
  BY InputsOK DEF IInv
<1>2. /\ masked \in Seq(Seq(Atoms)) /\ request \in Seq(Seq(Atoms)) /\ Len(masked) = Len(request)
  BY <1>1 DEF IInv, MaskedOK, PhasesOK, RequestOK
<1>3. i \in DOMAIN masked /\ masked[i] \in Seq(Atoms) /\ request[i] \in Seq(Atoms)
  BY <1>2 DEF Texts
<1>4. StandsFor(masked[i], request[i], Len(request[i]), reps)
  BY <1>3 DEF IInv, MaskedOK
<1>5. \A k \in DOMAIN request[i] :
         request[i][k][1] # "drifted" /\ (request[i][k][1] = "exact" => request[i][k] \in Reserved)
  BY DEF NoDriftedTokens, Reserved
<1> QED
  BY <1>1, <1>3, <1>4, <1>5, StandsForRestores

\* The demasker undoes the masker: a response that repeats the masked texts is
\* restored to the client's texts, provided that these have no drifted token
\* of their own (an exact one is never taken for a placeholder of ours).
THEOREM RoundTripCorrect == Spec => [](NoDriftedTokens => RoundTrip)
<1>1. IInv => (NoDriftedTokens => RoundTrip)
  BY RoundTripFromIInv
<1> QED
  BY <1>1, IInvCorrect, PTL
=============================================================================
