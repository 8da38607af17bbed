--------------------------- MODULE DemaskerProofs ---------------------------
(***************************************************************************)
(* Proofs for Demasker.  Whatever the response, its chunks, the originals  *)
(* and the failing scans: only whole runes are sent and held back, and the *)
(* tail held back is bounded.  For originals that do not look like parts   *)
(* of placeholders: nothing is lost, repeated or reordered, and without a  *)
(* failing scan the chunk boundaries do not matter.                        *)
(***************************************************************************)
EXTENDS Demasker, SequenceTheorems, Integers, FiniteSets, FiniteSetTheorems, WellFoundedInduction, TLAPS

-----------------------------------------------------------------------------
(* Induction over data, in the first-order form that the provers can use:  *)
(* properties are sets and recursive definitions are functions, so that    *)
(* every lemma can be instantiated.                                        *)

LessNat == {ss \in Nat \X Nat : ss[1] < ss[2]}

LEMMA LessNatWellFounded == IsWellFoundedOn(LessNat, Nat)
  BY NatLessThanWellFounded, Zenon DEF OpToRel, LessNat

\* A set of numbers has a least one.
LEMMA NatMinimum ==
  ASSUME NEW T \in SUBSET Nat, T # {}
  PROVE  \E x \in T : \A y \in T : x <= y
<1>1. \E x \in T : \A y \in T : ~ (<<y, x>> \in LessNat)
  BY LessNatWellFounded, WFMin
<1>2. ASSUME NEW x \in Nat, NEW y \in Nat, ~ (<<y, x>> \in LessNat) PROVE x <= y
  BY <1>2 DEF LessNat
<1> QED
  BY <1>1, <1>2

\* A set that holds n whenever it holds every smaller number holds them all.
LEMMA NatStrongInduction ==
  ASSUME NEW S, \A n \in Nat : (\A m \in 0 .. n - 1 : m \in S) => n \in S
  PROVE  Nat \subseteq S
<1> SUFFICES ASSUME Nat \ S # {} PROVE FALSE
  OBVIOUS
<1>1. PICK x \in Nat \ S : \A y \in Nat \ S : x <= y
  BY NatMinimum
<1> QED
  BY <1>1

\* A set that holds 0, and n + 1 whenever it holds n, holds every number.
LEMMA NatInductive ==
  ASSUME NEW S, 0 \in S, \A n \in Nat : n \in S => n + 1 \in S
  PROVE  Nat \subseteq S
<1>1. ASSUME NEW n \in Nat, \A m \in 0 .. n - 1 : m \in S PROVE n \in S
  <2>1. CASE n = 0
    BY <2>1
  <2>2. CASE n # 0
    <3>1. n - 1 \in Nat /\ n - 1 \in 0 .. n - 1 /\ n = (n - 1) + 1
      BY <2>2
    <3> QED
      BY <1>1, <3>1
  <2> QED
    BY <2>1, <2>2
<1> QED
  BY <1>1, NatStrongInduction

\* The same up to N.
LEMMA IndexInduction ==
  ASSUME NEW N \in Nat, NEW S, 0 \in S, \A k \in 1 .. N : k - 1 \in S => k \in S
  PROVE  0 .. N \subseteq S
<1> DEFINE T == {n \in Nat : n <= N => n \in S}
<1>1. 0 \in T
  OBVIOUS
<1>2. ASSUME NEW n \in Nat, n \in T PROVE n + 1 \in T
  <2>1. SUFFICES ASSUME n + 1 <= N PROVE n + 1 \in S
    OBVIOUS
  <2>2. n + 1 \in 1 .. N /\ (n + 1) - 1 = n /\ n \in S
    BY <1>2, <2>1
  <2> QED
    BY <2>2
<1> HIDE DEF T
<1>3. Nat \subseteq T
  BY <1>1, <1>2, NatInductive
<1> QED
  BY <1>3 DEF T

-----------------------------------------------------------------------------
(* Recursive functions.                                                     *)

IndexDefinition(step, N, V, base) == N \in Nat /\ base \in V /\ step \in [V \X (1 .. N) -> V]

\* A function on 0 .. N can be defined by its first value and by how each
\* value follows from the one before.
LEMMA IndexRecursion ==
  ASSUME NEW N, NEW V, NEW base, NEW step, IndexDefinition(step, N, V, base)
  PROVE  \E f \in [0 .. N -> V] : f[0] = base /\ \A k \in 1 .. N : f[k] = step[<<f[k - 1], k>>]
<1> DEFINE Good(f, n) == f[0] = base /\ \A k \in 1 .. n : f[k] = step[<<f[k - 1], k>>]
           S == {n \in Nat : n <= N => \E f \in [0 .. N -> V] : Good(f, n)}
<1>0. N \in Nat /\ base \in V /\ step \in [V \X (1 .. N) -> V]
  BY DEF IndexDefinition
<1>1. 0 \in S
  <2>1. Good([k \in 0 .. N |-> base], 0)
    BY <1>0
  <2> QED
    BY <1>0, <2>1
<1>2. ASSUME NEW n \in Nat, n \in S PROVE n + 1 \in S
  <2>1. SUFFICES ASSUME n + 1 <= N PROVE \E f \in [0 .. N -> V] : Good(f, n + 1)
    OBVIOUS
  <2>2. PICK f \in [0 .. N -> V] : Good(f, n)
    BY <1>0, <1>2, <2>1
  <2> DEFINE g == [f EXCEPT ![n + 1] = step[<<f[n], n + 1>>]]
  <2>3. n \in 0 .. N /\ n + 1 \in 1 .. N /\ f[n] \in V
    BY <1>0, <2>1
  <2>4. g \in [0 .. N -> V]
    BY <1>0, <2>3
  <2>5. g[0] = base
    BY <2>2, <2>3
  <2>6. ASSUME NEW k \in 1 .. n + 1 PROVE g[k] = step[<<g[k - 1], k>>]
    <3>1. k - 1 \in 0 .. N /\ k \in 0 .. N /\ k - 1 # n + 1 /\ g[k - 1] = f[k - 1]
      BY <1>0, <2>1
    <3>2. CASE k = n + 1
      BY <2>3, <3>1, <3>2
    <3>3. CASE k # n + 1
      <4>1. k \in 1 .. n /\ g[k] = f[k]
        BY <3>1, <3>3
      <4> QED
        BY <2>2, <3>1, <4>1
    <3> QED
      BY <3>2, <3>3
  <2> QED
    BY <2>4, <2>5, <2>6
<1> HIDE DEF S
<1>3. N \in S
  BY <1>0, <1>1, <1>2, NatInductive
<1> QED
  BY <1>0, <1>3 DEF S


\* Bytes are strings; the provers do not know that a given string is one.
Bytes == STRING \cup {"\\"}
Text == Seq(Bytes)

LEMMA StringsAreTexts == Seq(STRING) \subseteq Text
  BY DEF Text, Bytes

LEMMA PairIsText == ASSUME NEW a \in Bytes, NEW b \in Bytes PROVE <<a, b>> \in Text
  BY DEF Text

\* The concatenation and the empty text, as names that provers do not expand.
Joined(s, t) == s \o t
Empty == <<>>

LEMMA JoinedOK ==
  /\ Empty \in Text /\ Len(Empty) = 0
  /\ \A s, t \in Text : Joined(s, t) \in Text
  /\ \A t \in Text : Joined(Empty, t) = t /\ Joined(t, Empty) = t
  BY DEF Joined, Empty, Text

-----------------------------------------------------------------------------
(* Runes.                                                                   *)

LEMMA RuneLenOK == \A b : RuneLen(b) \in 1 .. 3
  BY DEF RuneLen

\* Whole runes followed by whole runes are whole runes.
LEMMA WholeConcat ==
  ASSUME NEW s \in Text, NEW t \in Text, WholeRunes(s), WholeRunes(t)
  PROVE  s \o t \in Text /\ WholeRunes(s \o t)
<1> DEFINE u == s \o t
           n == Len(s)
<1>1. /\ n \in Nat /\ Len(t) \in Nat /\ u \in Text /\ Len(u) = n + Len(t)
      /\ \A i \in 1 .. n : u[i] = s[i]
      /\ \A i \in 1 .. Len(t) : u[n + i] = t[i]
  BY DEF Text
<1>2. DOMAIN u = 1 .. Len(u) /\ DOMAIN s = 1 .. n /\ DOMAIN t = 1 .. Len(t)
  BY <1>1 DEF Text
<1> HIDE DEF u, n
<1>3. ASSUME NEW i \in 1 .. Len(u), RuneStart(u[i])
      PROVE  /\ i - 1 + RuneLen(u[i]) <= Len(u)
             /\ \A j \in i + 1 .. i - 1 + RuneLen(u[i]) : ~RuneStart(u[j])
  <2> DEFINE L == RuneLen(u[i])
  <2>0. L \in 1 .. 3
    BY RuneLenOK
  <2> HIDE DEF L
  <2>1. CASE i <= n
    <3>1. i \in 1 .. n /\ u[i] = s[i]
      BY <1>1, <2>1
    <3>1a. L = RuneLen(s[i]) /\ RuneStart(s[i]) /\ i \in DOMAIN s
      BY <1>2, <1>3, <3>1 DEF L
    <3>2. i - 1 + L <= n /\ \A j \in i + 1 .. i - 1 + L : ~RuneStart(s[j])
      BY <3>1a DEF WholeRunes, n
    <3>3. \A j \in i + 1 .. i - 1 + L : j \in 1 .. n
      BY <1>1, <2>0, <3>1, <3>2
    <3> QED
      BY <1>1, <2>0, <3>2, <3>3 DEF L
  <2>2. CASE i > n
    <3>1. i - n \in 1 .. Len(t) /\ u[i] = t[i - n]
      <4>1. i - n \in 1 .. Len(t) /\ n + (i - n) = i
        BY <1>1, <2>2
      <4> QED
        BY <1>1, <4>1
    <3>1a. L = RuneLen(t[i - n]) /\ RuneStart(t[i - n]) /\ i - n \in DOMAIN t
      BY <1>2, <1>3, <3>1 DEF L
    <3>2. (i - n) - 1 + L <= Len(t) /\ \A j \in (i - n) + 1 .. (i - n) - 1 + L : ~RuneStart(t[j])
      BY <3>1a DEF WholeRunes
    <3>3. ASSUME NEW j \in i + 1 .. i - 1 + L PROVE ~RuneStart(u[j])
      <4>1. j - n \in (i - n) + 1 .. (i - n) - 1 + L /\ j - n \in 1 .. Len(t) /\ n + (j - n) = j
        BY <1>1, <2>0, <2>2, <3>1, <3>2
      <4>2. u[j] = t[j - n]
        BY <1>1, <4>1
      <4> QED
        BY <3>2, <4>1, <4>2
    <3> QED
      BY <1>1, <2>0, <3>2, <3>3 DEF L
  <2> QED
    BY <1>1, <2>1, <2>2
<1>4. ASSUME NEW i \in 1 .. Len(u), ~RuneStart(u[i])
      PROVE  \E j \in 1 .. i - 1 : RuneStart(u[j]) /\ i <= j - 1 + RuneLen(u[j])
  <2>1. CASE i <= n
    <3>1. i \in 1 .. n /\ u[i] = s[i]
      BY <1>1, <2>1
    <3>2. PICK j \in 1 .. i - 1 : RuneStart(s[j]) /\ i <= j - 1 + RuneLen(s[j])
      BY <1>2, <1>4, <3>1 DEF WholeRunes
    <3>3. j \in 1 .. n /\ u[j] = s[j]
      BY <1>1, <3>1
    <3> QED
      BY <3>2, <3>3
  <2>2. CASE i > n
    <3>1. i - n \in 1 .. Len(t) /\ u[i] = t[i - n]
      <4>1. i - n \in 1 .. Len(t) /\ n + (i - n) = i
        BY <1>1, <2>2
      <4> QED
        BY <1>1, <4>1
    <3>2. PICK j \in 1 .. (i - n) - 1 : RuneStart(t[j]) /\ i - n <= j - 1 + RuneLen(t[j])
      BY <1>2, <1>4, <3>1 DEF WholeRunes
    <3>3. n + j \in 1 .. i - 1 /\ j \in 1 .. Len(t)
      BY <1>1, <3>1
    <3>4. u[n + j] = t[j]
      BY <1>1, <3>3
    <3>5. i <= (n + j) - 1 + RuneLen(u[n + j])
      <4>1. RuneLen(u[n + j]) \in 1 .. 3 /\ i - n <= j - 1 + RuneLen(u[n + j])
        BY <3>2, <3>4, RuneLenOK
      <4>2. \A len \in 1 .. 3 : i - n <= j - 1 + len => i <= (n + j) - 1 + len
        BY <1>1
      <4> QED
        BY <4>1, <4>2
    <3> QED
      BY <3>2, <3>3, <3>4, <3>5
  <2> QED
    BY <1>1, <2>1, <2>2
<1>5. WholeRunes(u)
  BY <1>2, <1>3, <1>4 DEF WholeRunes
<1> QED
  BY <1>1, <1>5 DEF u

LEMMA WholeJoined ==
  ASSUME NEW s \in Text, NEW t \in Text, WholeRunes(s), WholeRunes(t)
  PROVE  Joined(s, t) \in Text /\ WholeRunes(Joined(s, t))
  BY WholeConcat DEF Joined

\* The byte before a boundary belongs to a rune that ends there.
LEMMA LastRune ==
  ASSUME NEW s \in Text, WholeRunes(s), NEW k \in 1 .. Len(s)
  PROVE  \E i \in 1 .. k :
           /\ RuneStart(s[i]) /\ RuneBoundary(s, i - 1)
           /\ \A j \in i + 1 .. k : ~RuneStart(s[j])
           /\ k <= i - 1 + RuneLen(s[i]) /\ i - 1 + RuneLen(s[i]) <= Len(s)
           /\ RuneBoundary(s, k) <=> k = i - 1 + RuneLen(s[i])
<1> DEFINE starts == {m \in Nat : k - m \in 1 .. k /\ RuneStart(s[k - m])}
<1>0. Len(s) \in Nat /\ DOMAIN s = 1 .. Len(s)
  BY DEF Text
<1>1. \A i \in 1 .. k : ~RuneStart(s[i]) => \E j \in 1 .. i - 1 : RuneStart(s[j]) /\ i <= j - 1 + RuneLen(s[j])
  BY <1>0 DEF WholeRunes
<1>2. starts # {}
  <2>1. \E j \in 1 .. k : RuneStart(s[j])
    <3>1. k \in 1 .. k
      BY <1>0
    <3>2. CASE RuneStart(s[k])
      BY <3>1, <3>2
    <3>3. CASE ~RuneStart(s[k])
      <4>1. \E j \in 1 .. k - 1 : RuneStart(s[j])
        BY <1>1, <3>1, <3>3
      <4> QED
        BY <1>0, <4>1
    <3> QED
      BY <3>2, <3>3
  <2>2. PICK j \in 1 .. k : RuneStart(s[j])
    BY <2>1
  <2>3. k - j \in Nat /\ k - (k - j) = j
    BY <1>0
  <2> QED
    BY <2>2, <2>3
<1>3. PICK m \in starts : \A n \in starts : m <= n
  BY <1>2, NatMinimum
<1> DEFINE i == k - m
<1>4. i \in 1 .. k /\ RuneStart(s[i])
  BY <1>3
<1>5. ASSUME NEW j \in i + 1 .. k PROVE ~RuneStart(s[j])
  <2>1. k - j \in Nat /\ k - (k - j) = j /\ j \in 1 .. k /\ ~ (m <= k - j)
    BY <1>0, <1>3, <1>4
  <2> QED
    BY <1>3, <2>1
<1> DEFINE L == RuneLen(s[i])
<1>6. L \in 1 .. 3
  BY RuneLenOK
<1> HIDE DEF starts, i, L
<1>7. i - 1 + L <= Len(s) /\ \A j \in i + 1 .. i - 1 + L : ~RuneStart(s[j])
  BY <1>0, <1>4 DEF WholeRunes, L
<1>8. \* a byte after the last start belongs to its rune
      ASSUME NEW q \in i + 1 .. Len(s), \A j \in i + 1 .. q : ~RuneStart(s[j])
      PROVE  q <= i - 1 + L
  <2>1. q \in DOMAIN s /\ ~RuneStart(s[q])
    BY <1>0, <1>4, <1>8
  <2>2. PICK j \in 1 .. q - 1 : RuneStart(s[j]) /\ q <= j - 1 + RuneLen(s[j])
    BY <2>1 DEF WholeRunes
  <2>3. j <= i
    <3>1. SUFFICES ASSUME ~ (j <= i) PROVE FALSE
      OBVIOUS
    <3>2. j \in i + 1 .. q
      BY <1>0, <1>4, <3>1
    <3> QED
      BY <1>8, <2>2, <3>2
  <2>4. CASE j = i
    BY <2>2, <2>4 DEF L
  <2>5. CASE j < i
    <3>1. RuneLen(s[j]) \in 1 .. 3
      BY RuneLenOK
    <3>2. i \in j + 1 .. j - 1 + RuneLen(s[j]) /\ j \in DOMAIN s
      BY <1>0, <1>4, <2>2, <2>5, <3>1
    <3>3. ~RuneStart(s[i])
      BY <2>2, <3>2 DEF WholeRunes
    <3> QED
      BY <1>4, <3>3
  <2> QED
    BY <1>0, <1>4, <2>3, <2>4, <2>5
<1>9. k <= i - 1 + L
  <2>1. CASE k = i
    BY <1>4, <1>6, <2>1
  <2>2. CASE k # i
    <3>1. k \in i + 1 .. Len(s)
      BY <1>0, <1>4, <2>2
    <3> QED
      BY <1>5, <1>8, <3>1
  <2> QED
    BY <2>1, <2>2
<1>10. ASSUME RuneBoundary(s, k) PROVE k = i - 1 + L
  <2>1. SUFFICES ASSUME k < i - 1 + L PROVE FALSE
    BY <1>4, <1>6, <1>9
  <2>2. k + 1 \in i + 1 .. i - 1 + L /\ k + 1 \in DOMAIN s
    BY <1>0, <1>4, <1>6, <1>7, <2>1
  <2> QED
    BY <1>7, <1>10, <2>2 DEF RuneBoundary
<1>11. ASSUME k = i - 1 + L PROVE RuneBoundary(s, k)
  <2>1. SUFFICES ASSUME k + 1 \in DOMAIN s, ~RuneStart(s[k + 1]) PROVE FALSE
    BY <1>0 DEF RuneBoundary
  <2>2. k + 1 \in i + 1 .. Len(s)
    BY <1>0, <1>4, <2>1
  <2>3. \A j \in i + 1 .. k + 1 : j \in i + 1 .. k \/ j = k + 1
    BY <1>0, <1>4
  <2>4. k + 1 <= i - 1 + L
    BY <1>5, <1>8, <2>1, <2>2, <2>3
  <2> QED
    BY <1>0, <1>11, <2>4
<1>12. RuneBoundary(s, i - 1)
  BY <1>4 DEF RuneBoundary
<1>13. i - 1 + L <= Len(s)
  BY <1>7
<1> QED
  BY <1>4, <1>5, <1>9, <1>10, <1>11, <1>12, <1>13 DEF L

\* A cut at a boundary leaves whole runes on both sides.
LEMMA WholeCut ==
  ASSUME NEW s \in Text, WholeRunes(s), NEW a \in 0 .. Len(s), NEW b \in a .. Len(s),
         RuneBoundary(s, a), RuneBoundary(s, b)
  PROVE  SubSeq(s, a + 1, b) \in Text /\ WholeRunes(SubSeq(s, a + 1, b))
<1> DEFINE u == SubSeq(s, a + 1, b)
<1>0. Len(s) \in Nat /\ DOMAIN s = 1 .. Len(s) /\ a \in Nat /\ b \in Nat
  BY DEF Text
<1>1. u \in Text /\ Len(u) = b - a /\ DOMAIN u = 1 .. b - a
  BY <1>0 DEF Text
<1>2. \A i \in 1 .. b - a : u[i] = s[a + i]
  BY <1>0 DEF Text
<1> HIDE DEF u
<1>3. ASSUME NEW i \in 1 .. b - a, RuneStart(u[i])
      PROVE  /\ i - 1 + RuneLen(u[i]) <= b - a
             /\ \A j \in i + 1 .. i - 1 + RuneLen(u[i]) : ~RuneStart(u[j])
  <2> DEFINE L == RuneLen(s[a + i])
  <2>1. L \in 1 .. 3 /\ u[i] = s[a + i] /\ a + i \in DOMAIN s
    BY <1>0, <1>2, RuneLenOK
  <2> HIDE DEF L
  <2>2. (a + i) - 1 + L <= Len(s) /\ \A j \in (a + i) + 1 .. (a + i) - 1 + L : ~RuneStart(s[j])
    BY <1>3, <2>1 DEF WholeRunes, L
  <2>3. i - 1 + L <= b - a
    <3>1. SUFFICES ASSUME (a + i) - 1 + L > b PROVE FALSE
      BY <1>0, <2>1
    <3>2. b + 1 \in (a + i) + 1 .. (a + i) - 1 + L /\ b + 1 \in DOMAIN s
      BY <1>0, <2>1, <2>2, <3>1
    <3> QED
      BY <2>2, <3>2 DEF RuneBoundary
  <2>4. ASSUME NEW j \in i + 1 .. i - 1 + L PROVE ~RuneStart(u[j])
    <3>1. a + j \in (a + i) + 1 .. (a + i) - 1 + L /\ j \in 1 .. b - a
      BY <1>0, <2>1, <2>3
    <3> QED
      BY <1>2, <2>2, <3>1
  <2> QED
    BY <2>1, <2>3, <2>4 DEF L
<1>4. ASSUME NEW i \in 1 .. b - a, ~RuneStart(u[i])
      PROVE  \E j \in 1 .. i - 1 : RuneStart(u[j]) /\ i <= j - 1 + RuneLen(u[j])
  <2>1. a + i \in DOMAIN s /\ u[i] = s[a + i]
    BY <1>0, <1>2
  <2>2. PICK q \in 1 .. (a + i) - 1 : RuneStart(s[q]) /\ a + i <= q - 1 + RuneLen(s[q])
    BY <1>4, <2>1 DEF WholeRunes
  <2>3. q > a
    <3>1. SUFFICES ASSUME q <= a PROVE FALSE
      BY <1>0
    <3>2. q \in DOMAIN s /\ \A j \in q + 1 .. q - 1 + RuneLen(s[q]) : ~RuneStart(s[j])
      BY <1>0, <2>1, <2>2 DEF WholeRunes
    <3>3. a + 1 \in q + 1 .. q - 1 + RuneLen(s[q]) /\ a + 1 \in DOMAIN s
      BY <1>0, <2>2, <3>1, RuneLenOK
    <3> QED
      BY <3>2, <3>3 DEF RuneBoundary
  <2>4. q - a \in 1 .. i - 1 /\ u[q - a] = s[q]
    <3>1. q - a \in 1 .. i - 1 /\ q - a \in 1 .. b - a /\ a + (q - a) = q
      BY <1>0, <2>3
    <3> QED
      BY <1>2, <3>1
  <2>5. i <= (q - a) - 1 + RuneLen(u[q - a])
    BY <1>0, <2>2, <2>4, RuneLenOK
  <2> QED
    BY <2>2, <2>4, <2>5
<1>5. WholeRunes(u)
  BY <1>1, <1>3, <1>4 DEF WholeRunes
<1> QED
  BY <1>1, <1>5 DEF u

\* A byte before a continuation byte begins or continues a longer rune.
LEMMA ContinuedRune ==
  ASSUME NEW s \in Text, WholeRunes(s), NEW j \in 1 .. Len(s), j + 1 \in 1 .. Len(s),
         ~RuneStart(s[j + 1])
  PROVE  RuneStart(s[j]) => RuneLen(s[j]) # 1
<1>0. Len(s) \in Nat /\ DOMAIN s = 1 .. Len(s)
  BY DEF Text
<1>1. SUFFICES ASSUME RuneStart(s[j]), RuneLen(s[j]) = 1 PROVE FALSE
  OBVIOUS
<1>2. PICK i \in 1 .. j + 1 :
         /\ RuneStart(s[i]) /\ \A m \in i + 1 .. j + 1 : ~RuneStart(s[m])
         /\ j + 1 <= i - 1 + RuneLen(s[i])
  BY LastRune
<1>3. i = j
  BY <1>0, <1>1, <1>2
<1> QED
  BY <1>0, <1>1, <1>2, <1>3

\* The ends of a text are boundaries.
LEMMA EndBoundaries ==
  ASSUME NEW s \in Text, WholeRunes(s)
  PROVE  RuneBoundary(s, 0) /\ RuneBoundary(s, Len(s))
<1>0. Len(s) \in Nat /\ DOMAIN s = 1 .. Len(s)
  BY DEF Text
<1>1. ASSUME 1 \in DOMAIN s PROVE RuneStart(s[1])
  BY <1>1 DEF WholeRunes
<1> QED
  BY <1>0, <1>1 DEF RuneBoundary

\* The safe prefix ends at a boundary, at most two bytes early.
LEMMA SafePrefix ==
  ASSUME NEW s \in Text, WholeRunes(s), NEW end \in 0 .. Len(s)
  PROVE  /\ Utf8SafePrefixEnd(s, end) \in 0 .. end
         /\ end - 2 <= Utf8SafePrefixEnd(s, end)
         /\ RuneBoundary(s, Utf8SafePrefixEnd(s, end))
<1>0. Len(s) \in Nat
  BY DEF Text
<1>1. CASE end = Len(s)
  BY <1>0, <1>1, EndBoundaries DEF Utf8SafePrefixEnd
<1>2. CASE end = 0 /\ end < Len(s)
  <2>1. Utf8SafePrefixEnd(s, end) = 0
    BY <1>0, <1>2 DEF Utf8SafePrefixEnd
  <2> QED
    BY <1>0, <1>2, <2>1, EndBoundaries
<1>3. CASE end \in 1 .. Len(s) /\ end < Len(s)
  <2> DEFINE starts == {i \in 1 .. end : RuneStart(s[i])}
             last == CHOOSE i \in starts : \A j \in starts : j <= i
  <2>1. PICK i \in 1 .. end :
           /\ RuneStart(s[i]) /\ RuneBoundary(s, i - 1)
           /\ \A j \in i + 1 .. end : ~RuneStart(s[j])
           /\ end <= i - 1 + RuneLen(s[i])
           /\ RuneBoundary(s, end) <=> end = i - 1 + RuneLen(s[i])
    BY <1>3, LastRune
  <2>2. i \in starts /\ \A j \in starts : j <= i
    BY <1>0, <2>1
  <2>3. \A j \in starts : (\A q \in starts : q <= j) => j = i
    BY <1>0, <2>2
  <2>4. last = i
    BY <2>2, <2>3
  <2>5. starts # {}
    BY <2>2
  <2>6. Utf8SafePrefixEnd(s, end) = IF i - 1 + RuneLen(s[i]) <= end THEN end ELSE i - 1
    <3>1. ~ (end >= Len(s))
      BY <1>0, <1>3
    <3>2. Utf8SafePrefixEnd(s, end) =
            IF starts = {} THEN 0 ELSE IF last - 1 + RuneLen(s[last]) <= end THEN end ELSE last - 1
      BY <3>1 DEF Utf8SafePrefixEnd
    <3> HIDE DEF starts, last
    <3> QED
      BY <2>4, <2>5, <3>2
  <2> HIDE DEF starts, last
  <2> QED
    BY <1>0, <2>1, <2>6, RuneLenOK
<1> QED
  BY <1>0, <1>1, <1>2, <1>3

-----------------------------------------------------------------------------
(* Texts put together from pieces.                                          *)

\* FlattenSeq appends the pieces one after the other.
LEMMA FlattenRec ==
  ASSUME NEW N \in Nat, NEW p \in [1 .. N -> Text]
  PROVE  \E f \in [0 .. N -> Text] :
            /\ f[0] = Empty /\ FlattenSeq(p) = f[N]
            /\ \A k \in 1 .. N : f[k] = Joined(f[k - 1], p[k])
<1> DEFINE step == [q \in Text \X (1 .. N) |-> Joined(q[1], p[q[2]])]
<1>1. \A done \in Text : \A k \in 1 .. N : Joined(done, p[k]) \in Text
  BY JoinedOK
<1>2. step \in [Text \X (1 .. N) -> Text]
  BY <1>1
<1>3. PICK f \in [0 .. N -> Text] : f[0] = Empty /\ \A k \in 1 .. N : f[k] = Joined(f[k - 1], p[k])
  <2>1. ASSUME NEW f \in [0 .. N -> Text], NEW k \in 1 .. N
        PROVE  step[<<f[k - 1], k>>] = Joined(f[k - 1], p[k])
    <3>1. f[k - 1] \in Text
      OBVIOUS
    <3> QED
      BY <3>1
  <2> HIDE DEF step
  <2>2. IndexDefinition(step, N, Text, Empty)
    BY <1>2, JoinedOK DEF IndexDefinition
  <2>3. PICK f \in [0 .. N -> Text] : f[0] = Empty /\ \A k \in 1 .. N : f[k] = step[<<f[k - 1], k>>]
    BY <2>2, IndexRecursion
  <2> QED
    BY <2>1, <2>3
<1> HIDE DEF step
<1>4. p \in Seq(Text) /\ Len(p) = N
  OBVIOUS
<1>5. CASE N = 0
  <2>1. p = <<>>
    BY <1>4, <1>5
  <2>2. FlattenSeq(p) = Empty
    BY <2>1 DEF FlattenSeq, Empty
  <2> QED
    BY <1>3, <1>5, <2>2
<1>6. CASE N # 0
  <2> DEFINE flatten == CHOOSE h : h = [i \in 1 .. Len(p) |-> IF i = 1 THEN p[i] ELSE h[i - 1] \o p[i]]
             flattenN == CHOOSE h : h = [i \in 1 .. N |-> IF i = 1 THEN p[i] ELSE Joined(h[i - 1], p[i])]
             g == [i \in 1 .. N |-> f[i]]
  <2>1. FlattenSeq(p) = flatten[Len(p)]
    BY <1>4, <1>6 DEF FlattenSeq
  <2>2. flatten = flattenN
    BY <1>4 DEF Joined
  <2>3. g = [i \in 1 .. N |-> IF i = 1 THEN p[i] ELSE Joined(g[i - 1], p[i])]
    <3>1. ASSUME NEW i \in 1 .. N PROVE f[i] = IF i = 1 THEN p[i] ELSE Joined(g[i - 1], p[i])
      <4>1. CASE i = 1
        BY <1>3, <4>1, JoinedOK
      <4>2. CASE i # 1
        <5>1. i - 1 \in 1 .. N
          BY <4>2
        <5> QED
          BY <1>3, <4>2, <5>1
      <4> QED
        BY <4>1, <4>2
    <3> QED
      BY <3>1
  <2>4. flattenN = [i \in 1 .. N |-> IF i = 1 THEN p[i] ELSE Joined(flattenN[i - 1], p[i])]
    BY <2>3
  <2> HIDE DEF flatten, flattenN, g
  <2> DEFINE S == {k \in 0 .. N : k = 0 \/ flattenN[k] = f[k]}
  <2>5. 0 \in S
    OBVIOUS
  <2>6. ASSUME NEW k \in 1 .. N, k - 1 \in S PROVE k \in S
    <3>1. CASE k = 1
      BY <1>3, <2>4, <3>1, JoinedOK
    <3>2. CASE k # 1
      BY <1>3, <2>4, <2>6, <3>2
    <3> QED
      BY <3>1, <3>2
  <2> HIDE DEF S
  <2>7. 0 .. N \subseteq S
    BY <2>5, <2>6, IndexInduction
  <2>8. flattenN[N] = f[N]
    BY <1>6, <2>7 DEF S
  <2> QED
    BY <1>3, <1>4, <2>1, <2>2, <2>8
<1> QED
  BY <1>5, <1>6

\* Copying one more byte.
LEMMA CopyStep ==
  ASSUME NEW s \in Text, NEW g \in Text, NEW a \in 0 .. Len(s), NEW d \in 1 .. Len(s), a + d \in 1 .. Len(s)
  PROVE  Joined(Joined(g, SubSeq(s, a + 1, a + (d - 1))), <<s[a + d]>>) = Joined(g, SubSeq(s, a + 1, a + d))
<1>0. Len(s) \in Nat /\ s \in Seq(Bytes) /\ g \in Seq(Bytes) /\ a \in Nat /\ d \in Nat /\ s[a + d] \in Bytes
  BY DEF Text
<1> DEFINE u == SubSeq(s, a + 1, a + (d - 1))
           v == SubSeq(s, a + 1, a + d)
<1>1. /\ u \in Seq(Bytes) /\ Len(u) = d - 1 /\ \A i \in 1 .. d - 1 : u[i] = s[a + i]
      /\ v \in Seq(Bytes) /\ Len(v) = d /\ \A i \in 1 .. d : v[i] = s[a + i]
  BY <1>0
<1> HIDE DEF u, v
<1>2. v = u \o <<s[a + d]>>
  <2> DEFINE w == u \o <<s[a + d]>>
  <2>1. /\ w \in Seq(Bytes) /\ Len(w) = (d - 1) + 1 /\ w[(d - 1) + 1] = s[a + d]
        /\ \A i \in 1 .. d - 1 : w[i] = u[i]
    BY <1>0, <1>1
  <2> HIDE DEF w
  <2>2. Len(w) = d /\ w[d] = s[a + d]
    BY <1>0, <2>1
  <2>3. ASSUME NEW i \in 1 .. d PROVE w[i] = v[i]
    <3>1. CASE i = d
      BY <1>1, <2>2, <3>1
    <3>2. CASE i # d
      <4>1. i \in 1 .. d - 1
        BY <1>0, <3>2
      <4> QED
        BY <1>1, <2>1, <4>1
    <3> QED
      BY <3>1, <3>2
  <2>4. v = w
    BY <1>1, <2>1, <2>2, <2>3, SeqEqual
  <2> QED
    BY <2>4 DEF w
<1>3. (g \o u) \o <<s[a + d]>> = g \o (u \o <<s[a + d]>>)
  BY <1>0, <1>1
<1> QED
  BY <1>2, <1>3 DEF u, v, Joined

\* A text that is copied byte by byte, except that whole runes of it are
\* replaced by whole runes, is whole runes.
LEMMA WholePieces ==
  ASSUME NEW s \in Text, WholeRunes(s), NEW p \in [1 .. Len(s) -> Text],
         \A j \in 1 .. Len(s) : p[j] = <<s[j]>> \/ WholeRunes(p[j]),
         \A j \in 1 .. Len(s) - 1 :
            ~RuneStart(s[j + 1]) => (p[j] = <<s[j]>> <=> p[j + 1] = <<s[j + 1]>>)
  PROVE  FlattenSeq(p) \in Text /\ WholeRunes(FlattenSeq(p))
<1> DEFINE N == Len(s)
<1>0. N \in Nat /\ DOMAIN s = 1 .. N
  BY DEF Text
<1>1. PICK f \in [0 .. N -> Text] :
         /\ f[0] = Empty /\ FlattenSeq(p) = f[N]
         /\ \A k \in 1 .. N : f[k] = Joined(f[k - 1], p[k])
  BY <1>0, FlattenRec
<1> DEFINE S == {k \in Nat : k <= N /\ RuneBoundary(s, k) => WholeRunes(f[k])}
<1>2. ASSUME NEW k \in Nat, \A m \in 0 .. k - 1 : m \in S, k <= N, RuneBoundary(s, k)
      PROVE  WholeRunes(f[k])
  <2>1. CASE k = 0
    <3>1. WholeRunes(Empty)
      BY DEF WholeRunes, Empty
    <3> QED
      BY <1>1, <2>1, <3>1
  <2>2. CASE k # 0
    <3>1. PICK i \in 1 .. k :
             /\ RuneStart(s[i]) /\ RuneBoundary(s, i - 1)
             /\ \A j \in i + 1 .. k : ~RuneStart(s[j])
             /\ k = i - 1 + RuneLen(s[i])
      <4>1. k \in 1 .. Len(s)
        BY <1>2, <2>2
      <4> QED
        BY <1>2, <4>1, LastRune
    <3>1a. i \in Nat /\ i >= 1 /\ i <= k
      BY <1>2, <2>2
    <3>2. i - 1 \in 0 .. k - 1 /\ WholeRunes(f[i - 1]) /\ f[i - 1] \in Text
      <4>1. i - 1 \in 0 .. k - 1 /\ i - 1 <= N
        BY <1>0, <1>2
      <4> QED
        BY <1>0, <1>1, <1>2, <3>1, <4>1
    <3>3. RuneLen(s[i]) \in 1 .. 3
      BY RuneLenOK
    <3> DEFINE M == k - (i - 1)
               Rune(d) == SubSeq(s, (i - 1) + 1, (i - 1) + d)
    <3>4. M \in Nat /\ 1 \in 1 .. M /\ (i - 1) + M = k /\ i - 1 \in 0 .. N
      BY <1>0, <1>2
    <3>4a. \A d \in 1 .. M : /\ (i - 1) + d \in 1 .. N /\ ((i - 1) + d) - 1 = (i - 1) + (d - 1)
                           /\ d # 1 => (i - 1) + d \in i + 1 .. k /\ ((i - 1) + d) - 1 \in 1 .. N - 1
      <4>1. /\ i \in Nat /\ k \in Nat /\ 1 <= i /\ i <= k /\ k <= N /\ M = k - (i - 1)
        BY <1>2, <3>1a
      <4> HIDE DEF M, N
      <4> QED
        BY <1>0, <4>1
    <3>5. ASSUME NEW d \in 1 .. M
          PROVE  LET j == (i - 1) + d IN
                 /\ j \in 1 .. N /\ f[j] = Joined(f[(i - 1) + (d - 1)], p[j]) /\ p[j] \in Text
                 /\ d # 1 => (p[(i - 1) + (d - 1)] = <<s[(i - 1) + (d - 1)]>> <=> p[j] = <<s[j]>>)
      <4> DEFINE j == (i - 1) + d
      <4>1. j \in 1 .. N /\ j - 1 = (i - 1) + (d - 1)
        BY <3>4a
      <4>2. f[j] = Joined(f[j - 1], p[j]) /\ p[j] \in Text
        BY <1>0, <1>1, <4>1
      <4>3. ASSUME d # 1 PROVE p[j - 1] = <<s[j - 1]>> <=> p[j] = <<s[j]>>
        <5>1. j - 1 \in 1 .. Len(s) - 1 /\ j \in i + 1 .. k /\ (j - 1) + 1 = j
          BY <1>0, <3>4a, <4>1, <4>3
        <5> QED
          BY <3>1, <5>1
      <4> QED
        BY <4>1, <4>2, <4>3
    <3> HIDE DEF M
    <3>6. CASE p[i] = <<s[i]>>
      <4> DEFINE T == {d \in 0 .. M : f[(i - 1) + d] = Joined(f[i - 1], Rune(d))
                              /\ (d # 0 => p[(i - 1) + d] = <<s[(i - 1) + d]>>)}
      <4>1. 0 \in T
        <5>1. Rune(0) = Empty
          BY <1>0, <3>4 DEF Text, Empty
        <5>2. Joined(f[i - 1], Rune(0)) = f[i - 1] /\ (i - 1) + 0 = i - 1
          <6>1. Joined(f[i - 1], Empty) = f[i - 1]
            BY <3>2, JoinedOK
          <6> HIDE DEF Rune
          <6> QED
            BY <5>1, <6>1
        <5> QED
          BY <3>4, <5>2
      <4>2. ASSUME NEW d \in 1 .. M, d - 1 \in T PROVE d \in T
        <5> DEFINE j == (i - 1) + d
        <5>1. p[j] = <<s[j]>>
          <6>1. CASE d = 1
            <7>1. j = i
              BY <6>1
            <7> QED
              BY <3>6, <7>1
          <6>2. CASE d # 1
            <7>1. d - 1 # 0
              BY <6>2
            <7> QED
              BY <3>5, <4>2, <6>2, <7>1
          <6> QED
            BY <6>1, <6>2
        <5>2. f[j] = Joined(Joined(f[i - 1], Rune(d - 1)), <<s[j]>>)
          BY <3>5, <4>2, <5>1
        <5>3. Joined(Joined(f[i - 1], Rune(d - 1)), <<s[j]>>) = Joined(f[i - 1], Rune(d))
          <6>1. /\ i - 1 \in 0 .. Len(s) /\ d \in 1 .. Len(s) /\ (i - 1) + d \in 1 .. Len(s)
                /\ f[i - 1] \in Text
            BY <1>0, <3>1a, <3>2, <3>4, <3>5
          <6> QED
            BY <6>1, CopyStep
        <5> QED
          BY <5>1, <5>2, <5>3
      <4> HIDE DEF T
      <4>3. M \in T
        BY <3>4, <4>1, <4>2, IndexInduction
      <4>4. f[k] = Joined(f[i - 1], Rune(M))
        BY <3>4, <4>3 DEF T
      <4>5. Rune(M) \in Text /\ WholeRunes(Rune(M))
        <5>1. i - 1 \in 0 .. Len(s) /\ k \in i - 1 .. Len(s)
          BY <1>0, <1>2
        <5>2. SubSeq(s, (i - 1) + 1, k) \in Text /\ WholeRunes(SubSeq(s, (i - 1) + 1, k))
          BY <1>2, <3>1, <5>1, WholeCut
        <5> QED
          BY <3>4, <5>2
      <4> QED
        BY <3>2, <4>4, <4>5, WholeJoined
    <3>7. CASE p[i] # <<s[i]>>
      <4> DEFINE T == {d \in 0 .. M : WholeRunes(f[(i - 1) + d]) /\ f[(i - 1) + d] \in Text
                              /\ (d # 0 => p[(i - 1) + d] # <<s[(i - 1) + d]>>)}
      <4>1. 0 \in T
        <5>1. (i - 1) + 0 = i - 1
          OBVIOUS
        <5> QED
          BY <3>2, <3>4, <5>1
      <4>2. ASSUME NEW d \in 1 .. M, d - 1 \in T PROVE d \in T
        <5> DEFINE j == (i - 1) + d
        <5>1. p[j] # <<s[j]>>
          <6>1. CASE d = 1
            <7>1. j = i
              BY <6>1
            <7> QED
              BY <3>7, <7>1
          <6>2. CASE d # 1
            <7>1. d - 1 # 0
              BY <6>2
            <7> QED
              BY <3>5, <4>2, <6>2, <7>1
          <6> QED
            BY <6>1, <6>2
        <5>2. WholeRunes(p[j]) /\ p[j] \in Text /\ f[j] = Joined(f[(i - 1) + (d - 1)], p[j])
          BY <1>0, <3>5, <5>1
        <5>3. WholeRunes(f[j]) /\ f[j] \in Text
          BY <4>2, <5>2, WholeJoined
        <5> QED
          BY <5>1, <5>3
      <4> HIDE DEF T
      <4>3. M \in T
        BY <3>4, <4>1, <4>2, IndexInduction
      <4> QED
        BY <3>4, <4>3 DEF T
    <3> QED
      BY <3>6, <3>7
  <2> QED
    BY <2>1, <2>2
<1>3. \A k \in Nat : (\A m \in 0 .. k - 1 : m \in S) => k \in S
  BY <1>2
<1> HIDE DEF S
<1>4. Nat \subseteq S
  BY <1>3, NatStrongInduction
<1>5. RuneBoundary(s, N)
  BY EndBoundaries
<1>6. WholeRunes(f[N])
  BY <1>0, <1>4, <1>5 DEF S
<1> QED
  BY <1>0, <1>1, <1>6

-----------------------------------------------------------------------------
(* Replacing placeholders.                                                  *)

\* Escaping for JSON adds bytes before bytes that are runes.
LEMMA JsonEscapeWhole ==
  ASSUME NEW s \in Text, WholeRunes(s)
  PROVE  JsonEscape(s) \in Text /\ WholeRunes(JsonEscape(s))
<1> DEFINE quoted == {"\"", "\\"}
           p == [i \in 1 .. Len(s) |-> IF s[i] \in quoted THEN <<"\\", s[i]>> ELSE <<s[i]>>]
<1>0. Len(s) \in Nat /\ DOMAIN s = 1 .. Len(s) /\ \A j \in 1 .. Len(s) : s[j] \in Bytes
  BY DEF Text
<1>1. p \in [1 .. Len(s) -> Text]
  <2>1. \A j \in 1 .. Len(s) : <<"\\", s[j]>> \in Text
    BY <1>0, PairIsText DEF Bytes
  <2>2. \A j \in 1 .. Len(s) : <<s[j]>> \in Text
    BY <1>0 DEF Text
  <2>3. \A j \in 1 .. Len(s) : p[j] \in Text
    <3> HIDE DEF quoted
    <3> QED
      BY <2>1, <2>2
  <2> HIDE DEF quoted
  <2> QED
    BY <2>3
<1>1a. \A b \in quoted : RuneStart(b) /\ RuneLen(b) = 1
  BY DEF RuneStart, RuneLen
<1>2. ASSUME NEW j \in 1 .. Len(s) PROVE p[j] = <<s[j]>> \/ WholeRunes(p[j])
  <2>1. CASE s[j] \in quoted
    <3> DEFINE u == <<"\\", s[j]>>
    <3>1. u \in Text /\ Len(u) = 2 /\ DOMAIN u = 1 .. 2 /\ \A n \in 1 .. 2 : u[n] \in quoted
      <4>1. u \in Text
        BY <1>0, PairIsText DEF Bytes
      <4>2. Len(u) = 2 /\ DOMAIN u = 1 .. 2 /\ u[1] = "\\" /\ u[2] = s[j]
        OBVIOUS
      <4>3. "\\" \in quoted
        OBVIOUS
      <4>4. \A n \in 1 .. 2 : n = 1 \/ n = 2
        OBVIOUS
      <4> HIDE DEF u, quoted
      <4> QED
        BY <2>1, <4>1, <4>2, <4>3, <4>4
    <3>2. p[j] = u
      BY <2>1
    <3> HIDE DEF u, p, quoted
    <3>3. WholeRunes(u)
      BY <1>1a, <3>1 DEF WholeRunes
    <3> QED
      BY <3>2, <3>3
  <2>2. CASE s[j] \notin quoted
    BY <2>2
  <2> QED
    BY <2>1, <2>2
<1>3. ASSUME NEW j \in 1 .. Len(s) - 1, ~RuneStart(s[j + 1])
      PROVE  p[j] = <<s[j]>> <=> p[j + 1] = <<s[j + 1]>>
  <2>1. j \in 1 .. Len(s) /\ j + 1 \in 1 .. Len(s)
    BY <1>0
  <2>2. s[j + 1] \notin quoted
    BY <1>3 DEF RuneStart
  <2>3. s[j] \notin quoted
    <3>1. RuneStart(s[j]) => RuneLen(s[j]) # 1
      BY <1>3, <2>1, ContinuedRune
    <3> HIDE DEF quoted
    <3> QED
      BY <1>1a, <3>1
  <2> QED
    BY <2>1, <2>2, <2>3
<1>4. JsonEscape(s) = FlattenSeq(p)
  BY <1>0 DEF JsonEscape
<1> HIDE DEF p
<1> QED
  BY <1>1, <1>2, <1>3, <1>4, WholePieces

\* What a hit is: it begins with a "<", ends with a ">" and has an original.
HitIn(text, h) ==
    /\ h.start \in DOMAIN text /\ h.end \in DOMAIN text /\ h.start < h.end
    /\ text[h.start] = "<" /\ text[h.end] = ">"
    /\ h.index \in DOMAIN Originals

LEMMA ExactHitsIn ==
  ASSUME NEW text \in Text, NEW h \in ExactHits(text)
  PROVE  HitIn(text, h)
<1>1. PICK x \in (1 .. Len(text)) \X DOMAIN Originals :
         /\ x[1] + 4 <= Len(text) /\ SubSeq(text, x[1], x[1] + 4) = Format(x[2])
         /\ h = [start |-> x[1], end |-> x[1] + 4, index |-> x[2]]
  BY DEF ExactHits
<1>2. Len(text) \in Nat /\ DOMAIN text = 1 .. Len(text) /\ x[1] \in 1 .. Len(text) /\ x[2] \in DOMAIN Originals
  BY DEF Text
<1>3. text[x[1]] = "<" /\ text[x[1] + 4] = ">"
  <2> DEFINE u == SubSeq(text, x[1], x[1] + 4)
  <2>1. u[1] = text[x[1]] /\ u[5] = text[x[1] + 4]
    BY <1>1, <1>2 DEF Text
  <2>2. Format(x[2])[1] = "<" /\ Format(x[2])[5] = ">"
    BY DEF Format
  <2> HIDE DEF u
  <2> QED
    BY <1>1, <2>1, <2>2 DEF u
<1> QED
  BY <1>1, <1>2, <1>3 DEF HitIn

LEMMA RegexHitsIn ==
  ASSUME NEW text \in Text, NEW h \in RegexHits(text)
  PROVE  HitIn(text, h)
<1>1. PICK x \in Shapes(text) :
         /\ Occurs(text, x) /\ Index(text, x) \in DOMAIN Originals
         /\ h = [start |-> x.start, end |-> ClosesAt(x), index |-> Index(text, x)]
  BY DEF RegexHits
<1>2. Len(text) \in Nat /\ DOMAIN text = 1 .. Len(text)
  BY DEF Text
<1>3. /\ x.start \in DOMAIN text /\ text[x.start] = "<"
      /\ x.before \in Nat /\ x.sep \in Nat /\ x.after \in Nat /\ x.digits \in Nat /\ Len(x.name) \in Nat
  <2>1. /\ x.start \in {i \in DOMAIN text : text[i] = "<"} /\ x.before \in 0 .. MaxDrift /\ x.name \in Names
        /\ x.sep \in 0 .. MaxDrift /\ x.digits \in 1 .. IndexLen /\ x.after \in 0 .. MaxDrift
    BY DEF Shapes
  <2>2. \A name \in Names : Len(name) \in Nat
    BY DEF Names
  <2> QED
    BY <2>1, <2>2, DemaskerAssumption
<1>4. ClosesAt(x) \in Nat /\ x.start < ClosesAt(x)
  <2>1. ClosesAt(x) = (((((x.start + 1) + x.before) + Len(x.name)) + x.sep) + x.digits) + x.after
    BY DEF ClosesAt, DigitsAt, NameAt
  <2>2. x.start \in Nat
    BY <1>2, <1>3
  <2>3. \A a, b, c, d, e, f \in Nat : LET n == (((((a + 1) + b) + c) + d) + e) + f IN n \in Nat /\ a < n
    OBVIOUS
  <2>4. (((((x.start + 1) + x.before) + Len(x.name)) + x.sep) + x.digits) + x.after \in Nat
    BY <1>3, <2>2, <2>3
  <2>5. x.start < (((((x.start + 1) + x.before) + Len(x.name)) + x.sep) + x.digits) + x.after
    BY <1>3, <2>2, <2>3
  <2> QED
    BY <2>1, <2>4, <2>5
<1>5. ClosesAt(x) <= Len(text) /\ text[ClosesAt(x)] = ">"
  BY <1>1 DEF Occurs
<1> QED
  BY <1>1, <1>2, <1>3, <1>4, <1>5 DEF HitIn

LEMMA RestoredWhole ==
  ASSUME NEW n \in DOMAIN Originals, NEW escaped
  PROVE  Restored(n, escaped) \in Text /\ WholeRunes(Restored(n, escaped))
<1>1. Originals[n] \in Text /\ WholeRunes(Originals[n])
  BY TextsAssumption, StringsAreTexts
<1> QED
  BY <1>1, JsonEscapeWhole DEF Restored

\* Placeholders begin and end with whole runes, so replacing them keeps runes
\* whole.
LEMMA SpliceWhole ==
  ASSUME NEW text \in Text, WholeRunes(text), NEW hits, NEW escaped, \A h \in hits : HitIn(text, h)
  PROVE  Splice(text, hits, escaped) \in Text /\ WholeRunes(Splice(text, hits, escaped))
<1> DEFINE at(j) == {h \in hits : h.start <= j /\ j <= h.end}
           piece(j) == IF at(j) = {} THEN <<text[j]>>
                       ELSE LET h == CHOOSE h \in at(j) : TRUE
                            IN  IF h.start = j THEN Restored(h.index, escaped) ELSE <<>>
           p == [j \in 1 .. Len(text) |-> piece(j)]
<1>0. Len(text) \in Nat /\ DOMAIN text = 1 .. Len(text) /\ \A j \in 1 .. Len(text) : text[j] \in Bytes
  BY DEF Text
<1>1. ASSUME NEW j \in 1 .. Len(text)
      PROVE  /\ piece(j) \in Text
             /\ piece(j) = <<text[j]>> \/ WholeRunes(piece(j))
             /\ at(j) = {} => piece(j) = <<text[j]>>
  <2>1. CASE at(j) = {}
    <3>1. piece(j) = <<text[j]>>
      BY <2>1
    <3>2. <<text[j]>> \in Text
      BY <1>0 DEF Text
    <3> HIDE DEF piece, at
    <3> QED
      BY <3>1, <3>2
  <2>2. CASE at(j) # {}
    <3> DEFINE h == CHOOSE h \in at(j) : TRUE
    <3>1. h \in at(j)
      BY <2>2
    <3>2. h.index \in DOMAIN Originals
      BY <3>1 DEF HitIn
    <3>3. piece(j) = IF h.start = j THEN Restored(h.index, escaped) ELSE Empty
      BY <2>2 DEF Empty
    <3>4. WholeRunes(Empty)
      BY DEF WholeRunes, Empty
    <3> HIDE DEF h, piece
    <3> QED
      BY <2>2, <3>2, <3>3, <3>4, RestoredWhole, JoinedOK
  <2> QED
    BY <2>1, <2>2
<1>2. ASSUME NEW j \in 1 .. Len(text) - 1, ~RuneStart(text[j + 1])
      PROVE  at(j) = at(j + 1) /\ \A h \in at(j + 1) : h.start # j + 1
  <2>1. j \in 1 .. Len(text) /\ j + 1 \in 1 .. Len(text)
    BY <1>0
  <2>2. text[j] # ">" /\ text[j + 1] # "<"
    BY <1>2, <2>1, ContinuedRune DEF RuneLen, RuneStart
  <2>3. \A h \in hits : h.start \in Nat /\ h.end \in Nat /\ h.end # j /\ h.start # j + 1
    BY <1>0, <2>2 DEF HitIn
  <2> QED
    BY <2>1, <2>3
<1>3. ASSUME NEW j \in 1 .. Len(text) - 1, ~RuneStart(text[j + 1])
      PROVE  piece(j) = <<text[j]>> <=> piece(j + 1) = <<text[j + 1]>>
  <2>1. at(j) = at(j + 1) /\ \A h \in at(j + 1) : h.start # j + 1
    BY <1>2, <1>3
  <2>2. j \in 1 .. Len(text) /\ j + 1 \in 1 .. Len(text)
    BY <1>0
  <2>3. \A h \in at(j) : h.start # j
    <3>1. text[j] # "<"
      BY <1>3, <2>2, ContinuedRune DEF RuneLen, RuneStart
    <3> QED
      BY <3>1 DEF HitIn
  <2>4. CASE at(j) = {}
    BY <1>1, <2>1, <2>2, <2>4
  <2>5. CASE at(j) # {}
    <3> DEFINE h == CHOOSE h \in at(j) : TRUE
    <3>1. h \in at(j) /\ h.start # j /\ h.start # j + 1
      BY <2>1, <2>3, <2>5
    <3>2. h = CHOOSE g \in at(j + 1) : TRUE
      BY <2>1
    <3>3. piece(j) = <<>> /\ piece(j + 1) = <<>>
      BY <2>1, <2>5, <3>1, <3>2
    <3>4. \A b : <<b>> # <<>>
      OBVIOUS
    <3> HIDE DEF piece, at
    <3> QED
      BY <3>3, <3>4
  <2> QED
    BY <2>4, <2>5
<1>4. Splice(text, hits, escaped) = FlattenSeq(p)
  BY <1>0 DEF Splice
<1> HIDE DEF piece
<1>5. p \in [1 .. Len(text) -> Text] /\ \A j \in 1 .. Len(text) : p[j] = piece(j)
  BY <1>1
<1>6. \A j \in 1 .. Len(text) : p[j] = <<text[j]>> \/ WholeRunes(p[j])
  BY <1>1, <1>5
<1>7. \A j \in 1 .. Len(text) - 1 :
         ~RuneStart(text[j + 1]) => (p[j] = <<text[j]>> <=> p[j + 1] = <<text[j + 1]>>)
  <2>1. \A j \in 1 .. Len(text) - 1 : j \in 1 .. Len(text) /\ j + 1 \in 1 .. Len(text)
    BY <1>0
  <2> QED
    BY <1>3, <1>5, <2>1
<1> HIDE DEF p
<1> QED
  BY <1>4, <1>5, <1>6, <1>7, WholePieces

LEMMA ApplyWhole ==
  ASSUME NEW text \in Text, WholeRunes(text)
  PROVE  /\ ApplyExact(text) \in Text /\ WholeRunes(ApplyExact(text))
         /\ ApplyPlaceholderRegex(text) \in Text /\ WholeRunes(ApplyPlaceholderRegex(text))
<1>1. \A h \in ExactHits(text) : HitIn(text, h)
  BY ExactHitsIn
<1>2. \A h \in RegexHits(text) : HitIn(text, h)
  BY RegexHitsIn
<1> QED
  BY <1>1, <1>2, SpliceWhole DEF ApplyExact, ApplyPlaceholderRegex

-----------------------------------------------------------------------------
(* Texts.                                                                   *)

\* The bytes of two texts joined.
LEMMA JoinedAt ==
  ASSUME NEW s \in Text, NEW t \in Text
  PROVE  /\ Joined(s, t) \in Text /\ Len(Joined(s, t)) = Len(s) + Len(t)
         /\ Len(s) \in Nat /\ Len(t) \in Nat
         /\ DOMAIN Joined(s, t) = 1 .. Len(s) + Len(t)
         /\ \A i \in 1 .. Len(s) : Joined(s, t)[i] = s[i]
         /\ \A i \in 1 .. Len(t) : Joined(s, t)[Len(s) + i] = t[i]
  BY DEF Joined, Text

\* Texts are equal if their bytes are.
LEMMA TextEqual ==
  ASSUME NEW s \in Text, NEW t \in Text, Len(s) = Len(t), \A i \in 1 .. Len(s) : s[i] = t[i]
  PROVE  s = t
  BY SeqEqual DEF Text

\* Joining is associative.
LEMMA JoinedAssoc ==
  ASSUME NEW s \in Text, NEW t \in Text, NEW u \in Text
  PROVE  Joined(Joined(s, t), u) = Joined(s, Joined(t, u))
  BY DEF Joined, Text

\* The bytes of s after position a up to position b, as a name that provers do
\* not expand.
Part(s, a, b) == SubSeq(s, a + 1, b)

\* The bytes of a part.
LEMMA PartAt ==
  ASSUME NEW s \in Text, NEW a \in 0 .. Len(s), NEW b \in a .. Len(s)
  PROVE  /\ Part(s, a, b) \in Text /\ Len(Part(s, a, b)) = b - a
         /\ \A i \in 1 .. b - a : Part(s, a, b)[i] = s[a + i]
  BY DEF Part, Text

\* Two parts in a row are one part.
LEMMA PartJoined ==
  ASSUME NEW s \in Text, NEW a \in 0 .. Len(s), NEW b \in a .. Len(s), NEW c \in b .. Len(s)
  PROVE  Joined(Part(s, a, b), Part(s, b, c)) = Part(s, a, c)
<1>0. Len(s) \in Nat /\ a \in Nat /\ b \in Nat /\ c \in Nat /\ a <= b /\ b <= c /\ c <= Len(s)
  BY DEF Text
<1>1. b \in 0 .. Len(s) /\ c \in a .. Len(s)
  BY <1>0
<1> DEFINE u == Part(s, a, b)
           v == Part(s, b, c)
           w == Part(s, a, c)
<1>2. /\ u \in Text /\ Len(u) = b - a /\ \A i \in 1 .. b - a : u[i] = s[a + i]
      /\ v \in Text /\ Len(v) = c - b /\ \A i \in 1 .. c - b : v[i] = s[b + i]
      /\ w \in Text /\ Len(w) = c - a /\ \A i \in 1 .. c - a : w[i] = s[a + i]
  BY <1>1, PartAt
<1> HIDE DEF u, v, w
<1> DEFINE x == Joined(u, v)
<1>3. /\ x \in Text /\ Len(x) = (b - a) + (c - b)
      /\ \A i \in 1 .. b - a : x[i] = u[i]
      /\ \A i \in 1 .. c - b : x[(b - a) + i] = v[i]
  <2>1. u \in Text /\ v \in Text /\ Len(u) = b - a /\ Len(v) = c - b
    BY <1>2
  <2>2. /\ x \in Text /\ Len(x) = Len(u) + Len(v)
        /\ \A i \in 1 .. Len(u) : x[i] = u[i]
        /\ \A i \in 1 .. Len(v) : x[Len(u) + i] = v[i]
    BY <2>1, JoinedAt
  <2> HIDE DEF x
  <2> QED
    BY <2>1, <2>2
<1> HIDE DEF x
<1>4. ASSUME NEW i \in 1 .. c - a PROVE x[i] = w[i]
  <2>1. CASE i \in 1 .. b - a
    BY <1>2, <1>3, <2>1
  <2>2. CASE i \notin 1 .. b - a
    <3>1. PICK e \in 1 .. c - b : i = (b - a) + e
      <4>1. i - (b - a) \in 1 .. c - b /\ i = (b - a) + (i - (b - a))
        BY <1>0, <2>2
      <4> QED
        BY <4>1
    <3>2. x[i] = v[e] /\ v[e] = s[b + e] /\ w[i] = s[a + i]
      BY <1>2, <1>3, <3>1
    <3>3. a + i = b + e
      BY <1>0, <3>1
    <3> QED
      BY <3>2, <3>3
  <2> QED
    BY <2>1, <2>2
<1>5. (b - a) + (c - b) = c - a
  BY <1>0
<1>6. x = w
  BY <1>2, <1>3, <1>4, <1>5, TextEqual
<1> QED
  BY <1>6 DEF u, v, w, x

\* A text is the part before a position and the part after it.
LEMMA PartsOf ==
  ASSUME NEW s \in Text, NEW a \in 0 .. Len(s)
  PROVE  /\ s = Joined(Part(s, 0, a), Part(s, a, Len(s)))
         /\ Part(s, 0, Len(s)) = s
<1>0. Len(s) \in Nat /\ 0 \in 0 .. Len(s) /\ a \in 0 .. Len(s) /\ Len(s) \in a .. Len(s) /\ Len(s) \in 0 .. Len(s)
  BY DEF Text
<1>1. Part(s, 0, Len(s)) = s
  <2> DEFINE u == Part(s, 0, Len(s))
  <2>1. u \in Text /\ Len(u) = Len(s) - 0 /\ \A i \in 1 .. Len(s) - 0 : u[i] = s[0 + i]
    BY <1>0, PartAt
  <2> HIDE DEF u
  <2>2. \A i \in 1 .. Len(s) : 0 + i = i
    BY <1>0
  <2>3. Len(u) = Len(s) /\ \A i \in 1 .. Len(u) : u[i] = s[i]
    BY <1>0, <2>1, <2>2
  <2>4. u = s
    BY <2>1, <2>3, TextEqual
  <2> QED
    BY <2>4 DEF u
<1>2. Joined(Part(s, 0, a), Part(s, a, Len(s))) = Part(s, 0, Len(s))
  BY <1>0, PartJoined
<1> QED
  BY <1>1, <1>2

-----------------------------------------------------------------------------
(* The hits of a text.                                                      *)

\* The hits of some of the two kinds.
Hits(text, kinds) ==
    {h \in ExactHits(text) \cup RegexHits(text) :
        \/ "exact" \in kinds /\ h \in ExactHits(text)
        \/ "regex" \in kinds /\ h \in RegexHits(text)}

Hit(i, j, n) == [start |-> i, end |-> j, index |-> n]

\* A hit lies in the text, between "<" and ">".
LEMMA HitsIn ==
  ASSUME NEW text \in Text, NEW kinds, NEW h \in Hits(text, kinds)
  PROVE  /\ HitIn(text, h) /\ h = Hit(h.start, h.end, h.index)
         /\ Len(text) \in Nat /\ h.start \in 1 .. Len(text) /\ h.end \in 1 .. Len(text)
<1>1. HitIn(text, h)
  BY ExactHitsIn, RegexHitsIn DEF Hits
<1>2. h = Hit(h.start, h.end, h.index)
  BY DEF Hits, Hit, ExactHits, RegexHits
<1>3. Len(text) \in Nat /\ DOMAIN text = 1 .. Len(text)
  BY DEF Text
<1> QED
  BY <1>1, <1>2, <1>3 DEF HitIn

\* The L bytes from i on in u are those from j on in v.
Agree(u, i, v, j, L) ==
    /\ i \in Nat \ {0} /\ j \in Nat \ {0} /\ L \in Nat
    /\ i + L <= Len(u) + 1 /\ j + L <= Len(v) + 1
    /\ \A p \in Nat, q \in Nat : i <= p /\ p < i + L /\ q + i = p + j => u[p] = v[q]

\* The bytes from p to before q.
From(u, p, q) == SubSeq(u, p, q - 1)

\* So are the parts of them.
LEMMA AgreeParts ==
  ASSUME NEW u \in Text, NEW v \in Text, NEW i, NEW j, NEW L, Agree(u, i, v, j, L),
         NEW p \in Nat, NEW q \in Nat, i <= p, p <= q, q <= i + L,
         NEW p2 \in Nat, NEW q2 \in Nat, p2 + i = p + j, q2 + i = q + j
  PROVE  From(u, p, q) = From(v, p2, q2)
<1>0. /\ i \in Nat /\ j \in Nat /\ i > 0 /\ j > 0 /\ L \in Nat /\ Len(u) \in Nat /\ Len(v) \in Nat
      /\ i + L <= Len(u) + 1 /\ j + L <= Len(v) + 1
  BY DEF Agree, Text
<1> DEFINE a == p - 1
           b == q - 1
           a2 == p2 - 1
           b2 == q2 - 1
<1>1. /\ a \in 0 .. Len(u) /\ b \in a .. Len(u) /\ a + 1 = p
      /\ a2 \in 0 .. Len(v) /\ b2 \in a2 .. Len(v) /\ a2 + 1 = p2 /\ b2 - a2 = b - a
  BY <1>0
<1>2. ASSUME NEW d \in 1 .. b - a PROVE u[a + d] = v[a2 + d]
  <2>1. /\ a + d \in Nat /\ a2 + d \in Nat /\ i <= a + d /\ a + d < i + L
        /\ (a2 + d) + i = (a + d) + j
    BY <1>0
  <2> HIDE DEF a, a2, b, b2
  <2> QED
    BY <2>1 DEF Agree
<1>7. From(u, p, q) = SubSeq(u, a + 1, b) /\ From(v, p2, q2) = SubSeq(v, a2 + 1, b2)
  BY <1>1 DEF From
<1> HIDE DEF a, a2, b, b2
<1> DEFINE s == Part(u, a, b)
           t == Part(v, a2, b2)
<1>3. s \in Text /\ Len(s) = b - a /\ \A d \in 1 .. b - a : s[d] = u[a + d]
  BY <1>1, PartAt
<1>4. t \in Text /\ Len(t) = b - a /\ \A d \in 1 .. b - a : t[d] = v[a2 + d]
  BY <1>1, PartAt
<1> HIDE DEF s, t
<1>5. s = t
  BY <1>2, <1>3, <1>4, TextEqual
<1> QED
  BY <1>5, <1>7 DEF s, t, Part

-----------------------------------------------------------------------------
(* Drifted placeholders.                                                    *)

\* What stands at i: where the name begins and ends, and the digits, and where
\* the placeholder closes.
Spelled(u, i, name, na, ne, da, de, ca) ==
    /\ i \in Nat /\ na \in Nat /\ ne \in Nat /\ da \in Nat /\ de \in Nat /\ ca \in Nat
    /\ 1 <= i /\ ca <= Len(u) /\ name \in Names /\ Len(name) \in Nat
    /\ i < na /\ na <= i + 1 + MaxDrift /\ ne = na + Len(name)
    /\ ne <= da /\ da <= ne + MaxDrift /\ da < de /\ de <= da + IndexLen
    /\ de <= ca /\ ca <= de + MaxDrift
    /\ u[i] = "<" /\ u[ca] = ">" /\ From(u, na, ne) = name
    /\ \A p \in Nat : /\ i < p /\ p < na => u[p] = " "
                      /\ ne <= p /\ p < da => u[p] \in {" ", "_"}
                      /\ da <= p /\ p < de => u[p] \in Digits
                      /\ de <= p /\ p < ca => u[p] = " "

\* A name is one byte, or the Kelvin sign.
LEMMA NamesAre ==
  \A name \in Names : Len(name) \in {1, 3}
  BY DEF Names

\* A regex hit is spelled so.
LEMMA SpelledHit ==
  ASSUME NEW u \in Text, NEW h \in RegexHits(u)
  PROVE  \E name \in Names, na \in Nat, ne \in Nat, da \in Nat, de \in Nat :
            /\ Spelled(u, h.start, name, na, ne, da, de, h.end)
            /\ h.index = Atoi(From(u, da, de)) /\ h.index \in DOMAIN Originals
<1>1. PICK s \in Shapes(u) :
         /\ Occurs(u, s) /\ Index(u, s) \in DOMAIN Originals
         /\ h = [start |-> s.start, end |-> ClosesAt(s), index |-> Index(u, s)]
  BY DEF RegexHits
<1> DEFINE i == s.start
           name == s.name
           na == NameAt(s)
           ne == NameAt(s) + Len(s.name)
           da == DigitsAt(s)
           de == DigitsAt(s) + s.digits
           ca == ClosesAt(s)
<1>2. /\ i \in DOMAIN u /\ u[i] = "<" /\ s.before \in 0 .. MaxDrift /\ name \in Names
      /\ s.sep \in 0 .. MaxDrift /\ s.digits \in 1 .. IndexLen /\ s.after \in 0 .. MaxDrift
  BY DEF Shapes
<1>3. Len(u) \in Nat /\ DOMAIN u = 1 .. Len(u) /\ Len(name) \in {1, 3} /\ MaxDrift \in Nat /\ IndexLen \in Nat
  BY <1>2, NamesAre, DemaskerAssumption DEF Text
<1>4. i \in Nat /\ 1 <= i /\ Len(name) \in Nat
  BY <1>2, <1>3
<1>5. na = i + 1 + s.before /\ ne = na + Len(name) /\ da = ne + s.sep /\ de = da + s.digits /\ ca = de + s.after
  BY Zenon DEF NameAt, DigitsAt, ClosesAt
<1>6a. ca <= Len(u) /\ u[ca] = ">" /\ SubSeq(u, na, na + (Len(name) - 1)) = name
  BY <1>1 DEF Occurs
<1>6b. \A p \in i + 1 .. na - 1 : u[p] \in {" "}
  BY <1>1 DEF Occurs
<1>6c. \A p \in ne .. da - 1 : u[p] \in {" ", "_"}
  BY <1>1 DEF Occurs
<1>6d. \A p \in da .. da + (s.digits - 1) : u[p] \in Digits
  BY <1>1 DEF Occurs
<1>6e. \A p \in de .. ca - 1 : u[p] \in {" "}
  BY <1>1 DEF Occurs
<1>7. /\ h.start = i /\ h.end = ca /\ h.index = Atoi(SubSeq(u, da, da + (s.digits - 1)))
      /\ h.index \in DOMAIN Originals
  <2>1. h.start = i /\ h.end = ca /\ h.index = Index(u, s)
    BY <1>1
  <2>2. Index(u, s) = Atoi(SubSeq(u, da, da + (s.digits - 1)))
    BY Zenon DEF Index
  <2> HIDE DEF i, name, na, ne, da, de, ca
  <2> QED
    BY <1>1, <2>1, <2>2
<1> HIDE DEF i, name, na, ne, da, de, ca
<1>8. PICK b \in 0 .. MaxDrift, e \in 0 .. MaxDrift, g \in 1 .. IndexLen, f \in 0 .. MaxDrift :
         na = i + 1 + b /\ ne = na + Len(name) /\ da = ne + e /\ de = da + g /\ ca = de + f
  BY <1>2, <1>5
<1>8b. b \in Nat /\ e \in Nat /\ g \in Nat /\ f \in Nat /\ 1 <= g /\ b <= MaxDrift /\ e <= MaxDrift /\ f <= MaxDrift /\ g <= IndexLen
  BY <1>3
<1>8c. na \in Nat /\ ne \in Nat /\ da \in Nat /\ de \in Nat /\ ca \in Nat
  <2>1. i \in Nat /\ b \in Nat /\ Len(name) \in Nat /\ e \in Nat /\ g \in Nat /\ f \in Nat
    BY <1>4, <1>8b
  <2>2. na = i + 1 + b /\ ne = na + Len(name) /\ da = ne + e /\ de = da + g /\ ca = de + f
    BY <1>8
  <2>3. na \in Nat
    BY <2>1, <2>2
  <2>4. ne = na + Len(name)
    BY <2>2
  <2>5. ne \in Nat
    BY <2>1, <2>3, <2>4
  <2>6. da = ne + e
    BY <2>2
  <2>7. da \in Nat
    BY <2>1, <2>5, <2>6
  <2>8. de = da + g
    BY <2>2
  <2>9. de \in Nat
    BY <2>1, <2>7, <2>8
  <2>10. ca = de + f
    BY <2>2
  <2>11. ca \in Nat
    BY <2>1, <2>9, <2>10
  <2> QED
    BY <2>3, <2>5, <2>7, <2>9, <2>11
<1>8d. da + (s.digits - 1) = de - 1 /\ na + (Len(name) - 1) = ne - 1
  <2>1. PICK d \in 1 .. IndexLen : d = s.digits
    BY <1>2
  <2>2. da + (d - 1) = de - 1
    BY <1>3, <1>5, <1>8c, <2>1
  <2>3. na + (Len(name) - 1) = ne - 1
    BY <1>4, <1>8, <1>8c
  <2> QED
    BY <2>1, <2>2, <2>3
<1>8e. Atoi(From(u, da, de)) = h.index
  <2>1. SubSeq(u, da, de - 1) = SubSeq(u, da, da + (s.digits - 1))
    BY <1>8d
  <2> QED
    BY <1>7, <2>1 DEF From
<1>9. /\ i < na /\ na <= i + 1 + MaxDrift /\ ne = na + Len(name)
      /\ ne <= da /\ da <= ne + MaxDrift /\ da < de /\ de <= da + IndexLen
      /\ de <= ca /\ ca <= de + MaxDrift
  BY <1>3, <1>4, <1>8, <1>8b, <1>8c
<1>10. ASSUME NEW p \in Nat
       PROVE  /\ i < p /\ p < na => u[p] = " "
              /\ ne <= p /\ p < da => u[p] \in {" ", "_"}
              /\ da <= p /\ p < de => u[p] \in Digits
              /\ de <= p /\ p < ca => u[p] = " "
  <2>1. /\ i < p /\ p < na => p \in i + 1 .. na - 1
        /\ ne <= p /\ p < da => p \in ne .. da - 1
        /\ da <= p /\ p < de => p \in da .. de - 1
        /\ de <= p /\ p < ca => p \in de .. ca - 1
    BY <1>4, <1>8c
  <2>2. p \in da .. de - 1 => p \in da .. da + (s.digits - 1)
    BY <1>8d
  <2> QED
    BY <1>6b, <1>6c, <1>6d, <1>6e, <2>1, <2>2
<1>6. From(u, na, ne) = name
  <2>1. SubSeq(u, na, ne - 1) = SubSeq(u, na, na + (Len(name) - 1))
    BY <1>8d
  <2> QED
    BY <1>6a, <2>1 DEF From
<1>11. u[i] = "<" /\ name \in Names
  BY <1>2 DEF i, name
<1>12. Spelled(u, i, name, na, ne, da, de, ca)
  BY <1>4, <1>6, <1>6a, <1>8c, <1>9, <1>10, <1>11 DEF Spelled
<1> QED
  BY <1>7, <1>8c, <1>8e, <1>11, <1>12

\* And what is spelled so is a regex hit.
LEMMA HitSpelled ==
  ASSUME NEW u \in Text, NEW i, NEW name, NEW na, NEW ne, NEW da, NEW de, NEW ca,
         Spelled(u, i, name, na, ne, da, de, ca),
         Atoi(From(u, da, de)) \in DOMAIN Originals
  PROVE  Hit(i, ca, Atoi(From(u, da, de))) \in RegexHits(u)
<1> DEFINE s == [start |-> i, before |-> na - i - 1, name |-> name, sep |-> da - ne, digits |-> de - da, after |-> ca - de]
<1>0. Len(u) \in Nat /\ DOMAIN u = 1 .. Len(u) /\ MaxDrift \in Nat /\ IndexLen \in Nat
  BY DemaskerAssumption DEF Text
<1>1. /\ i \in Nat /\ na \in Nat /\ ne \in Nat /\ da \in Nat /\ de \in Nat /\ ca \in Nat
      /\ 1 <= i /\ ca <= Len(u) /\ name \in Names /\ Len(name) \in Nat
      /\ i < na /\ na <= i + 1 + MaxDrift /\ ne = na + Len(name)
      /\ ne <= da /\ da <= ne + MaxDrift /\ da < de /\ de <= da + IndexLen
      /\ de <= ca /\ ca <= de + MaxDrift
      /\ u[i] = "<" /\ u[ca] = ">" /\ From(u, na, ne) = name
  BY Zenon DEF Spelled
<1>1a. i < ca
  BY <1>1
<1>2. s \in Shapes(u)
  <2>1. i \in DOMAIN u /\ u[i] = "<"
    BY <1>0, <1>1, <1>1a
  <2>2. na - i - 1 \in 0 .. MaxDrift /\ da - ne \in 0 .. MaxDrift /\ de - da \in 1 .. IndexLen /\ ca - de \in 0 .. MaxDrift
    BY <1>0, <1>1
  <2> QED
    BY <1>1, <2>1, <2>2 DEF Shapes
<1>3. /\ s.start = i /\ s.before = na - i - 1 /\ s.name = name /\ s.sep = da - ne
      /\ s.digits = de - da /\ s.after = ca - de
  OBVIOUS
<1> HIDE DEF s
<1>4. NameAt(s) = na
  <2>1. i + 1 + (na - i - 1) = na
    BY <1>1
  <2> QED
    BY <1>3, <2>1 DEF NameAt
<1>5. DigitsAt(s) = da
  <2>1. na + Len(name) + (da - ne) = da
    BY <1>1
  <2> QED
    BY <1>3, <1>4, <2>1 DEF DigitsAt
<1>6. DigitsAt(s) + s.digits = de
  BY <1>1, <1>3, <1>5
<1>7. ClosesAt(s) = ca
  <2>1. de + (ca - de) = ca
    BY <1>1
  <2> QED
    BY <1>3, <1>6, <2>1 DEF ClosesAt
<1>8. NameAt(s) + Len(s.name) = ne
  BY <1>1, <1>3, <1>4
<1>9. \A p \in Nat : /\ i < p /\ p < na => u[p] = " "
                     /\ ne <= p /\ p < da => u[p] \in {" ", "_"}
                     /\ da <= p /\ p < de => u[p] \in Digits
                     /\ de <= p /\ p < ca => u[p] = " "
  BY Zenon DEF Spelled
<1>10. /\ \A p \in i + 1 .. na - 1 : u[p] \in {" "}
       /\ \A p \in ne .. da - 1 : u[p] \in {" ", "_"}
       /\ \A p \in da .. de - 1 : u[p] \in Digits
       /\ \A p \in de .. ca - 1 : u[p] \in {" "}
  <2>1. /\ \A p \in i + 1 .. na - 1 : p \in Nat /\ i < p /\ p < na
        /\ \A p \in ne .. da - 1 : p \in Nat /\ ne <= p /\ p < da
        /\ \A p \in da .. de - 1 : p \in Nat /\ da <= p /\ p < de
        /\ \A p \in de .. ca - 1 : p \in Nat /\ de <= p /\ p < ca
    BY <1>1
  <2> QED
    BY <1>9, <2>1
<1>11. Occurs(u, s)
  <2>1. ClosesAt(s) <= Len(u) /\ u[ClosesAt(s)] = ">"
    BY <1>1, <1>7
  <2>2. SubSeq(u, NameAt(s), NameAt(s) + Len(s.name) - 1) = s.name
    <3>1. SubSeq(u, na, ne - 1) = name
      BY <1>1, Zenon DEF From
    <3>2. NameAt(s) + Len(s.name) - 1 = ne - 1
      BY <1>1, <1>3, <1>4
    <3> QED
      BY <1>3, <1>4, <3>1, <3>2, Zenon
  <2>3. /\ s.start + 1 .. NameAt(s) - 1 = i + 1 .. na - 1
        /\ NameAt(s) + Len(s.name) .. DigitsAt(s) - 1 = ne .. da - 1
        /\ DigitsAt(s) .. DigitsAt(s) + s.digits - 1 = da .. de - 1
        /\ DigitsAt(s) + s.digits .. ClosesAt(s) - 1 = de .. ca - 1
    <3>1. DigitsAt(s) + s.digits - 1 = de - 1
      BY <1>1, <1>3, <1>5
    <3> QED
      BY <1>3, <1>4, <1>5, <1>6, <1>7, <1>8, <3>1
  <2> QED
    BY <1>10, <2>1, <2>2, <2>3, Zenon DEF Occurs
<1>12. Index(u, s) = Atoi(From(u, da, de))
  <2>1. DigitsAt(s) + s.digits - 1 = de - 1
    BY <1>1, <1>3, <1>5
  <2> QED
    BY <1>5, <2>1, Zenon DEF Index, From
<1> QED
  BY <1>2, <1>3, <1>7, <1>11, <1>12 DEF RegexHits, Hit

\* The ten digits.
LEMMA DigitsAre == Digits = {"0", "1", "2", "3", "4", "5", "6", "7", "8", "9"}
<1>1. ToSet(Digit) = {"1", "2", "3", "4", "5", "6", "7", "8", "9"}
  <2>1. DOMAIN Digit = {1, 2, 3, 4, 5, 6, 7, 8, 9}
    BY DEF Digit
  <2>2. ToSet(Digit) = {Digit[i] : i \in {1, 2, 3, 4, 5, 6, 7, 8, 9}}
    BY <2>1 DEF ToSet
  <2>3. /\ Digit[1] = "1" /\ Digit[2] = "2" /\ Digit[3] = "3" /\ Digit[4] = "4" /\ Digit[5] = "5"
        /\ Digit[6] = "6" /\ Digit[7] = "7" /\ Digit[8] = "8" /\ Digit[9] = "9"
    BY DEF Digit
  <2> QED
    BY <2>2, <2>3
<1> QED
  BY <1>1 DEF Digits

\* A digit of a minted placeholder stands for its number.
LEMMA DigitOK ==
  ASSUME NEW n \in DOMAIN Digit
  PROVE  n \in Nat /\ Digit[n] \in Digits /\ Value(Digit[n]) = n
<1>1. DOMAIN Digit = {1, 2, 3, 4, 5, 6, 7, 8, 9}
  BY DEF Digit
<1>2. /\ Digit[1] = "1" /\ Digit[2] = "2" /\ Digit[3] = "3" /\ Digit[4] = "4" /\ Digit[5] = "5"
      /\ Digit[6] = "6" /\ Digit[7] = "7" /\ Digit[8] = "8" /\ Digit[9] = "9"
  BY DEF Digit
<1>3. n \in Nat /\ Digit[n] \in Digits /\ Digit[n] # "0"
  BY <1>1, <1>2, DigitsAre
<1>4. \A m \in DOMAIN Digit : Digit[m] = Digit[n] => m = n
  BY <1>1, <1>2
<1>5. (CHOOSE m \in DOMAIN Digit : Digit[m] = Digit[n]) = n
  BY <1>4
<1> QED
  BY <1>3, <1>5 DEF Value

\* The number that a single digit stands for.
LEMMA AtoiDigit ==
  ASSUME NEW n \in DOMAIN Digit
  PROVE  Atoi(<<Digit[n]>>) = n
<1> DEFINE d == Digit[n]
           add(v, b) == 10 * v + Value(b)
           digits == <<d>>
           iter == CHOOSE iter : iter = [s \in SUBSET {1} |->
                      IF s = {} THEN 0 ELSE LET x == Max(s) IN add(iter[s \ {x}], digits[x])]
           f == [s \in SUBSET {1} |-> IF s = {} THEN 0 ELSE Value(d)]
<1>1. Value(d) = n /\ n \in Nat
  BY DigitOK
<1>2. DOMAIN digits = {1} /\ digits[1] = d
  OBVIOUS
<1>3. Max({1}) = 1
  BY DEF Max
<1>4. SUBSET {1} = {{}, {1}}
  OBVIOUS
<1>5. f = [s \in SUBSET {1} |-> IF s = {} THEN 0 ELSE LET x == Max(s) IN add(f[s \ {x}], digits[x])]
  <2>1. ASSUME NEW s \in SUBSET {1}, s # {} PROVE add(f[s \ {Max(s)}], digits[Max(s)]) = Value(d)
    <3>1. s = {1} /\ Max(s) = 1 /\ s \ {Max(s)} = {}
      BY <1>3, <1>4, <2>1
    <3>2. f[{}] = 0
      OBVIOUS
    <3>3. add(0, d) = Value(d)
      BY <1>1
    <3> QED
      BY <1>2, <3>1, <3>2, <3>3
  <2> QED
    BY <2>1
<1>6. iter = [s \in SUBSET {1} |-> IF s = {} THEN 0 ELSE LET x == Max(s) IN add(iter[s \ {x}], digits[x])]
  BY <1>5
<1>7. Atoi(digits) = iter[{1}]
  <2>1. Atoi(digits) = FoldLeft(add, 0, digits)
    BY DEF Atoi
  <2>2. FoldLeft(add, 0, digits) =
           MapThenFoldSet(LAMBDA x, y : add(y, x), 0, LAMBDA i : digits[i], LAMBDA S : Max(S), DOMAIN digits)
    BY DEF FoldLeft
  <2> QED
    BY <1>2, <2>1, <2>2 DEF MapThenFoldSet
<1>8. iter[{1}] = add(iter[{}], digits[1]) /\ iter[{}] = 0
  <2> HIDE DEF iter
  <2>1. {1} \in SUBSET {1} /\ {} \in SUBSET {1} /\ {1} # {} /\ {1} \ {1} = {}
    OBVIOUS
  <2> HIDE DEF add, digits
  <2>2. iter[{1}] = LET x == Max({1}) IN add(iter[{1} \ {x}], digits[x])
    BY <1>6, <2>1
  <2>3. iter[{}] = 0
    BY <1>6, <2>1
  <2> QED
    BY <1>3, <2>1, <2>2, <2>3
<1> QED
  BY <1>1, <1>2, <1>7, <1>8

\* All bytes between the brackets may stand inside a placeholder.
Inside(u, i, j) == \A p \in Nat : i < p /\ p < j => u[p] \in Inner

\* The digits of a placeholder, with what stands before them and after them.
Numeral(u, i, j, n, da, de) ==
    /\ da \in Nat /\ de \in Nat /\ i < da /\ da < de /\ de <= j /\ de <= da + IndexLen
    /\ \A p \in Nat : /\ i < p /\ p < da => u[p] \notin Digits
                      /\ da <= p /\ p < de => u[p] \in Digits
                      /\ de <= p /\ p < j => u[p] = " "
    /\ n = Atoi(From(u, da, de))

\* The bytes of From.
LEMMA FromAt ==
  ASSUME NEW u \in Text, NEW p \in Nat, NEW q \in Nat, 1 <= p, p <= q, q <= Len(u) + 1
  PROVE  /\ From(u, p, q) \in Text /\ Len(From(u, p, q)) = q - p
         /\ \A d \in Nat : d < q - p => From(u, p, q)[d + 1] = u[p + d]
<1>0. Len(u) \in Nat /\ u \in Seq(Bytes)
  BY DEF Text
<1>1. q - 1 \in Nat /\ p - 1 \in Nat /\ q - 1 <= Len(u) /\ p - 1 <= q - 1 /\ (q - 1) - (p - 1) = q - p /\ p - 1 + 1 = p
  BY <1>0
<1>2. From(u, p, q) = Part(u, p - 1, q - 1)
  BY <1>1 DEF From, Part
<1>3. p - 1 \in 0 .. Len(u) /\ q - 1 \in p - 1 .. Len(u)
  BY <1>0, <1>1
<1>4. /\ Part(u, p - 1, q - 1) \in Text /\ Len(Part(u, p - 1, q - 1)) = (q - 1) - (p - 1)
      /\ \A i \in 1 .. (q - 1) - (p - 1) : Part(u, p - 1, q - 1)[i] = u[(p - 1) + i]
  BY <1>3, PartAt
<1>5. ASSUME NEW d \in Nat, d < q - p PROVE From(u, p, q)[d + 1] = u[p + d]
  <2>1. d + 1 \in 1 .. (q - 1) - (p - 1) /\ (p - 1) + (d + 1) = p + d
    BY <1>5
  <2> QED
    BY <1>2, <1>4, <2>1
<1> QED
  BY <1>1, <1>2, <1>4, <1>5

\* The bytes of a placeholder's name.
LEMMA NameBytes ==
  ASSUME NEW u \in Text, NEW na \in Nat, NEW ne \in Nat, NEW name \in Names,
         1 <= na, ne = na + Len(name), ne <= Len(u) + 1, From(u, na, ne) = name
  PROVE  /\ \A p \in Nat : na <= p /\ p < ne => u[p] \in {"K", "k", "k1", "k2", "k3"}
         /\ na < ne /\ u[ne - 1] \in {"K", "k", "k3"}
         /\ u[na] # "k1" => ne = na + 1
<1>0. \A d \in Nat : d < ne - na => From(u, na, ne)[d + 1] = u[na + d]
  <2>1. Len(name) \in Nat
    BY NamesAre
  <2>2. na <= ne
    BY <2>1
  <2> QED
    BY <2>2, FromAt
<1>1. CASE name \in {<<"K">>, <<"k">>}
  <2>1. Len(name) = 1 /\ name[1] \in {"K", "k"}
    BY <1>1
  <2>2. ne = na + 1 /\ ne - na = 1 /\ ne - 1 = na
    BY <2>1
  <2>3. u[na] = name[1]
    <3>1. From(u, na, ne)[0 + 1] = u[na + 0]
      BY <1>0, <2>2
    <3>2. 0 + 1 = 1 /\ na + 0 = na
      OBVIOUS
    <3> QED
      BY <3>1, <3>2
  <2>4. \A p \in Nat : na <= p /\ p < ne => p = na
    BY <2>2
  <2> QED
    BY <2>1, <2>2, <2>3, <2>4
<1>2. CASE name = <<"k1", "k2", "k3">>
  <2>1. Len(name) = 3 /\ name[1] = "k1" /\ name[2] = "k2" /\ name[3] = "k3"
    BY <1>2
  <2>2. ne = na + 3 /\ ne - na = 3 /\ ne - 1 = na + 2
    BY <2>1
  <2>3. u[na] = name[1] /\ u[na + 1] = name[2] /\ u[na + 2] = name[3]
    <3>1. From(u, na, ne)[0 + 1] = u[na + 0] /\ From(u, na, ne)[1 + 1] = u[na + 1] /\ From(u, na, ne)[2 + 1] = u[na + 2]
      BY <1>0, <2>2
    <3>2. 0 + 1 = 1 /\ 1 + 1 = 2 /\ 2 + 1 = 3 /\ na + 0 = na
      OBVIOUS
    <3> QED
      BY <3>1, <3>2
  <2>4. \A p \in Nat : na <= p /\ p < ne => p \in {na, na + 1, na + 2}
    BY <2>2
  <2> QED
    BY <2>1, <2>2, <2>3, <2>4
<1> QED
  BY <1>1, <1>2 DEF Names

\* What a placeholder looks like.
LEMMA RegexShape ==
  ASSUME NEW u \in Text, NEW h \in RegexHits(u)
  PROVE  /\ Inside(u, h.start, h.end)
         /\ \E da, de : Numeral(u, h.start, h.end, h.index, da, de)
         /\ (\A p \in Nat : h.start < p /\ p < h.end => u[p] # "k1") => h.end - h.start < PlaceholderLen
<1> DEFINE i == h.start
           j == h.end
<1>1. PICK name \in Names, na \in Nat, ne \in Nat, da \in Nat, de \in Nat :
            /\ Spelled(u, i, name, na, ne, da, de, j)
            /\ h.index = Atoi(From(u, da, de)) /\ h.index \in DOMAIN Originals
  BY SpelledHit
<1> HIDE DEF i, j
<1>2. /\ i \in Nat /\ na \in Nat /\ ne \in Nat /\ da \in Nat /\ de \in Nat /\ j \in Nat
      /\ 1 <= i /\ j <= Len(u) /\ name \in Names /\ Len(name) \in Nat
      /\ i < na /\ na <= i + 1 + MaxDrift /\ ne = na + Len(name)
      /\ ne <= da /\ da <= ne + MaxDrift /\ da < de /\ de <= da + IndexLen
      /\ de <= j /\ j <= de + MaxDrift
      /\ u[i] = "<" /\ u[j] = ">" /\ From(u, na, ne) = name
  BY <1>1, Zenon DEF Spelled
<1>3. \A p \in Nat : /\ i < p /\ p < na => u[p] = " "
                     /\ ne <= p /\ p < da => u[p] \in {" ", "_"}
                     /\ da <= p /\ p < de => u[p] \in Digits
                     /\ de <= p /\ p < j => u[p] = " "
  BY <1>1, Zenon DEF Spelled
<1>4. Len(u) \in Nat /\ MaxDrift \in Nat /\ IndexLen \in Nat
  BY DemaskerAssumption DEF Text
<1>5. 1 <= na /\ ne <= Len(u) + 1
  BY <1>2, <1>4
<1>6. /\ \A p \in Nat : na <= p /\ p < ne => u[p] \in {"K", "k", "k1", "k2", "k3"}
      /\ na < ne /\ u[ne - 1] \in {"K", "k", "k3"}
      /\ u[na] # "k1" => ne = na + 1
  BY <1>2, <1>5, NameBytes
<1>7. ASSUME NEW p \in Nat, i < p, p < j PROVE u[p] \in Inner
  <2>1. \/ i < p /\ p < na
        \/ na <= p /\ p < ne
        \/ ne <= p /\ p < da
        \/ da <= p /\ p < de
        \/ de <= p /\ p < j
    BY <1>2, <1>7
  <2>2. u[p] \in {" ", "_"} \/ u[p] \in {"K", "k", "k1", "k2", "k3"} \/ u[p] \in Digits
    BY <1>3, <1>6, <2>1
  <2> QED
    BY <2>2 DEF Inner
<1>8. ASSUME NEW p \in Nat, i < p, p < da PROVE u[p] \notin Digits
  <2>1. \/ i < p /\ p < na
        \/ na <= p /\ p < ne
        \/ ne <= p /\ p < da
    BY <1>2, <1>8
  <2>2. u[p] \in {" ", "_"} \/ u[p] \in {"K", "k", "k1", "k2", "k3"}
    BY <1>3, <1>6, <2>1
  <2> QED
    BY <2>2, DigitsAre
<1>9. Numeral(u, i, j, h.index, da, de)
  <2>1. i < da
    BY <1>2, <1>6
  <2> QED
    BY <1>1, <1>2, <1>3, <1>8, <2>1 DEF Numeral
<1>10. ASSUME \A p \in Nat : i < p /\ p < j => u[p] # "k1" PROVE j - i < PlaceholderLen
  <2>1. na < j
    BY <1>2, <1>6
  <2>2. ne = na + 1
    BY <1>2, <1>6, <1>10, <2>1
  <2>3. PlaceholderLen = 3 + 3 * MaxDrift + IndexLen
    BY DEF PlaceholderLen
  <2>4. da <= i + 2 + MaxDrift + MaxDrift
    BY <1>2, <1>4, <2>2
  <2>5. j <= i + 2 + MaxDrift + MaxDrift + IndexLen + MaxDrift
    BY <1>2, <1>4, <2>4
  <2> QED
    BY <1>2, <1>4, <2>3, <2>5
<1>11. Inside(u, i, j)
  BY <1>7 DEF Inside
<1>12. i = h.start /\ j = h.end
  BY DEF i, j
<1> QED
  BY <1>9, <1>10, <1>11, <1>12

-----------------------------------------------------------------------------
(* Exact placeholders, and what any two hits have in common.                *)

\* The bytes of an exact placeholder.
Written(u, i, ka, sa, da, ca, n) ==
    /\ i \in Nat /\ ka \in Nat /\ sa \in Nat /\ da \in Nat /\ ca \in Nat
    /\ 1 <= i /\ ka = i + 1 /\ sa = i + 2 /\ da = i + 3 /\ ca = i + 4
    /\ ca <= Len(u) /\ n \in DOMAIN Originals
    /\ u[i] = "<" /\ u[ka] = "K" /\ u[sa] = "_" /\ u[da] = Digit[n] /\ u[ca] = ">"

\* Five bytes in a row, one by one.
LEMMA FiveBytes ==
  ASSUME NEW u \in Text, NEW i \in Nat, 1 <= i, i + 4 <= Len(u)
  PROVE  LET w == SubSeq(u, i, i + 4)
         IN  /\ w \in Text /\ Len(w) = 5
             /\ w[1] = u[i] /\ w[2] = u[i + 1] /\ w[3] = u[i + 2] /\ w[4] = u[i + 3] /\ w[5] = u[i + 4]
  BY DEF Text

\* A tuple of five is a sequence.
LEMMA FiveIn ==
  ASSUME NEW V, NEW a \in V, NEW b \in V, NEW c \in V, NEW d \in V, NEW e \in V
  PROVE  <<a, b, c, d, e>> \in Seq(V)
  OBVIOUS

\* An exact hit is written so.
LEMMA WrittenHit ==
  ASSUME NEW u \in Text, NEW h \in ExactHits(u)
  PROVE  \E ka \in Nat, sa \in Nat, da \in Nat : Written(u, h.start, ka, sa, da, h.end, h.index)
<1>1. PICK x \in (1 .. Len(u)) \X DOMAIN Originals :
         /\ x[1] + 4 <= Len(u) /\ SubSeq(u, x[1], x[1] + 4) = Format(x[2])
         /\ h = [start |-> x[1], end |-> x[1] + 4, index |-> x[2]]
  BY DEF ExactHits
<1>2. PICK i \in 1 .. Len(u), n \in DOMAIN Originals : i = x[1] /\ n = x[2]
  BY <1>1
<1>3. /\ i + 4 <= Len(u) /\ SubSeq(u, i, i + 4) = Format(n)
      /\ h.start = i /\ h.end = i + 4 /\ h.index = n
  BY <1>1, <1>2
<1>4. Len(u) \in Nat /\ i \in Nat /\ 1 <= i
  BY DEF Text
<1> DEFINE w == SubSeq(u, i, i + 4)
<1>5. w[1] = u[i] /\ w[2] = u[i + 1] /\ w[3] = u[i + 2] /\ w[4] = u[i + 3] /\ w[5] = u[i + 4]
  BY <1>3, <1>4, FiveBytes
<1>6. Format(n)[1] = "<" /\ Format(n)[2] = "K" /\ Format(n)[3] = "_" /\ Format(n)[4] = Digit[n] /\ Format(n)[5] = ">"
  BY DEF Format
<1>7. w = Format(n)
  BY <1>3
<1> HIDE DEF w
<1>8. PICK ka \in Nat, sa \in Nat, da \in Nat, ca \in Nat : ka = i + 1 /\ sa = i + 2 /\ da = i + 3 /\ ca = i + 4
  BY <1>4
<1>9. u[i] = "<" /\ u[ka] = "K" /\ u[sa] = "_" /\ u[da] = Digit[n] /\ u[ca] = ">"
  BY <1>5, <1>6, <1>7, <1>8
<1>10. Written(u, i, ka, sa, da, ca, n)
  BY <1>3, <1>4, <1>8, <1>9 DEF Written
<1> QED
  BY <1>3, <1>8, <1>10

\* What is written so is an exact hit.
LEMMA HitWritten ==
  ASSUME NEW u \in Text, NEW i \in Nat, NEW ka \in Nat, NEW sa \in Nat, NEW da \in Nat, NEW ca \in Nat, NEW n,
         Written(u, i, ka, sa, da, ca, n)
  PROVE  Hit(i, ca, n) \in ExactHits(u)
<1>1. 1 <= i /\ ka = i + 1 /\ sa = i + 2 /\ da = i + 3 /\ ca = i + 4 /\ ca <= Len(u) /\ n \in DOMAIN Originals
  BY Zenon DEF Written
<1>2. u[i] = "<" /\ u[ka] = "K" /\ u[sa] = "_" /\ u[da] = Digit[n] /\ u[ca] = ">"
  BY Zenon DEF Written
<1> DEFINE w == SubSeq(u, i, i + 4)
           f == Format(n)
<1>3. /\ w \in Text /\ Len(w) = 5
      /\ w[1] = u[i] /\ w[2] = u[i + 1] /\ w[3] = u[i + 2] /\ w[4] = u[i + 3] /\ w[5] = u[i + 4]
  BY <1>1, FiveBytes
<1>4. f[1] = "<" /\ f[2] = "K" /\ f[3] = "_" /\ f[4] = Digit[n] /\ f[5] = ">" /\ Len(f) = 5
  BY DEF Format
<1> DEFINE V == {u[i], u[ka], u[sa], u[da], u[ca]}
<1>5. f \in Seq(V)
  <2>1. /\ "<" \in V /\ "K" \in V /\ "_" \in V /\ Digit[n] \in V /\ ">" \in V
    BY <1>2
  <2> HIDE DEF V
  <2> QED
    BY <2>1, FiveIn DEF Format
<1> HIDE DEF w, f
<1>6. w[1] = f[1] /\ w[2] = f[2] /\ w[3] = f[3] /\ w[4] = f[4] /\ w[5] = f[5]
  BY <1>1, <1>2, <1>3, <1>4
<1>7. \A k \in 1 .. 5 : w[k] = f[k]
  <2>1. \A k \in 1 .. 5 : k \in {1, 2, 3, 4, 5}
    OBVIOUS
  <2> QED
    BY <1>6, <2>1
<1>8. w = f
  <2>1. w \in Seq(Bytes \cup V) /\ f \in Seq(Bytes \cup V)
    BY <1>3, <1>5 DEF Text
  <2> QED
    BY <1>3, <1>4, <1>7, <2>1, SeqEqual
<1>9. i \in 1 .. Len(u) /\ i + 4 <= Len(u)
  <2>1. Len(u) \in Nat
    BY DEF Text
  <2> QED
    BY <1>1, <2>1
<1>10. SubSeq(u, i, i + 4) = Format(n)
  BY <1>8 DEF w, f
<1>11. PICK x \in (1 .. Len(u)) \X DOMAIN Originals : x[1] = i /\ x[2] = n
  <2>1. <<i, n>> \in (1 .. Len(u)) \X DOMAIN Originals
    BY <1>1, <1>9
  <2> QED
    BY <2>1
<1>12. [start |-> x[1], end |-> x[1] + 4, index |-> x[2]] \in ExactHits(u)
  BY <1>9, <1>10, <1>11 DEF ExactHits
<1> QED
  BY <1>1, <1>11, <1>12 DEF Hit

\* What stands in an exact hit.
LEMMA ExactShape ==
  ASSUME NEW u \in Text, NEW h \in ExactHits(u)
  PROVE  /\ Inside(u, h.start, h.end)
         /\ \E da, de : Numeral(u, h.start, h.end, h.index, da, de)
         /\ h.end - h.start < 5
<1>1. PICK ka \in Nat, sa \in Nat, da \in Nat : Written(u, h.start, ka, sa, da, h.end, h.index)
  BY WrittenHit
<1>2. PICK i \in Nat, j \in Nat, n \in DOMAIN Originals : i = h.start /\ j = h.end /\ n = h.index
  BY <1>1 DEF Written
<1>3. /\ ka \in Nat /\ sa \in Nat /\ da \in Nat /\ n \in DOMAIN Originals
      /\ 1 <= i /\ ka = i + 1 /\ sa = i + 2 /\ da = i + 3 /\ j = i + 4 /\ j <= Len(u)
  BY <1>1, <1>2 DEF Written
<1>4. u[i] = "<" /\ u[ka] = "K" /\ u[sa] = "_" /\ u[da] = Digit[n] /\ u[j] = ">"
  BY <1>1, <1>2 DEF Written
<1>5. Digit[n] \in Digits /\ Atoi(<<Digit[n]>>) = n
  <2>1. n \in DOMAIN Digit
    BY <1>3, DemaskerAssumption
  <2> QED
    BY <2>1, DigitOK, AtoiDigit
<1>6. Inside(u, i, j)
  <2>1. \A p \in Nat : i < p /\ p < j => p \in {ka, sa, da}
    BY <1>3
  <2> QED
    BY <1>4, <1>5, <2>1 DEF Inside, Inner
<1>7. From(u, da, j) = <<Digit[n]>>
  <2>0. Len(u) \in Nat
    BY DEF Text
  <2>1. 1 <= da /\ da <= j /\ j <= Len(u) + 1 /\ j - da = 1
    BY <1>3, <2>0
  <2> DEFINE w == From(u, da, j)
  <2>2. w \in Text /\ Len(w) = 1 /\ \A d \in Nat : d < 1 => w[d + 1] = u[da + d]
    <3>1. w \in Text /\ Len(w) = j - da /\ \A d \in Nat : d < j - da => w[d + 1] = u[da + d]
      BY <2>1, FromAt
    <3> HIDE DEF w
    <3> QED
      BY <2>1, <3>1
  <2> HIDE DEF w
  <2>3. w[1] = u[da]
    <3>1. 0 < 1 /\ 0 + 1 = 1 /\ da + 0 = da
      BY <1>3
    <3> QED
      BY <2>2, <3>1
  <2>4. w = <<w[1]>>
    BY <2>2 DEF Text
  <2> QED
    BY <1>4, <2>3, <2>4 DEF w
<1>8. Numeral(u, i, j, n, da, j)
  <2>1. ASSUME NEW p \in Nat, i < p, p < da PROVE u[p] \notin Digits
    <3>1. p \in {ka, sa}
      BY <1>3, <2>1
    <3> QED
      BY <1>4, <3>1, DigitsAre
  <2>2. ASSUME NEW p \in Nat
        PROVE  /\ da <= p /\ p < j => u[p] \in Digits
               /\ j <= p /\ p < j => u[p] = " "
    <3>1. (da <= p /\ p < j => p = da) /\ ~(j <= p /\ p < j)
      BY <1>3
    <3> QED
      BY <1>4, <1>5, <3>1
  <2>3. i < da /\ da < j /\ j <= j /\ j <= da + IndexLen
    <3>1. IndexLen \in Nat /\ 1 <= IndexLen
      BY DemaskerAssumption
    <3> QED
      BY <1>3, <3>1
  <2>4. n = Atoi(From(u, da, j))
    BY <1>5, <1>7
  <2> QED
    BY <1>3, <2>1, <2>2, <2>3, <2>4 DEF Numeral
<1>9. j - i < 5
  BY <1>3
<1> QED
  BY <1>2, <1>6, <1>8, <1>9

\* A hit has no bracket inside.
LEMMA HitShape ==
  ASSUME NEW u \in Text, NEW kinds, NEW h \in Hits(u, kinds)
  PROVE  /\ Inside(u, h.start, h.end)
         /\ \E da, de : Numeral(u, h.start, h.end, h.index, da, de)
<1>1. h \in ExactHits(u) \/ h \in RegexHits(u)
  BY DEF Hits
<1> QED
  BY <1>1, ExactShape, RegexShape

\* The same brackets hold one number.
LEMMA NumeralUnique ==
  ASSUME NEW u, NEW i \in Nat, NEW j \in Nat, NEW m, NEW n, NEW da, NEW de, NEW ea, NEW ee,
         Numeral(u, i, j, m, da, de), Numeral(u, i, j, n, ea, ee)
  PROVE  m = n
<1>1. /\ da \in Nat /\ de \in Nat /\ ea \in Nat /\ ee \in Nat
      /\ i < da /\ da < de /\ de <= j /\ i < ea /\ ea < ee /\ ee <= j
  BY DEF Numeral
<1>2. " " \notin Digits /\ \A p \in Nat : (i < p /\ p < da) \/ (i < p /\ p < ea) => u[p] \notin Digits
  BY DigitsAre DEF Numeral
<1>3. \A p \in Nat : /\ da <= p /\ p < de => u[p] \in Digits
                     /\ de <= p /\ p < j => u[p] = " "
                     /\ ea <= p /\ p < ee => u[p] \in Digits
                     /\ ee <= p /\ p < j => u[p] = " "
  BY DEF Numeral
<1>4. de = ee
  <2>1. ASSUME de < ee PROVE FALSE
    <3>1. ee - 1 \in Nat /\ ea <= ee - 1 /\ ee - 1 < ee /\ de <= ee - 1 /\ ee - 1 < j
      BY <1>1, <2>1
    <3> QED
      BY <1>2, <1>3, <3>1
  <2>2. ASSUME ee < de PROVE FALSE
    <3>1. de - 1 \in Nat /\ da <= de - 1 /\ de - 1 < de /\ ee <= de - 1 /\ de - 1 < j
      BY <1>1, <2>2
    <3> QED
      BY <1>2, <1>3, <3>1
  <2> QED
    BY <1>1, <2>1, <2>2
<1>5. da = ea
  <2>1. ASSUME da < ea PROVE FALSE
    <3>1. ea - 1 \in Nat /\ da <= ea - 1 /\ ea - 1 < de /\ i < ea - 1 /\ ea - 1 < ea
      BY <1>1, <1>4, <2>1
    <3> QED
      BY <1>2, <1>3, <3>1
  <2>2. ASSUME ea < da PROVE FALSE
    <3>1. da - 1 \in Nat /\ ea <= da - 1 /\ da - 1 < ee /\ i < da - 1 /\ da - 1 < da
      BY <1>1, <1>4, <2>2
    <3> QED
      BY <1>2, <1>3, <3>1
  <2> QED
    BY <1>1, <2>1, <2>2
<1> QED
  BY <1>4, <1>5 DEF Numeral

\* Hits that share a byte are the same.
LEMMA HitsApart ==
  ASSUME NEW u \in Text, NEW kinds, NEW more, NEW g \in Hits(u, kinds), NEW h \in Hits(u, more),
         NEW j \in Nat, g.start <= j, j <= g.end, h.start <= j, j <= h.end
  PROVE  g = h
<1>1. /\ HitIn(u, g) /\ g = Hit(g.start, g.end, g.index) /\ g.start \in Nat /\ g.end \in Nat
      /\ HitIn(u, h) /\ h = Hit(h.start, h.end, h.index) /\ h.start \in Nat /\ h.end \in Nat
  <2>1. \A n \in Nat : \A k \in 1 .. n : k \in Nat
    OBVIOUS
  <2> QED
    BY <2>1, HitsIn
<1>2. /\ u[g.start] = "<" /\ u[g.end] = ">" /\ g.start < g.end
      /\ u[h.start] = "<" /\ u[h.end] = ">" /\ h.start < h.end
  BY <1>1 DEF HitIn
<1>3. Inside(u, g.start, g.end) /\ Inside(u, h.start, h.end)
  BY HitShape
<1>4. "<" \notin Inner /\ ">" \notin Inner
  BY DigitsAre DEF Inner
<1>5. \A p \in Nat : (g.start < p /\ p < g.end) \/ (h.start < p /\ p < h.end) => u[p] # "<" /\ u[p] # ">"
  BY <1>3, <1>4 DEF Inside
<1>6. g.start = h.start
  BY <1>1, <1>2, <1>5
<1>7. g.end = h.end
  BY <1>1, <1>2, <1>5, <1>6
<1>8. PICK da, de : Numeral(u, g.start, g.end, g.index, da, de)
  BY HitShape
<1>9. PICK ea, ee : Numeral(u, h.start, h.end, h.index, ea, ee)
  BY HitShape
<1>10. g.index = h.index
  BY <1>1, <1>6, <1>7, <1>8, <1>9, NumeralUnique
<1> QED
  BY <1>1, <1>6, <1>7, <1>10

-----------------------------------------------------------------------------
(* The same bytes at another place.                                         *)

\* The bytes of texts that agree.
LEMMA AgreeAt ==
  ASSUME NEW u, NEW v, NEW i \in Nat, NEW j \in Nat, NEW L \in Nat, Agree(u, i, v, j, L)
  PROVE  \A p \in Nat, q \in Nat : i <= p /\ p < i + L /\ q + i = p + j => u[p] = v[q]
  BY Zenon DEF Agree

\* Every position from i on has one from j on.
LEMMA Shifted ==
  ASSUME NEW i \in Nat, NEW j \in Nat, NEW p \in Nat, i <= p
  PROVE  \E q \in Nat : q + i = p + j /\ j <= q
<1>1. (p - i) + j \in Nat /\ ((p - i) + j) + i = p + j /\ j <= (p - i) + j
  OBVIOUS
<1> QED
  BY <1>1

\* The same bytes elsewhere are the same hit.
LEMMA ExactMoves ==
  ASSUME NEW u \in Text, NEW v \in Text, NEW h \in ExactHits(u),
         NEW j \in Nat, NEW k \in Nat, k + h.start = h.end + j,
         Agree(u, h.start, v, j, h.end - h.start + 1)
  PROVE  Hit(j, k, h.index) \in ExactHits(v)
<1>1. PICK ka \in Nat, sa \in Nat, da \in Nat : Written(u, h.start, ka, sa, da, h.end, h.index)
  BY WrittenHit
<1>2. PICK i \in Nat, e \in Nat, n \in DOMAIN Originals : i = h.start /\ e = h.end /\ n = h.index
  BY <1>1 DEF Written
<1>3. /\ n \in DOMAIN Originals
      /\ 1 <= i /\ ka = i + 1 /\ sa = i + 2 /\ da = i + 3 /\ e = i + 4 /\ e <= Len(u)
  BY <1>1, <1>2 DEF Written
<1>4. u[i] = "<" /\ u[ka] = "K" /\ u[sa] = "_" /\ u[da] = Digit[n] /\ u[e] = ">"
  BY <1>1, <1>2 DEF Written
<1>5. k + i = e + j /\ Agree(u, i, v, j, e - i + 1)
  BY <1>2
<1>6. 1 <= j /\ k <= Len(v) /\ Len(v) \in Nat
  <2>1. j > 0 /\ j + (e - i + 1) <= Len(v) + 1 /\ Len(v) \in Nat
    BY <1>5 DEF Agree, Text
  <2> QED
    BY <1>3, <1>5, <2>1
<1>7. PICK kb \in Nat, sb \in Nat, db \in Nat : kb = j + 1 /\ sb = j + 2 /\ db = j + 3
  OBVIOUS
<1>8. k = j + 4 /\ kb + i = ka + j /\ sb + i = sa + j /\ db + i = da + j /\ j + i = i + j
  BY <1>3, <1>5, <1>7
<1>8a. \A p \in Nat, q \in Nat : i <= p /\ p <= e /\ q + i = p + j => u[p] = v[q]
  <2>1. PICK L \in Nat : L = e - i + 1 /\ Agree(u, i, v, j, L)
    <3>1. i <= e
      BY <1>3
    <3>2. e - i + 1 \in Nat
      BY <3>1
    <3> QED
      BY <1>5, <3>2
  <2>2. \A p \in Nat, q \in Nat : i <= p /\ p < i + L /\ q + i = p + j => u[p] = v[q]
    BY <2>1, AgreeAt
  <2> QED
    BY <2>1, <2>2
<1>9. v[j] = u[i] /\ v[kb] = u[ka] /\ v[sb] = u[sa] /\ v[db] = u[da] /\ v[k] = u[e]
  <2>1. i <= i /\ i <= ka /\ i <= sa /\ i <= da /\ i <= e /\ e <= e /\ i <= e /\ ka <= e /\ sa <= e /\ da <= e
    BY <1>3
  <2>2. v[j] = u[i]
    BY <1>5, <1>8, <1>8a, <2>1
  <2>3. v[kb] = u[ka]
    BY <1>5, <1>8, <1>8a, <2>1
  <2>4. v[sb] = u[sa]
    BY <1>5, <1>8, <1>8a, <2>1
  <2>5. v[db] = u[da]
    BY <1>5, <1>8, <1>8a, <2>1
  <2>6. v[k] = u[e]
    BY <1>5, <1>8, <1>8a, <2>1
  <2> QED
    BY <2>2, <2>3, <2>4, <2>5, <2>6
<1>10. Written(v, j, kb, sb, db, k, n)
  BY <1>3, <1>4, <1>6, <1>7, <1>8, <1>9 DEF Written
<1> QED
  BY <1>2, <1>10, HitWritten

\* The same bytes elsewhere are the same drifted placeholder.
LEMMA RegexMoves ==
  ASSUME NEW u \in Text, NEW v \in Text, NEW h \in RegexHits(u),
         NEW j \in Nat, NEW k \in Nat, k + h.start = h.end + j,
         Agree(u, h.start, v, j, h.end - h.start + 1)
  PROVE  Hit(j, k, h.index) \in RegexHits(v)
<1>1. PICK name \in Names, na \in Nat, ne \in Nat, da \in Nat, de \in Nat :
            /\ Spelled(u, h.start, name, na, ne, da, de, h.end)
            /\ h.index = Atoi(From(u, da, de)) /\ h.index \in DOMAIN Originals
  BY SpelledHit
<1>2. PICK i \in Nat, e \in Nat, n \in DOMAIN Originals : i = h.start /\ e = h.end /\ n = h.index
  BY <1>1 DEF Spelled
<1>3. Spelled(u, i, name, na, ne, da, de, e) /\ n = Atoi(From(u, da, de)) /\ n \in DOMAIN Originals
  BY <1>1, <1>2
<1>4. /\ na \in Nat /\ ne \in Nat /\ da \in Nat /\ de \in Nat
      /\ 1 <= i /\ e <= Len(u) /\ name \in Names /\ Len(name) \in Nat
      /\ i < na /\ na <= i + 1 + MaxDrift /\ ne = na + Len(name)
      /\ ne <= da /\ da <= ne + MaxDrift /\ da < de /\ de <= da + IndexLen
      /\ de <= e /\ e <= de + MaxDrift
      /\ u[i] = "<" /\ u[e] = ">" /\ From(u, na, ne) = name
  BY <1>3, Zenon DEF Spelled
<1>5. \A p \in Nat : /\ i < p /\ p < na => u[p] = " "
                     /\ ne <= p /\ p < da => u[p] \in {" ", "_"}
                     /\ da <= p /\ p < de => u[p] \in Digits
                     /\ de <= p /\ p < e => u[p] = " "
  BY <1>3, Zenon DEF Spelled
<1>6. /\ k + i = e + j /\ Agree(u, i, v, j, e - i + 1)
      /\ MaxDrift \in Nat /\ IndexLen \in Nat
  BY <1>2, DemaskerAssumption
<1>7. na <= ne
  BY <1>4
<1>8. 1 <= j /\ k <= Len(v) /\ Len(v) \in Nat
  <2>1. j > 0 /\ j + (e - i + 1) <= Len(v) + 1 /\ Len(v) \in Nat
    BY <1>6 DEF Agree, Text
  <2>2. i <= e
    BY <1>4, <1>7
  <2> QED
    BY <1>6, <2>1, <2>2
<1>9. PICK nb \in Nat, nf \in Nat, db \in Nat, df \in Nat :
         nb + i = na + j /\ nf + i = ne + j /\ db + i = da + j /\ df + i = de + j
  <2>1. i <= na /\ i <= ne /\ i <= da /\ i <= de
    BY <1>4, <1>7
  <2>2. PICK nb \in Nat : nb + i = na + j
    BY <1>4, <2>1, Shifted
  <2>3. PICK nf \in Nat : nf + i = ne + j
    BY <1>4, <2>1, Shifted
  <2>4. PICK db \in Nat : db + i = da + j
    BY <1>4, <2>1, Shifted
  <2>5. PICK df \in Nat : df + i = de + j
    BY <1>4, <2>1, Shifted
  <2> QED
    BY <2>2, <2>3, <2>4, <2>5
<1>10. /\ j < nb /\ nb <= j + 1 + MaxDrift /\ nf = nb + Len(name)
       /\ nf <= db /\ db <= nf + MaxDrift /\ db < df /\ df <= db + IndexLen
       /\ df <= k /\ k <= df + MaxDrift
  BY <1>4, <1>6, <1>9
<1>10a. PICK L \in Nat : L = e - i + 1 /\ Agree(u, i, v, j, L)
  <2>1. i <= e
    BY <1>4, <1>7
  <2>2. e - i + 1 \in Nat
    BY <2>1
  <2> QED
    BY <1>6, <2>2
<1>10b. \A p \in Nat, q \in Nat : i <= p /\ p <= e /\ q + i = p + j => u[p] = v[q]
  <2>1. \A p \in Nat, q \in Nat : i <= p /\ p < i + L /\ q + i = p + j => u[p] = v[q]
    BY <1>10a, AgreeAt
  <2> QED
    BY <1>10a, <2>1
<1>11. v[j] = "<" /\ v[k] = ">"
  <2>1. i <= i /\ i <= e /\ e <= e /\ j + i = i + j
    BY <1>4, <1>7
  <2>2. u[i] = v[j]
    BY <1>6, <1>10b, <2>1
  <2>3. u[e] = v[k]
    BY <1>6, <1>10b, <2>1
  <2> QED
    BY <1>4, <2>2, <2>3
<1>12. From(v, nb, nf) = name /\ From(v, db, df) = From(u, da, de)
  <2>1. /\ i <= na /\ na <= ne /\ ne <= i + L
        /\ i <= da /\ da <= de /\ de <= i + L
    BY <1>4, <1>7, <1>10a
  <2>2. From(u, na, ne) = From(v, nb, nf)
    BY <1>9, <1>10a, <2>1, AgreeParts
  <2>3. From(u, da, de) = From(v, db, df)
    BY <1>9, <1>10a, <2>1, AgreeParts
  <2> QED
    BY <1>4, <2>2, <2>3
<1>13. ASSUME NEW q \in Nat
       PROVE  /\ j < q /\ q < nb => v[q] = " "
              /\ nf <= q /\ q < db => v[q] \in {" ", "_"}
              /\ db <= q /\ q < df => v[q] \in Digits
              /\ df <= q /\ q < k => v[q] = " "
  <2>1. CASE j <= q /\ q <= k
    <3>1. PICK p \in Nat : p + j = q + i
      BY <2>1, Shifted
    <3>2. q + i = p + j /\ i <= p /\ p <= e
      BY <1>6, <2>1, <3>1
    <3>3. v[q] = u[p]
      BY <1>10b, <3>2
    <3>4. /\ j < q /\ q < nb => i < p /\ p < na
          /\ nf <= q /\ q < db => ne <= p /\ p < da
          /\ db <= q /\ q < df => da <= p /\ p < de
          /\ df <= q /\ q < k => de <= p /\ p < e
      BY <1>4, <1>6, <1>9, <3>2
    <3> QED
      BY <1>5, <3>3, <3>4
  <2>2. CASE ~(j <= q /\ q <= k)
    <3>1. ~(j < q /\ q < nb) /\ ~(nf <= q /\ q < db) /\ ~(db <= q /\ q < df) /\ ~(df <= q /\ q < k)
      <4>1. nb <= nf
        BY <1>4, <1>10
      <4> QED
        BY <1>10, <2>2, <4>1
    <3> QED
      BY <3>1
  <2> QED
    BY <2>1, <2>2
<1>14. Spelled(v, j, name, nb, nf, db, df, k)
  BY <1>4, <1>8, <1>10, <1>11, <1>12, <1>13 DEF Spelled
<1>15. Hit(j, k, Atoi(From(v, db, df))) \in RegexHits(v)
  BY <1>3, <1>12, <1>14, HitSpelled
<1> QED
  BY <1>2, <1>3, <1>12, <1>15

\* The same bytes elsewhere are the same hit.
LEMMA HitMoves ==
  ASSUME NEW u \in Text, NEW v \in Text, NEW kinds, NEW h \in Hits(u, kinds),
         NEW j \in Nat, NEW k \in Nat, k + h.start = h.end + j,
         Agree(u, h.start, v, j, h.end - h.start + 1)
  PROVE  Hit(j, k, h.index) \in Hits(v, kinds)
<1>1. \/ "exact" \in kinds /\ h \in ExactHits(u)
      \/ "regex" \in kinds /\ h \in RegexHits(u)
  BY DEF Hits
<1> QED
  BY <1>1, ExactMoves, RegexMoves DEF Hits

-----------------------------------------------------------------------------
(* Replacing hits from the first byte to the last.                          *)

\* The two kinds of hits.
Kinds == {"exact", "regex"}

\* The byte j is part of the hit.
Covers(h, j) == h.start <= j /\ j <= h.end

\* What Splice has put together after each byte of the text.
Steps(u, H, c, f) ==
    /\ f \in [0 .. Len(u) -> Text] /\ f[0] = Empty
    /\ \A k \in 1 .. Len(u) : (\A h \in H : ~Covers(h, k)) => f[k] = Joined(f[k - 1], <<u[k]>>)
    /\ \A h \in H, k \in 1 .. Len(u) : h.start = k => f[k] = Joined(f[k - 1], Restored(h.index, c))
    /\ \A h \in H, k \in 1 .. Len(u) : h.start < k /\ k <= h.end => f[k] = f[k - 1]

\* Some of the hits of a text.
LEMMA SubsetOfHits ==
  ASSUME NEW u \in Text, NEW kinds, NEW H, H \subseteq Hits(u, kinds), NEW h \in H
  PROVE  /\ h \in Hits(u, Kinds)
         /\ h.start \in 1 .. Len(u) /\ h.end \in 1 .. Len(u) /\ h.start < h.end
         /\ h.index \in DOMAIN Originals
<1>1. h \in Hits(u, kinds) /\ h \in Hits(u, Kinds)
  BY DEF Hits, Kinds
<1> QED
  BY <1>1, HitsIn DEF HitIn

\* Splice goes through the text from its first byte to its last.
LEMMA SpliceSteps ==
  ASSUME NEW u \in Text, NEW kinds, NEW H, H \subseteq Hits(u, kinds), NEW c
  PROVE  \E f : Steps(u, H, c, f) /\ Splice(u, H, c) = f[Len(u)]
<1> DEFINE at(j) == {h \in H : h.start <= j /\ j <= h.end}
           piece(j) == IF at(j) = {} THEN <<u[j]>>
                       ELSE LET h == CHOOSE h \in at(j) : TRUE
                            IN  IF h.start = j THEN Restored(h.index, c) ELSE <<>>
           p == [j \in 1 .. Len(u) |-> piece(j)]
<1>0. Len(u) \in Nat /\ DOMAIN u = 1 .. Len(u) /\ \A j \in 1 .. Len(u) : u[j] \in Bytes
  BY DEF Text
<1>1. ASSUME NEW j \in 1 .. Len(u), at(j) = {}
      PROVE  piece(j) = <<u[j]>> /\ piece(j) \in Text
  <2>1. piece(j) = <<u[j]>>
    BY <1>1
  <2>2. <<u[j]>> \in Text
    BY <1>0 DEF Text
  <2> HIDE DEF piece, at
  <2> QED
    BY <2>1, <2>2
<1>2. ASSUME NEW j \in 1 .. Len(u), NEW h \in H, Covers(h, j)
      PROVE  /\ piece(j) = IF h.start = j THEN Restored(h.index, c) ELSE Empty
             /\ piece(j) \in Text
  <2>1. h \in at(j)
    BY <1>2 DEF Covers
  <2>2. \A g \in at(j) : g = h
    <3>1. SUFFICES ASSUME NEW g \in at(j) PROVE g = h
      OBVIOUS
    <3>2. g \in Hits(u, kinds) /\ h \in Hits(u, kinds) /\ g.start <= j /\ j <= g.end /\ h.start <= j /\ j <= h.end
      BY <2>1
    <3>3. j \in Nat
      BY <1>0
    <3> HIDE DEF at
    <3> QED
      BY <3>2, <3>3, HitsApart
  <2>3. (CHOOSE g \in at(j) : TRUE) = h
    BY <2>1, <2>2
  <2>4. piece(j) = IF h.start = j THEN Restored(h.index, c) ELSE Empty
    BY <2>1, <2>3 DEF Empty
  <2>5. Restored(h.index, c) \in Text /\ Empty \in Text
    BY SubsetOfHits, RestoredWhole, JoinedOK
  <2> HIDE DEF piece, at
  <2> QED
    BY <2>4, <2>5
<1>3. ASSUME NEW j \in 1 .. Len(u), at(j) # {} PROVE \E h \in H : Covers(h, j)
  BY <1>3 DEF Covers
<1>4. Splice(u, H, c) = FlattenSeq(p)
  BY <1>0 DEF Splice
<1>5. p \in [1 .. Len(u) -> Text] /\ \A j \in 1 .. Len(u) : p[j] = piece(j)
  <2>1. \A j \in 1 .. Len(u) : piece(j) \in Text
    BY <1>1, <1>2, <1>3
  <2> HIDE DEF piece
  <2> QED
    BY <2>1
<1>6. ASSUME NEW j \in 1 .. Len(u), \A h \in H : ~Covers(h, j) PROVE at(j) = {}
  BY <1>6 DEF Covers
<1> HIDE DEF p, piece, at
<1>7. PICK f \in [0 .. Len(u) -> Text] :
         /\ f[0] = Empty /\ FlattenSeq(p) = f[Len(u)]
         /\ \A k \in 1 .. Len(u) : f[k] = Joined(f[k - 1], p[k])
  BY <1>0, <1>5, FlattenRec
<1>8. ASSUME NEW k \in 1 .. Len(u), \A h \in H : ~Covers(h, k) PROVE f[k] = Joined(f[k - 1], <<u[k]>>)
  BY <1>1, <1>5, <1>6, <1>7, <1>8
<1>9. ASSUME NEW h \in H, NEW k \in 1 .. Len(u), h.start = k PROVE f[k] = Joined(f[k - 1], Restored(h.index, c))
  <2>1. Covers(h, k)
    BY <1>0, <1>9, SubsetOfHits DEF Covers
  <2>2. p[k] = Restored(h.index, c)
    BY <1>2, <1>5, <1>9, <2>1
  <2> QED
    BY <1>7, <2>2
<1>10. ASSUME NEW h \in H, NEW k \in 1 .. Len(u), h.start < k, k <= h.end PROVE f[k] = f[k - 1]
  <2>1. Covers(h, k) /\ h.start # k
    BY <1>0, <1>10, SubsetOfHits DEF Covers
  <2>2. p[k] = Empty
    BY <1>2, <1>5, <2>1
  <2>3. k - 1 \in 0 .. Len(u)
    BY <1>0
  <2>4. Joined(f[k - 1], Empty) = f[k - 1]
    BY <2>3, JoinedOK
  <2> QED
    BY <1>7, <2>2, <2>4
<1>11. Steps(u, H, c, f)
  BY <1>7, <1>8, <1>9, <1>10 DEF Steps
<1> QED
  BY <1>4, <1>7, <1>11

\* The hit, n bytes further on.
Shift(h, n) == Hit(n + h.start, n + h.end, h.index)

\* The fields of such a hit.
LEMMA ShiftIs ==
  ASSUME NEW h, NEW n
  PROVE  Shift(h, n).start = n + h.start /\ Shift(h, n).end = n + h.end /\ Shift(h, n).index = h.index
  BY DEF Shift, Hit

\* Hits that do not cross the joint are replaced on either side of it.
LEMMA SpliceJoined ==
  ASSUME NEW x \in Text, NEW y \in Text, NEW kinds, NEW c,
         NEW H, H \subseteq Hits(Joined(x, y), kinds),
         NEW G, G \subseteq Hits(x, kinds), NEW K, K \subseteq Hits(y, kinds),
         \A h \in G : h \in H, \A h \in K : Shift(h, Len(x)) \in H,
         \A h \in H : h \in G \/ \E g \in K : h = Shift(g, Len(x))
  PROVE  Splice(Joined(x, y), H, c) = Joined(Splice(x, G, c), Splice(y, K, c))
<1> DEFINE t == Joined(x, y)
           n == Len(x)
           m == Len(y)
<1>1. /\ t \in Text /\ Len(t) = n + m /\ n \in Nat /\ m \in Nat
      /\ \A i \in 1 .. n : t[i] = x[i]
      /\ \A i \in 1 .. m : t[n + i] = y[i]
  BY JoinedAt
<1>2. PICK f : Steps(t, H, c, f) /\ Splice(t, H, c) = f[Len(t)]
  <2>1. t \in Text /\ H \subseteq Hits(t, kinds)
    BY <1>1
  <2> HIDE DEF t
  <2> QED
    BY <2>1, SpliceSteps
<1>3. PICK fx : Steps(x, G, c, fx) /\ Splice(x, G, c) = fx[n]
  BY SpliceSteps
<1>4. PICK fy : Steps(y, K, c, fy) /\ Splice(y, K, c) = fy[m]
  BY SpliceSteps
<1>5. \A h \in G : h.start \in 1 .. n /\ h.end \in 1 .. n /\ h.start < h.end
  BY SubsetOfHits
<1>6. \A h \in K : h.start \in 1 .. m /\ h.end \in 1 .. m /\ h.start < h.end
  BY SubsetOfHits
<1>7. \A h \in H : h \in G \/ \E g \in K : h.start = n + g.start /\ h.end = n + g.end /\ h.index = g.index
  BY ShiftIs
<1>8. \A g \in K : \E h \in H : h.start = n + g.start /\ h.end = n + g.end /\ h.index = g.index
  BY ShiftIs
<1>9. \A h \in G : h \in H
  OBVIOUS
<1> HIDE DEF t, n, m
<1>10. /\ f \in [0 .. n + m -> Text] /\ f[0] = Empty
       /\ \A k \in 1 .. n + m : (\A h \in H : ~Covers(h, k)) => f[k] = Joined(f[k - 1], <<t[k]>>)
       /\ \A h \in H, k \in 1 .. n + m : h.start = k => f[k] = Joined(f[k - 1], Restored(h.index, c))
       /\ \A h \in H, k \in 1 .. n + m : h.start < k /\ k <= h.end => f[k] = f[k - 1]
  BY <1>1, <1>2 DEF Steps
<1>11. /\ fx \in [0 .. n -> Text] /\ fx[0] = Empty
       /\ \A k \in 1 .. n : (\A h \in G : ~Covers(h, k)) => fx[k] = Joined(fx[k - 1], <<x[k]>>)
       /\ \A h \in G, k \in 1 .. n : h.start = k => fx[k] = Joined(fx[k - 1], Restored(h.index, c))
       /\ \A h \in G, k \in 1 .. n : h.start < k /\ k <= h.end => fx[k] = fx[k - 1]
  BY <1>3 DEF Steps, n
<1>12. /\ fy \in [0 .. m -> Text] /\ fy[0] = Empty
       /\ \A k \in 1 .. m : (\A h \in K : ~Covers(h, k)) => fy[k] = Joined(fy[k - 1], <<y[k]>>)
       /\ \A h \in K, k \in 1 .. m : h.start = k => fy[k] = Joined(fy[k - 1], Restored(h.index, c))
       /\ \A h \in K, k \in 1 .. m : h.start < k /\ k <= h.end => fy[k] = fy[k - 1]
  BY <1>4 DEF Steps, m
<1>13. ASSUME NEW k \in 1 .. n, f[k - 1] = fx[k - 1] PROVE f[k] = fx[k]
  <2>1. k \in 1 .. n + m /\ k \in Nat /\ k <= n
    BY <1>1
  <2>2. CASE \A h \in G : ~Covers(h, k)
    <3>1. \A h \in H : ~Covers(h, k)
      <4>1. SUFFICES ASSUME NEW h \in H, Covers(h, k) PROVE FALSE
        OBVIOUS
      <4>2. PICK g \in K : h.start = n + g.start
        BY <1>7, <2>2, <4>1
      <4>3. h.start <= k
        BY <4>1 DEF Covers
      <4>4. g.start \in 1 .. m
        BY <1>6
      <4> QED
        BY <1>1, <2>1, <4>2, <4>3, <4>4
    <3>2. f[k] = Joined(f[k - 1], <<t[k]>>)
      BY <1>10, <2>1, <3>1
    <3>3. fx[k] = Joined(fx[k - 1], <<x[k]>>)
      BY <1>11, <2>2
    <3>4. t[k] = x[k]
      BY <1>1
    <3> QED
      BY <1>13, <3>2, <3>3, <3>4
  <2>3. CASE \E h \in G : Covers(h, k)
    <3>1. PICK h \in G : Covers(h, k)
      BY <2>3
    <3>2. h \in H /\ h.start \in 1 .. n /\ h.start <= k /\ k <= h.end
      BY <1>5, <1>9, <3>1 DEF Covers
    <3>3. h.start = k \/ h.start < k
      BY <2>1, <3>2
    <3> QED
      BY <1>10, <1>11, <1>13, <2>1, <3>2, <3>3
  <2> QED
    BY <2>2, <2>3
<1>14. f[n] = fx[n]
  <2> DEFINE S == {k \in 0 .. n : f[k] = fx[k]}
  <2>1. 0 \in S
    BY <1>1, <1>10, <1>11
  <2>2. \A k \in 1 .. n : k - 1 \in S => k \in S
    <3>1. \A k \in 1 .. n : k \in 0 .. n
      BY <1>1
    <3> QED
      BY <1>13, <3>1
  <2> HIDE DEF S
  <2>3. 0 .. n \subseteq S
    BY <1>1, <2>1, <2>2, IndexInduction
  <2> QED
    BY <1>1, <2>3 DEF S
<1>15. ASSUME NEW k \in 1 .. m, NEW r \in 1 .. n + m, r = n + k, f[r - 1] = Joined(fx[n], fy[k - 1])
       PROVE  f[r] = Joined(fx[n], fy[k])
  <2>1. fx[n] \in Text /\ fy[k - 1] \in Text /\ k \in Nat /\ r \in Nat
    <3>1. n \in 0 .. n /\ k - 1 \in 0 .. m
      BY <1>1
    <3> QED
      BY <1>1, <1>11, <1>12, <3>1
  <2>2. CASE \A g \in K : ~Covers(g, k)
    <3>1. \A h \in H : ~Covers(h, r)
      <4>1. SUFFICES ASSUME NEW h \in H, Covers(h, r) PROVE FALSE
        OBVIOUS
      <4>2. CASE h \in G
        <5>1. h.end \in 1 .. n /\ r <= h.end
          BY <1>5, <4>1, <4>2 DEF Covers
        <5> QED
          BY <1>1, <1>15, <5>1
      <4>3. ASSUME NEW g \in K, h.start = n + g.start, h.end = n + g.end PROVE FALSE
        <5>1. PICK a \in 1 .. m, b \in 1 .. m : a = g.start /\ b = g.end
          BY <1>6
        <5>2. n + a <= r /\ r <= n + b
          BY <4>1, <4>3, <5>1 DEF Covers
        <5>3. a <= k /\ k <= b
          BY <1>1, <1>15, <5>2
        <5>4. Covers(g, k)
          BY <5>1, <5>3 DEF Covers
        <5> QED
          BY <2>2, <5>4
      <4> QED
        BY <1>7, <4>2, <4>3
    <3>2. f[r] = Joined(f[r - 1], <<t[r]>>)
      BY <1>10, <3>1
    <3>3. fy[k] = Joined(fy[k - 1], <<y[k]>>)
      BY <1>12, <2>2
    <3>4. t[r] = y[k] /\ y[k] \in Bytes
      <4>1. \A i \in 1 .. Len(y) : y[i] \in Bytes
        BY DEF Text
      <4> QED
        BY <1>1, <1>15, <4>1 DEF m
    <3>5. <<y[k]>> \in Text
      <4> DEFINE b == y[k]
      <4>1. b \in Bytes
        BY <3>4
      <4> HIDE DEF b
      <4>2. <<b>> \in Text
        BY <4>1 DEF Text
      <4> QED
        BY <4>2 DEF b
    <3>6. Joined(Joined(fx[n], fy[k - 1]), <<y[k]>>) = Joined(fx[n], Joined(fy[k - 1], <<y[k]>>))
      BY <2>1, <3>5, JoinedAssoc
    <3> QED
      BY <1>15, <3>2, <3>3, <3>4, <3>6
  <2>3. CASE \E g \in K : Covers(g, k)
    <3>1. PICK g \in K : Covers(g, k)
      BY <2>3
    <3>2. PICK h \in H : h.start = n + g.start /\ h.end = n + g.end /\ h.index = g.index
      BY <1>8
    <3>3. PICK a \in 1 .. m, b \in 1 .. m : a = g.start /\ b = g.end /\ a <= k /\ k <= b
      BY <1>6, <3>1 DEF Covers
    <3>4. CASE a = k
      <4>1. h.start = r
        BY <1>15, <3>2, <3>3, <3>4
      <4>2. f[r] = Joined(f[r - 1], Restored(g.index, c))
        BY <1>10, <3>2, <4>1
      <4>3. fy[k] = Joined(fy[k - 1], Restored(g.index, c))
        BY <1>12, <3>3, <3>4
      <4>4. Restored(g.index, c) \in Text
        BY SubsetOfHits, RestoredWhole
      <4>5. Joined(Joined(fx[n], fy[k - 1]), Restored(g.index, c)) = Joined(fx[n], Joined(fy[k - 1], Restored(g.index, c)))
        BY <2>1, <4>4, JoinedAssoc
      <4> QED
        BY <1>15, <4>2, <4>3, <4>5
    <3>5. CASE a # k
      <4>1. h.start < r /\ r <= h.end
        <5>1. n + a < r /\ r <= n + b
          BY <1>1, <1>15, <3>3, <3>5
        <5> QED
          BY <3>2, <3>3, <5>1
      <4>2. f[r] = f[r - 1]
        BY <1>10, <4>1
      <4>3. g.start < k /\ k <= g.end
        BY <2>1, <3>3, <3>5
      <4>4. fy[k] = fy[k - 1]
        BY <1>12, <4>3
      <4> QED
        BY <1>15, <4>2, <4>4
    <3> QED
      BY <3>4, <3>5
  <2> QED
    BY <2>2, <2>3
<1>16. f[n + m] = Joined(fx[n], fy[m])
  <2> DEFINE S == {k \in 0 .. m : f[n + k] = Joined(fx[n], fy[k])}
  <2>1. 0 \in S
    <3>1. fx[n] \in Text
      BY <1>1, <1>11
    <3>2. Joined(fx[n], Empty) = fx[n] /\ n + 0 = n
      BY <1>1, <3>1, JoinedOK
    <3> QED
      BY <1>1, <1>12, <1>14, <3>2
  <2>2. ASSUME NEW k \in 1 .. m, k - 1 \in S PROVE k \in S
    <3>1. PICK r \in 1 .. n + m : r = n + k
      BY <1>1
    <3>2. r - 1 = n + (k - 1)
      BY <1>1, <3>1
    <3>3. f[r - 1] = Joined(fx[n], fy[k - 1])
      BY <2>2, <3>2
    <3>4. f[r] = Joined(fx[n], fy[k])
      BY <1>15, <3>1, <3>3
    <3>5. k \in 0 .. m
      BY <1>1
    <3> QED
      BY <3>1, <3>4, <3>5
  <2> HIDE DEF S
  <2>3. 0 .. m \subseteq S
    BY <1>1, <2>1, <2>2, IndexInduction
  <2> QED
    BY <1>1, <2>3 DEF S
<1>17. Splice(t, H, c) = f[n + m]
  BY <1>1, <1>2
<1> QED
  BY <1>3, <1>4, <1>14, <1>16, <1>17 DEF t

-----------------------------------------------------------------------------
(* The hits of texts that are joined.                                       *)

\* A text agrees with the left half of a joined text.
LEMMA AgreeLeft ==
  ASSUME NEW x \in Text, NEW y \in Text, NEW i \in Nat, NEW L \in Nat, 1 <= i, i + L <= Len(x) + 1
  PROVE  Agree(x, i, Joined(x, y), i, L) /\ Agree(Joined(x, y), i, x, i, L)
<1> DEFINE t == Joined(x, y)
<1>1. /\ t \in Text /\ Len(t) = Len(x) + Len(y) /\ Len(x) \in Nat /\ Len(y) \in Nat
      /\ \A p \in 1 .. Len(x) : t[p] = x[p]
  BY JoinedAt
<1> HIDE DEF t
<1>2. i + L <= Len(t) + 1 /\ i \in Nat \ {0}
  BY <1>1
<1>3. ASSUME NEW p \in Nat, NEW q \in Nat, i <= p, p < i + L, q + i = p + i PROVE x[p] = t[q] /\ t[p] = x[q]
  <2>1. p = q /\ p \in 1 .. Len(x)
    BY <1>1, <1>3
  <2> QED
    BY <1>1, <2>1
<1> QED
  BY <1>2, <1>3 DEF Agree, t

\* A text agrees with the right half of a joined text.
LEMMA AgreeRight ==
  ASSUME NEW x \in Text, NEW y \in Text, NEW i \in Nat, NEW j \in Nat, NEW L \in Nat,
         1 <= i, i + L <= Len(y) + 1, j = Len(x) + i
  PROVE  Agree(y, i, Joined(x, y), j, L) /\ Agree(Joined(x, y), j, y, i, L)
<1> DEFINE t == Joined(x, y)
<1>1. /\ t \in Text /\ Len(t) = Len(x) + Len(y) /\ Len(x) \in Nat /\ Len(y) \in Nat
      /\ \A p \in 1 .. Len(y) : t[Len(x) + p] = y[p]
  BY JoinedAt
<1> HIDE DEF t
<1>2. j + L <= Len(t) + 1 /\ i \in Nat \ {0} /\ j \in Nat \ {0}
  BY <1>1
<1>3. ASSUME NEW p \in Nat, NEW q \in Nat, i <= p, p < i + L, q + i = p + j PROVE y[p] = t[q]
  <2>0. PICK n \in Nat, m \in Nat : n = Len(x) /\ m = Len(y)
    BY <1>1
  <2>1. q = n + p /\ p \in 1 .. m
    <3>1. j = n + i /\ i + L <= m + 1
      BY <2>0
    <3> QED
      BY <1>3, <3>1
  <2> QED
    BY <1>1, <2>0, <2>1
<1>4. ASSUME NEW p \in Nat, NEW q \in Nat, j <= p, p < j + L, q + j = p + i PROVE t[p] = y[q]
  <2>0. PICK n \in Nat, m \in Nat : n = Len(x) /\ m = Len(y)
    BY <1>1
  <2>1. p = n + q /\ q \in 1 .. m
    <3>1. j = n + i /\ i + L <= m + 1
      BY <2>0
    <3> QED
      BY <1>4, <3>1
  <2> QED
    BY <1>1, <2>0, <2>1
<1> QED
  BY <1>2, <1>3, <1>4 DEF Agree, t

\* HitMoves with the ends of the hit as numbers.
LEMMA HitMovesTo ==
  ASSUME NEW u \in Text, NEW v \in Text, NEW kinds, NEW h \in Hits(u, kinds),
         NEW i \in Nat, NEW e \in Nat, NEW L \in Nat, i = h.start, e = h.end, L = e - i + 1,
         NEW j \in Nat, NEW k \in Nat, k + i = e + j, Agree(u, i, v, j, L)
  PROVE  Hit(j, k, h.index) \in Hits(v, kinds)
<1>1. k + h.start = h.end + j /\ L = h.end - h.start + 1
  OBVIOUS
<1>2. Agree(u, h.start, v, j, h.end - h.start + 1)
  BY <1>1
<1> QED
  BY <1>1, <1>2, HitMoves

\* The ends of a hit as numbers.
LEMMA HitBounds ==
  ASSUME NEW u \in Text, NEW kinds, NEW h \in Hits(u, kinds)
  PROVE  /\ \E i \in Nat, e \in Nat, L \in Nat :
               /\ i = h.start /\ e = h.end /\ L = e - i + 1
               /\ 1 <= i /\ i < e /\ e <= Len(u) /\ i + L = e + 1
         /\ h = Hit(h.start, h.end, h.index) /\ Len(u) \in Nat
<1>1. /\ h = Hit(h.start, h.end, h.index) /\ Len(u) \in Nat
      /\ h.start \in 1 .. Len(u) /\ h.end \in 1 .. Len(u) /\ h.start < h.end
  BY HitsIn DEF HitIn
<1>2. PICK i \in Nat, e \in Nat : i = h.start /\ e = h.end /\ 1 <= i /\ i < e /\ e <= Len(u)
  BY <1>1
<1>3. e - i + 1 \in Nat /\ i + (e - i + 1) = e + 1
  BY <1>2
<1> QED
  BY <1>1, <1>2, <1>3

\* The hits of two texts joined.
LEMMA HitsLeft ==
  ASSUME NEW x \in Text, NEW y \in Text, NEW kinds, NEW h \in Hits(x, kinds)
  PROVE  h \in Hits(Joined(x, y), kinds)
<1>1. PICK i \in Nat, e \in Nat, L \in Nat :
         /\ i = h.start /\ e = h.end /\ L = e - i + 1
         /\ 1 <= i /\ i < e /\ e <= Len(x) /\ i + L = e + 1
  BY HitBounds
<1>2. h = Hit(h.start, h.end, h.index) /\ Len(x) \in Nat /\ Joined(x, y) \in Text
  BY HitBounds, JoinedAt
<1>3. Agree(x, i, Joined(x, y), i, L)
  <2>1. i + L <= Len(x) + 1
    BY <1>1, <1>2
  <2> QED
    BY <1>1, <2>1, AgreeLeft
<1>4. e + i = e + i
  OBVIOUS
<1>5. Hit(i, e, h.index) \in Hits(Joined(x, y), kinds)
  BY <1>1, <1>2, <1>3, <1>4, HitMovesTo
<1> QED
  BY <1>1, <1>2, <1>5

\* The hits of the second text are hits of the two joined.
LEMMA HitsRight ==
  ASSUME NEW x \in Text, NEW y \in Text, NEW kinds, NEW h \in Hits(y, kinds)
  PROVE  Shift(h, Len(x)) \in Hits(Joined(x, y), kinds)
<1>1. PICK i \in Nat, e \in Nat, L \in Nat :
         /\ i = h.start /\ e = h.end /\ L = e - i + 1
         /\ 1 <= i /\ i < e /\ e <= Len(y) /\ i + L = e + 1
  BY HitBounds
<1>2. Len(y) \in Nat /\ Len(x) \in Nat /\ Joined(x, y) \in Text
  BY HitBounds, JoinedAt
<1>3. PICK j \in Nat, k \in Nat : j = Len(x) + i /\ k = Len(x) + e
  BY <1>2
<1>4. Agree(y, i, Joined(x, y), j, L)
  <2>1. i + L <= Len(y) + 1
    BY <1>1, <1>2
  <2> QED
    BY <1>1, <1>3, <2>1, AgreeRight
<1>5. k + i = e + j
  BY <1>2, <1>3
<1>6. Hit(j, k, h.index) \in Hits(Joined(x, y), kinds)
  BY <1>1, <1>2, <1>4, <1>5, HitMovesTo
<1> QED
  BY <1>1, <1>3, <1>6 DEF Shift

\* A hit of two texts joined that lies in one of them is one of its hits.
LEMMA HitsOfJoined ==
  ASSUME NEW x \in Text, NEW y \in Text, NEW kinds, NEW h \in Hits(Joined(x, y), kinds)
  PROVE  /\ h.end <= Len(x) => h \in Hits(x, kinds)
         /\ h.start > Len(x) => \E g \in Hits(y, kinds) : h = Shift(g, Len(x))
<1>0. Len(y) \in Nat /\ Len(x) \in Nat /\ Joined(x, y) \in Text /\ Len(Joined(x, y)) = Len(x) + Len(y)
  BY JoinedAt
<1>1. PICK i \in Nat, e \in Nat, L \in Nat :
         /\ i = h.start /\ e = h.end /\ L = e - i + 1
         /\ 1 <= i /\ i < e /\ e <= Len(Joined(x, y)) /\ i + L = e + 1
  BY <1>0, HitBounds
<1>2. h = Hit(h.start, h.end, h.index)
  BY <1>0, HitBounds
<1>3. ASSUME h.end <= Len(x) PROVE h \in Hits(x, kinds)
  <2>1. i + L <= Len(x) + 1
    BY <1>0, <1>1, <1>3
  <2>2. Agree(Joined(x, y), i, x, i, L)
    BY <1>1, <2>1, AgreeLeft
  <2>3. e + i = e + i
    OBVIOUS
  <2>4. Hit(i, e, h.index) \in Hits(x, kinds)
    BY <1>0, <1>1, <2>2, <2>3, HitMovesTo
  <2> QED
    BY <1>1, <1>2, <2>4
<1>4. ASSUME h.start > Len(x) PROVE \E g \in Hits(y, kinds) : h = Shift(g, Len(x))
  <2>1. PICK j \in Nat, k \in Nat : i = Len(x) + j /\ e = Len(x) + k /\ 1 <= j
    <3>1. PICK n \in Nat : n = Len(x)
      BY <1>0
    <3>2. n < i /\ n < e
      BY <1>1, <1>4, <3>1
    <3>3. PICK j \in Nat : j = i - n
      BY <3>2
    <3>4. PICK k \in Nat : k = e - n
      BY <3>2
    <3>5. i = n + j /\ e = n + k /\ 1 <= j
      BY <3>2, <3>3, <3>4
    <3> QED
      BY <3>1, <3>5
  <2>2. j + L <= Len(y) + 1 /\ k + i = e + j
    BY <1>0, <1>1, <2>1
  <2>3. Agree(Joined(x, y), i, y, j, L)
    BY <2>1, <2>2, AgreeRight
  <2>4. Hit(j, k, h.index) \in Hits(y, kinds)
    BY <1>0, <1>1, <2>2, <2>3, HitMovesTo
  <2>5. Shift(Hit(j, k, h.index), Len(x)) = Hit(i, e, h.index)
    BY <2>1 DEF Shift, Hit
  <2> QED
    BY <1>1, <1>2, <2>4, <2>5
<1> QED
  BY <1>3, <1>4

\* A text with some kinds of its placeholders replaced.
Demasked(u, kinds, c) == Splice(u, Hits(u, kinds), c)

\* No hit crosses the joint.
NoneAcross(x, y, kinds) == \A h \in Hits(Joined(x, y), kinds) : h.end <= Len(x) \/ h.start > Len(x)

\* Then the two texts are demasked one by one.
LEMMA DemaskedJoined ==
  ASSUME NEW x \in Text, NEW y \in Text, NEW kinds, NEW c, NoneAcross(x, y, kinds)
  PROVE  Demasked(Joined(x, y), kinds, c) = Joined(Demasked(x, kinds, c), Demasked(y, kinds, c))
<1> DEFINE H == Hits(Joined(x, y), kinds)
           G == Hits(x, kinds)
           K == Hits(y, kinds)
<1>1. /\ \A h \in G : h \in H
      /\ \A h \in K : Shift(h, Len(x)) \in H
      /\ \A h \in H : h \in G \/ \E g \in K : h = Shift(g, Len(x))
  BY HitsLeft, HitsRight, HitsOfJoined DEF NoneAcross
<1>2. H \subseteq Hits(Joined(x, y), kinds) /\ G \subseteq Hits(x, kinds) /\ K \subseteq Hits(y, kinds)
  OBVIOUS
<1>3. Splice(Joined(x, y), H, c) = Joined(Splice(x, G, c), Splice(y, K, c))
  <2> HIDE DEF H, G, K
  <2> QED
    BY <1>1, <1>2, SpliceJoined
<1> QED
  BY <1>3 DEF Demasked

-----------------------------------------------------------------------------
(* Inert texts.                                                             *)

\* Of three texts in a row, the one in the middle.
Around(a, s, b) == Joined(a, Joined(s, b))

\* The bytes of the text in the middle.
LEMMA AroundAt ==
  ASSUME NEW a \in Text, NEW s \in Text, NEW b \in Text
  PROVE  /\ Around(a, s, b) \in Text /\ Joined(s, b) \in Text
         /\ Len(a) \in Nat /\ Len(s) \in Nat /\ Len(b) \in Nat
         /\ Len(Around(a, s, b)) = Len(a) + (Len(s) + Len(b))
         /\ \A i \in 1 .. Len(s) : Around(a, s, b)[Len(a) + i] = s[i]
<1>1. /\ Joined(s, b) \in Text /\ Len(Joined(s, b)) = Len(s) + Len(b)
      /\ Len(s) \in Nat /\ Len(b) \in Nat
      /\ \A i \in 1 .. Len(s) : Joined(s, b)[i] = s[i]
  BY JoinedAt
<1> DEFINE t == Joined(s, b)
<1>2. /\ Joined(a, t) \in Text /\ Len(Joined(a, t)) = Len(a) + Len(t) /\ Len(a) \in Nat
      /\ \A i \in 1 .. Len(t) : Joined(a, t)[Len(a) + i] = t[i]
  BY <1>1, JoinedAt
<1>3. \A i \in 1 .. Len(s) : i \in 1 .. Len(t)
  BY <1>1
<1> QED
  BY <1>1, <1>2, <1>3 DEF Around

\* An inert text is part of no hit, whatever stands around it.
LEMMA InertKeeps ==
  ASSUME NEW a \in Text, NEW s \in Text, NEW b \in Text, Inert(s),
         NEW kinds, NEW h \in Hits(Around(a, s, b), kinds)
  PROVE  h.end <= Len(a) \/ h.start > Len(a) + Len(s)
<1> DEFINE u == Around(a, s, b)
<1>0. PICK n \in Nat, m \in Nat : n = Len(a) /\ m = Len(s)
  BY AroundAt
<1>1. u \in Text /\ \A i \in 1 .. m : u[n + i] = s[i]
  <2>1. u \in Text /\ \A i \in 1 .. Len(s) : u[Len(a) + i] = s[i]
    BY AroundAt
  <2> HIDE DEF u
  <2> QED
    BY <1>0, <2>1
<1>2. DOMAIN s = 1 .. m
  BY <1>0 DEF Text
<1>2a. h \in Hits(u, kinds)
  OBVIOUS
<1> HIDE DEF u
<1>3. PICK i \in Nat, e \in Nat, L \in Nat :
         /\ i = h.start /\ e = h.end /\ L = e - i + 1
         /\ 1 <= i /\ i < e /\ e <= Len(u) /\ i + L = e + 1
  BY <1>1, <1>2a, HitBounds
<1>4. h = Hit(i, e, h.index) /\ u[i] = "<" /\ u[e] = ">"
  BY <1>1, <1>2a, <1>3, HitBounds, HitsIn DEF HitIn
<1>5. Inside(u, i, e) /\ \E da, de : Numeral(u, i, e, h.index, da, de)
  BY <1>1, <1>2a, <1>3, HitShape
<1>6. \A p \in Nat : i < p /\ p < e => u[p] \in Inner
  BY <1>5 DEF Inside
<1>7. SUFFICES ASSUME e > n, i <= n + m PROVE FALSE
  BY <1>0, <1>3
<1>8. CASE i <= n /\ e > n + m
  <2>1. \A k \in 1 .. m : i < n + k /\ n + k < e /\ n + k \in Nat
    BY <1>8
  <2>2. \A k \in DOMAIN s : s[k] \in Inner
    BY <1>1, <1>2, <1>6, <2>1
  <2>3. m > IndexLen /\ \A k \in 1 .. m : s[k] \in Digits
    BY <1>0, <1>2, <2>2 DEF Inert
  <2>4. PICK da \in Nat, de \in Nat : Numeral(u, i, e, h.index, da, de)
    BY <1>5 DEF Numeral
  <2>5. /\ da \in Nat /\ de \in Nat /\ i < da /\ da < de /\ de <= e /\ de <= da + IndexLen /\ IndexLen \in Nat
    BY <2>4, DemaskerAssumption DEF Numeral
  <2>6. /\ \A q \in Nat : (i < q /\ q < da) => u[q] \notin Digits
        /\ \A q \in Nat : (de <= q /\ q < e) => u[q] = " "
    BY <2>4 DEF Numeral
  <2>7. \A k \in 1 .. m : da <= n + k /\ n + k < de
    <3>1. SUFFICES ASSUME NEW k \in 1 .. m PROVE da <= n + k /\ n + k < de
      OBVIOUS
    <3>2. PICK p \in Nat : p = n + k
      OBVIOUS
    <3>3. u[p] \in Digits /\ u[p] # " " /\ i < p /\ p < e
      BY <1>1, <2>1, <2>3, <3>2, DigitsAre
    <3>4. ~(i < p /\ p < da)
      <4>1. (i < p /\ p < da) => u[p] \notin Digits
        BY <2>6
      <4> QED
        BY <3>3, <4>1
    <3>5. ~(de <= p /\ p < e)
      <4>1. (de <= p /\ p < e) => u[p] = " "
        BY <2>6
      <4> QED
        BY <3>3, <4>1
    <3>6. da <= p /\ p < de
      <4>1. da \in Nat /\ de \in Nat /\ p \in Nat /\ i < p /\ p < e
        BY <3>3
      <4> QED
        BY <3>4, <3>5, <4>1
    <3> QED
      BY <3>2, <3>6
  <2>8. 1 \in 1 .. m /\ m \in 1 .. m
    BY <2>3, <2>5
  <2>9. da <= n + 1 /\ n + m < de
    BY <2>7, <2>8
  <2> QED
    BY <2>3, <2>5, <2>9
<1>9. CASE i <= n /\ e <= n + m
  <2>1. PICK j \in 1 .. m : e = n + j
    <3>1. e - n \in 1 .. m /\ e = n + (e - n)
      BY <1>7, <1>9
    <3> QED
      BY <3>1
  <2>2. s[j] = ">"
    BY <1>1, <1>4, <2>1
  <2>3. PICK k \in 1 .. j - 1 : s[k] \notin Inner
    BY <1>2, <2>2 DEF Inert
  <2>4. k \in 1 .. m /\ n + k \in Nat /\ i < n + k /\ n + k < e
    BY <1>9, <2>1
  <2> QED
    BY <1>1, <1>6, <2>3, <2>4
<1>10. CASE i > n /\ e > n + m
  <2>1. PICK j \in 1 .. m : i = n + j
    <3>1. i - n \in 1 .. m /\ i = n + (i - n)
      BY <1>7, <1>10
    <3> QED
      BY <3>1
  <2>2. s[j] = "<"
    BY <1>1, <1>4, <2>1
  <2>3. PICK k \in j + 1 .. m : s[k] \notin Inner
    BY <1>0, <1>2, <2>2 DEF Inert
  <2>4. k \in 1 .. m /\ n + k \in Nat /\ i < n + k /\ n + k < e
    BY <1>10, <2>1
  <2> QED
    BY <1>1, <1>6, <2>3, <2>4
<1>11. CASE i > n /\ e <= n + m
  <2>1. Joined(s, b) \in Text
    BY AroundAt
  <2>2. h.start > Len(a)
    BY <1>0, <1>3, <1>11
  <2>3. PICK g \in Hits(Joined(s, b), kinds) : h = Shift(g, Len(a))
    BY <2>1, <2>2, HitsOfJoined DEF Around, u
  <2>4. PICK gi \in Nat, ge \in Nat, gl \in Nat :
         /\ gi = g.start /\ ge = g.end /\ gl = ge - gi + 1
         /\ 1 <= gi /\ gi < ge /\ ge <= Len(Joined(s, b)) /\ gi + gl = ge + 1
    BY <2>1, HitBounds
  <2>5. e = n + ge
    BY <1>0, <1>3, <2>3, <2>4, ShiftIs
  <2>6. ge <= m
    BY <1>11, <2>5
  <2>7. g \in Hits(s, kinds)
    BY <1>0, <2>4, <2>6, HitsOfJoined
  <2> QED
    BY <2>7 DEF Inert, Hits
<1> QED
  BY <1>8, <1>9, <1>10, <1>11

\* Texts of one byte.
LEMMA ByteEqual ==
  ASSUME NEW s \in Text, NEW t \in Text, Len(s) = 1, Len(t) = 1, s[1] = t[1]
  PROVE  s = t
<1>1. \A i \in 1 .. Len(s) : s[i] = t[i]
  OBVIOUS
<1> QED
  BY <1>1, TextEqual

\* Replacing no hit leaves the text as it is.
LEMMA NothingToReplace ==
  ASSUME NEW s \in Text, NEW kinds, NEW c, Hits(s, kinds) = {}
  PROVE  Demasked(s, kinds, c) = s
<1> DEFINE H == Hits(s, kinds)
           n == Len(s)
<1>1. PICK f : Steps(s, H, c, f) /\ Splice(s, H, c) = f[n]
  BY SpliceSteps
<1>2. n \in Nat /\ H = {} /\ \A k \in 1 .. n : k \in Nat /\ k - 1 \in 0 .. n /\ k \in 0 .. n /\ k \in k - 1 .. n
  BY DEF Text
<1>3. /\ f \in [0 .. n -> Text] /\ f[0] = Empty
      /\ \A k \in 1 .. n : f[k] = Joined(f[k - 1], <<s[k]>>)
  BY <1>1, <1>2 DEF Steps
<1> HIDE DEF H
<1> DEFINE S == {k \in 0 .. n : f[k] = Part(s, 0, k)}
<1>4. 0 \in S
  <2>1. Part(s, 0, 0) = Empty
    BY DEF Part, Empty, Text
  <2> QED
    BY <1>2, <1>3, <2>1
<1>5. ASSUME NEW k \in 1 .. n, k - 1 \in S PROVE k \in S
  <2>1. f[k - 1] = Part(s, 0, k - 1)
    BY <1>5
  <2>2. Joined(Part(s, 0, k - 1), <<s[k]>>) = Part(s, 0, k)
    <3>1. /\ Joined(Part(s, 0, k - 1), Part(s, k - 1, k)) = Part(s, 0, k)
      BY <1>2, PartJoined
    <3>2. Part(s, k - 1, k) = <<s[k]>>
      <4>1. /\ Part(s, k - 1, k) \in Text /\ Len(Part(s, k - 1, k)) = k - (k - 1)
            /\ \A i \in 1 .. k - (k - 1) : Part(s, k - 1, k)[i] = s[(k - 1) + i]
        BY <1>2, PartAt
      <4>2. k - (k - 1) = 1 /\ (k - 1) + 1 = k
        BY <1>2
      <4>3. Len(Part(s, k - 1, k)) = 1 /\ Part(s, k - 1, k)[1] = s[k]
        <5>1. 1 \in 1 .. k - (k - 1)
          BY <4>2
        <5> QED
          BY <4>1, <4>2, <5>1
      <4>4. <<s[k]>> \in Text /\ Len(<<s[k]>>) = 1 /\ <<s[k]>>[1] = s[k]
        BY <1>2 DEF Text
      <4> QED
        BY <4>1, <4>3, <4>4, ByteEqual
    <3> QED
      BY <3>1, <3>2
  <2> QED
    BY <1>2, <1>3, <2>1, <2>2
<1> HIDE DEF S
<1>6. 0 .. n \subseteq S
  BY <1>2, <1>4, <1>5, IndexInduction
<1>7. f[n] = Part(s, 0, n)
  BY <1>2, <1>6 DEF S
<1>8. n \in 0 .. n
  BY <1>2
<1> QED
  BY <1>1, <1>7, <1>8, PartsOf DEF Demasked, H

\* A text that is one hit becomes the original.
LEMMA OneToReplace ==
  ASSUME NEW w \in Text, NEW kinds, NEW c, NEW n, Hit(1, Len(w), n) \in Hits(w, kinds)
  PROVE  Demasked(w, kinds, c) = Restored(n, c) /\ n \in DOMAIN Originals
<1> DEFINE H == Hits(w, kinds)
           h == Hit(1, Len(w), n)
<1>1. PICK f : Steps(w, H, c, f) /\ Splice(w, H, c) = f[Len(w)]
  BY SpliceSteps
<1>2. h.start = 1 /\ h.end = Len(w) /\ h.index = n
  BY DEF Hit
<1>3. Len(w) \in Nat /\ 1 \in 1 .. Len(w) /\ n \in DOMAIN Originals
  BY <1>2, HitsIn DEF HitIn
<1>4. Restored(n, c) \in Text
  BY <1>3, RestoredWhole
<1>5. f[1] = Restored(n, c)
  <2>1. f[1] = Joined(f[0], Restored(n, c)) /\ f[0] = Empty
    <3>1. f[1] = Joined(f[1 - 1], Restored(h.index, c)) /\ f[0] = Empty
      BY <1>1, <1>2, <1>3 DEF Steps
    <3> QED
      BY <1>2, <3>1
  <2> QED
    BY <1>4, <2>1, JoinedOK
<1>6. \A k \in 1 .. Len(w) : 1 < k => f[k] = f[k - 1]
  BY <1>1, <1>2, <1>3 DEF Steps
<1> HIDE DEF H, h
<1> DEFINE N == Len(w) - 1
           S == {k \in 0 .. N : f[k + 1] = Restored(n, c)}
<1>7. N \in Nat /\ 0 \in S
  BY <1>3, <1>5
<1>8. ASSUME NEW k \in 1 .. N, k - 1 \in S PROVE k \in S
  <2>1. k + 1 \in 1 .. Len(w) /\ 1 < k + 1 /\ (k + 1) - 1 = k /\ (k - 1) + 1 = k /\ k \in 0 .. N
    BY <1>3
  <2> QED
    BY <1>6, <1>8, <2>1
<1>9. N + 1 = Len(w) /\ N \in 0 .. N
  BY <1>3
<1> HIDE DEF S, N
<1>10. 0 .. N \subseteq S
  BY <1>7, <1>8, IndexInduction
<1>11. f[Len(w)] = Restored(n, c)
  BY <1>9, <1>10 DEF S
<1> QED
  BY <1>1, <1>3, <1>11 DEF Demasked, H

\* A placeholder within a text.
Replaceable(w, n, kinds) == Hit(1, Len(w), n) \in Hits(w, kinds)

\* No other hit touches it.
LEMMA ReplaceableApart ==
  ASSUME NEW a \in Text, NEW w \in Text, NEW b \in Text, NEW kinds, NEW n, Replaceable(w, n, kinds)
  PROVE  NoneAcross(a, Joined(w, b), kinds) /\ NoneAcross(w, b, kinds)
<1> DEFINE h == Hit(1, Len(w), n)
<1>1. PICK A \in Nat, m \in Nat : A = Len(a) /\ m = Len(w)
  BY AroundAt
<1>2. h \in Hits(w, kinds) /\ h.start = 1 /\ h.end = m /\ 1 <= m
  <2>1. h \in Hits(w, kinds) /\ h.start = 1 /\ h.end = m
    BY <1>1 DEF Replaceable, Hit
  <2>2. h.start \in 1 .. Len(w)
    BY <2>1, HitsIn
  <2> QED
    BY <1>1, <2>1, <2>2
<1> HIDE DEF h
<1>3. h \in Hits(Joined(w, b), kinds) /\ Joined(w, b) \in Text
  BY <1>2, HitsLeft, JoinedAt
<1>4. NoneAcross(w, b, kinds)
  <2>1. SUFFICES ASSUME NEW g \in Hits(Joined(w, b), kinds), g.start <= m, ~(g.end <= m) PROVE FALSE
    <3>1. \A g \in Hits(Joined(w, b), kinds) : g.start \in Nat
      BY <1>3, HitBounds
    <3> QED
      BY <1>1, <3>1 DEF NoneAcross
  <2>2. PICK i \in Nat, e \in Nat : i = g.start /\ e = g.end
    BY <1>3, HitBounds
  <2>3. g.start <= m /\ m <= g.end /\ h.start <= m /\ m <= h.end
    BY <1>2, <2>1, <2>2
  <2>4. g = h
    BY <1>3, <2>3, HitsApart
  <2> QED
    BY <1>2, <2>1, <2>4
<1>5. NoneAcross(a, Joined(w, b), kinds)
  <2> DEFINE u == Joined(a, Joined(w, b))
             s == Shift(h, A)
  <2>1. u \in Text /\ s \in Hits(u, kinds) /\ s.start = A + 1 /\ s.end = A + m
    <3>1. u \in Text
      BY <1>3, JoinedAt
    <3>2. Shift(h, Len(a)) \in Hits(Joined(a, Joined(w, b)), kinds)
      BY <1>3, HitsRight
    <3>3. s.start = A + 1 /\ s.end = A + m
      BY <1>2, ShiftIs
    <3> QED
      BY <1>1, <3>1, <3>2, <3>3
  <2> HIDE DEF u, s
  <2>2. SUFFICES ASSUME NEW g \in Hits(u, kinds), g.start <= A, ~(g.end <= A) PROVE FALSE
    <3>1. \A g \in Hits(u, kinds) : g.start \in Nat
      BY <2>1, HitBounds
    <3> QED
      BY <1>1, <3>1 DEF NoneAcross, u
  <2>3. PICK i \in Nat, e \in Nat : i = g.start /\ e = g.end
    BY <2>1, HitBounds
  <2>4. PICK j \in Nat : j = A + 1
    OBVIOUS
  <2>5. g.start <= j /\ j <= g.end /\ s.start <= j /\ j <= s.end
    BY <1>2, <2>1, <2>2, <2>3, <2>4
  <2>6. g = s
    BY <2>1, <2>5, HitsApart
  <2> QED
    BY <2>1, <2>2, <2>6
<1> QED
  BY <1>4, <1>5

\* No hit crosses the ends of an inert text.
LEMMA InertApart ==
  ASSUME NEW a \in Text, NEW r \in Text, NEW b \in Text, NEW kinds, Inert(r)
  PROVE  NoneAcross(a, Joined(r, b), kinds) /\ NoneAcross(r, b, kinds) /\ Hits(r, kinds) = {}
<1>0. Len(a) \in Nat /\ Len(r) \in Nat /\ Joined(r, b) \in Text /\ Around(a, r, b) \in Text
  BY AroundAt
<1>1. NoneAcross(a, Joined(r, b), kinds)
  <2>1. SUFFICES ASSUME NEW h \in Hits(Around(a, r, b), kinds) PROVE h.end <= Len(a) \/ h.start > Len(a)
    BY DEF NoneAcross, Around
  <2>2. h.end <= Len(a) \/ h.start > Len(a) + Len(r)
    BY InertKeeps
  <2>3. h.start \in Nat
    BY <1>0, HitBounds
  <2> QED
    BY <1>0, <2>2, <2>3
<1>2. NoneAcross(r, b, kinds)
  <2>1. Around(Empty, r, b) = Joined(r, b) /\ Empty \in Text /\ Len(Empty) = 0
    BY <1>0, JoinedOK DEF Around
  <2>2. SUFFICES ASSUME NEW h \in Hits(Around(Empty, r, b), kinds) PROVE h.end <= Len(r) \/ h.start > Len(r)
    BY <2>1 DEF NoneAcross
  <2>3. h.end <= 0 \/ h.start > 0 + Len(r)
    BY <2>1, InertKeeps
  <2>4. PICK i \in Nat, e \in Nat : i = h.start /\ e = h.end /\ 1 <= i /\ i < e
    BY <1>0, <2>1, HitBounds
  <2> QED
    BY <1>0, <2>3, <2>4
<1> QED
  BY <1>1, <1>2 DEF Inert, Hits

\* Replacing one placeholder changes nothing of the demasked text.
LEMMA ReplaceOne ==
  ASSUME NEW a \in Text, NEW w \in Text, NEW b \in Text, NEW kinds, NEW c, NEW n,
         Replaceable(w, n, kinds), Inert(Restored(n, c))
  PROVE  Demasked(Around(a, Restored(n, c), b), kinds, c) = Demasked(Around(a, w, b), kinds, c)
<1> DEFINE r == Restored(n, c)
<1>1. Demasked(w, kinds, c) = r /\ r \in Text
  BY OneToReplace, RestoredWhole DEF Replaceable
<1>2. Inert(r)
  OBVIOUS
<1> HIDE DEF r
<1>3. Demasked(r, kinds, c) = r
  BY <1>1, <1>2, InertApart, NothingToReplace
<1>4. Joined(r, b) \in Text /\ Joined(w, b) \in Text
  BY <1>1, JoinedOK
<1>5. Demasked(Around(a, r, b), kinds, c)
        = Joined(Demasked(a, kinds, c), Joined(Demasked(r, kinds, c), Demasked(b, kinds, c)))
  BY <1>1, <1>2, <1>4, InertApart, DemaskedJoined DEF Around
<1>6. Demasked(Around(a, w, b), kinds, c)
        = Joined(Demasked(a, kinds, c), Joined(Demasked(w, kinds, c), Demasked(b, kinds, c)))
  BY <1>4, ReplaceableApart, DemaskedJoined DEF Around
<1> QED
  BY <1>1, <1>3, <1>5, <1>6 DEF r

\* The length of two texts joined.
LEMMA JoinedLen ==
  ASSUME NEW s \in Text, NEW t \in Text
  PROVE  Joined(s, t) \in Text /\ Len(Joined(s, t)) = Len(s) + Len(t)
  BY JoinedAt

\* Of four texts in a row, the two in the middle are one.
Mid(a, p, q, b) == Around(a, Joined(p, q), b)

\* The joint of the texts in the middle is one of the whole.
LEMMA MidIs ==
  ASSUME NEW a \in Text, NEW p \in Text, NEW q \in Text, NEW b \in Text
  PROVE  Mid(a, p, q, b) = Joined(Joined(a, p), Joined(q, b))
<1>1. Joined(Joined(p, q), b) = Joined(p, Joined(q, b)) /\ Joined(q, b) \in Text
  BY JoinedAssoc, JoinedOK
<1>2. Joined(a, Joined(p, Joined(q, b))) = Joined(Joined(a, p), Joined(q, b))
  BY <1>1, JoinedAssoc
<1> QED
  BY <1>1, <1>2 DEF Mid, Around

\* The text w as the end of p or as the beginning of q.
LEMMA MidAround ==
  ASSUME NEW a \in Text, NEW p \in Text, NEW w \in Text, NEW q \in Text, NEW b \in Text
  PROVE  /\ Mid(a, p, Joined(w, q), b) = Around(Joined(a, p), w, Joined(q, b))
         /\ Mid(a, Joined(p, w), q, b) = Around(Joined(a, p), w, Joined(q, b))
<1>1. Mid(a, p, Joined(w, q), b) = Around(Joined(a, p), w, Joined(q, b))
  <2>1. Joined(w, q) \in Text
    BY JoinedOK
  <2>2. Mid(a, p, Joined(w, q), b) = Joined(Joined(a, p), Joined(Joined(w, q), b))
    BY <2>1, MidIs
  <2>3. Joined(Joined(w, q), b) = Joined(w, Joined(q, b))
    BY JoinedAssoc
  <2> QED
    BY <2>2, <2>3 DEF Around
<1>2. Joined(Joined(p, w), q) = Joined(p, Joined(w, q))
  BY JoinedAssoc
<1> QED
  BY <1>1, <1>2 DEF Mid

\* A hit within the text in the middle.
LEMMA HitsWithin ==
  ASSUME NEW a \in Text, NEW v \in Text, NEW b \in Text, NEW kinds, NEW g \in Hits(Around(a, v, b), kinds),
         g.start > Len(a), g.end <= Len(a) + Len(v)
  PROVE  \E h \in Hits(v, kinds) : g = Shift(h, Len(a))
<1>1. Joined(v, b) \in Text /\ Len(a) \in Nat /\ Len(v) \in Nat
  BY AroundAt
<1>2. PICK h \in Hits(Joined(v, b), kinds) : g = Shift(h, Len(a))
  BY <1>1, HitsOfJoined DEF Around
<1>3. PICK e \in Nat : e = h.end
  BY <1>1, HitBounds
<1>4. h.end <= Len(v)
  <2>1. Len(a) + e <= Len(a) + Len(v)
    BY <1>2, <1>3, ShiftIs
  <2> QED
    BY <1>1, <1>3, <2>1
<1> QED
  BY <1>2, <1>4, HitsOfJoined

\* Where a replacement has come to the end of p, all hits begin after a and are
\* shorter than M; those of the kinds that are replaced begin after p or end
\* after q.
Clear(a, p, q, b, kinds, replaced, M) ==
    /\ \A g \in Hits(Mid(a, p, q, b), kinds) : g.start > Len(a) /\ g.end < g.start + M
    /\ \A g \in Hits(Mid(a, p, q, b), replaced) :
          g.start > Len(a) + Len(p) \/ g.end > Len(a) + Len(p) + Len(q)

\* The replacement passes a byte that begins no hit.
LEMMA ClearPasses ==
  ASSUME NEW a \in Text, NEW p \in Text, NEW w \in Text, NEW q \in Text, NEW b \in Text, NEW kinds, NEW replaced, NEW M,
         Len(w) = 1, Clear(a, p, Joined(w, q), b, kinds, replaced, M),
         \A h \in Hits(Joined(w, q), replaced) : h.start # 1
  PROVE  Clear(a, Joined(p, w), q, b, kinds, replaced, M)
<1>1. PICK A \in Nat, P \in Nat, Q \in Nat : A = Len(a) /\ P = Len(p) /\ Q = Len(q)
  BY AroundAt
<1> DEFINE x == Joined(a, p)
           t == Joined(w, q)
<1>2. x \in Text /\ t \in Text /\ Len(x) = A + P /\ Len(t) = 1 + Q /\ Len(Joined(p, w)) = P + 1
  <2>1. x \in Text /\ Len(x) = A + P
    BY <1>1, JoinedAt
  <2>2. t \in Text /\ Len(t) = 1 + Q
    <3>1. t \in Text /\ Len(t) = Len(w) + Len(q)
      BY <1>1, JoinedLen
    <3> QED
      BY <1>1, <3>1
  <2>3. Len(Joined(p, w)) = P + 1
    <3>1. Len(Joined(p, w)) = Len(p) + Len(w)
      BY <1>1, JoinedLen
    <3> QED
      BY <1>1, <3>1
  <2> QED
    BY <2>1, <2>2, <2>3
<1> DEFINE u == Mid(a, p, Joined(w, q), b)
<1>3. u = Mid(a, Joined(p, w), q, b)
  BY MidAround
<1>3a. u = Around(x, t, b)
  <2>1. u = Joined(Joined(a, p), Joined(t, b))
    BY <1>2, MidIs
  <2> QED
    BY <2>1 DEF Around
<1>3b. u \in Text
  BY <1>2, <1>3a, AroundAt
<1>3c. \A h \in Hits(t, replaced) : h.start # 1
  OBVIOUS
<1> HIDE DEF x
<1> HIDE DEF u, t
<1>4. ASSUME NEW g \in Hits(u, replaced)
      PROVE  g.start > A + (P + 1) \/ g.end > A + (P + 1) + Q
  <2>1. PICK i \in Nat, e \in Nat : i = g.start /\ e = g.end
    BY <1>3b, HitBounds
  <2>2. i > A + P \/ e > A + P + (1 + Q)
    <3>1. g.start > Len(a) + Len(p) \/ g.end > Len(a) + Len(p) + Len(Joined(w, q))
      BY DEF Clear, u
    <3> QED
      BY <1>1, <1>2, <2>1, <3>1 DEF t
  <2>3. SUFFICES ASSUME i = A + P + 1, e <= A + P + (1 + Q) PROVE FALSE
    BY <2>1, <2>2
  <2>4. PICK h \in Hits(t, replaced) : g = Shift(h, A + P)
    <3>1. g \in Hits(Around(x, t, b), replaced) /\ g.start > Len(x) /\ g.end <= Len(x) + Len(t)
      BY <1>2, <1>3a, <2>1, <2>3
    <3>2. \E h \in Hits(t, replaced) : g = Shift(h, Len(x))
      BY <1>2, <3>1, HitsWithin
    <3> QED
      BY <1>2, <3>2
  <2>5. PICK j \in Nat : j = h.start
    BY <1>2, HitBounds
  <2>6. A + P + j = A + P + 1
    BY <2>1, <2>3, <2>4, <2>5, ShiftIs
  <2> QED
    BY <1>3c, <2>5, <2>6
<1>5. \A g \in Hits(u, kinds) : g.start > Len(a) /\ g.end < g.start + M
  BY DEF Clear, u
<1> QED
  BY <1>1, <1>2, <1>3, <1>4, <1>5 DEF Clear

\* The replacement of a hit by an inert text.
LEMMA ClearReplaces ==
  ASSUME NEW a \in Text, NEW p \in Text, NEW w \in Text, NEW q \in Text, NEW b \in Text, NEW kinds, NEW replaced,
         NEW M \in Nat, Clear(a, p, Joined(w, q), b, kinds, replaced, M), NEW r \in Text, Inert(r)
  PROVE  Clear(a, Joined(p, r), q, b, kinds, replaced, M)
<1>1. PICK A \in Nat, P \in Nat, Q \in Nat, W \in Nat, R \in Nat :
         A = Len(a) /\ P = Len(p) /\ Q = Len(q) /\ W = Len(w) /\ R = Len(r)
  BY AroundAt
<1> DEFINE x == Joined(a, p)
           y == Joined(q, b)
           u == Mid(a, p, Joined(w, q), b)
           v == Mid(a, Joined(p, r), q, b)
<1>2. /\ x \in Text /\ y \in Text /\ Len(x) = A + P
      /\ Len(Joined(w, q)) = W + Q /\ Len(Joined(p, r)) = P + R
  BY <1>1, JoinedAt
<1>3. u = Around(x, w, y) /\ v = Around(x, r, y)
  BY MidAround
<1>4. u \in Text /\ v \in Text
  BY <1>2, <1>3, AroundAt
<1>5. /\ u = Joined(Joined(x, w), y) /\ Joined(x, w) \in Text /\ Len(Joined(x, w)) = A + P + W
      /\ v = Joined(Joined(x, r), y) /\ Joined(x, r) \in Text /\ Len(Joined(x, r)) = A + P + R
      /\ u = Joined(x, Joined(w, y)) /\ v = Joined(x, Joined(r, y)) /\ Joined(w, y) \in Text /\ Joined(r, y) \in Text
  <2> HIDE DEF x, y, u, v
  <2>1. u = Joined(x, Joined(w, y)) /\ v = Joined(x, Joined(r, y))
    BY <1>3 DEF Around
  <2>2. Joined(x, Joined(w, y)) = Joined(Joined(x, w), y) /\ Joined(x, Joined(r, y)) = Joined(Joined(x, r), y)
    BY <1>2, JoinedAssoc
  <2>3. Joined(x, w) \in Text /\ Len(Joined(x, w)) = A + P + W
    <3>1. Joined(x, w) \in Text /\ Len(Joined(x, w)) = Len(x) + Len(w)
      BY <1>1, <1>2, JoinedLen
    <3> QED
      BY <1>1, <1>2, <3>1
  <2>4. Joined(x, r) \in Text /\ Len(Joined(x, r)) = A + P + R
    <3>1. Joined(x, r) \in Text /\ Len(Joined(x, r)) = Len(x) + Len(r)
      BY <1>1, <1>2, JoinedLen
    <3> QED
      BY <1>1, <1>2, <3>1
  <2>5. Joined(w, y) \in Text /\ Joined(r, y) \in Text
    BY <1>2, JoinedOK
  <2> QED
    BY <2>1, <2>2, <2>3, <2>4, <2>5
<1>6. /\ \A g \in Hits(u, kinds) : g.start > A /\ g.end < g.start + M
      /\ \A g \in Hits(u, replaced) : g.start > A + P \/ g.end > A + P + (W + Q)
  BY <1>1, <1>2 DEF Clear
<1> HIDE DEF x, y, u, v
<1>7. ASSUME NEW some, NEW g \in Hits(v, some)
      PROVE  \/ g.end <= A + P /\ g \in Hits(u, some)
             \/ \E h \in Hits(y, some) : g = Shift(h, A + P + R) /\ Shift(h, A + P + W) \in Hits(u, some)
  <2>1. g.end <= A + P \/ g.start > A + P + R
    BY <1>1, <1>2, <1>3, InertKeeps
  <2>2. CASE g.end <= A + P
    <3>1. g \in Hits(x, some)
      BY <1>2, <1>5, <2>2, HitsOfJoined
    <3> QED
      BY <1>2, <1>5, <2>2, <3>1, HitsLeft
  <2>3. CASE g.start > A + P + R
    <3>1. PICK h \in Hits(y, some) : g = Shift(h, A + P + R)
      <4> DEFINE z == Joined(x, r)
      <4>1. z \in Text /\ Len(z) = A + P + R /\ g \in Hits(Joined(z, y), some)
        BY <1>5
      <4> HIDE DEF z
      <4>2. \E h \in Hits(y, some) : g = Shift(h, Len(z))
        BY <1>2, <2>3, <4>1, HitsOfJoined
      <4> QED
        BY <4>1, <4>2
    <3>2. Shift(h, A + P + W) \in Hits(u, some)
      <4>1. Shift(h, Len(Joined(x, w))) \in Hits(Joined(Joined(x, w), y), some)
        BY <1>2, <1>5, HitsRight
      <4> QED
        BY <1>5, <4>1
    <3> QED
      BY <3>1, <3>2
  <2> QED
    BY <2>1, <2>2, <2>3
<1>8. ASSUME NEW g \in Hits(v, kinds) PROVE g.start > A /\ g.end < g.start + M
  <2>1. CASE g \in Hits(u, kinds)
    BY <1>6, <2>1
  <2>2. ASSUME NEW h \in Hits(y, kinds), g = Shift(h, A + P + R), Shift(h, A + P + W) \in Hits(u, kinds)
        PROVE  g.start > A /\ g.end < g.start + M
    <3>1. PICK i \in Nat, e \in Nat : i = h.start /\ e = h.end /\ 1 <= i
      BY <1>2, HitBounds
    <3>2. g.start = A + P + R + i /\ g.end = A + P + R + e
      BY <2>2, <3>1, ShiftIs
    <3>3. A + P + W + e < A + P + W + i + M
      BY <1>6, <2>2, <3>1, ShiftIs
    <3>4. A + P + R + e < A + P + R + i + M /\ A + P + R + i > A
      BY <3>1, <3>3
    <3> QED
      BY <3>2, <3>4
  <2> QED
    BY <1>7, <2>1, <2>2
<1>9. ASSUME NEW g \in Hits(v, replaced) PROVE g.start > A + (P + R) \/ g.end > A + (P + R) + Q
  <2>1. CASE g.end <= A + P /\ g \in Hits(u, replaced)
    <3>1. PICK i \in Nat, e \in Nat : i = g.start /\ e = g.end /\ i < e
      BY <1>4, HitBounds
    <3>2. i > A + P \/ e > A + P + (W + Q)
      BY <1>6, <2>1, <3>1
    <3> QED
      BY <2>1, <3>1, <3>2
  <2>2. ASSUME NEW h \in Hits(y, replaced), g = Shift(h, A + P + R) PROVE g.start > A + (P + R)
    <3>1. PICK i \in Nat : i = h.start /\ 1 <= i
      BY <1>2, HitBounds
    <3>2. g.start = A + P + R + i
      BY <2>2, <3>1, ShiftIs
    <3> QED
      BY <3>1, <3>2
  <2> QED
    BY <1>7, <2>1, <2>2
<1> QED
  BY <1>1, <1>2, <1>8, <1>9 DEF Clear, v

-----------------------------------------------------------------------------
(* Replacing hit after hit within a text.                                   *)

\* A hit is a text of its own.
LEMMA HitCut ==
  ASSUME NEW s \in Text, NEW kinds, NEW h \in Hits(s, kinds),
         NEW i \in Nat, NEW j \in Nat, NEW k \in Nat, i = h.start, j + 1 = i, k = h.end
  PROVE  /\ j < k /\ k <= Len(s) /\ Part(s, j, k) \in Text
         /\ Replaceable(Part(s, j, k), h.index, kinds)
<1> DEFINE N == Len(s)
           x == Part(s, 0, j)
           v == Part(s, j, N)
           w == Part(s, j, k)
           y == Part(s, k, N)
<1>1. N \in Nat /\ j < k /\ k <= N
  BY HitBounds
<1>2. /\ 0 \in 0 .. N /\ j \in 0 .. N /\ N \in j .. N /\ k \in j .. N /\ k \in 0 .. N /\ N \in k .. N
  BY <1>1
<1>3. s = Joined(x, v)
  BY <1>2, PartsOf
<1>4. v = Joined(w, y)
  BY <1>2, PartJoined
<1>5. x \in Text /\ Len(x) = j
  <2>1. x \in Text /\ Len(x) = j - 0
    BY <1>2, PartAt
  <2> QED
    BY <2>1
<1>6. v \in Text /\ y \in Text /\ w \in Text /\ Len(w) = k - j
  BY <1>2, PartAt
<1> HIDE DEF N, x, v, w, y
<1>7. PICK g \in Hits(v, kinds) : h = Shift(g, j)
  <2>1. h \in Hits(Joined(x, v), kinds) /\ h.start > Len(x)
    BY <1>3, <1>5
  <2> QED
    BY <1>5, <1>6, <2>1, HitsOfJoined
<1>8. PICK a \in Nat, e \in Nat : a = g.start /\ e = g.end /\ g = Hit(a, e, g.index)
  BY <1>6, HitBounds
<1>9. i = j + a /\ k = j + e /\ h.index = g.index
  BY <1>7, <1>8, ShiftIs
<1>10. a = 1 /\ e = Len(w)
  BY <1>6, <1>9
<1>11. g \in Hits(w, kinds)
  <2>1. g \in Hits(Joined(w, y), kinds)
    BY <1>4
  <2>2. g.end <= Len(w)
    BY <1>6, <1>8, <1>10
  <2> QED
    BY <1>6, <2>1, <2>2, HitsOfJoined
<1> QED
  BY <1>1, <1>6, <1>8, <1>9, <1>10, <1>11 DEF Replaceable, w, N

\* It becomes the original at once.
LEMMA StepsHit ==
  ASSUME NEW s \in Text, NEW kinds, NEW c, NEW f, Steps(s, Hits(s, kinds), c, f), NEW h \in Hits(s, kinds),
         NEW i \in Nat, NEW j \in Nat, NEW k \in Nat, i = h.start, j + 1 = i, k = h.end
  PROVE  f[k] = Joined(f[j], Restored(h.index, c))
<1>1. PICK N \in Nat : N = Len(s) /\ 1 <= i /\ i < k /\ k <= N
  BY HitBounds
<1>2. f[i] = Joined(f[i - 1], Restored(h.index, c))
  <2>1. i \in 1 .. Len(s)
    BY <1>1
  <2> QED
    BY <2>1 DEF Steps
<1>3. \A m \in 1 .. N : i < m /\ m <= k => f[m] = f[m - 1]
  BY <1>1 DEF Steps
<1>4. PICK d \in Nat : k = i + d
  <2>1. k - i \in Nat /\ k = i + (k - i)
    BY <1>1
  <2> QED
    BY <2>1
<1> DEFINE S == {m \in 0 .. d : f[i + m] = f[i]}
<1>5. 0 \in S
  <2>1. i + 0 = i /\ 0 \in 0 .. d
    BY <1>4
  <2> QED
    BY <2>1
<1>6. ASSUME NEW m \in 1 .. d, m - 1 \in S PROVE m \in S
  <2>1. PICK r \in 1 .. N : r = i + m
    BY <1>1, <1>4
  <2>2. i < r /\ r <= k /\ r - 1 = i + (m - 1) /\ m \in 0 .. d
    BY <1>4, <2>1
  <2>3. f[r] = f[r - 1]
    BY <1>3, <2>2
  <2> QED
    BY <1>6, <2>1, <2>2, <2>3
<1> HIDE DEF S
<1>7. 0 .. d \subseteq S
  BY <1>5, <1>6, IndexInduction
<1>8. f[i + d] = f[i]
  <2>1. d \in 0 .. d
    OBVIOUS
  <2> QED
    BY <1>7, <2>1 DEF S
<1>9. i - 1 = j
  OBVIOUS
<1> QED
  BY <1>2, <1>4, <1>8, <1>9

\* What holds of u when replacing has come to the end of p and q and b are
\* still to come.
Kept(a, p, q, b, u, kinds, replaced, c, M) ==
    /\ Demasked(Mid(a, p, q, b), kinds, c) = Demasked(u, kinds, c)
    /\ (\A g \in Hits(u, kinds) : g.start > Len(a) /\ g.end < g.start + M) =>
          Clear(a, p, q, b, kinds, replaced, M)

\* Replacing begins at the first byte.
LEMMA KeptStart ==
  ASSUME NEW a \in Text, NEW s \in Text, NEW b \in Text, NEW kinds, NEW replaced \in SUBSET kinds, NEW c, NEW M
  PROVE  Kept(a, Empty, s, b, Around(a, s, b), kinds, replaced, c, M)
<1>1. Mid(a, Empty, s, b) = Around(a, s, b) /\ Len(Empty) = 0 /\ Len(a) \in Nat
  BY JoinedOK, AroundAt DEF Mid
<1>2. \A g \in Hits(Around(a, s, b), replaced) : g \in Hits(Around(a, s, b), kinds)
  BY DEF Hits
<1>3. Len(a) + 0 = Len(a)
  BY <1>1
<1> QED
  BY <1>1, <1>2, <1>3 DEF Kept, Clear

\* A byte that begins no hit is passed.
LEMMA KeptPasses ==
  ASSUME NEW a \in Text, NEW p \in Text, NEW w \in Text, NEW q \in Text, NEW b \in Text, NEW u,
         NEW kinds, NEW replaced, NEW c, NEW M,
         Kept(a, p, Joined(w, q), b, u, kinds, replaced, c, M),
         Len(w) = 1, \A h \in Hits(Joined(w, q), replaced) : h.start # 1
  PROVE  Kept(a, Joined(p, w), q, b, u, kinds, replaced, c, M)
<1>1. Mid(a, p, Joined(w, q), b) = Mid(a, Joined(p, w), q, b)
  BY MidAround
<1>2. Clear(a, p, Joined(w, q), b, kinds, replaced, M) => Clear(a, Joined(p, w), q, b, kinds, replaced, M)
  BY ClearPasses
<1> QED
  BY <1>1, <1>2 DEF Kept

\* A hit is replaced.
LEMMA KeptReplaces ==
  ASSUME NEW a \in Text, NEW p \in Text, NEW w \in Text, NEW q \in Text, NEW b \in Text, NEW u,
         NEW kinds, NEW replaced \in SUBSET kinds, NEW c \in BOOLEAN, NEW M \in Nat, NEW n,
         Kept(a, p, Joined(w, q), b, u, kinds, replaced, c, M),
         InertOriginals, Replaceable(w, n, replaced)
  PROVE  Kept(a, Joined(p, Restored(n, c)), q, b, u, kinds, replaced, c, M)
<1> DEFINE r == Restored(n, c)
           x == Joined(a, p)
           y == Joined(q, b)
<1>1. n \in DOMAIN Originals /\ Replaceable(w, n, kinds)
  BY OneToReplace DEF Replaceable, Hits
<1>2. r \in Text /\ Inert(r)
  BY <1>1, RestoredWhole DEF InertOriginals
<1>3. x \in Text /\ y \in Text
  BY JoinedOK
<1>4. Demasked(Around(x, r, y), kinds, c) = Demasked(Around(x, w, y), kinds, c)
  BY <1>1, <1>2, <1>3, ReplaceOne
<1>5. Mid(a, p, Joined(w, q), b) = Around(x, w, y)
  BY MidAround
<1>6. Mid(a, Joined(p, r), q, b) = Around(x, r, y)
  BY <1>2, MidAround
<1> HIDE DEF r, x, y
<1>7. Clear(a, p, Joined(w, q), b, kinds, replaced, M) => Clear(a, Joined(p, r), q, b, kinds, replaced, M)
  BY <1>2, ClearReplaces
<1> QED
  BY <1>4, <1>5, <1>6, <1>7 DEF Kept, r

\* Replacing goes from hit to hit, up to the end of s.
LEMMA KeptThrough ==
  ASSUME NEW a \in Text, NEW s \in Text, NEW b \in Text,
         NEW kinds, NEW replaced \in SUBSET kinds, NEW c \in BOOLEAN, NEW M \in Nat, InertOriginals
  PROVE  LET r == Demasked(s, replaced, c)
         IN  r \in Text /\ Kept(a, r, Empty, b, Around(a, s, b), kinds, replaced, c, M)
<1> DEFINE H == Hits(s, replaced)
           u == Around(a, s, b)
           N == Len(s)
           r == Demasked(s, replaced, c)
           rest(k) == Part(s, k, N)
<1>1. PICK f : Steps(s, H, c, f) /\ Splice(s, H, c) = f[N]
  BY SpliceSteps
<1>2. N \in Nat /\ f \in [0 .. N -> Text] /\ f[0] = Empty /\ r = f[N]
      /\ \A k \in 1 .. N : (\A h \in H : ~Covers(h, k)) => f[k] = Joined(f[k - 1], <<s[k]>>)
  <2>1. N \in Nat
    BY DEF Text
  <2>2. r = f[N]
    BY <1>1 DEF Demasked
  <2> HIDE DEF H, N, r
  <2> QED
    BY <1>1, <2>1, <2>2 DEF Steps, N
<1> DEFINE Safe(k) == \A h \in H : ~(h.start <= k /\ k < h.end)
           S == {k \in Nat : k <= N /\ Safe(k) => Kept(a, f[k], rest(k), b, u, kinds, replaced, c, M)}
<1>3. ASSUME NEW h \in H
      PROVE  \E i \in Nat, j \in Nat, e \in Nat : i = h.start /\ j + 1 = i /\ e = h.end /\ j < e /\ e <= N
  <2>1. PICK i \in Nat, e \in Nat : i = h.start /\ e = h.end /\ 1 <= i /\ i < e /\ e <= N
    BY HitBounds
  <2>2. i - 1 \in Nat /\ (i - 1) + 1 = i /\ i - 1 < e
    BY <2>1
  <2> QED
    BY <2>1, <2>2
<1>4. 0 \in S
  <2>1. rest(0) = s
    BY PartsOf, <1>2 DEF Text
  <2>2. Kept(a, Empty, s, b, u, kinds, replaced, c, M)
    BY KeptStart
  <2> HIDE DEF u, rest, N
  <2> QED
    BY <1>2, <2>1, <2>2
<1> HIDE DEF u, r
<1>5. ASSUME NEW k \in 1 .. N, \A m \in 0 .. k - 1 : m \in S, Safe(k)
      PROVE  Kept(a, f[k], rest(k), b, u, kinds, replaced, c, M)
  <2>1. /\ k \in Nat /\ k - 1 \in 0 .. N /\ k \in 0 .. N /\ N \in k .. N /\ k \in k - 1 .. N /\ N \in k - 1 .. N
        /\ k - 1 \in 0 .. k - 1 /\ k - 1 <= N
    BY <1>2
  <2>2. f[k - 1] \in Text /\ rest(k) \in Text /\ rest(k - 1) \in Text
    BY <1>2, <2>1, PartAt
  <2>3. CASE \A h \in H : ~Covers(h, k)
    <3> DEFINE w == Part(s, k - 1, k)
    <3>1. f[k] = Joined(f[k - 1], w) /\ w \in Text /\ Len(w) = 1
      <4>1. w \in Text /\ Len(w) = k - (k - 1) /\ \A i \in 1 .. k - (k - 1) : w[i] = s[(k - 1) + i]
        BY <2>1, PartAt
      <4>2. k - (k - 1) = 1 /\ (k - 1) + 1 = k /\ 1 \in 1 .. 1
        BY <2>1
      <4>3. Len(w) = 1 /\ w[1] = s[k]
        BY <4>1, <4>2
      <4>4. <<s[k]>> \in Text /\ Len(<<s[k]>>) = 1 /\ <<s[k]>>[1] = s[k]
        BY DEF Text
      <4> HIDE DEF w
      <4>5. w = <<s[k]>>
        BY <4>1, <4>3, <4>4, ByteEqual
      <4> QED
        BY <1>2, <2>3, <4>1, <4>3, <4>5
    <3>2. rest(k - 1) = Joined(w, rest(k))
      BY <1>2, <2>1, PartJoined
    <3>3. Safe(k - 1)
      <4>1. SUFFICES ASSUME NEW h \in H, h.start <= k - 1, k - 1 < h.end PROVE FALSE
        OBVIOUS
      <4>2. PICK i \in Nat, e \in Nat : i = h.start /\ e = h.end
        BY <1>3
      <4>3. i <= k /\ k <= e
        BY <2>1, <4>1, <4>2
      <4> QED
        BY <2>3, <4>2, <4>3 DEF Covers
    <3>4. Kept(a, f[k - 1], rest(k - 1), b, u, kinds, replaced, c, M)
      BY <1>5, <2>1, <3>3
    <3>5. \A h \in Hits(rest(k - 1), replaced) : h.start # 1
      <4>1. SUFFICES ASSUME NEW h \in Hits(rest(k - 1), replaced), h.start = 1 PROVE FALSE
        OBVIOUS
      <4> DEFINE x == Part(s, 0, k - 1)
                 v == rest(k - 1)
      <4>2. s = Joined(x, v)
        BY <2>1, PartsOf
      <4>3. x \in Text /\ Len(x) = k - 1
        <5>1. 0 \in 0 .. Len(s) /\ k - 1 \in 0 .. Len(s)
          BY <1>2, <2>1
        <5>2. x \in Text /\ Len(x) = (k - 1) - 0
          BY <5>1, PartAt
        <5> QED
          BY <2>1, <5>2
      <4>4. Shift(h, Len(x)) \in Hits(Joined(x, v), replaced)
        BY <2>2, <4>3, HitsRight
      <4>5. PICK g \in H : g = Shift(h, k - 1)
        BY <4>2, <4>3, <4>4
      <4>6. g.start = (k - 1) + 1
        BY <4>1, <4>5, ShiftIs
      <4>7. PICK i \in Nat, e \in Nat : i = g.start /\ e = g.end /\ i <= e
        BY <1>3
      <4>8. i = k
        BY <2>1, <4>6, <4>7
      <4>9. g.start <= k /\ k <= g.end
        BY <4>7, <4>8
      <4> QED
        BY <2>3, <4>9 DEF Covers
    <3> HIDE DEF w, rest
    <3> QED
      BY <2>2, <3>1, <3>2, <3>4, <3>5, KeptPasses
  <2>4. CASE \E h \in H : Covers(h, k)
    <3>1. PICK h \in H : Covers(h, k)
      BY <2>4
    <3>2. PICK i \in Nat, j \in Nat, e \in Nat : i = h.start /\ j + 1 = i /\ e = h.end /\ j < e /\ e <= N
      BY <1>3
    <3>3. i <= k /\ k <= e /\ ~(i <= k /\ k < e)
      BY <1>5, <3>1, <3>2 DEF Covers
    <3>4. e = k /\ j < k
      BY <2>1, <3>2, <3>3
    <3> DEFINE w == Part(s, j, k)
    <3>5. w \in Text /\ Replaceable(w, h.index, replaced)
      BY <3>2, <3>4, HitCut
    <3>6. f[k] = Joined(f[j], Restored(h.index, c))
      <4>1. Steps(s, Hits(s, replaced), c, f) /\ h \in Hits(s, replaced)
        BY <1>1
      <4>2. f[e] = Joined(f[j], Restored(h.index, c))
        BY <3>2, <4>1, StepsHit
      <4> QED
        BY <3>4, <4>2
    <3>7. j \in 0 .. N /\ j \in 0 .. k - 1 /\ k \in j .. N /\ j <= N
      BY <1>2, <2>1, <3>2, <3>4
    <3>8. rest(j) = Joined(w, rest(k)) /\ f[j] \in Text
      BY <1>2, <2>1, <3>7, PartJoined
    <3>9. Safe(j)
      <4>1. SUFFICES ASSUME NEW g \in H, g.start <= j, j < g.end PROVE FALSE
        OBVIOUS
      <4>2. PICK gi \in Nat, ge \in Nat : gi = g.start /\ ge = g.end
        BY <1>3
      <4>3. g.start <= i /\ i <= g.end /\ h.start <= i /\ i <= h.end
        BY <3>2, <3>3, <3>4, <4>1, <4>2
      <4>4. g = h
        BY <4>3, HitsApart
      <4> QED
        BY <3>2, <4>1, <4>4
    <3>10. Kept(a, f[j], rest(j), b, u, kinds, replaced, c, M)
      BY <1>5, <3>7, <3>9
    <3> HIDE DEF w, rest
    <3> QED
      BY <2>2, <3>5, <3>6, <3>8, <3>10, KeptReplaces
  <2> QED
    BY <2>3, <2>4
<1>6. ASSUME NEW k \in Nat, \A m \in 0 .. k - 1 : m \in S PROVE k \in S
  <2>1. CASE k = 0
    BY <1>4, <2>1
  <2>2. CASE k # 0 /\ k <= N /\ Safe(k)
    <3>1. k \in 1 .. N
      BY <2>2, <1>2
    <3> HIDE DEF Safe, rest
    <3>2. Kept(a, f[k], rest(k), b, u, kinds, replaced, c, M)
      BY <1>5, <1>6, <2>2, <3>1
    <3> QED
      BY <3>2
  <2> QED
    BY <2>1, <2>2
<1> HIDE DEF S
<1>7. Nat \subseteq S
  BY <1>6, NatStrongInduction
<1>8. Safe(N)
  <2>1. SUFFICES ASSUME NEW h \in H, N < h.end PROVE FALSE
    OBVIOUS
  <2>2. PICK e \in Nat : e = h.end /\ e <= N
    BY <1>3
  <2> QED
    BY <1>2, <2>1, <2>2
<1>9. Kept(a, f[N], rest(N), b, u, kinds, replaced, c, M)
  BY <1>2, <1>7, <1>8 DEF S
<1>10. rest(N) = Empty
  BY <1>2 DEF Part, Empty, Text
<1>11. N \in 0 .. N
  BY <1>2
<1> QED
  BY <1>2, <1>9, <1>10, <1>11 DEF r, u

\* All hits begin after a and are shorter than M.
Begin(a, s, b, kinds, M) ==
    \A g \in Hits(Around(a, s, b), kinds) : g.start > Len(a) /\ g.end < g.start + M

\* After the hits of s are replaced by r, the text around it demasks as before;
\* and if all hits began after a, they still do, and those of the kinds that
\* were replaced reach into b.
Keeps(a, s, b, r, kinds, replaced, c, M) ==
    /\ r \in Text
    /\ Demasked(Around(a, r, b), kinds, c) = Demasked(Around(a, s, b), kinds, c)
    /\ Begin(a, s, b, kinds, M) =>
          /\ Begin(a, r, b, kinds, M)
          /\ \A g \in Hits(Around(a, r, b), replaced) : g.end > Len(a) + Len(r)

\* Replacing all hits of a text, as ApplyExact and ApplyPlaceholderRegex do.
LEMMA DemaskKeeps ==
  ASSUME NEW a \in Text, NEW s \in Text, NEW b \in Text,
         NEW kinds, NEW replaced \in SUBSET kinds, NEW c \in BOOLEAN, NEW M \in Nat, InertOriginals,
         NEW r, r = Demasked(s, replaced, c)
  PROVE  Keeps(a, s, b, r, kinds, replaced, c, M)
<1>1. r \in Text /\ Kept(a, r, Empty, b, Around(a, s, b), kinds, replaced, c, M)
  BY KeptThrough
<1>2. Mid(a, r, Empty, b) = Around(a, r, b) /\ Len(Empty) = 0
  BY <1>1, JoinedOK DEF Mid
<1>3. Len(a) \in Nat /\ Len(r) \in Nat /\ Around(a, r, b) \in Text
  BY <1>1, AroundAt
<1>4. ASSUME Clear(a, r, Empty, b, kinds, replaced, M), NEW g \in Hits(Around(a, r, b), replaced)
      PROVE  g.end > Len(a) + Len(r)
  <2>1. PICK i \in Nat, e \in Nat : i = g.start /\ e = g.end /\ i < e
    BY <1>3, HitBounds
  <2>2. i > Len(a) + Len(r) \/ e > Len(a) + Len(r) + 0
    BY <1>2, <1>4, <2>1 DEF Clear
  <2> QED
    BY <1>3, <2>1, <2>2
<1> QED
  BY <1>1, <1>2, <1>4 DEF Kept, Clear, Begin, Keeps

-----------------------------------------------------------------------------
(* The demasker.                                                            *)

\* A boundary of the response has been reached; what was received is whole
\* runes, and the tail held back is at most a rune longer than maxPending.
StreamInv ==
    /\ response \in Text /\ WholeRunes(response)
    /\ pos \in 0 .. Len(response) /\ RuneBoundary(response, pos)
    /\ out \in Text /\ WholeRunes(out)
    /\ pending \in Text /\ WholeRunes(pending)

FactoryInv ==
    /\ phase \in {"length", "rules", "stream", "done"}
    /\ maxPending \in Nat
    /\ phase \in {"length", "rules"} => pending = Empty

IInv == StreamInv /\ FactoryInv /\ (phase = "stream" => Len(pending) < maxPending + 4)

LEMMA EmptyWhole == Empty \in Text /\ WholeRunes(Empty) /\ Len(Empty) = 0
  BY JoinedOK DEF WholeRunes, Empty

LEMMA InitIInv == Init => IInv
<1> SUFFICES ASSUME Init PROVE IInv
  OBVIOUS
<1>1. response \in Text /\ WholeRunes(response)
  BY TextsAssumption, StringsAreTexts DEF Init
<1>2. pos = 0 /\ out = Empty /\ pending = Empty /\ phase = "length" /\ maxPending = 0
  BY DEF Init, Empty
<1>3. Len(response) \in Nat /\ RuneBoundary(response, 0)
  BY <1>1, EndBoundaries DEF Text
<1> QED
  BY <1>1, <1>2, <1>3, EmptyWhole DEF IInv, StreamInv, FactoryInv

\* What DemaskChunk works on.
LEMMA ReceivedWhole ==
  ASSUME IInv, NEW q \in DOMAIN response, Arrives(q)
  PROVE  /\ ApplyExact(Received(q)) \in Text /\ WholeRunes(ApplyExact(Received(q)))
         /\ LET text == ApplyPlaceholderRegex(ApplyExact(Received(q))) IN text \in Text /\ WholeRunes(text)
         /\ pos' \in 0 .. Len(response) /\ RuneBoundary(response, pos')
<1>1. /\ response \in Text /\ WholeRunes(response) /\ pos \in 0 .. Len(response)
      /\ RuneBoundary(response, pos) /\ pending \in Text /\ WholeRunes(pending)
  BY DEF IInv, StreamInv
<1>2. q > pos /\ RuneBoundary(response, q) /\ pos' = q
  BY DEF Arrives
<1>3. q \in pos .. Len(response) /\ pos' \in 0 .. Len(response)
  BY <1>1, <1>2 DEF Text
<1>4. SubSeq(response, pos + 1, q) \in Text /\ WholeRunes(SubSeq(response, pos + 1, q))
  BY <1>1, <1>2, <1>3, WholeCut
<1>5. Received(q) \in Text /\ WholeRunes(Received(q))
  BY <1>1, <1>4, WholeConcat DEF Received
<1> QED
  BY <1>2, <1>3, <1>5, ApplyWhole

LEMMA ChunkIInv ==
  ASSUME IInv, NEW q \in DOMAIN response, Chunk(q)
  PROVE  IInv'
<1> DEFINE text == ApplyPlaceholderRegex(ApplyExact(Received(q)))
           end == IF Len(text) <= maxPending THEN 0
                  ELSE Utf8SafePrefixEnd(text, Len(text) - maxPending)
<1>1. /\ Arrives(q) /\ out' = out \o SubSeq(text, 1, end)
      /\ pending' = SubSeq(text, end + 1, Len(text))
      /\ UNCHANGED <<config, phase>> /\ phase = "stream"
  BY DEF Chunk, Arrives
<1>2. /\ text \in Text /\ WholeRunes(text)
      /\ pos' \in 0 .. Len(response) /\ RuneBoundary(response, pos')
  BY <1>1, ReceivedWhole
<1>3. maxPending \in Nat /\ Len(text) \in Nat /\ out \in Text /\ WholeRunes(out)
  BY <1>2 DEF IInv, FactoryInv, StreamInv, Text
<1> HIDE DEF text
<1>4. end \in 0 .. Len(text) /\ RuneBoundary(text, end) /\ Len(text) - end < maxPending + 4
  <2>1. CASE Len(text) <= maxPending
    BY <1>2, <1>3, <2>1, EndBoundaries
  <2>2. CASE ~ (Len(text) <= maxPending)
    <3>1. Len(text) - maxPending \in 0 .. Len(text) /\ end = Utf8SafePrefixEnd(text, Len(text) - maxPending)
      BY <1>3, <2>2
    <3> HIDE DEF end
    <3>2. /\ end \in 0 .. Len(text) - maxPending /\ (Len(text) - maxPending) - 2 <= end
          /\ RuneBoundary(text, end)
      BY <1>2, <3>1, SafePrefix
    <3> QED
      BY <1>3, <3>1, <3>2
  <2> QED
    BY <2>1, <2>2
<1> HIDE DEF end
<1>5. SubSeq(text, 1, end) \in Text /\ WholeRunes(SubSeq(text, 1, end))
  <2>1. 0 \in 0 .. Len(text) /\ end \in 0 .. Len(text) /\ 0 + 1 = 1 /\ RuneBoundary(text, 0)
    BY <1>2, <1>3, <1>4, EndBoundaries
  <2> QED
    BY <1>2, <1>4, <2>1, WholeCut
<1>6. pending' \in Text /\ WholeRunes(pending') /\ Len(pending') = Len(text) - end
  <2>1. Len(text) \in end .. Len(text) /\ RuneBoundary(text, Len(text))
    BY <1>2, <1>3, <1>4, EndBoundaries
  <2>2. Len(SubSeq(text, end + 1, Len(text))) = Len(text) - end
    BY <1>2, <1>3, <1>4 DEF Text
  <2> QED
    BY <1>1, <1>2, <1>4, <2>1, <2>2, WholeCut
<1>7. out' \in Text /\ WholeRunes(out')
  BY <1>1, <1>3, <1>5, WholeConcat
<1>8. /\ phase' = "stream" /\ maxPending' = maxPending /\ response' = response
  BY <1>1 DEF config
<1> QED
  BY <1>2, <1>3, <1>4, <1>6, <1>7, <1>8 DEF IInv, FactoryInv, StreamInv

LEMMA ChunkFailsIInv ==
  ASSUME IInv, NEW q \in DOMAIN response, ChunkFails(q)
  PROVE  IInv'
<1>1. /\ Arrives(q) /\ out' = out \o ApplyExact(Received(q)) /\ pending' = Empty
      /\ phase' = "stream" /\ maxPending' = maxPending /\ response' = response
  BY DEF ChunkFails, Arrives, config, Empty
<1>2. /\ ApplyExact(Received(q)) \in Text /\ WholeRunes(ApplyExact(Received(q)))
      /\ pos' \in 0 .. Len(response) /\ RuneBoundary(response, pos')
  BY <1>1, ReceivedWhole
<1>3. maxPending \in Nat /\ out \in Text /\ WholeRunes(out)
  BY DEF IInv, FactoryInv, StreamInv
<1>4. out' \in Text /\ WholeRunes(out')
  BY <1>1, <1>2, <1>3, WholeConcat
<1> QED
  BY <1>1, <1>2, <1>3, <1>4, EmptyWhole DEF IInv, FactoryInv, StreamInv

LEMMA FlushIInv ==
  ASSUME IInv, Flush
  PROVE  IInv'
<1>1. /\ out' = out \o ApplyPlaceholderRegex(ApplyExact(pending)) \/ out' = out \o ApplyExact(pending)
      /\ pending' = Empty /\ phase' = "done" /\ maxPending' = maxPending
      /\ response' = response /\ pos' = pos
  BY DEF Flush, config, Empty
<1>2. pending \in Text /\ WholeRunes(pending) /\ out \in Text /\ WholeRunes(out)
  BY DEF IInv, StreamInv
<1>3. out' \in Text /\ WholeRunes(out')
  BY <1>1, <1>2, ApplyWhole, WholeConcat
<1> QED
  BY <1>1, <1>3, EmptyWhole DEF IInv, FactoryInv, StreamInv

LEMMA FactoryIInv ==
  ASSUME IInv, ReadMaxPlaceholderLen \/ ResolveRules \/ Reload
  PROVE  IInv'
<1>1. /\ response' = response /\ pos' = pos /\ out' = out /\ pending' = pending
      /\ phase \in {"length", "rules"} /\ phase' \in {"length", "rules", "stream"}
      /\ maxPending' \in {maxPending, 5, PlaceholderLen}
  BY DEF ReadMaxPlaceholderLen, ResolveRules, Reload, stream
<1>2. PlaceholderLen \in Nat /\ maxPending' \in Nat
  BY <1>1, DemaskerAssumption DEF PlaceholderLen, IInv, FactoryInv
<1>3. pending' = Empty /\ Len(pending') = 0
  BY <1>1, EmptyWhole DEF IInv, FactoryInv
<1>4. StreamInv'
  BY <1>1 DEF IInv, StreamInv
<1>5. FactoryInv'
  BY <1>1, <1>2, <1>3 DEF FactoryInv
<1>6. Len(pending') < maxPending' + 4
  <2>1. \A n \in Nat : 0 < n + 4
    OBVIOUS
  <2>2. 0 < maxPending' + 4
    BY <1>2, <2>1
  <2> QED
    BY <1>3, <2>2
<1> QED
  BY <1>4, <1>5, <1>6 DEF IInv

LEMMA IInvCorrect == Spec => []IInv
<1>1. IInv /\ UNCHANGED vars => IInv'
  BY DEF IInv, FactoryInv, StreamInv, vars, config
<1>2. IInv /\ [Next]_vars => IInv'
  BY <1>1, ChunkIInv, ChunkFailsIInv, FlushIInv, FactoryIInv DEF Next, Done
<1> QED
  BY <1>2, InitIInv, PTL DEF Spec

\* What is sent to the client, and what is held back to be sent later, is
\* valid UTF-8 at every moment: demasker.go's cut at utf8SafePrefixEnd and its
\* replacements never split a rune, whatever the chunks, the originals, the
\* failing scans and the reloads.
THEOREM RunesWholeCorrect == Spec => []RunesWhole
<1>1. IInv => RunesWhole
  BY DEF IInv, StreamInv, RunesWhole
<1> QED
  BY <1>1, IInvCorrect, PTL

\* The tail that DemaskChunk holds back stays within maxPending and a rune,
\* however long the originals are that it restores into the tail.
THEOREM PendingBoundedCorrect == Spec => []PendingBounded
<1>1. IInv => PendingBounded
  BY DEF IInv, PendingBounded
<1> QED
  BY <1>1, IInvCorrect, PTL

-----------------------------------------------------------------------------
(* The stream.                                                              *)

\* What the demasker has sent, holds back and is still to receive.
Rest == Part(response, pos, Len(response))
AllText == Around(out, pending, Rest)

\* What the demasker restores, given that it found the rule or did not.
InForce(found) == IF found THEN Kinds ELSE {"exact"}

\* The passes of the demasker, and the reference, as demasking.
LEMMA Apply ==
  ASSUME NEW t
  PROVE  /\ ApplyExact(t) = Demasked(t, {"exact"}, jsonCtx)
         /\ ApplyPlaceholderRegex(t) = IF scanned THEN Demasked(t, {"regex"}, jsonCtx) ELSE t
         /\ \A found \in BOOLEAN : Whole(t, found) = Demasked(t, InForce(found), jsonCtx)
<1>1. Hits(t, {"exact"}) = ExactHits(t)
  BY DEF Hits
<1>2. Hits(t, {"regex"}) = RegexHits(t)
  BY DEF Hits
<1>3. \A found \in BOOLEAN :
         ExactHits(t) \cup (IF found THEN RegexHits(t) ELSE {}) = Hits(t, InForce(found))
  BY DEF Hits, InForce, Kinds
<1> QED
  BY <1>1, <1>2, <1>3 DEF Demasked, ApplyExact, ApplyPlaceholderRegex, Whole

\* A chunk is taken from what is to come and put after what is held back.
LEMMA Moves ==
  ASSUME NEW s \in Text, NEW o \in Text, NEW p \in Text, NEW i \in 0 .. Len(s), NEW j \in i .. Len(s)
  PROVE  /\ Joined(p, Part(s, i, j)) \in Text /\ Part(s, j, Len(s)) \in Text /\ Part(s, i, Len(s)) \in Text
         /\ Around(o, p, Part(s, i, Len(s))) = Around(o, Joined(p, Part(s, i, j)), Part(s, j, Len(s)))
<1>1. Len(s) \in Nat /\ Len(s) \in j .. Len(s) /\ j \in 0 .. Len(s) /\ Len(s) \in i .. Len(s)
  BY DEF Text
<1>2. Part(s, i, j) \in Text /\ Part(s, j, Len(s)) \in Text /\ Part(s, i, Len(s)) \in Text
  BY <1>1, PartAt
<1>3. Part(s, i, Len(s)) = Joined(Part(s, i, j), Part(s, j, Len(s)))
  BY <1>1, PartJoined
<1>4. Joined(Joined(p, Part(s, i, j)), Part(s, j, Len(s))) = Joined(p, Part(s, i, Len(s)))
  BY <1>2, <1>3, JoinedAssoc
<1> QED
  BY <1>2, <1>4, JoinedOK DEF Around

\* The beginning of what is held back is sent.
LEMMA Sends ==
  ASSUME NEW o \in Text, NEW t \in Text, NEW z \in Text, NEW i \in 0 .. Len(t)
  PROVE  /\ Joined(o, Part(t, 0, i)) \in Text /\ Part(t, i, Len(t)) \in Text
         /\ Len(Joined(o, Part(t, 0, i))) = Len(o) + i
         /\ Len(Part(t, i, Len(t))) = Len(t) - i
         /\ Around(Joined(o, Part(t, 0, i)), Part(t, i, Len(t)), z) = Around(o, t, z)
<1>1. Len(t) \in Nat /\ 0 \in 0 .. Len(t) /\ i \in 0 .. Len(t) /\ Len(t) \in i .. Len(t)
  BY DEF Text
<1> DEFINE x == Part(t, 0, i)
           y == Part(t, i, Len(t))
<1>2. x \in Text /\ y \in Text /\ Len(x) = i - 0 /\ Len(y) = Len(t) - i
  BY <1>1, PartAt
<1>3. t = Joined(x, y)
  BY <1>1, PartsOf
<1> HIDE DEF x, y
<1>4. Joined(o, x) \in Text /\ Len(Joined(o, x)) = Len(o) + Len(x)
  BY <1>2, JoinedLen
<1>5. i - 0 = i
  OBVIOUS
<1>6. Mid(o, x, y, z) = Joined(Joined(o, x), Joined(y, z))
  BY <1>2, MidIs
<1>7. Mid(o, x, y, z) = Around(o, t, z)
  BY <1>3 DEF Mid
<1> QED
  BY <1>2, <1>4, <1>5, <1>6, <1>7 DEF x, y, Around

\* All of it is sent.
LEMMA SendsAll ==
  ASSUME NEW o \in Text, NEW t \in Text, NEW z \in Text
  PROVE  Joined(o, t) \in Text /\ Around(Joined(o, t), Empty, z) = Around(o, t, z)
<1>1. Joined(o, t) \in Text /\ Joined(Empty, z) = z
  BY JoinedOK
<1>2. Joined(Joined(o, t), z) = Joined(o, Joined(t, z))
  BY JoinedAssoc
<1> QED
  BY <1>1, <1>2 DEF Around

\* Demasking gives a text.
LEMMA DemaskedText ==
  ASSUME NEW u \in Text, NEW kinds, NEW c
  PROVE  Demasked(u, kinds, c) \in Text
<1>1. PICK f : Steps(u, Hits(u, kinds), c, f) /\ Splice(u, Hits(u, kinds), c) = f[Len(u)]
  BY SpliceSteps
<1>2. Len(u) \in 0 .. Len(u) /\ f \in [0 .. Len(u) -> Text]
  BY <1>1 DEF Steps, Text
<1> QED
  BY <1>1, <1>2 DEF Demasked

\* No hit begins in what was sent, and none ends in what is held back; all are
\* shorter than M.
Waits(o, p, z, kinds, M) ==
    \A g \in Hits(Around(o, p, z), kinds) :
        g.start > Len(o) /\ g.end < g.start + M /\ g.end > Len(o) + Len(p)

\* The two passes of DemaskChunk.
LEMMA PassesKeep ==
  ASSUME NEW o \in Text, NEW t \in Text, NEW z \in Text, NEW c \in BOOLEAN, NEW M \in Nat, InertOriginals,
         NEW found \in BOOLEAN, NEW kinds, kinds \in {Kinds, InForce(found)},
         NEW t1, t1 = Demasked(t, {"exact"}, c),
         NEW t2, t2 = IF found THEN Demasked(t1, {"regex"}, c) ELSE t1
  PROVE  /\ t1 \in Text /\ t2 \in Text
         /\ Demasked(Around(o, t1, z), kinds, c) = Demasked(Around(o, t, z), kinds, c)
         /\ Demasked(Around(o, t2, z), kinds, c) = Demasked(Around(o, t, z), kinds, c)
         /\ kinds = InForce(found) =>
              (Begin(o, t, z, kinds, M) => Waits(o, t2, z, kinds, M))
<1>1. {"exact"} \in SUBSET kinds /\ (found => {"regex"} \in SUBSET kinds /\ kinds = Kinds)
  BY DEF Kinds, InForce
<1>2. Keeps(o, t, z, t1, kinds, {"exact"}, c, M)
  BY <1>1, DemaskKeeps
<1>3. CASE ~found
  <2>1. t2 = t1 /\ (kinds = InForce(found) => kinds = {"exact"})
    BY <1>3 DEF InForce
  <2> QED
    BY <1>2, <2>1 DEF Waits, Begin, Keeps
<1>4. CASE found
  <2>0. t1 \in Text
    BY <1>2 DEF Keeps
  <2>1. Keeps(o, t1, z, t2, kinds, {"regex"}, c, M)
    BY <1>1, <1>4, <2>0, DemaskKeeps
  <2>2. ASSUME Begin(o, t, z, kinds, M)
        PROVE  Waits(o, t2, z, kinds, M)
    <3>1. /\ Begin(o, t1, z, kinds, M)
          /\ \A g \in Hits(Around(o, t1, z), {"exact"}) : g.end > Len(o) + Len(t1)
      BY <1>2, <2>2 DEF Keeps
    <3>2. Hits(t1, {"exact"}) = {}
      <4>1. SUFFICES ASSUME NEW g \in Hits(t1, {"exact"}) PROVE FALSE
        OBVIOUS
      <4>2. Shift(g, Len(o)) \in Hits(Around(o, t1, z), {"exact"})
        <5>1. g \in Hits(Joined(t1, z), {"exact"}) /\ Joined(t1, z) \in Text
          BY <2>0, HitsLeft, JoinedOK
        <5> QED
          BY <5>1, HitsRight DEF Around
      <4>3. PICK e \in Nat : e = g.end /\ e <= Len(t1)
        BY <2>0, HitBounds
      <4>4. Len(o) + e > Len(o) + Len(t1)
        BY <3>1, <4>2, <4>3, ShiftIs
      <4>5. Len(o) \in Nat /\ Len(t1) \in Nat
        BY <2>0, AroundAt
      <4> QED
        BY <4>3, <4>4, <4>5
    <3>3. Hits(t1, {"regex"}) = Hits(t1, kinds)
      BY <1>1, <1>4, <3>2 DEF Hits, Kinds
    <3>4. t2 = Demasked(t1, kinds, c)
      BY <1>4, <3>3 DEF Demasked
    <3>5. kinds \in SUBSET kinds
      OBVIOUS
    <3>6. Keeps(o, t1, z, t2, kinds, kinds, c, M)
      BY <2>0, <3>4, <3>5, DemaskKeeps
    <3> QED
      BY <3>1, <3>6 DEF Waits, Begin, Keeps
  <2> QED
    BY <1>2, <2>1, <2>2 DEF Keeps
<1> QED
  BY <1>3, <1>4

\* A hit that ends after t begins after its safe prefix.
LEMMA SafeToSend ==
  ASSUME NEW o \in Text, NEW t \in Text, NEW z \in Text, NEW kinds, NEW M \in Nat, Waits(o, t, z, kinds, M),
         NEW i \in 0 .. Len(t), i = 0 \/ i + M <= Len(t)
  PROVE  Waits(Joined(o, Part(t, 0, i)), Part(t, i, Len(t)), z, kinds, M)
<1> DEFINE o2 == Joined(o, Part(t, 0, i))
           t2 == Part(t, i, Len(t))
           u == Around(o, t, z)
<1>1. /\ o2 \in Text /\ t2 \in Text /\ Len(o2) = Len(o) + i /\ Len(t2) = Len(t) - i
      /\ Around(o2, t2, z) = u
  BY Sends
<1>2. PICK A \in Nat, T \in Nat : A = Len(o) /\ T = Len(t)
  BY AroundAt
<1>3. u \in Text
  BY AroundAt
<1> HIDE DEF o2, t2, u
<1>4. ASSUME NEW g \in Hits(u, kinds)
      PROVE  g.start > A + i /\ g.end < g.start + M /\ g.end > A + i + (T - i)
  <2>1. PICK a \in Nat, e \in Nat : a = g.start /\ e = g.end
    BY <1>3, HitBounds
  <2>2. a > A /\ e < a + M /\ e > A + T
    BY <1>2, <2>1 DEF Waits, u
  <2> QED
    BY <1>2, <2>1, <2>2
<1>5. Len(o2) = A + i /\ Len(t2) = T - i
  BY <1>1, <1>2
<1>6. Waits(o2, t2, z, kinds, M)
  BY <1>1, <1>4, <1>5 DEF Waits
<1> QED
  BY <1>6 DEF o2, t2

\* What was sent is final.
LEMMA SentIsFinal ==
  ASSUME NEW o \in Text, NEW p \in Text, NEW z \in Text, NEW kinds, NEW c, NEW M, Waits(o, p, z, kinds, M)
  PROVE  IsPrefix(o, Demasked(Around(o, p, z), kinds, c)) /\ Hits(o, kinds) = {}
<1> DEFINE y == Joined(p, z)
<1>1. y \in Text /\ Around(o, p, z) = Joined(o, y) /\ Len(o) \in Nat /\ Joined(o, y) \in Text
  BY JoinedOK, AroundAt DEF Around
<1>2. NoneAcross(o, y, kinds)
  BY <1>1 DEF Waits, NoneAcross
<1>3. Hits(o, kinds) = {}
  <2>1. SUFFICES ASSUME NEW g \in Hits(o, kinds) PROVE FALSE
    OBVIOUS
  <2>2. PICK a \in Nat, e \in Nat : a = g.start /\ e = g.end /\ a < e /\ e <= Len(o)
    BY HitBounds
  <2>3. g \in Hits(Joined(o, y), kinds)
    BY <1>1, HitsLeft
  <2>4. a > Len(o)
    BY <1>1, <2>2, <2>3 DEF Waits
  <2> QED
    BY <1>1, <2>2, <2>4
<1>4. Demasked(o, kinds, c) = o
  BY <1>3, NothingToReplace
<1> DEFINE x == Demasked(y, kinds, c)
<1>5. Demasked(Around(o, p, z), kinds, c) = Joined(o, x)
  BY <1>1, <1>2, <1>4, DemaskedJoined
<1>6. x \in Text
  BY <1>1, DemaskedText
<1> HIDE DEF x
<1>7. IsPrefix(o, Joined(o, x))
  BY <1>6 DEF IsPrefix, Joined, Text
<1> QED
  BY <1>3, <1>5, <1>7

\* Before the stream begins nothing is received or sent; from the factory's
\* first read on, the tail has room for an exact placeholder.
ConfigInv ==
    /\ jsonCtx \in BOOLEAN /\ registered \in BOOLEAN /\ scanned \in BOOLEAN
    /\ response \in Responses /\ errors \in Nat
    /\ phase \in {"length", "rules"} => pos = 0 /\ out = Empty /\ pending = Empty
    /\ phase # "length" => maxPending >= 5
    /\ phase = "done" => pos = Len(response) /\ pending = Empty

\* This holds in every reachable state.
LEMMA ConfigInvCorrect == Spec => [](IInv /\ ConfigInv)
<1>1. ASSUME Init PROVE ConfigInv
  <2>1. /\ pos = 0 /\ out = Empty /\ pending = Empty /\ phase = "length" /\ errors = 0
        /\ response \in Responses
    BY <1>1 DEF Init, Empty
  <2>2. jsonCtx \in BOOLEAN /\ registered \in BOOLEAN /\ scanned \in BOOLEAN
    BY <1>1 DEF Init
  <2> QED
    BY <2>1, <2>2 DEF ConfigInv
<1>2. ASSUME IInv, ConfigInv, [Next]_vars PROVE ConfigInv'
  <2>1. PlaceholderLen \in Nat /\ maxPending \in Nat
    BY <1>2, DemaskerAssumption DEF PlaceholderLen, IInv, FactoryInv
  <2>2. CASE ReadMaxPlaceholderLen
    <3>1. /\ UNCHANGED <<response, jsonCtx, registered, scanned, pos, pending, out, errors>>
          /\ phase = "length" /\ phase' = "rules"
      BY <2>2 DEF ReadMaxPlaceholderLen, stream
    <3>2. maxPending' >= 5
      BY <2>1, <2>2 DEF ReadMaxPlaceholderLen
    <3> QED
      BY <1>2, <3>1, <3>2 DEF ConfigInv
  <2>3. CASE ResolveRules
    BY <1>2, <2>3 DEF ResolveRules, ConfigInv, stream
  <2>4. CASE Reload
    BY <1>2, <2>4 DEF Reload, ConfigInv, stream
  <2>5. ASSUME NEW q \in DOMAIN response, Chunk(q) PROVE ConfigInv'
    <3>1. /\ UNCHANGED <<response, jsonCtx, registered, scanned, maxPending, errors>>
          /\ phase = "stream" /\ phase' = "stream"
      BY <2>5 DEF Chunk, Arrives, config
    <3> QED
      BY <1>2, <3>1 DEF ConfigInv
  <2>6. ASSUME NEW q \in DOMAIN response, ChunkFails(q) PROVE ConfigInv'
    <3>1. /\ UNCHANGED <<response, jsonCtx, registered, scanned, maxPending>> /\ errors' = errors + 1
          /\ phase = "stream" /\ phase' = "stream"
      BY <2>6 DEF ChunkFails, Arrives, config
    <3> QED
      BY <1>2, <3>1 DEF ConfigInv
  <2>7. CASE Flush
    <3>1. /\ UNCHANGED <<response, jsonCtx, registered, scanned, maxPending, pos>>
          /\ errors' \in {errors, errors + 1}
          /\ phase = "stream" /\ phase' = "done" /\ pos = Len(response) /\ pending' = Empty
      BY <2>7 DEF Flush, config, Empty
    <3> QED
      BY <1>2, <3>1 DEF ConfigInv
  <2>8. CASE UNCHANGED vars
    BY <1>2, <2>8 DEF ConfigInv, vars, config
  <2> QED
    BY <1>2, <2>2, <2>3, <2>4, <2>5, <2>6, <2>7, <2>8 DEF Next, Done
<1> QED
  BY <1>1, <1>2, IInvCorrect, PTL DEF Spec

\* What the stream demasks to is what the response demasks to.
Same(kinds) == Demasked(AllText, kinds, jsonCtx) = Demasked(response, kinds, jsonCtx)

\* The parts of the stream are texts.
LEMMA StreamTexts ==
  ASSUME IInv
  PROVE  /\ response \in Text /\ out \in Text /\ pending \in Text /\ Rest \in Text
         /\ pos \in 0 .. Len(response) /\ maxPending \in Nat
<1>1. /\ response \in Text /\ out \in Text /\ pending \in Text /\ pos \in 0 .. Len(response) /\ maxPending \in Nat
  BY DEF IInv, StreamInv, FactoryInv
<1>2. Len(response) \in pos .. Len(response)
  BY <1>1 DEF Text
<1> QED
  BY <1>1, <1>2, PartAt DEF Rest

\* A chunk that arrives changes nothing of the stream as a whole.
LEMMA Arrived ==
  ASSUME IInv, NEW q \in DOMAIN response, Arrives(q), response' = response
  PROVE  /\ Received(q) \in Text /\ Rest' \in Text
         /\ AllText = Around(out, Received(q), Rest')
<1>1. /\ response \in Text /\ pos \in 0 .. Len(response) /\ q > pos /\ pos' = q
      /\ out \in Text /\ pending \in Text
  BY StreamTexts DEF Arrives
<1>2. q \in pos .. Len(response)
  BY <1>1 DEF Text
<1>3. Received(q) = Joined(pending, Part(response, pos, q)) /\ Rest' = Part(response, q, Len(response))
  BY <1>1 DEF Received, Joined, Part, Rest
<1> QED
  BY <1>1, <1>2, <1>3, Moves DEF AllText, Rest

\* The passes over a text taken from the stream.
LEMMA Passed ==
  ASSUME IInv, ConfigInv, InertOriginals, NEW t \in Text, NEW z \in Text, AllText = Around(out, t, z),
         NEW t1, t1 = ApplyExact(t), NEW t2, t2 = ApplyPlaceholderRegex(t1),
         NEW kinds, kinds \in {Kinds, InForce(scanned)}, Same(kinds)
  PROVE  /\ t1 \in Text /\ t2 \in Text
         /\ Demasked(Around(out, t1, z), kinds, jsonCtx) = Demasked(response, kinds, jsonCtx)
         /\ Demasked(Around(out, t2, z), kinds, jsonCtx) = Demasked(response, kinds, jsonCtx)
         /\ (kinds = InForce(scanned) /\ Waits(out, pending, Rest, kinds, maxPending)) =>
               Waits(out, t2, z, kinds, maxPending)
<1>1. jsonCtx \in BOOLEAN /\ scanned \in BOOLEAN /\ maxPending \in Nat /\ out \in Text
  BY StreamTexts DEF ConfigInv
<1>2. /\ t1 = Demasked(t, {"exact"}, jsonCtx)
      /\ t2 = IF scanned THEN Demasked(t1, {"regex"}, jsonCtx) ELSE t1
  BY Apply
<1>3. Waits(out, pending, Rest, kinds, maxPending) => Begin(out, t, z, kinds, maxPending)
  BY DEF Waits, Begin, AllText
<1> DEFINE u == Around(out, t, z)
<1>4. /\ t1 \in Text /\ t2 \in Text
      /\ Demasked(Around(out, t1, z), kinds, jsonCtx) = Demasked(u, kinds, jsonCtx)
      /\ Demasked(Around(out, t2, z), kinds, jsonCtx) = Demasked(u, kinds, jsonCtx)
      /\ kinds = InForce(scanned) =>
           (Begin(out, t, z, kinds, maxPending) => Waits(out, t2, z, kinds, maxPending))
  BY <1>1, <1>2, PassesKeep
<1> QED
  BY <1>3, <1>4 DEF Same

\* What Chunk sends of the text that it has.
LEMMA ChunkSends ==
  ASSUME IInv, ConfigInv, InertOriginals, NEW q \in DOMAIN response, Chunk(q)
  PROVE  \E t \in Text : \E i \in 0 .. Len(t) :
            /\ t = ApplyPlaceholderRegex(ApplyExact(Received(q)))
            /\ i = 0 \/ i + maxPending <= Len(t)
            /\ out' = Joined(out, Part(t, 0, i)) /\ pending' = Part(t, i, Len(t))
<1> DEFINE t == ApplyPlaceholderRegex(ApplyExact(Received(q)))
           i == IF Len(t) <= maxPending THEN 0 ELSE Utf8SafePrefixEnd(t, Len(t) - maxPending)
<1>1. /\ Arrives(q) /\ out' = out \o SubSeq(t, 1, i) /\ pending' = SubSeq(t, i + 1, Len(t))
  BY DEF Chunk, Arrives
<1>2. t \in Text /\ WholeRunes(t)
  BY <1>1, ReceivedWhole
<1>3. maxPending \in Nat /\ Len(t) \in Nat
  BY <1>2, StreamTexts DEF Text
<1>4. i \in 0 .. Len(t) /\ (i = 0 \/ i + maxPending <= Len(t))
  <2> HIDE DEF t
  <2>1. CASE Len(t) <= maxPending
    BY <1>3, <2>1
  <2>2. CASE ~ (Len(t) <= maxPending)
    <3>1. PICK e \in 0 .. Len(t) : e = Len(t) - maxPending /\ i = Utf8SafePrefixEnd(t, e)
      BY <1>3, <2>2
    <3>2. i \in 0 .. e
      BY <1>2, <3>1, SafePrefix
    <3> HIDE DEF i
    <3> QED
      BY <1>3, <3>1, <3>2
  <2> QED
    BY <2>1, <2>2
<1> HIDE DEF t, i
<1>5. out' = Joined(out, Part(t, 0, i)) /\ pending' = Part(t, i, Len(t))
  BY <1>1, <1>3, <1>4 DEF Joined, Part
<1> QED
  BY <1>2, <1>4, <1>5 DEF t

\* DemaskChunk changes nothing of what the stream demasks to, and what the
\* demasker waits for is still to come.
LEMMA ChunkSame ==
  ASSUME IInv, ConfigInv, InertOriginals, NEW q \in DOMAIN response, Chunk(q),
         NEW kinds, kinds \in {Kinds, InForce(scanned)}, Same(kinds)
  PROVE  /\ Demasked(AllText', kinds, jsonCtx') = Demasked(response', kinds, jsonCtx')
         /\ (kinds = InForce(scanned) /\ Waits(out, pending, Rest, kinds, maxPending)) =>
               Waits(out', pending', Rest', kinds, maxPending)
<1>1. Arrives(q) /\ response' = response /\ jsonCtx' = jsonCtx
  BY DEF Chunk, config
<1>2. Received(q) \in Text /\ Rest' \in Text /\ AllText = Around(out, Received(q), Rest')
  BY <1>1, Arrived
<1>3a. PICK t \in Text : \E i \in 0 .. Len(t) :
            /\ t = ApplyPlaceholderRegex(ApplyExact(Received(q)))
            /\ i = 0 \/ i + maxPending <= Len(t)
            /\ out' = Joined(out, Part(t, 0, i)) /\ pending' = Part(t, i, Len(t))
  BY ChunkSends
<1>3. PICK i \in 0 .. Len(t) :
            /\ t = ApplyPlaceholderRegex(ApplyExact(Received(q)))
            /\ i = 0 \/ i + maxPending <= Len(t)
            /\ out' = Joined(out, Part(t, 0, i)) /\ pending' = Part(t, i, Len(t))
  BY <1>3a
<1>4. /\ Demasked(Around(out, t, Rest'), kinds, jsonCtx) = Demasked(response, kinds, jsonCtx)
      /\ (kinds = InForce(scanned) /\ Waits(out, pending, Rest, kinds, maxPending)) =>
            Waits(out, t, Rest', kinds, maxPending)
  BY <1>2, <1>3, Passed
<1>5. out \in Text /\ maxPending \in Nat
  BY StreamTexts
<1>6. Around(out', pending', Rest') = Around(out, t, Rest')
  BY <1>2, <1>3, <1>5, Sends
<1>7. Waits(out, t, Rest', kinds, maxPending) => Waits(out', pending', Rest', kinds, maxPending)
  BY <1>2, <1>3, <1>5, SafeToSend
<1> QED
  BY <1>1, <1>4, <1>6, <1>7 DEF AllText

\* Nor does a scan that fails.
LEMMA ChunkFailsSame ==
  ASSUME IInv, ConfigInv, InertOriginals, NEW q \in DOMAIN response, ChunkFails(q), Same(Kinds)
  PROVE  Demasked(AllText', Kinds, jsonCtx') = Demasked(response', Kinds, jsonCtx')
<1>1. /\ Arrives(q) /\ response' = response /\ jsonCtx' = jsonCtx
      /\ out' = Joined(out, ApplyExact(Received(q))) /\ pending' = Empty
  BY DEF ChunkFails, config, Joined, Empty
<1>2. Received(q) \in Text /\ Rest' \in Text /\ AllText = Around(out, Received(q), Rest') /\ out \in Text
  BY <1>1, Arrived, StreamTexts
<1> DEFINE t == ApplyExact(Received(q))
<1>3. t \in Text /\ Demasked(Around(out, t, Rest'), Kinds, jsonCtx) = Demasked(response, Kinds, jsonCtx)
  BY <1>2, Passed
<1>4. Around(Joined(out, t), Empty, Rest') = Around(out, t, Rest')
  BY <1>2, <1>3, SendsAll
<1> QED
  BY <1>1, <1>3, <1>4 DEF AllText

\* Nor does the end of the field.
LEMMA FlushSame ==
  ASSUME IInv, ConfigInv, InertOriginals, Flush, NEW kinds, kinds \in {Kinds, InForce(scanned)}, Same(kinds)
  PROVE  /\ Demasked(AllText', kinds, jsonCtx') = Demasked(response', kinds, jsonCtx')
         /\ (errors' = errors /\ kinds = InForce(scanned) /\ Waits(out, pending, Rest, kinds, maxPending)) =>
               Waits(out', pending', Rest', kinds, maxPending)
<1> DEFINE t1 == ApplyExact(pending)
           t2 == ApplyPlaceholderRegex(t1)
<1>1. /\ response' = response /\ jsonCtx' = jsonCtx /\ pos' = pos /\ pos = Len(response) /\ pending' = Empty
      /\ \/ out' = Joined(out, t2)
         \/ out' = Joined(out, t1) /\ errors' = errors + 1
  BY DEF Flush, config, Joined, Empty
<1>2. /\ out \in Text /\ pending \in Text /\ Rest \in Text /\ AllText = Around(out, pending, Rest)
      /\ response \in Text /\ maxPending \in Nat /\ errors \in Nat
  BY StreamTexts DEF AllText, ConfigInv
<1>3. Rest' = Rest
  BY <1>1 DEF Rest
<1>4. /\ t1 \in Text /\ t2 \in Text
      /\ Demasked(Around(out, t1, Rest), kinds, jsonCtx) = Demasked(response, kinds, jsonCtx)
      /\ Demasked(Around(out, t2, Rest), kinds, jsonCtx) = Demasked(response, kinds, jsonCtx)
      /\ (kinds = InForce(scanned) /\ Waits(out, pending, Rest, kinds, maxPending)) =>
            Waits(out, t2, Rest, kinds, maxPending)
  BY <1>2, Passed
<1> HIDE DEF t1, t2
<1>5. /\ Around(Joined(out, t1), Empty, Rest) = Around(out, t1, Rest)
      /\ Around(Joined(out, t2), Empty, Rest) = Around(out, t2, Rest)
  BY <1>2, <1>4, SendsAll
<1>6. Rest = Empty
  BY <1>1, <1>2 DEF Rest, Part, Empty, Text
<1>7. ASSUME Waits(out, t2, Rest, kinds, maxPending) PROVE Waits(Joined(out, t2), Empty, Rest, kinds, maxPending)
  <2> DEFINE u == Around(out, t2, Rest)
  <2>1. u \in Text /\ Len(u) = Len(out) + (Len(t2) + Len(Rest)) /\ Len(Rest) = 0 /\ Len(out) \in Nat /\ Len(t2) \in Nat
    <3>1. u \in Text /\ Len(u) = Len(out) + (Len(t2) + Len(Rest)) /\ Len(out) \in Nat /\ Len(t2) \in Nat
      BY <1>2, <1>4, AroundAt
    <3>2. Len(Rest) = 0
      BY <1>6, JoinedOK
    <3> QED
      BY <3>1, <3>2
  <2>2. Hits(u, kinds) = {}
    <3>1. SUFFICES ASSUME NEW g \in Hits(u, kinds) PROVE FALSE
      OBVIOUS
    <3>2. g.end > Len(out) + Len(t2)
      BY <1>7 DEF Waits
    <3> HIDE DEF u
    <3>3. PICK e \in Nat : e = g.end /\ e <= Len(u)
      BY <2>1, HitBounds
    <3> QED
      BY <2>1, <3>2, <3>3
  <2> QED
    BY <1>5, <2>2 DEF Waits
<1>8. errors + 1 # errors
  BY <1>2
<1> QED
  BY <1>1, <1>3, <1>4, <1>5, <1>7, <1>8 DEF AllText

\* At first all of the response is still to come.
LEMMA StreamAtFirst ==
  ASSUME IInv, ConfigInv, phase \in {"length", "rules"}
  PROVE  AllText = response /\ out = Empty /\ pending = Empty /\ Len(Empty) = 0
<1>1. pos = 0 /\ out = Empty /\ pending = Empty /\ response \in Text
  BY StreamTexts DEF ConfigInv
<1>2. Rest = response
  <2>1. 0 \in 0 .. Len(response)
    BY <1>1 DEF Text
  <2> QED
    BY <1>1, <2>1, PartsOf DEF Rest
<1> QED
  BY <1>1, <1>2, JoinedOK DEF AllText, Around

\* The factory sends nothing and receives nothing.
LEMMA FactoryKeeps ==
  ASSUME ReadMaxPlaceholderLen \/ ResolveRules \/ Reload \/ UNCHANGED vars
  PROVE  UNCHANGED <<response, jsonCtx, pos, pending, out, errors>> /\ AllText' = AllText /\ Rest' = Rest
<1>1. UNCHANGED <<response, jsonCtx, pos, pending, out, errors>>
  BY DEF ReadMaxPlaceholderLen, ResolveRules, Reload, stream, vars, config
<1> QED
  BY <1>1 DEF AllText, Rest

\* What the stream demasks to never changes.
LEMMA SameCorrect ==
  ASSUME InertOriginals
  PROVE  Spec => []Same(Kinds)
<1>1. ASSUME Init, IInv, ConfigInv PROVE Same(Kinds)
  <2>1. phase \in {"length", "rules"}
    BY <1>1 DEF Init
  <2> QED
    BY <1>1, <2>1, StreamAtFirst DEF Same
<1>2. ASSUME IInv, ConfigInv, Same(Kinds), [Next]_vars PROVE Same(Kinds)'
  <2>1. CASE ReadMaxPlaceholderLen \/ ResolveRules \/ Reload \/ UNCHANGED vars
    BY <1>2, <2>1, FactoryKeeps DEF Same
  <2>2. ASSUME NEW q \in DOMAIN response, Chunk(q) PROVE Same(Kinds)'
    BY <1>2, <2>2, ChunkSame DEF Same
  <2>3. ASSUME NEW q \in DOMAIN response, ChunkFails(q) PROVE Same(Kinds)'
    BY <1>2, <2>3, ChunkFailsSame DEF Same
  <2>4. CASE Flush
    BY <1>2, <2>4, FlushSame DEF Same
  <2> QED
    BY <1>2, <2>1, <2>2, <2>3, <2>4 DEF Next, Done
<1> QED
  BY <1>1, <1>2, ConfigInvCorrect, PTL DEF Spec

\* However the response is cut into chunks, whatever scans fail and whatever
\* reload comes between the factory's two reads, DemaskChunk loses, repeats and
\* reorders nothing: demasking all that was sent, is held back and is to come
\* gives what demasking the response gives.  The originals must not themselves
\* look like a part of a placeholder.
THEOREM LosslessCorrect ==
  ASSUME InertOriginals
  PROVE  Spec => []Lossless
<1>1. ASSUME IInv, Same(Kinds) PROVE Lossless
  <2>1. out \in Text /\ pending \in Text /\ Rest \in Text
    BY <1>1, StreamTexts
  <2>2. Joined(Joined(out, pending), Rest) = AllText
    BY <2>1, JoinedAssoc DEF AllText, Around
  <2>3. out \o pending \o SubSeq(response, pos + 1, Len(response)) = AllText
    BY <2>2 DEF Joined, Rest, Part
  <2>4. Whole(AllText, TRUE) = Whole(response, TRUE)
    BY <1>1, Apply DEF Same, InForce
  <2> QED
    BY <2>3, <2>4 DEF Lossless
<1> QED
  BY <1>1, SameCorrect, IInvCorrect, PTL

\* While no scan has failed, what the demasker waits for is still to come.
OnTime ==
    (phase \in {"stream", "done"} /\ errors = 0 /\ SameSnapshot) =>
        /\ Same(InForce(scanned))
        /\ Waits(out, pending, Rest, InForce(scanned), maxPending)

\* The tail is long enough for every placeholder in the response.
LEMMA TailSuffices ==
  ASSUME NEW s \in Text, \A i \in DOMAIN s : s[i] # "k1",
         NEW found \in BOOLEAN, NEW M \in Nat, M >= 5, found => M >= PlaceholderLen,
         NEW g \in Hits(s, InForce(found))
  PROVE  g.end < g.start + M
<1>1. PICK i \in Nat, e \in Nat : i = g.start /\ e = g.end /\ 1 <= i /\ i < e /\ e <= Len(s)
  BY HitBounds
<1>2. CASE g \in ExactHits(s)
  <2>1. g.end - g.start < 5
    BY <1>2, ExactShape
  <2>2. e - i < 5
    BY <1>1, <2>1
  <2>3. e < i + M
    BY <1>1, <2>2
  <2> QED
    BY <1>1, <2>3
<1>3. CASE g \in RegexHits(s) /\ found
  <2>1. \A p \in Nat : g.start < p /\ p < g.end => s[p] # "k1"
    <3>1. \A p \in Nat : i < p /\ p < e => p \in DOMAIN s
      BY <1>1 DEF Text
    <3> QED
      BY <1>1, <3>1
  <2>2. g.end - g.start < PlaceholderLen
    BY <1>3, <2>1, RegexShape
  <2>3. PICK L \in Nat : L = PlaceholderLen
    BY DemaskerAssumption DEF PlaceholderLen
  <2>4. e - i < L /\ L <= M
    BY <1>1, <1>3, <2>2, <2>3
  <2>5. e < i + M
    BY <1>1, <2>4
  <2> QED
    BY <1>1, <2>5
<1> QED
  BY <1>2, <1>3 DEF Hits, InForce

\* This holds in every reachable state.
LEMMA OnTimeCorrect ==
  ASSUME InertOriginals, NoKelvinSign
  PROVE  Spec => []OnTime
<1>1. Init => OnTime
  BY DEF Init, OnTime
<1>2. ASSUME IInv, ConfigInv, IInv', ConfigInv', OnTime, [Next]_vars PROVE OnTime'
  <2>1. CASE ReadMaxPlaceholderLen \/ Reload
    <3>1. phase' \in {"length", "rules"}
      BY <2>1 DEF ReadMaxPlaceholderLen, Reload
    <3> QED
      BY <3>1 DEF OnTime
  <2>2. CASE ResolveRules
    <3>1. phase = "rules" /\ phase' = "stream" /\ maxPending' = maxPending
      BY <2>2 DEF ResolveRules
    <3>2. /\ AllText = response /\ out = Empty /\ pending = Empty /\ Len(Empty) = 0
          /\ UNCHANGED <<response, jsonCtx, pos, pending, out, errors>> /\ AllText' = AllText /\ Rest' = Rest
      BY <1>2, <2>2, <3>1, StreamAtFirst, FactoryKeeps
    <3>3. /\ response \in Text /\ \A i \in DOMAIN response : response[i] # "k1"
          /\ scanned' \in BOOLEAN /\ maxPending \in Nat /\ maxPending >= 5
      BY <1>2, <3>1, StreamTexts DEF ConfigInv, NoKelvinSign
    <3>4. ASSUME SameSnapshot' PROVE Waits(out, pending, Rest, InForce(scanned'), maxPending)
      <4>1. SUFFICES ASSUME NEW g \in Hits(response, InForce(scanned'))
                     PROVE  g.start > 0 /\ g.end < g.start + maxPending /\ g.end > 0 + 0
        BY <3>2 DEF Waits, AllText
      <4>2. PlaceholderLen \in Nat /\ (scanned' => maxPending >= PlaceholderLen)
        BY <3>1, <3>4, DemaskerAssumption DEF SameSnapshot, PlaceholderLen
      <4>3. g.end < g.start + maxPending
        BY <3>3, <4>2, TailSuffices
      <4>4. PICK i \in Nat, e \in Nat : i = g.start /\ e = g.end /\ 1 <= i /\ i < e
        BY <3>3, HitBounds
      <4> QED
        BY <4>3, <4>4
    <3> QED
      BY <3>1, <3>2, <3>4 DEF OnTime, Same
  <2>3. ASSUME NEW q \in DOMAIN response, Chunk(q) PROVE OnTime'
    <3>1. /\ phase = "stream" /\ errors' = errors /\ scanned' = scanned /\ maxPending' = maxPending
      BY <2>3 DEF Chunk, Arrives, config
    <3>2. SameSnapshot' => SameSnapshot
      BY <3>1 DEF SameSnapshot, PlaceholderLen
    <3> QED
      BY <1>2, <2>3, <3>1, <3>2, ChunkSame DEF OnTime, Same
  <2>4. ASSUME NEW q \in DOMAIN response, ChunkFails(q) PROVE OnTime'
    <3>1. errors' = errors + 1 /\ errors \in Nat
      BY <1>2, <2>4 DEF ChunkFails, ConfigInv
    <3>2. errors' # 0
      BY <3>1
    <3> QED
      BY <3>2 DEF OnTime
  <2>5. CASE Flush
    <3>1. /\ phase = "stream" /\ scanned' = scanned /\ maxPending' = maxPending
          /\ errors \in Nat /\ errors' \in {errors, errors + 1}
      BY <1>2, <2>5 DEF Flush, config, ConfigInv
    <3>2. SameSnapshot' => SameSnapshot
      BY <3>1 DEF SameSnapshot, PlaceholderLen
    <3>3. errors' = 0 => errors = 0 /\ errors' = errors
      BY <3>1
    <3> QED
      BY <1>2, <2>5, <3>1, <3>2, <3>3, FlushSame DEF OnTime, Same
  <2>6. CASE UNCHANGED vars
    <3>1. UNCHANGED <<phase, errors, scanned, maxPending, out, pending, jsonCtx, response>> /\ AllText' = AllText /\ Rest' = Rest
      BY <2>6, FactoryKeeps DEF vars, config
    <3> QED
      BY <1>2, <3>1 DEF OnTime, Same, SameSnapshot, PlaceholderLen
  <2> QED
    BY <1>2, <2>1, <2>2, <2>3, <2>4, <2>5, <2>6 DEF Next, Done
<1> QED
  BY <1>1, <1>2, ConfigInvCorrect, PTL DEF Spec

\* The chunk boundaries of a stream do not matter: while no scan has failed,
\* all that DemaskChunk has sent begins what demasking the whole response at
\* once gives, and at the end it is that.  The length of the tail and the rules
\* must come from one registry snapshot, the originals must not look like a part
\* of a placeholder, and the response must not write the K of a placeholder as
\* the three-byte Kelvin sign, which regexpMaxLen does not count.
THEOREM StreamMatchesWholeCorrect ==
  ASSUME InertOriginals, NoKelvinSign
  PROVE  Spec => []StreamMatchesWhole
<1>1. ASSUME IInv, ConfigInv, OnTime PROVE StreamMatchesWhole
  <2>1. SUFFICES ASSUME phase \in {"stream", "done"}, errors = 0, SameSnapshot
                 PROVE  /\ IsPrefix(out, Whole(response, scanned))
                        /\ phase = "done" => out = Whole(response, scanned)
    BY DEF StreamMatchesWhole
  <2> DEFINE kinds == InForce(scanned)
  <2>2. /\ Same(kinds) /\ Waits(out, pending, Rest, kinds, maxPending)
        /\ response \in Text /\ out \in Text /\ pending \in Text /\ Rest \in Text
        /\ scanned \in BOOLEAN
    BY <1>1, <2>1, StreamTexts DEF OnTime, ConfigInv
  <2>3. Whole(response, scanned) = Demasked(AllText, kinds, jsonCtx)
    BY <2>2, Apply DEF Same
  <2> HIDE DEF kinds
  <2>4. IsPrefix(out, Demasked(AllText, kinds, jsonCtx)) /\ Hits(out, kinds) = {}
    BY <2>2, SentIsFinal DEF AllText
  <2>5. ASSUME phase = "done" PROVE out = Demasked(AllText, kinds, jsonCtx)
    <3>1. pos = Len(response) /\ pending = Empty
      BY <1>1, <2>5 DEF ConfigInv
    <3>2. Rest = Empty
      BY <2>2, <3>1 DEF Rest, Part, Empty, Text
    <3>3. AllText = out
      BY <2>2, <3>1, <3>2, JoinedOK DEF AllText, Around
    <3> QED
      BY <2>2, <2>4, <3>3, NothingToReplace
  <2> QED
    BY <2>3, <2>4, <2>5
<1> QED
  BY <1>1, ConfigInvCorrect, OnTimeCorrect, PTL
=============================================================================
