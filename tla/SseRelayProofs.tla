--------------------------- MODULE SseRelayProofs ---------------------------
(***************************************************************************)
(* Proofs for SseRelay: the numbers of a Responses stream increase,        *)
(* whatever the upstream sends, however the reads cut it, in whatever      *)
(* order the demaskers are flushed and whichever scans fail.               *)
(***************************************************************************)
EXTENDS SseRelay, SequenceTheorems, Integers, FiniteSets, FiniteSetTheorems, WellFoundedInduction, TLAPS

-----------------------------------------------------------------------------
(* Induction over data, in the first-order form that the provers can use:  *)
(* properties are sets and recursive definitions are functions, so that    *)
(* every lemma can be instantiated.                                        *)

LessNat == {ss \in Nat \X Nat : ss[1] < ss[2]}

LEMMA LessNatWellFounded == IsWellFoundedOn(LessNat, Nat)
  BY NatLessThanWellFounded, Zenon DEF OpToRel, LessNat

\* A set of numbers has a least one.
LEMMA NatMinimum ==
  ASSUME NEW T \in SUBSET Nat, T # {}
  PROVE  \E x \in T : \A y \in T : x <= y
<1>1. \E x \in T : \A y \in T : ~ (<<y, x>> \in LessNat)
  BY LessNatWellFounded, WFMin
<1>2. ASSUME NEW x \in Nat, NEW y \in Nat, ~ (<<y, x>> \in LessNat) PROVE x <= y
  BY <1>2 DEF LessNat
<1> QED
  BY <1>1, <1>2

\* A set that holds n whenever it holds every smaller number holds them all.
LEMMA NatStrongInduction ==
  ASSUME NEW S, \A n \in Nat : (\A m \in 0 .. n - 1 : m \in S) => n \in S
  PROVE  Nat \subseteq S
<1> SUFFICES ASSUME Nat \ S # {} PROVE FALSE
  OBVIOUS
<1>1. PICK x \in Nat \ S : \A y \in Nat \ S : x <= y
  BY NatMinimum
<1> QED
  BY <1>1

\* A set that holds 0, and n + 1 whenever it holds n, holds every number.
LEMMA NatInductive ==
  ASSUME NEW S, 0 \in S, \A n \in Nat : n \in S => n + 1 \in S
  PROVE  Nat \subseteq S
<1>1. ASSUME NEW n \in Nat, \A m \in 0 .. n - 1 : m \in S PROVE n \in S
  <2>1. CASE n = 0
    BY <2>1
  <2>2. CASE n # 0
    <3>1. n - 1 \in Nat /\ n - 1 \in 0 .. n - 1 /\ n = (n - 1) + 1
      BY <2>2
    <3> QED
      BY <1>1, <3>1
  <2> QED
    BY <2>1, <2>2
<1> QED
  BY <1>1, NatStrongInduction

\* The same up to N.
LEMMA IndexInduction ==
  ASSUME NEW N \in Nat, NEW S, 0 \in S, \A k \in 1 .. N : k - 1 \in S => k \in S
  PROVE  0 .. N \subseteq S
<1> DEFINE T == {n \in Nat : n <= N => n \in S}
<1>1. 0 \in T
  OBVIOUS
<1>2. ASSUME NEW n \in Nat, n \in T PROVE n + 1 \in T
  <2>1. SUFFICES ASSUME n + 1 <= N PROVE n + 1 \in S
    OBVIOUS
  <2>2. n + 1 \in 1 .. N /\ (n + 1) - 1 = n /\ n \in S
    BY <1>2, <2>1
  <2> QED
    BY <2>2
<1> HIDE DEF T
<1>3. Nat \subseteq T
  BY <1>1, <1>2, NatInductive
<1> QED
  BY <1>3 DEF T


-----------------------------------------------------------------------------
(* Sequences of anything.                                                   *)

IsSeq(s) == s \in Seq({s[i] : i \in DOMAIN s})

LEMMA SeqIsSeq ==
  ASSUME NEW S, NEW s \in Seq(S)
  PROVE  IsSeq(s) /\ DOMAIN s = 1 .. Len(s)
<1>1. s \in [1 .. Len(s) -> {s[i] : i \in DOMAIN s}] /\ Len(s) \in Nat
  OBVIOUS
<1> QED
  BY <1>1, SeqDef DEF IsSeq

LEMMA IsSeqOK ==
  ASSUME NEW s, IsSeq(s)
  PROVE  Len(s) \in Nat /\ DOMAIN s = 1 .. Len(s)
<1> DEFINE S == {s[i] : i \in DOMAIN s}
<1>1. s \in Seq(S)
  BY DEF IsSeq
<1> HIDE DEF S
<1> QED
  BY <1>1

LEMMA AppendOK ==
  ASSUME NEW s, IsSeq(s), NEW e
  PROVE  /\ IsSeq(Append(s, e)) /\ Len(Append(s, e)) = Len(s) + 1 /\ Append(s, e)[Len(s) + 1] = e
         /\ DOMAIN Append(s, e) = 1 .. Len(s) + 1
         /\ \A i \in 1 .. Len(s) : Append(s, e)[i] = s[i]
<1> DEFINE S == {s[i] : i \in DOMAIN s} \cup {e}
<1>1. s \in Seq(S)
  <2>1. s \in Seq({s[i] : i \in DOMAIN s})
    BY DEF IsSeq
  <2> QED
    BY <2>1, SeqMonotonic
<1> HIDE DEF S
<1>2. e \in S
  BY DEF S
<1>3. /\ Append(s, e) \in Seq(S) /\ Len(Append(s, e)) = Len(s) + 1 /\ Append(s, e)[Len(s) + 1] = e
      /\ \A i \in 1 .. Len(s) : Append(s, e)[i] = s[i]
  BY <1>1, <1>2, AppendProperties
<1> DEFINE u == Append(s, e)
<1>4. IsSeq(u) /\ DOMAIN u = 1 .. Len(u)
  <2>1. u \in Seq(S)
    BY <1>3
  <2> HIDE DEF u
  <2> QED
    BY <2>1, SeqIsSeq
<1> QED
  BY <1>3, <1>4

LEMMA ConcatOK ==
  ASSUME NEW s, IsSeq(s), NEW t, IsSeq(t)
  PROVE  /\ IsSeq(s \o t) /\ Len(s \o t) = Len(s) + Len(t)
         /\ DOMAIN (s \o t) = 1 .. Len(s) + Len(t)
         /\ \A i \in 1 .. Len(s) : (s \o t)[i] = s[i]
         /\ \A i \in 1 .. Len(t) : (s \o t)[Len(s) + i] = t[i]
         /\ \A i \in 1 .. Len(s) + Len(t) : i > Len(s) => i - Len(s) \in 1 .. Len(t) /\ (s \o t)[i] = t[i - Len(s)]
<1> DEFINE S == {s[i] : i \in DOMAIN s} \cup {t[i] : i \in DOMAIN t}
<1>1. s \in Seq(S) /\ t \in Seq(S)
  <2>1. s \in Seq({s[i] : i \in DOMAIN s}) /\ t \in Seq({t[i] : i \in DOMAIN t})
    BY DEF IsSeq
  <2> QED
    BY <2>1, SeqMonotonic
<1> HIDE DEF S
<1>2. /\ s \o t \in Seq(S) /\ Len(s \o t) = Len(s) + Len(t) /\ Len(s) \in Nat /\ Len(t) \in Nat
      /\ \A i \in 1 .. Len(s) + Len(t) : (s \o t)[i] = IF i <= Len(s) THEN s[i] ELSE t[i - Len(s)]
  BY <1>1, ConcatProperties
<1> DEFINE m == Len(s)
           n == Len(t)
           u == s \o t
<1>3. IsSeq(u) /\ DOMAIN u = 1 .. Len(u)
  <2>1. u \in Seq(S)
    BY <1>2
  <2> HIDE DEF u
  <2> QED
    BY <2>1, SeqIsSeq
<1>4. \A i \in 1 .. m + n : u[i] = IF i <= m THEN s[i] ELSE t[i - m]
  BY <1>2
<1>5. m \in Nat /\ n \in Nat
  BY <1>2
<1> HIDE DEF m, n, u
<1>6. \A i \in 1 .. m : u[i] = s[i]
  BY <1>4, <1>5
<1>7. \A i \in 1 .. n : u[m + i] = t[i]
  <2> SUFFICES ASSUME NEW i \in 1 .. n PROVE u[m + i] = t[i]
    OBVIOUS
  <2>1. m + i \in 1 .. m + n /\ ~(m + i <= m) /\ (m + i) - m = i
    BY <1>5
  <2> QED
    BY <1>4, <2>1
<1>8. \A i \in 1 .. m + n : i > m => i - m \in 1 .. n /\ u[i] = t[i - m]
  BY <1>4, <1>5
<1> QED
  BY <1>2, <1>3, <1>6, <1>7, <1>8 DEF m, n, u

-----------------------------------------------------------------------------
(* Numbers in order.                                                        *)

\* A frame whose number a client sees.
Seen(f) == Responses!IsEvent(f) /\ f.payload.seq # -1

\* The numbers lie above low, reach no higher than high, and increase.
Ordered(frames, low, high) ==
    /\ IsSeq(frames)
    /\ \A i \in DOMAIN frames :
          Seen(frames[i]) => frames[i].payload.seq \in Int /\ low < frames[i].payload.seq
                                                          /\ frames[i].payload.seq <= high
    /\ \A i, j \in DOMAIN frames :
          i < j /\ Seen(frames[i]) /\ Seen(frames[j]) => frames[i].payload.seq < frames[j].payload.seq

LEMMA OrderedAppend ==
  ASSUME NEW frames, NEW low \in Int, NEW high \in Int, NEW top \in Int, low <= high, high <= top,
         Ordered(frames, low, high), NEW f,
         Seen(f) => f.payload.seq \in Int /\ high < f.payload.seq /\ f.payload.seq <= top
  PROVE  Ordered(Append(frames, f), low, top)
<1> DEFINE n == Len(frames)
           more == Append(frames, f)
<1>1. /\ n \in Nat /\ DOMAIN frames = 1 .. n /\ IsSeq(more) /\ DOMAIN more = 1 .. n + 1 /\ more[n + 1] = f
      /\ \A i \in 1 .. n : more[i] = frames[i]
  BY IsSeqOK, AppendOK DEF Ordered
<1> HIDE DEF n, more
<1>2. ASSUME NEW i \in 1 .. n + 1, Seen(more[i])
      PROVE  more[i].payload.seq \in Int /\ low < more[i].payload.seq /\ more[i].payload.seq <= top
  <2>1. CASE i = n + 1
    BY <1>1, <1>2, <2>1
  <2>2. CASE i # n + 1
    <3>1. i \in 1 .. n /\ more[i] = frames[i]
      BY <1>1, <2>2
    <3>2. frames[i].payload.seq \in Int /\ low < frames[i].payload.seq /\ frames[i].payload.seq <= high
      BY <1>1, <1>2, <3>1 DEF Ordered
    <3> QED
      BY <3>1, <3>2
  <2> QED
    BY <2>1, <2>2
<1>3. ASSUME NEW i \in 1 .. n + 1, NEW j \in 1 .. n + 1, i < j, Seen(more[i]), Seen(more[j])
      PROVE  more[i].payload.seq < more[j].payload.seq
  <2>1. i \in 1 .. n /\ more[i] = frames[i]
    BY <1>1, <1>3
  <2>2. CASE j = n + 1
    <3>1. frames[i].payload.seq \in Int /\ frames[i].payload.seq <= high
      BY <1>1, <1>3, <2>1 DEF Ordered
    <3>2. more[j].payload.seq \in Int /\ high < more[j].payload.seq
      BY <1>1, <1>3, <2>2
    <3> QED
      BY <2>1, <3>1, <3>2
  <2>3. CASE j # n + 1
    <3>1. j \in 1 .. n /\ more[j] = frames[j]
      BY <1>1, <2>3
    <3> QED
      BY <1>1, <1>3, <2>1, <3>1 DEF Ordered
  <2> QED
    BY <2>2, <2>3
<1> QED
  BY <1>1, <1>2, <1>3 DEF Ordered, more

LEMMA OrderedConcat ==
  ASSUME NEW s, NEW t, NEW low \in Int, NEW mid \in Int, NEW high \in Int, low <= mid, mid <= high,
         Ordered(s, low, mid), Ordered(t, mid, high)
  PROVE  Ordered(s \o t, low, high)
<1> DEFINE m == Len(s)
           n == Len(t)
           u == s \o t
<1>1. /\ m \in Nat /\ n \in Nat /\ DOMAIN s = 1 .. m /\ DOMAIN t = 1 .. n
      /\ IsSeq(u) /\ DOMAIN u = 1 .. m + n
      /\ \A i \in 1 .. m : u[i] = s[i]
      /\ \A i \in 1 .. m + n : i > m => i - m \in 1 .. n /\ u[i] = t[i - m]
  BY IsSeqOK, ConcatOK DEF Ordered
<1> HIDE DEF m, n, u
<1>2. ASSUME NEW i \in 1 .. m, Seen(u[i])
      PROVE  u[i].payload.seq \in Int /\ low < u[i].payload.seq /\ u[i].payload.seq <= mid
  BY <1>1, <1>2 DEF Ordered
<1>3. ASSUME NEW i \in 1 .. m + n, i > m, Seen(u[i])
      PROVE  u[i].payload.seq \in Int /\ mid < u[i].payload.seq /\ u[i].payload.seq <= high
  <2>1. i - m \in 1 .. n /\ u[i] = t[i - m]
    BY <1>1, <1>3
  <2> QED
    BY <1>1, <1>3, <2>1 DEF Ordered
<1>4. ASSUME NEW i \in 1 .. m + n, Seen(u[i])
      PROVE  u[i].payload.seq \in Int /\ low < u[i].payload.seq /\ u[i].payload.seq <= high
  <2>1. CASE i > m
    BY <1>3, <1>4, <2>1
  <2>2. CASE ~(i > m)
    <3>1. i \in 1 .. m
      BY <1>1, <2>2
    <3> QED
      BY <1>2, <1>4, <3>1
  <2> QED
    BY <2>1, <2>2
<1>5. ASSUME NEW i \in 1 .. m + n, NEW j \in 1 .. m + n, i < j, Seen(u[i]), Seen(u[j])
      PROVE  u[i].payload.seq < u[j].payload.seq
  <2>1. CASE j <= m
    <3>1. i \in 1 .. m /\ j \in 1 .. m /\ u[i] = s[i] /\ u[j] = s[j]
      BY <1>1, <1>5, <2>1
    <3> QED
      BY <1>1, <1>5, <3>1 DEF Ordered
  <2>2. CASE i <= m /\ j > m
    <3>1. i \in 1 .. m
      BY <1>1, <2>2
    <3> QED
      BY <1>2, <1>3, <1>5, <2>2, <3>1
  <2>3. CASE i > m
    <3>1. /\ i - m \in 1 .. n /\ u[i] = t[i - m] /\ j - m \in 1 .. n /\ u[j] = t[j - m]
          /\ i - m < j - m
      BY <1>1, <1>5, <2>3
    <3> QED
      BY <1>1, <1>5, <3>1 DEF Ordered
  <2> QED
    BY <1>1, <2>1, <2>2, <2>3
<1> QED
  BY <1>1, <1>4, <1>5 DEF Ordered, u

-----------------------------------------------------------------------------
(* The processor of a Responses stream.                                     *)

Fields == {"tail", "out", "demaskers", "trackers", "itemIDs", "outSeq", "done", "masked"}

\* What a processor has written since its number was low; it leaves the tail of
\* the last read alone.
Numbering(p, low, tail) ==
    /\ Fields \subseteq DOMAIN p /\ p.tail = tail
    /\ p.outSeq \in Int /\ low <= p.outSeq /\ Ordered(p.out, low, p.outSeq)

\* An event has a number or -1.
Typed(f) ==
    /\ {"lines", "valid", "payload"} \subseteq DOMAIN f
    /\ Responses!ClassifyFrame(f) = "event" => "seq" \in DOMAIN f.payload /\ f.payload.seq \in Int

LEMMA KeepsNumbering ==
  ASSUME NEW low, NEW tail, NEW p, Numbering(p, low, tail), NEW q,
         Fields \subseteq DOMAIN q, q.out = p.out, q.outSeq = p.outSeq, q.tail = p.tail
  PROVE  Numbering(q, low, tail)
  BY DEF Numbering

\* A frame that no client takes for a numbered event.
LEMMA WriteUnseen ==
  ASSUME NEW low \in Int, NEW tail, NEW p, Numbering(p, low, tail), NEW f, ~Seen(f)
  PROVE  Numbering(Responses!Write(p, f), low, tail)
<1> DEFINE q == Responses!Write(p, f)
<1>1. Fields \subseteq DOMAIN q /\ q.outSeq = p.outSeq /\ q.out = Append(p.out, f)
  BY DEF Numbering, Fields, Responses!Write
<1>2. p.outSeq \in Int /\ low <= p.outSeq /\ p.tail = tail /\ q.tail = p.tail
  BY DEF Numbering, Fields, Responses!Write
<1>3. Ordered(Append(p.out, f), low, p.outSeq)
  BY <1>2, OrderedAppend DEF Numbering
<1> HIDE DEF q
<1>4. Numbering(q, low, tail)
  BY <1>1, <1>2, <1>3 DEF Numbering
<1> QED
  BY <1>4 DEF q

\* A frame under a number that was not yet used.
LEMMA WriteNext ==
  ASSUME NEW low \in Int, NEW tail, NEW p, Numbering(p, low, tail), NEW n \in Int, n > p.outSeq, NEW f, f.payload.seq = n
  PROVE  Numbering(Responses!Write([p EXCEPT !.outSeq = n], f), low, tail)
<1> DEFINE q == Responses!Write([p EXCEPT !.outSeq = n], f)
<1>1. Fields \subseteq DOMAIN q /\ q.outSeq = n /\ q.out = Append(p.out, f)
  BY DEF Numbering, Fields, Responses!Write
<1>2. Ordered(Append(p.out, f), low, n)
  <2>1. p.outSeq \in Int /\ low <= p.outSeq /\ Ordered(p.out, low, p.outSeq) /\ p.outSeq <= n
    BY DEF Numbering
  <2> QED
    BY <2>1, OrderedAppend
<1>3. low <= n /\ p.tail = tail /\ q.tail = p.tail
  BY DEF Numbering, Fields, Responses!Write
<1> HIDE DEF q
<1>4. Numbering(q, low, tail)
  BY <1>1, <1>2, <1>3 DEF Numbering
<1> QED
  BY <1>4 DEF q

\* An event goes out under a number of its own.
LEMMA EmitEventDataOK ==
  ASSUME NEW low \in Int, NEW tail, NEW p, Numbering(p, low, tail), NEW f, "payload" \in DOMAIN f,
         "seq" \in DOMAIN f.payload, f.payload.seq \in Int
  PROVE  Numbering(Responses!EmitEventData(p, f), low, tail)
<1>1. CASE f.payload.seq = -1
  <2>1. ~Seen(f)
    BY <1>1 DEF Seen
  <2> QED
    BY <1>1, <2>1, WriteUnseen DEF Responses!EmitEventData
<1>2. CASE f.payload.seq # -1
  <2> DEFINE n == Responses!NextOutSeq(p, f.payload.seq)
             g == [f EXCEPT !.payload.seq = n]
  <2>1. n \in Int /\ n > p.outSeq
    BY DEF Responses!NextOutSeq, Numbering
  <2>2. Responses!EmitEventData(p, f) = Responses!Write([p EXCEPT !.outSeq = n], g)
    BY <1>2 DEF Responses!EmitEventData
  <2> HIDE DEF n
  <2>3. g.payload.seq = n
    OBVIOUS
  <2> HIDE DEF g
  <2> QED
    BY <2>1, <2>2, <2>3, WriteNext
<1> QED
  BY <1>1, <1>2

LEMMA EmitPatchedFrameOK ==
  ASSUME NEW low \in Int, NEW tail, NEW p, Numbering(p, low, tail), NEW f, "payload" \in DOMAIN f,
         "seq" \in DOMAIN f.payload, f.payload.seq \in Int, NEW text
  PROVE  Numbering(Responses!EmitPatchedFrame(p, f, text), low, tail)
<1> DEFINE g == [f EXCEPT !.payload.text = text]
<1>1. "payload" \in DOMAIN g /\ "seq" \in DOMAIN g.payload /\ g.payload.seq = f.payload.seq
  OBVIOUS
<1> HIDE DEF g
<1>2. Numbering(Responses!EmitEventData(p, g), low, tail)
  BY <1>1, EmitEventDataOK
<1> QED
  BY <1>2 DEF Responses!EmitPatchedFrame, g

LEMMA EmitSyntheticDeltaFrameOK ==
  ASSUME NEW low \in Int, NEW tail, NEW p, Numbering(p, low, tail), NEW key, NEW text
  PROVE  Numbering(Responses!EmitSyntheticDeltaFrame(p, key, text), low, tail)
<1>1. CASE text = <<>>
  BY <1>1 DEF Responses!EmitSyntheticDeltaFrame
<1>2. CASE text # <<>>
  <2>1. PICK f : /\ f.payload.seq = p.outSeq + 1
                 /\ Responses!EmitSyntheticDeltaFrame(p, key, text)
                      = Responses!Write([p EXCEPT !.outSeq = p.outSeq + 1], f)
    <3> DEFINE item == IF key \in DOMAIN p.itemIDs THEN p.itemIDs[key] ELSE ""
               e == [type |-> "delta", field |-> key.field, output |-> key.output, content |-> key.content,
                     item |-> item, seq |-> p.outSeq + 1, text |-> text, embedded |-> <<>>]
               f == Responses!Frame(<<"event", "data">>, e)
    <3>1. f.payload.seq = p.outSeq + 1
      BY DEF Responses!Frame
    <3>2. Responses!EmitSyntheticDeltaFrame(p, key, text) = Responses!Write([p EXCEPT !.outSeq = p.outSeq + 1], f)
      BY <1>2 DEF Responses!EmitSyntheticDeltaFrame
    <3> HIDE DEF f
    <3> QED
      BY <3>1, <3>2
  <2>2. p.outSeq + 1 \in Int /\ p.outSeq + 1 > p.outSeq
    BY DEF Numbering
  <2> QED
    BY <2>1, <2>2, WriteNext
<1> QED
  BY <1>1, <1>2

LEMMA SetPendingOK ==
  ASSUME NEW low \in Int, NEW tail, NEW p, Numbering(p, low, tail), NEW key, NEW text
  PROVE  Numbering(Responses!SetPending(p, key, text), low, tail)
<1>1. PICK v : Responses!SetPending(p, key, text) = [p EXCEPT !.demaskers = v]
  BY Zenon DEF Responses!SetPending
<1> DEFINE q == [p EXCEPT !.demaskers = v]
<1>2. Fields \subseteq DOMAIN q /\ q.out = p.out /\ q.outSeq = p.outSeq /\ q.tail = p.tail
  BY DEF Numbering, Fields
<1> HIDE DEF q
<1>3. Numbering(q, low, tail)
  BY <1>2, KeepsNumbering
<1> QED
  BY <1>1, <1>3 DEF q

LEMMA FlushKeyOK ==
  ASSUME NEW low \in Int, NEW tail, NEW p, Numbering(p, low, tail), NEW key, NEW env
  PROVE  Numbering(Responses!FlushKey(p, key, env), low, tail)
<1>1. CASE key \notin DOMAIN p.demaskers
  BY <1>1 DEF Responses!FlushKey
<1>2. CASE key \in DOMAIN p.demaskers
  <2>1. PICK d : Responses!FlushKey(p, key, env)
                   = Responses!EmitSyntheticDeltaFrame(Responses!SetPending(p, key, d.pending), key, d.emit)
    BY <1>2, Zenon DEF Responses!FlushKey
  <2> QED
    BY <2>1, SetPendingOK, EmitSyntheticDeltaFrameOK
<1> QED
  BY <1>1, <1>2

\* The demaskers are flushed one after the other.
LEMMA FlushAllRec ==
  ASSUME NEW p, NEW env, Len(env.order) \in Nat
  PROVE  \E f : /\ f[0] = p /\ Responses!FlushAll(p, env) = f[Len(env.order)]
                /\ \A k \in 1 .. Len(env.order) : f[k] = Responses!FlushKey(f[k - 1], env.order[k], env)
<1> DEFINE N == Len(env.order)
           step(x, n) == Responses!FlushKey(x, env.order[n], env)
           S == {m \in Nat : \E f : f = [n \in 0 .. m |-> IF n = 0 THEN p ELSE step(f[n - 1], n)]}
           c == CHOOSE f : f = [n \in 0 .. N |-> IF n = 0 THEN p ELSE step(f[n - 1], n)]
<1>0. N \in Nat /\ Responses!FlushAll(p, env) = c[N]
  BY DEF Responses!FlushAll
<1>1. 0 \in S
  <2> DEFINE f == [n \in 0 .. 0 |-> p]
  <2>1. f = [n \in 0 .. 0 |-> IF n = 0 THEN p ELSE step(f[n - 1], n)]
    <3> HIDE DEF step
    <3> QED
      OBVIOUS
  <2> HIDE DEF step, f
  <2> QED
    BY <2>1
<1>2. ASSUME NEW m \in Nat, m \in S PROVE m + 1 \in S
  <2> HIDE DEF step
  <2>1. PICK f : f = [n \in 0 .. m |-> IF n = 0 THEN p ELSE step(f[n - 1], n)]
    BY <1>2
  <2> DEFINE g == [n \in 0 .. m + 1 |-> IF n <= m THEN f[n] ELSE step(f[m], m + 1)]
  <2>2. ASSUME NEW n \in 0 .. m + 1 PROVE g[n] = IF n = 0 THEN p ELSE step(g[n - 1], n)
    <3>1. CASE n = 0
      BY <2>1, <3>1
    <3>2. CASE n = m + 1
      <4>1. g[n] = step(f[m], n) /\ n - 1 = m /\ g[m] = f[m] /\ n # 0
        BY <3>2
      <4> QED
        BY <4>1
    <3>3. CASE n # 0 /\ n # m + 1
      <4>1. n \in 0 .. m /\ n - 1 \in 0 .. m /\ g[n] = f[n] /\ g[n - 1] = f[n - 1]
        BY <3>3
      <4>2. f[n] = step(f[n - 1], n)
        BY <2>1, <3>3, <4>1
      <4> QED
        BY <3>3, <4>1, <4>2
    <3> QED
      BY <3>1, <3>2, <3>3
  <2>3. g = [n \in 0 .. m + 1 |-> g[n]]
    OBVIOUS
  <2> HIDE DEF g
  <2>4. g = [n \in 0 .. m + 1 |-> IF n = 0 THEN p ELSE step(g[n - 1], n)]
    BY <2>2, <2>3
  <2> QED
    BY <2>4
<1> HIDE DEF S
<1>3. N \in S
  BY <1>0, <1>1, <1>2, NatInductive
<1> HIDE DEF step, N
<1>4. c = [n \in 0 .. N |-> IF n = 0 THEN p ELSE step(c[n - 1], n)]
  BY <1>3 DEF S
<1> HIDE DEF c
<1>5. c[0] = p
  BY <1>0, <1>4
<1>6. ASSUME NEW k \in 1 .. N PROVE c[k] = step(c[k - 1], k)
  <2>1. k \in 0 .. N /\ k # 0
    BY <1>0
  <2> QED
    BY <1>4, <2>1
<1> QED
  BY <1>0, <1>5, <1>6 DEF step, N

LEMMA FlushAllOK ==
  ASSUME NEW low \in Int, NEW tail, NEW p, Numbering(p, low, tail), NEW env, Len(env.order) \in Nat
  PROVE  Numbering(Responses!FlushAll(p, env), low, tail)
<1>1. PICK f : /\ f[0] = p /\ Responses!FlushAll(p, env) = f[Len(env.order)]
               /\ \A k \in 1 .. Len(env.order) : f[k] = Responses!FlushKey(f[k - 1], env.order[k], env)
  BY FlushAllRec
<1> DEFINE N == Len(env.order)
           S == {k \in 0 .. N : Numbering(f[k], low, tail)}
<1>2. 0 \in S
  BY <1>1
<1>3. ASSUME NEW k \in 1 .. N, k - 1 \in S PROVE k \in S
  <2>1. k \in 0 .. N
    OBVIOUS
  <2>2. Numbering(Responses!FlushKey(f[k - 1], env.order[k], env), low, tail)
    BY <1>3, FlushKeyOK
  <2> QED
    BY <1>1, <2>1, <2>2
<1>4. 0 .. N \subseteq S
  <2> HIDE DEF S
  <2> QED
    BY <1>2, <1>3, IndexInduction
<1> QED
  BY <1>1, <1>4

-----------------------------------------------------------------------------
(* The handlers.                                                            *)

\* An event as the processors find it.
Event(f) == "payload" \in DOMAIN f /\ "seq" \in DOMAIN f.payload /\ f.payload.seq \in Int

LEMMA HandleDeltaOK ==
  ASSUME NEW low \in Int, NEW tail, NEW p, Numbering(p, low, tail), NEW f, Event(f), NEW env
  PROVE  Numbering(Responses!HandleDelta(p, f, env), low, tail)
<1>1. PICK named, q, d :
        /\ named = p \/ \E v : named = [p EXCEPT !.itemIDs = v]
        /\ \E u, v, w : q = [[[named EXCEPT !.demaskers = u] EXCEPT !.trackers = v] EXCEPT !.masked = w]
        /\ \/ Responses!HandleDelta(p, f, env) = Responses!EmitEventData(named, f)
           \/ Responses!HandleDelta(p, f, env) = q
           \/ Responses!HandleDelta(p, f, env) = Responses!EmitPatchedFrame(q, f, d)
  <2> QED
    BY Zenon DEF Responses!HandleDelta, Responses!SetPending
<1>2. Numbering(named, low, tail)
  <2>1. Fields \subseteq DOMAIN named /\ named.out = p.out /\ named.outSeq = p.outSeq /\ named.tail = p.tail
    BY <1>1 DEF Numbering, Fields
  <2> QED
    BY <2>1, KeepsNumbering
<1>3. Numbering(q, low, tail)
  <2>1. Fields \subseteq DOMAIN q /\ q.out = named.out /\ q.outSeq = named.outSeq /\ q.tail = named.tail
    BY <1>1, <1>2 DEF Numbering, Fields
  <2> QED
    BY <1>2, <2>1, KeepsNumbering
<1>4. Numbering(Responses!EmitEventData(named, f), low, tail)
  BY <1>2, EmitEventDataOK DEF Event
<1>5. Numbering(Responses!EmitPatchedFrame(q, f, d), low, tail)
  BY <1>3, EmitPatchedFrameOK DEF Event
<1> QED
  BY <1>1, <1>3, <1>4, <1>5

\* "done" of a field: the rest of its deltas comes first.
LEMMA HandleFieldDoneOK ==
  ASSUME NEW low \in Int, NEW tail, NEW p, Numbering(p, low, tail), NEW f, Event(f), NEW env
  PROVE  Numbering(Responses!HandleFieldDone(p, f, env), low, tail)
<1>1. PICK key, text : Responses!HandleFieldDone(p, f, env)
                         = Responses!EmitPatchedFrame(Responses!FlushKey(p, key, env), f, text)
  BY Zenon DEF Responses!HandleFieldDone
<1> QED
  BY <1>1, FlushKeyOK, EmitPatchedFrameOK DEF Event

LEMMA HandleContentPartDoneOK ==
  ASSUME NEW low \in Int, NEW tail, NEW p, Numbering(p, low, tail), NEW f, Event(f), NEW env
  PROVE  Numbering(Responses!HandleContentPartDone(p, f, env), low, tail)
<1>1. PICK text : Responses!HandleContentPartDone(p, f, env) = Responses!EmitPatchedFrame(p, f, text)
  BY Zenon DEF Responses!HandleContentPartDone
<1> QED
  BY <1>1, EmitPatchedFrameOK DEF Event

LEMMA PatchEmbeddedFieldsOK ==
  ASSUME NEW f, Event(f), NEW env
  PROVE  Event(Responses!PatchEmbeddedFields(f, env))
<1>1. PICK v : Responses!PatchEmbeddedFields(f, env) = [f EXCEPT !.payload.embedded = v]
  BY Zenon DEF Responses!PatchEmbeddedFields
<1> DEFINE g == [f EXCEPT !.payload.embedded = v]
<1>2. "payload" \in DOMAIN g /\ "seq" \in DOMAIN g.payload /\ g.payload.seq = f.payload.seq
  BY DEF Event
<1> HIDE DEF g
<1>3. Event(g)
  BY <1>2 DEF Event
<1> QED
  BY <1>1, <1>3 DEF g

LEMMA HandleItemDoneOK ==
  ASSUME NEW low \in Int, NEW tail, NEW p, Numbering(p, low, tail), NEW f, Event(f), NEW env
  PROVE  Numbering(Responses!HandleItemDone(p, f, env), low, tail)
<1> DEFINE g == Responses!PatchEmbeddedFields(f, env)
<1>1. Event(g)
  BY PatchEmbeddedFieldsOK
<1> HIDE DEF g
<1>2. Numbering(Responses!EmitEventData(p, g), low, tail)
  BY <1>1, EmitEventDataOK DEF Event
<1> QED
  BY <1>2 DEF g, Responses!HandleItemDone

\* All the rest of the deltas comes before the event that ends the response.
LEMMA FlushedAndDoneOK ==
  ASSUME NEW low \in Int, NEW tail, NEW p, Numbering(p, low, tail), NEW env, Len(env.order) \in Nat
  PROVE  Numbering([Responses!FlushAll(p, env) EXCEPT !.done = TRUE], low, tail)
<1> DEFINE q == Responses!FlushAll(p, env)
           r == [q EXCEPT !.done = TRUE]
<1>1. Numbering(q, low, tail)
  BY FlushAllOK
<1> HIDE DEF q
<1>2. Fields \subseteq DOMAIN r /\ r.out = q.out /\ r.outSeq = q.outSeq /\ r.tail = q.tail
  BY <1>1 DEF Numbering, Fields
<1> HIDE DEF r
<1>3. Numbering(r, low, tail)
  BY <1>1, <1>2, KeepsNumbering
<1> QED
  BY <1>3 DEF r, q

LEMMA HandleTerminalOK ==
  ASSUME NEW low \in Int, NEW tail, NEW p, Numbering(p, low, tail), NEW f, Event(f), NEW env, Len(env.order) \in Nat
  PROVE  Numbering(Responses!HandleTerminal(p, f, env), low, tail)
<1> DEFINE g == Responses!PatchEmbeddedFields(f, env)
           q == [Responses!FlushAll(p, env) EXCEPT !.done = TRUE]
<1>1. Event(g) /\ Numbering(q, low, tail)
  BY PatchEmbeddedFieldsOK, FlushedAndDoneOK
<1> HIDE DEF g, q
<1>2. Numbering(Responses!EmitEventData(q, g), low, tail)
  BY <1>1, EmitEventDataOK DEF Event
<1> QED
  BY <1>2 DEF g, q, Responses!HandleTerminal

LEMMA HandleEventFrameOK ==
  ASSUME NEW low \in Int, NEW tail, NEW p, Numbering(p, low, tail), NEW f, Event(f), NEW env, Len(env.order) \in Nat
  PROVE  Numbering(Responses!HandleEventFrame(p, f, env), low, tail)
<1>1. CASE ~f.valid
  <2>1. ~Seen(f)
    BY <1>1 DEF Seen, Responses!IsEvent
  <2> QED
    BY <1>1, <2>1, WriteUnseen DEF Responses!HandleEventFrame
<1>2. CASE f.valid
  <2>1. \/ Responses!HandleEventFrame(p, f, env) = Responses!HandleDelta(p, f, env)
        \/ Responses!HandleEventFrame(p, f, env) = Responses!HandleFieldDone(p, f, env)
        \/ Responses!HandleEventFrame(p, f, env) = Responses!HandleContentPartDone(p, f, env)
        \/ Responses!HandleEventFrame(p, f, env) = Responses!HandleItemDone(p, f, env)
        \/ Responses!HandleEventFrame(p, f, env) = Responses!HandleTerminal(p, f, env)
        \/ Responses!HandleEventFrame(p, f, env) = Responses!EmitEventData(p, f)
    BY <1>2, Zenon DEF Responses!HandleEventFrame
  <2>2. Numbering(Responses!EmitEventData(p, f), low, tail)
    BY EmitEventDataOK DEF Event
  <2> QED
    BY <2>1, <2>2, HandleDeltaOK, HandleFieldDoneOK, HandleContentPartDoneOK, HandleItemDoneOK, HandleTerminalOK, Zenon
<1> QED
  BY <1>1, <1>2

LEMMA ProcessFrameOK ==
  ASSUME NEW low \in Int, NEW tail, NEW p, Numbering(p, low, tail), NEW f, Typed(f), NEW env, Len(env.order) \in Nat
  PROVE  Numbering(Responses!ProcessFrame(p, f, env), low, tail)
<1> DEFINE kind == Responses!ClassifyFrame(f)
<1>0. kind \in {"done", "passthrough", "event"}
  BY Zenon DEF Responses!ClassifyFrame
<1>1. CASE kind = "done"
  <2>1. Responses!ProcessFrame(p, f, env) = Responses!Write([Responses!FlushAll(p, env) EXCEPT !.done = TRUE], f)
    <3> HIDE DEF kind
    <3>1. kind # "passthrough" /\ kind # "event"
      BY <1>1
    <3> QED
      BY <1>1, <3>1, Zenon DEF Responses!ProcessFrame, kind
  <2>2. ~Seen(f)
    BY <1>1 DEF Seen, Responses!IsEvent
  <2> QED
    BY <2>1, <2>2, FlushedAndDoneOK, WriteUnseen
<1>2. CASE kind = "passthrough"
  <2>1. Responses!ProcessFrame(p, f, env) = Responses!Write(p, f)
    <3> HIDE DEF kind
    <3>1. kind # "done" /\ kind # "event"
      BY <1>2
    <3> QED
      BY <1>2, <3>1, Zenon DEF Responses!ProcessFrame, kind
  <2>2. ~Seen(f)
    BY <1>2 DEF Seen, Responses!IsEvent
  <2> QED
    BY <2>1, <2>2, WriteUnseen
<1>3. CASE kind = "event"
  <2>1. Responses!ProcessFrame(p, f, env) = Responses!HandleEventFrame(p, f, env)
    <3> HIDE DEF kind
    <3>1. kind # "done" /\ kind # "passthrough"
      BY <1>3
    <3> QED
      BY <1>3, <3>1, Zenon DEF Responses!ProcessFrame, kind
  <2>2. Event(f)
    BY <1>3 DEF Typed, Event
  <2> QED
    BY <2>1, <2>2, HandleEventFrameOK
<1> QED
  BY <1>0, <1>1, <1>2, <1>3

-----------------------------------------------------------------------------
(* A chunk: its frames are split off, processed and the rest is kept.       *)

LEMMA ProcessFramesRec ==
  ASSUME NEW p, NEW frames, NEW env, Len(frames) \in Nat
  PROVE  \E f : /\ f[0] = p /\ Responses!ProcessFrames(p, frames, env) = f[Len(frames)]
                /\ \A k \in 1 .. Len(frames) : f[k] = Responses!ProcessFrame(f[k - 1], frames[k], env)
<1> DEFINE N == Len(frames)
           step(x, n) == Responses!ProcessFrame(x, frames[n], env)
           S == {m \in Nat : \E f : f = [n \in 0 .. m |-> IF n = 0 THEN p ELSE step(f[n - 1], n)]}
           c == CHOOSE f : f = [n \in 0 .. N |-> IF n = 0 THEN p ELSE step(f[n - 1], n)]
<1>0. N \in Nat /\ Responses!ProcessFrames(p, frames, env) = c[N]
  BY DEF Responses!ProcessFrames
<1>1. 0 \in S
  <2> DEFINE f == [n \in 0 .. 0 |-> p]
  <2>1. f = [n \in 0 .. 0 |-> IF n = 0 THEN p ELSE step(f[n - 1], n)]
    <3> HIDE DEF step
    <3> QED
      OBVIOUS
  <2> HIDE DEF step, f
  <2> QED
    BY <2>1
<1>2. ASSUME NEW m \in Nat, m \in S PROVE m + 1 \in S
  <2> HIDE DEF step
  <2>1. PICK f : f = [n \in 0 .. m |-> IF n = 0 THEN p ELSE step(f[n - 1], n)]
    BY <1>2
  <2> DEFINE g == [n \in 0 .. m + 1 |-> IF n <= m THEN f[n] ELSE step(f[m], m + 1)]
  <2>2. ASSUME NEW n \in 0 .. m + 1 PROVE g[n] = IF n = 0 THEN p ELSE step(g[n - 1], n)
    <3>1. CASE n = 0
      BY <2>1, <3>1
    <3>2. CASE n = m + 1
      <4>1. g[n] = step(f[m], n) /\ n - 1 = m /\ g[m] = f[m] /\ n # 0
        BY <3>2
      <4> QED
        BY <4>1
    <3>3. CASE n # 0 /\ n # m + 1
      <4>1. n \in 0 .. m /\ n - 1 \in 0 .. m /\ g[n] = f[n] /\ g[n - 1] = f[n - 1]
        BY <3>3
      <4>2. f[n] = step(f[n - 1], n)
        BY <2>1, <3>3, <4>1
      <4> QED
        BY <3>3, <4>1, <4>2
    <3> QED
      BY <3>1, <3>2, <3>3
  <2>3. g = [n \in 0 .. m + 1 |-> g[n]]
    OBVIOUS
  <2> HIDE DEF g
  <2>4. g = [n \in 0 .. m + 1 |-> IF n = 0 THEN p ELSE step(g[n - 1], n)]
    BY <2>2, <2>3
  <2> QED
    BY <2>4
<1> HIDE DEF S
<1>3. N \in S
  BY <1>0, <1>1, <1>2, NatInductive
<1> HIDE DEF step, N
<1>4. c = [n \in 0 .. N |-> IF n = 0 THEN p ELSE step(c[n - 1], n)]
  BY <1>3 DEF S
<1> HIDE DEF c
<1>5. c[0] = p
  BY <1>0, <1>4
<1>6. ASSUME NEW k \in 1 .. N PROVE c[k] = step(c[k - 1], k)
  <2>1. k \in 0 .. N /\ k # 0
    BY <1>0
  <2> QED
    BY <1>4, <2>1
<1> QED
  BY <1>0, <1>5, <1>6 DEF step, N

\* Frames as the processor gets them.
FramesOK(frames) == IsSeq(frames) /\ \A i \in DOMAIN frames : Typed(frames[i])

LEMMA ProcessFramesOK ==
  ASSUME NEW low \in Int, NEW tail, NEW p, Numbering(p, low, tail), NEW frames, FramesOK(frames),
         NEW env, Len(env.order) \in Nat
  PROVE  Numbering(Responses!ProcessFrames(p, frames, env), low, tail)
<1> DEFINE N == Len(frames)
<1>0. N \in Nat /\ \A k \in 1 .. N : Typed(frames[k])
  BY IsSeqOK DEF FramesOK
<1>1. PICK f : /\ f[0] = p /\ Responses!ProcessFrames(p, frames, env) = f[N]
               /\ \A k \in 1 .. N : f[k] = Responses!ProcessFrame(f[k - 1], frames[k], env)
  BY <1>0, ProcessFramesRec
<1> HIDE DEF N
<1> DEFINE S == {k \in 0 .. N : Numbering(f[k], low, tail)}
<1>2. 0 \in S
  BY <1>0, <1>1
<1>3. ASSUME NEW k \in 1 .. N, k - 1 \in S PROVE k \in S
  <2>1. k \in 0 .. N
    OBVIOUS
  <2>2. Numbering(Responses!ProcessFrame(f[k - 1], frames[k], env), low, tail)
    BY <1>0, <1>3, ProcessFrameOK
  <2> QED
    BY <1>1, <2>1, <2>2
<1>4. 0 .. N \subseteq S
  <2> HIDE DEF S
  <2> QED
    BY <1>0, <1>2, <1>3, IndexInduction
<1> QED
  BY <1>0, <1>1, <1>4

\* Pieces of frames: what is read and what is kept.
PiecesOK(ps) ==
    IsSeq(ps) /\ \A i \in DOMAIN ps : {"frame", "last"} \subseteq DOMAIN ps[i] /\ Typed(ps[i].frame)

LEMMA EmptyOK == IsSeq(<<>>) /\ Len(<<>>) = 0 /\ FramesOK(<<>>) /\ PiecesOK(<<>>)
<1>1. IsSeq(<<>>) /\ Len(<<>>) = 0 /\ DOMAIN <<>> = {}
  BY DEF IsSeq
<1> QED
  BY <1>1 DEF FramesOK, PiecesOK

LEMMA SingleOK ==
  ASSUME NEW e
  PROVE  IsSeq(<<e>>) /\ DOMAIN <<e>> = {1} /\ <<e>>[1] = e
<1>1. <<e>> \in Seq({e}) /\ Len(<<e>>) = 1 /\ <<e>>[1] = e
  OBVIOUS
<1> DEFINE s == <<e>>
<1>2. s \in Seq({e}) /\ Len(s) = 1 /\ s[1] = e
  BY <1>1
<1> HIDE DEF s
<1>3. IsSeq(s) /\ DOMAIN s = {1} /\ s[1] = e
  BY <1>2, SeqIsSeq
<1> QED
  BY <1>3 DEF s

\* The frames that are complete among pieces.
LEMMA SplitFramesRec ==
  ASSUME NEW pieces, Len(pieces) \in Nat
  PROVE  \E f : /\ f[0] = <<>> /\ Responses!SplitFrames(pieces).frames = f[Len(pieces)]
                /\ \A k \in 1 .. Len(pieces) :
                      f[k] = IF pieces[k].last THEN Append(f[k - 1], pieces[k].frame) ELSE f[k - 1]
<1> DEFINE N == Len(pieces)
           step(x, n) == IF pieces[n].last THEN Append(x, pieces[n].frame) ELSE x
           S == {m \in Nat : \E f : f = [n \in 0 .. m |-> IF n = 0 THEN <<>> ELSE step(f[n - 1], n)]}
           c == CHOOSE f : f = [n \in 0 .. N |-> IF n = 0 THEN <<>> ELSE step(f[n - 1], n)]
<1>0. N \in Nat /\ Responses!SplitFrames(pieces).frames = c[N]
  BY DEF Responses!SplitFrames
<1>1. 0 \in S
  <2> DEFINE f == [n \in 0 .. 0 |-> <<>>]
  <2>1. f = [n \in 0 .. 0 |-> IF n = 0 THEN <<>> ELSE step(f[n - 1], n)]
    <3> HIDE DEF step
    <3> QED
      OBVIOUS
  <2> HIDE DEF step, f
  <2> QED
    BY <2>1
<1>2. ASSUME NEW m \in Nat, m \in S PROVE m + 1 \in S
  <2> HIDE DEF step
  <2>1. PICK f : f = [n \in 0 .. m |-> IF n = 0 THEN <<>> ELSE step(f[n - 1], n)]
    BY <1>2
  <2> DEFINE g == [n \in 0 .. m + 1 |-> IF n <= m THEN f[n] ELSE step(f[m], m + 1)]
  <2>2. ASSUME NEW n \in 0 .. m + 1 PROVE g[n] = IF n = 0 THEN <<>> ELSE step(g[n - 1], n)
    <3>1. CASE n = 0
      BY <2>1, <3>1
    <3>2. CASE n = m + 1
      <4>1. g[n] = step(f[m], n) /\ n - 1 = m /\ g[m] = f[m] /\ n # 0
        BY <3>2
      <4> QED
        BY <4>1
    <3>3. CASE n # 0 /\ n # m + 1
      <4>1. n \in 0 .. m /\ n - 1 \in 0 .. m /\ g[n] = f[n] /\ g[n - 1] = f[n - 1]
        BY <3>3
      <4>2. f[n] = step(f[n - 1], n)
        BY <2>1, <3>3, <4>1
      <4> QED
        BY <3>3, <4>1, <4>2
    <3> QED
      BY <3>1, <3>2, <3>3
  <2>3. g = [n \in 0 .. m + 1 |-> g[n]]
    OBVIOUS
  <2> HIDE DEF g
  <2>4. g = [n \in 0 .. m + 1 |-> IF n = 0 THEN <<>> ELSE step(g[n - 1], n)]
    BY <2>2, <2>3
  <2> QED
    BY <2>4
<1> HIDE DEF S
<1>3. N \in S
  BY <1>0, <1>1, <1>2, NatInductive
<1> HIDE DEF step, N
<1>4. c = [n \in 0 .. N |-> IF n = 0 THEN <<>> ELSE step(c[n - 1], n)]
  BY <1>3 DEF S
<1> HIDE DEF c
<1>5. c[0] = <<>>
  BY <1>0, <1>4
<1>6. ASSUME NEW k \in 1 .. N PROVE c[k] = step(c[k - 1], k)
  <2>1. k \in 0 .. N /\ k # 0
    BY <1>0
  <2> QED
    BY <1>4, <2>1
<1> QED
  BY <1>0, <1>5, <1>6 DEF step, N

LEMMA SplitFramesOK ==
  ASSUME NEW ps, PiecesOK(ps)
  PROVE  FramesOK(Responses!SplitFrames(ps).frames) /\ PiecesOK(Responses!SplitFrames(ps).tail)
<1> DEFINE N == Len(ps)
<1>0. /\ N \in Nat /\ DOMAIN ps = 1 .. N
      /\ \A k \in 1 .. N : {"frame", "last"} \subseteq DOMAIN ps[k] /\ Typed(ps[k].frame)
  BY IsSeqOK DEF PiecesOK
<1>1. PICK f : /\ f[0] = <<>> /\ Responses!SplitFrames(ps).frames = f[N]
               /\ \A k \in 1 .. N : f[k] = IF ps[k].last THEN Append(f[k - 1], ps[k].frame) ELSE f[k - 1]
  BY <1>0, SplitFramesRec
<1>2. FramesOK(f[N])
  <2> HIDE DEF N
  <2> DEFINE S == {k \in 0 .. N : FramesOK(f[k])}
  <2>1. 0 \in S
    BY <1>0, <1>1, EmptyOK
  <2>2. ASSUME NEW k \in 1 .. N, k - 1 \in S PROVE k \in S
    <3>1. k \in 0 .. N /\ FramesOK(f[k - 1]) /\ Typed(ps[k].frame)
      BY <1>0, <2>2
    <3> DEFINE g == f[k - 1]
               x == ps[k].frame
    <3>2. FramesOK(g) /\ Typed(x) /\ f[k] \in {g, Append(g, x)}
      BY <1>1, <3>1
    <3> HIDE DEF g, x
    <3>3. FramesOK(Append(g, x))
      <4>1. /\ IsSeq(Append(g, x)) /\ DOMAIN Append(g, x) = 1 .. Len(g) + 1 /\ Append(g, x)[Len(g) + 1] = x
            /\ Len(g) \in Nat /\ DOMAIN g = 1 .. Len(g)
            /\ \A i \in 1 .. Len(g) : Append(g, x)[i] = g[i]
        BY <3>2, AppendOK, IsSeqOK DEF FramesOK
      <4> DEFINE h == Append(g, x)
                 n == Len(g)
      <4>2. /\ IsSeq(h) /\ DOMAIN h = 1 .. n + 1 /\ h[n + 1] = x /\ n \in Nat /\ DOMAIN g = 1 .. n
            /\ \A i \in 1 .. n : h[i] = g[i]
        BY <4>1
      <4> HIDE DEF h, n
      <4>3. \A i \in 1 .. n + 1 : i = n + 1 \/ i \in 1 .. n
        BY <4>2
      <4>4. FramesOK(h)
        BY <3>2, <4>2, <4>3 DEF FramesOK
      <4> QED
        BY <4>4 DEF h
    <3>4. FramesOK(f[k])
      BY <3>2, <3>3
    <3> QED
      BY <3>1, <3>4
  <2>3. 0 .. N \subseteq S
    <3> HIDE DEF S
    <3> QED
      BY <1>0, <2>1, <2>2, IndexInduction
  <2> QED
    BY <1>0, <2>3
<1>3. Responses!SplitFrames(ps).tail \in {<<>>, <<Responses!Last(ps)>>}
      /\ (ps = <<>> => Responses!SplitFrames(ps).tail = <<>>)
  BY DEF Responses!SplitFrames
<1>4. CASE ps = <<>>
  BY <1>1, <1>2, <1>3, <1>4, EmptyOK
<1>5. CASE ps # <<>>
  <2> DEFINE e == ps[N]
  <2>1. N \in 1 .. N
    <3>1. N # 0
      <4>1. ps \in Seq({ps[i] : i \in DOMAIN ps})
        BY DEF PiecesOK, IsSeq
      <4> QED
        BY <1>5, <4>1, EmptySeq
    <3> QED
      BY <1>0, <3>1
  <2>2. Responses!Last(ps) = e
    BY DEF Responses!Last
  <2>3. {"frame", "last"} \subseteq DOMAIN e /\ Typed(e.frame)
    BY <1>0, <2>1
  <2> HIDE DEF e
  <2>4. PiecesOK(<<e>>)
    BY <2>3, SingleOK DEF PiecesOK
  <2> QED
    BY <1>1, <1>2, <1>3, <2>2, <2>4, EmptyOK
<1> QED
  BY <1>4, <1>5

LEMMA TypedOfLines ==
  ASSUME NEW f, Typed(f)
  PROVE  Typed(Responses!Cut(f))
<1> DEFINE g == Responses!Cut(f)
<1>1. /\ {"lines", "valid", "payload"} \subseteq DOMAIN g /\ g.payload = f.payload /\ g.lines = f.lines
  BY DEF Typed, Responses!Cut
<1> HIDE DEF g
<1>2. Responses!ClassifyFrame(g) = Responses!ClassifyFrame(f)
  BY <1>1, Zenon DEF Responses!ClassifyFrame
<1>3. Typed(g)
  BY <1>1, <1>2 DEF Typed
<1> QED
  BY <1>3 DEF g

LEMMA PiecesConcat ==
  ASSUME NEW s, PiecesOK(s), NEW t, PiecesOK(t)
  PROVE  PiecesOK(s \o t)
<1> DEFINE m == Len(s)
           n == Len(t)
           u == s \o t
<1>1. /\ m \in Nat /\ n \in Nat /\ DOMAIN s = 1 .. m /\ DOMAIN t = 1 .. n /\ IsSeq(u) /\ DOMAIN u = 1 .. m + n
      /\ \A i \in 1 .. m : u[i] = s[i]
      /\ \A i \in 1 .. m + n : i > m => i - m \in 1 .. n /\ u[i] = t[i - m]
  BY IsSeqOK, ConcatOK DEF PiecesOK
<1> HIDE DEF m, n, u
<1>2. ASSUME NEW i \in 1 .. m + n PROVE {"frame", "last"} \subseteq DOMAIN u[i] /\ Typed(u[i].frame)
  <2>1. CASE i > m
    <3>1. i - m \in 1 .. n /\ u[i] = t[i - m]
      BY <1>1, <2>1
    <3> QED
      BY <1>1, <3>1 DEF PiecesOK
  <2>2. CASE ~(i > m)
    <3>1. i \in 1 .. m
      BY <1>1, <2>2
    <3>2. u[i] = s[i]
      BY <1>1, <3>1
    <3> QED
      BY <1>1, <3>1, <3>2 DEF PiecesOK
  <2> QED
    BY <2>1, <2>2
<1> QED
  BY <1>1, <1>2 DEF PiecesOK, u

LEMMA FramesConcat ==
  ASSUME NEW s, FramesOK(s), NEW t, FramesOK(t)
  PROVE  FramesOK(s \o t)
<1> DEFINE m == Len(s)
           n == Len(t)
           u == s \o t
<1>1. /\ m \in Nat /\ n \in Nat /\ DOMAIN s = 1 .. m /\ DOMAIN t = 1 .. n /\ IsSeq(u) /\ DOMAIN u = 1 .. m + n
      /\ \A i \in 1 .. m : u[i] = s[i]
      /\ \A i \in 1 .. m + n : i > m => i - m \in 1 .. n /\ u[i] = t[i - m]
  BY IsSeqOK, ConcatOK DEF FramesOK
<1> HIDE DEF m, n, u
<1>2. ASSUME NEW i \in 1 .. m + n PROVE Typed(u[i])
  <2>1. CASE i > m
    <3>1. i - m \in 1 .. n /\ u[i] = t[i - m]
      BY <1>1, <2>1
    <3> QED
      BY <1>1, <3>1 DEF FramesOK
  <2>2. CASE ~(i > m)
    <3>1. i \in 1 .. m
      BY <1>1, <2>2
    <3>2. u[i] = s[i]
      BY <1>1, <3>1
    <3> QED
      BY <1>1, <3>1, <3>2 DEF FramesOK
  <2> QED
    BY <2>1, <2>2
<1> QED
  BY <1>1, <1>2 DEF FramesOK, u

LEMMA PrepareFramesOK ==
  ASSUME NEW tail, PiecesOK(tail), NEW body, PiecesOK(body), NEW eos, NEW whole
  PROVE  LET in == Responses!PrepareFrames(tail, body, eos, whole)
         IN  FramesOK(in.frames) /\ PiecesOK(in.tail)
<1> DEFINE split == Responses!SplitFrames(tail \o body)
           frames == split.frames
           kept == split.tail
           rest == [i \in DOMAIN kept |-> IF whole THEN kept[i].frame ELSE Responses!Cut(kept[i].frame)]
           in == Responses!PrepareFrames(tail, body, eos, whole)
<1>1. FramesOK(frames) /\ PiecesOK(kept)
  <2> DEFINE ps == tail \o body
  <2>1. PiecesOK(ps)
    BY PiecesConcat
  <2> HIDE DEF ps
  <2>2. FramesOK(Responses!SplitFrames(ps).frames) /\ PiecesOK(Responses!SplitFrames(ps).tail)
    BY <2>1, SplitFramesOK
  <2> QED
    BY <2>2 DEF ps
<1>2. in = IF eos THEN [frames |-> frames \o rest, tail |-> <<>>] ELSE split
  BY DEF Responses!PrepareFrames
<1> HIDE DEF split
<1>3. FramesOK(rest)
  <2> HIDE DEF kept
  <2> DEFINE N == Len(kept)
             x(i) == IF whole THEN kept[i].frame ELSE Responses!Cut(kept[i].frame)
  <2>1. N \in Nat /\ DOMAIN kept = 1 .. N
    BY <1>1, IsSeqOK DEF PiecesOK
  <2>2. ASSUME NEW i \in 1 .. N PROVE Typed(x(i))
    <3>1. Typed(kept[i].frame)
      BY <1>1, <2>1, <2>2 DEF PiecesOK
    <3>2. Typed(Responses!Cut(kept[i].frame))
      BY <3>1, TypedOfLines
    <3> QED
      BY <3>1, <3>2
  <2>3. rest = [i \in 1 .. N |-> x(i)]
    BY <2>1
  <2> HIDE DEF x, rest, N
  <2>4. DOMAIN rest = 1 .. N /\ \A i \in 1 .. N : rest[i] = x(i)
    BY <2>3
  <2>5. rest \in [1 .. N -> {rest[i] : i \in DOMAIN rest}]
    BY <2>3, <2>4
  <2>6. IsSeq(rest)
    BY <2>1, <2>5, SeqDef DEF IsSeq
  <2> QED
    BY <2>2, <2>4, <2>6 DEF FramesOK
<1> HIDE DEF frames, kept, rest, in
<1>4. CASE eos
  <2>1. in.frames = frames \o rest /\ in.tail = <<>>
    BY <1>2, <1>4
  <2>2. FramesOK(frames \o rest)
    BY <1>1, <1>3, FramesConcat
  <2> QED
    BY <2>1, <2>2, EmptyOK DEF in
<1>5. CASE ~eos
  <2>1. in = split
    BY <1>2, <1>5
  <2> QED
    BY <1>1, <2>1 DEF frames, kept, in
<1> QED
  BY <1>4, <1>5

\* A processor between two reads.
Resting(p) == Fields \subseteq DOMAIN p /\ p.outSeq \in Int /\ PiecesOK(p.tail)

LEMMA ProcessChunkOK ==
  ASSUME NEW p, Resting(p), NEW body, PiecesOK(body), NEW eos, NEW env, Len(env.order) \in Nat
  PROVE  LET q == Responses!ProcessChunk(p, body, eos, env)
         IN  Resting(q) /\ p.outSeq <= q.outSeq /\ Ordered(q.out, p.outSeq, q.outSeq)
<1> DEFINE in == Responses!PrepareFrames(p.tail, body, eos, env.whole)
           start == [p EXCEPT !.tail = in.tail, !.out = <<>>]
           low == p.outSeq
           tail == in.tail
           mid == Responses!ProcessFrames(start, in.frames, env)
           q == Responses!FlushAtEnd(mid, eos, env)
<1>0. low \in Int /\ PiecesOK(p.tail)
  BY DEF Resting
<1>1. FramesOK(in.frames) /\ PiecesOK(tail)
  <2> DEFINE whole == env.whole
             before == p.tail
  <2>1. PiecesOK(before)
    BY <1>0
  <2> HIDE DEF before, whole
  <2>2. LET x == Responses!PrepareFrames(before, body, eos, whole) IN FramesOK(x.frames) /\ PiecesOK(x.tail)
    BY <2>1, PrepareFramesOK
  <2> QED
    BY <2>2 DEF before, whole
<1>2. Responses!ProcessChunk(p, body, eos, env) = q
  BY DEF Responses!ProcessChunk
<1> HIDE DEF in
<1>3. Numbering(start, low, tail)
  <2>1. /\ Fields \subseteq DOMAIN start /\ start.tail = tail /\ start.outSeq = low /\ start.out = <<>>
    BY DEF Resting, Fields
  <2>2. Ordered(<<>>, low, low)
    <3>1. IsSeq(<<>>) /\ DOMAIN <<>> = {}
      BY EmptyOK
    <3> QED
      BY <3>1 DEF Ordered
  <2> HIDE DEF start, low, tail
  <2> QED
    BY <1>0, <2>1, <2>2 DEF Numbering
<1> HIDE DEF start, low, tail
<1>4. Numbering(mid, low, tail)
  BY <1>0, <1>1, <1>3, ProcessFramesOK
<1> HIDE DEF mid
<1>5. Numbering(q, low, tail)
  BY <1>0, <1>4, FlushAllOK DEF Responses!FlushAtEnd
<1> HIDE DEF q
<1>6. Resting(q) /\ low <= q.outSeq /\ Ordered(q.out, low, q.outSeq)
  BY <1>1, <1>5 DEF Numbering, Resting
<1> QED
  BY <1>2, <1>6 DEF low

-----------------------------------------------------------------------------
(* The loop around the processor.                                           *)

\* The numbers that the client has read are below the ones that are free.
IInv ==
    /\ format \in Formats /\ script \in Scripts[format]
    /\ IsSeq(received)
    /\ format = "responses" => Resting(proc) /\ -1 <= proc.outSeq /\ Ordered(out, -1, proc.outSeq)

LEMMA InitIInv == Init => IInv
<1> SUFFICES ASSUME Init PROVE IInv
  OBVIOUS
<1>1. format \in Formats /\ script \in Scripts[format] /\ received = <<>> /\ out = <<>>
  BY DEF Init
<1>2. ASSUME format = "responses" PROVE proc = Responses!New
  BY <1>2, Zenon DEF Init, NewForFormat
<1>3. Resting(Responses!New) /\ Responses!New.outSeq = -1
  <2>1. Fields \subseteq DOMAIN Responses!New /\ Responses!New.outSeq = -1 /\ Responses!New.tail = <<>>
    BY DEF Fields, Responses!New
  <2> QED
    BY <2>1, EmptyOK DEF Resting
<1>4. IsSeq(<<>>) /\ Ordered(<<>>, -1, -1)
  <2>1. IsSeq(<<>>) /\ DOMAIN <<>> = {}
    BY EmptyOK
  <2> QED
    BY <2>1 DEF Ordered
<1> QED
  BY <1>1, <1>2, <1>3, <1>4 DEF IInv

\* What the upstream sends.
LEMMA NextFramesOK ==
  ASSUME IInv, format = "responses", NEW f \in NextFrames
  PROVE  Typed(f)
<1>1. PICK x \in script : f = Numbered(x, Len(received))
  BY DEF NextFrames
<1>2. /\ DOMAIN x = {"lines", "valid", "payload"}
      /\ ClassifyFrame(x) = "event" => "seq" \in DOMAIN x.payload /\ x.payload.seq \in Int
  BY RelayAssumption DEF IInv
<1>3. ClassifyFrame(x) = Responses!ClassifyFrame(x)
  BY Zenon DEF ClassifyFrame, Responses!ClassifyFrame, ToSet, Responses!ToSet
<1>4. {"lines", "valid", "payload"} \subseteq DOMAIN x
  BY <1>2
<1>5. CASE f = x
  BY <1>2, <1>3, <1>4, <1>5 DEF Typed
<1>6. CASE f # x
  <2> DEFINE n == Len(received)
             g == [x EXCEPT !.payload.seq = n]
  <2>1. f = g /\ ClassifyFrame(x) = "event"
    BY <1>1, <1>6 DEF Numbered
  <2>2. n \in Nat
    BY IsSeqOK DEF IInv
  <2> HIDE DEF n
  <2>3. /\ {"lines", "valid", "payload"} \subseteq DOMAIN g /\ g.lines = x.lines
        /\ "seq" \in DOMAIN g.payload /\ g.payload.seq = n
    BY <1>2, <1>4, <2>1
  <2> HIDE DEF g
  <2>4. Typed(g)
    BY <2>2, <2>3 DEF Typed
  <2> QED
    BY <2>1, <2>4
<1> QED
  BY <1>5, <1>6

LEMMA ReadsOK ==
  ASSUME IInv, format = "responses", NEW r \in Reads
  PROVE  PiecesOK(r.body)
<1> DEFINE rest == IF proc.tail = <<>> THEN <<>> ELSE <<[proc.tail[1] EXCEPT !.last = TRUE]>>
<1>1. PiecesOK(rest)
  <2>1. CASE proc.tail = <<>>
    BY <2>1, EmptyOK
  <2>2. CASE proc.tail # <<>>
    <3> DEFINE tail == proc.tail
               e == [tail[1] EXCEPT !.last = TRUE]
    <3>1. PiecesOK(tail) /\ tail # <<>>
      BY <2>2 DEF IInv, Resting
    <3> HIDE DEF tail
    <3>2. 1 \in DOMAIN tail
      <4>1. tail \in Seq({tail[i] : i \in DOMAIN tail})
        BY <3>1 DEF PiecesOK, IsSeq
      <4>2. Len(tail) \in Nat /\ Len(tail) # 0 /\ DOMAIN tail = 1 .. Len(tail)
        BY <3>1, <4>1, EmptySeq
      <4> QED
        BY <4>2
    <3>3. {"frame", "last"} \subseteq DOMAIN tail[1] /\ Typed(tail[1].frame)
      BY <3>1, <3>2 DEF PiecesOK
    <3>4. {"frame", "last"} \subseteq DOMAIN e /\ e.frame = tail[1].frame
      BY <3>3
    <3>5. rest = <<e>>
      BY <2>2 DEF tail
    <3> HIDE DEF e, rest
    <3> QED
      BY <3>3, <3>4, <3>5, SingleOK DEF PiecesOK
  <2> QED
    BY <2>1, <2>2
<1>2. ASSUME NEW f \in NextFrames, NEW n \in {1, 2} PROVE PiecesOK(SubSeq(Pieces(<<f>>), 1, n))
  <2> DEFINE one == <<f>>
             ps == Pieces(one)
             s == SubSeq(ps, 1, n)
  <2>1. Len(one) = 1 /\ one[1] = f
    OBVIOUS
  <2> HIDE DEF one
  <2>2. ps = [i \in 1 .. 2 |-> [frame |-> one[(i + 1) \div 2], last |-> i % 2 = 0]]
    BY <2>1 DEF Pieces
  <2>3. ASSUME NEW i \in 1 .. 2
        PROVE  i \in DOMAIN ps /\ {"frame", "last"} \subseteq DOMAIN ps[i] /\ ps[i].frame = f
    <3>1. (i + 1) \div 2 = 1
      OBVIOUS
    <3>2. i \in DOMAIN ps /\ ps[i] = [frame |-> one[(i + 1) \div 2], last |-> i % 2 = 0]
      BY <2>2, Zenon
    <3>3. {"frame", "last"} \subseteq DOMAIN ps[i] /\ ps[i].frame = one[(i + 1) \div 2]
      BY <3>2
    <3> HIDE DEF ps
    <3> QED
      BY <2>1, <3>1, <3>2, <3>3
  <2>4. ps \in Seq({ps[i] : i \in DOMAIN ps}) /\ Len(ps) = 2
    <3>1. DOMAIN ps = 1 .. 2 /\ ps = [i \in 1 .. 2 |-> ps[i]]
      BY <2>2, Zenon
    <3> HIDE DEF ps
    <3>2. ps \in [1 .. 2 -> {ps[i] : i \in DOMAIN ps}] /\ 2 \in Nat
      BY <3>1
    <3>3. ps \in Seq({ps[i] : i \in DOMAIN ps})
      BY <3>2, SeqDef
    <3> QED
      BY <3>1, <3>3
  <2> HIDE DEF ps
  <2>5. DOMAIN s = 1 .. n /\ s = [i \in 1 .. n |-> s[i]] /\ \A i \in 1 .. n : s[i] = ps[i]
    <3> DEFINE S == {ps[i] : i \in DOMAIN ps}
    <3>1. ps \in Seq(S) /\ 1 \in 1 .. Len(ps) + 1 /\ n \in 0 .. Len(ps)
      BY <2>4
    <3> HIDE DEF S
    <3>2. s \in Seq(S) /\ Len(s) = n /\ \A i \in 1 .. n : s[i] = ps[i]
      BY <2>4, <3>1
    <3> HIDE DEF s
    <3> QED
      BY <3>2
  <2> HIDE DEF s
  <2>6. IsSeq(s)
    <3>1. s \in [1 .. n -> {s[i] : i \in DOMAIN s}] /\ n \in Nat
      BY <2>5
    <3> QED
      BY <3>1, SeqDef DEF IsSeq
  <2>7. Typed(f)
    BY NextFramesOK
  <2>8. \A i \in 1 .. n : {"frame", "last"} \subseteq DOMAIN s[i] /\ s[i].frame = f
    BY <2>3, <2>5
  <2>9. PiecesOK(s)
    BY <2>5, <2>6, <2>7, <2>8 DEF PiecesOK
  <2> QED
    BY <2>9 DEF s, ps, one
<1>3. \/ r.body = rest
      \/ \E f \in NextFrames, n \in {1, 2} : r.body = rest \o SubSeq(Pieces(<<f>>), 1, n)
  <2> HIDE DEF rest
  <2>1. CASE \E x \in NextFrames \X {1, 2} :
               r = [body |-> rest \o SubSeq(Pieces(<<x[1]>>), 1, x[2]), frames |-> <<x[1]>>]
    <3>1. PICK x \in NextFrames \X {1, 2} :
               r = [body |-> rest \o SubSeq(Pieces(<<x[1]>>), 1, x[2]), frames |-> <<x[1]>>]
      BY <2>1
    <3>2. x[1] \in NextFrames /\ x[2] \in {1, 2}
      OBVIOUS
    <3>3. r.body = rest \o SubSeq(Pieces(<<x[1]>>), 1, x[2])
      BY <3>1
    <3> QED
      BY <3>2, <3>3
  <2>2. CASE r = [body |-> rest, frames |-> <<>>]
    BY <2>2
  <2> QED
    BY <2>1, <2>2 DEF Reads, rest
<1> HIDE DEF rest
<1> QED
  BY <1>1, <1>2, <1>3, PiecesConcat

LEMMA ReceivedOK ==
  ASSUME IInv, NEW r \in Reads
  PROVE  IsSeq(received \o r.frames)
<1>1. r.frames = <<>> \/ \E f : r.frames = <<f>>
  <2> DEFINE rest == IF proc.tail = <<>> THEN <<>> ELSE <<[proc.tail[1] EXCEPT !.last = TRUE]>>
             body(x) == rest \o SubSeq(Pieces(<<x[1]>>), 1, x[2])
  <2> HIDE DEF rest, body
  <2>1. \/ \E x \in NextFrames \X {1, 2} : r = [body |-> body(x), frames |-> <<x[1]>>]
        \/ r = [body |-> rest, frames |-> <<>>]
    BY DEF Reads, rest, body
  <2> QED
    BY <2>1
<1>2. IsSeq(r.frames)
  BY <1>1, EmptyOK, SingleOK
<1> QED
  BY <1>2, ConcatOK DEF IInv

\* Whichever scan fails, the processor goes on from the number it was at.
LEMMA CallOK ==
  ASSUME IInv, format = "responses", NEW body, PiecesOK(body), NEW eos, NEW whole,
         NEW c \in Call(body, eos, whole)
  PROVE  Resting(c.p) /\ proc.outSeq <= c.p.outSeq /\ Ordered(c.p.out, proc.outSeq, c.p.outSeq)
<1>1. PICK fails, order : order \in KeyOrders[format]
                          /\ c.p = ProcessChunk(proc, body, eos, Env(fails, order, whole))
  <2> DEFINE after(fails, order) == ProcessChunk(proc, body, eos, Env(fails, order, whole))
             failing == IF Len(failed) < MaxFails THEN Keys ELSE {}
  <2> HIDE DEF after, failing
  <2>1. PICK order \in KeyOrders[format] : c \in Outcomes(after({}, order), [k \in failing |-> after({k}, order)])
    BY DEF Call, after, failing
  <2>2. c.p = after({}, order) \/ \E k \in failing : c.p = after({k}, order)
    <3> DEFINE good == after({}, order)
               bad == [k \in failing |-> after({k}, order)]
    <3>1. DOMAIN bad = failing /\ \A k \in failing : bad[k] = after({k}, order)
      BY Zenon
    <3>2. c \in Outcomes(good, bad)
      BY <2>1
    <3> HIDE DEF good, bad
    <3>3. c.p = good \/ \E k \in DOMAIN bad : c.p = bad[k]
      BY <3>2 DEF Outcomes
    <3> QED
      BY <3>1, <3>3 DEF good
  <2> QED
    BY <2>2 DEF after
<1> DEFINE env == Env(fails, order, whole)
<1>2. Len(env.order) \in Nat
  <2>1. order \in Seq(ToSet(order))
    BY <1>1, RelayAssumption DEF IInv
  <2>2. Len(order) \in Nat
    BY <2>1
  <2> QED
    BY <2>2 DEF Env
<1> HIDE DEF env
<1>3. c.p = Responses!ProcessChunk(proc, body, eos, env)
  <2>1. format # "messages" /\ format # "chat" /\ format # "unknown"
    OBVIOUS
  <2> QED
    BY <1>1, <2>1, Zenon DEF ProcessChunk, env
<1>4. Resting(proc)
  BY DEF IInv
<1> QED
  BY <1>2, <1>3, <1>4, ProcessChunkOK

\* What a call writes continues what the client has read.
LEMMA ForwardOK ==
  ASSUME IInv, format = "responses", NEW c, Resting(c.p), proc.outSeq <= c.p.outSeq,
         Ordered(c.p.out, proc.outSeq, c.p.outSeq), Forward(c)
  PROVE  Resting(proc') /\ -1 <= proc'.outSeq /\ Ordered(out', -1, proc'.outSeq)
<1> DEFINE q == c.p
           n == proc.outSeq
<1>1. n \in Int /\ -1 <= n /\ Ordered(out, -1, n)
  BY DEF IInv, Resting
<1>2. Resting(q) /\ n <= q.outSeq /\ Ordered(q.out, n, q.outSeq) /\ q.outSeq \in Int
  BY DEF Resting
<1>3. proc' = [q EXCEPT !.out = <<>>] /\ out' = out \o q.out
  BY DEF Forward
<1> HIDE DEF q, n
<1>4. Fields \subseteq DOMAIN proc' /\ proc'.outSeq = q.outSeq /\ proc'.tail = q.tail
  BY <1>2, <1>3 DEF Resting, Fields
<1>5. Resting(proc')
  BY <1>2, <1>4 DEF Resting
<1>6. Ordered(out \o q.out, -1, q.outSeq)
  BY <1>1, <1>2, OrderedConcat
<1>7. -1 <= q.outSeq
  BY <1>1, <1>2
<1> QED
  BY <1>3, <1>4, <1>5, <1>6, <1>7

LEMMA AtEndOK ==
  ASSUME IInv, NEW whole
  PROVE  IsSeq(AtEnd(whole))
<1>1. AtEnd(whole) = received \/ AtEnd(whole) = [received EXCEPT ![Len(received)] = Cut(@)]
  BY DEF AtEnd
<1>2. IsSeq([received EXCEPT ![Len(received)] = Cut(@)])
  <2> DEFINE n == Len(received)
             s == [received EXCEPT ![n] = Cut(@)]
  <2>1. received \in Seq({received[i] : i \in DOMAIN received})
    BY DEF IInv, IsSeq
  <2>2. n \in Nat /\ DOMAIN received = 1 .. n
    BY <2>1
  <2> HIDE DEF n
  <2>3. received = [i \in 1 .. n |-> received[i]]
    BY <2>1, <2>2
  <2>4. DOMAIN s = 1 .. n /\ s = [i \in 1 .. n |-> s[i]]
    BY <2>2, <2>3
  <2> HIDE DEF s
  <2>5. s \in [1 .. n -> {s[i] : i \in DOMAIN s}]
    BY <2>4
  <2>6. IsSeq(s)
    BY <2>2, <2>5, SeqDef DEF IsSeq
  <2> QED
    BY <2>6 DEF s, n
<1> QED
  BY <1>1, <1>2 DEF IInv

LEMMA NextIInv == IInv /\ [Next]_vars => IInv'
<1> SUFFICES ASSUME IInv, [Next]_vars PROVE IInv'
  OBVIOUS
<1>1. CASE Read
  <2>1. PICK r \in Reads : /\ received' = received \o r.frames
                           /\ \E c \in Call(r.body, FALSE, FALSE) : Forward(c)
    BY <1>1 DEF Read
  <2>2. PICK c \in Call(r.body, FALSE, FALSE) : Forward(c)
    BY <2>1
  <2>3. format' = format /\ script' = script
    BY <1>1 DEF Read
  <2>4. IsSeq(received')
    BY <2>1, ReceivedOK
  <2>5. ASSUME format = "responses"
        PROVE  Resting(proc') /\ -1 <= proc'.outSeq /\ Ordered(out', -1, proc'.outSeq)
    <3>1. PiecesOK(r.body)
      BY <2>5, ReadsOK
    <3>2. Resting(c.p) /\ proc.outSeq <= c.p.outSeq /\ Ordered(c.p.out, proc.outSeq, c.p.outSeq)
      BY <2>2, <2>5, <3>1, CallOK
    <3> QED
      BY <2>2, <2>5, <3>2, ForwardOK
  <2> QED
    BY <2>3, <2>4, <2>5 DEF IInv, Formats
<1>2. CASE ReadEOF
  <2>1. PICK whole \in BOOLEAN : received' = AtEnd(whole) /\ \E c \in Call(<<>>, TRUE, whole) : Forward(c)
    BY <1>2 DEF ReadEOF
  <2>2. PICK c \in Call(<<>>, TRUE, whole) : Forward(c)
    BY <2>1
  <2>3. format' = format /\ script' = script
    BY <1>2 DEF ReadEOF
  <2>4. IsSeq(received')
    BY <2>1, AtEndOK
  <2>5. ASSUME format = "responses"
        PROVE  Resting(proc') /\ -1 <= proc'.outSeq /\ Ordered(out', -1, proc'.outSeq)
    <3>1. Resting(c.p) /\ proc.outSeq <= c.p.outSeq /\ Ordered(c.p.out, proc.outSeq, c.p.outSeq)
      BY <2>2, <2>5, EmptyOK, CallOK
    <3> QED
      BY <2>2, <2>5, <3>1, ForwardOK
  <2> QED
    BY <2>3, <2>4, <2>5 DEF IInv, Formats
<1>3. CASE UNCHANGED <<format, script, received, proc, out>>
  BY <1>3 DEF IInv, Formats
<1>4. CASE ReadError \/ ClientGone \/ WriteFails \/ Ended \/ UNCHANGED vars
  BY <1>3, <1>4 DEF ReadError, ClientGone, WriteFails, Ended, vars
<1> QED
  BY <1>1, <1>2, <1>4 DEF Next

THEOREM SequenceNumbersIncreaseCorrect == Spec => []SequenceNumbersIncrease
<1>1. IInv => SequenceNumbersIncrease
  <2> SUFFICES ASSUME IInv, format = "responses" PROVE SequenceNumbersIncrease
    BY DEF SequenceNumbersIncrease
  <2>1. Ordered(out, -1, proc.outSeq)
    BY DEF IInv
  <2> QED
    BY <2>1 DEF Ordered, Seen, SequenceNumbersIncrease
<1> QED
  BY InitIInv, NextIInv, <1>1, PTL DEF Spec
=============================================================================
