------------------------------ MODULE MCStores ------------------------------
EXTENDS Stores

CONSTANTS s1, s2, k1, k2, c1, c2, v1, v2, t1

Workload(uses, ids, retries, nanos, clock, rounds) ==
    [uses |-> uses, ids |-> ids, retries |-> retries,
     nanos |-> [id \in Ids |-> IF id \in ids THEN nanos[id] ELSE {}], clock |-> clock, rounds |-> rounds]

Never == [id \in Ids |-> {}]

\* Records 1 and 4 can tie in either of two microseconds, 2 and 3 in the third.
Spread == <<{0, 3}, {0, 5}, {2, 5}, {0, 3}>>

\* Records 1 and 3 tie behind the filtered 2 and 5, where the first round of a
\* call ends; 4 is older.
TieAtRound == <<{2}, {5}, {2}, {0}, {5}>>

MCWorkloads ==
    { Workload("masking", {1}, {}, Never, 3, 1),
      Workload("audit", {1, 2}, {1, 2}, [id \in Ids |-> {0, 3}], 2, 1),
      Workload("listing", 1..4, {}, Spread, 2, 1),
      Workload("listing", 1..4, {}, Spread, 2, 2),
      Workload("listing", 1..4, {3}, <<{2}, {5}, {0, 3, 5}, {2}>>, 0, 2),
      Workload("listing", 1..5, {}, TieAtRound, 0, 2),
      Workload("rules", {}, {}, Never, 0, 1) }

\* A walk over records one of which is written late.
LateWorkloads == { Workload("listing", 1..5, {}, TieAtRound, 0, 2) }
=============================================================================
