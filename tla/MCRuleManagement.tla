-------------------------- MODULE MCRuleManagement --------------------------
(* Two handlers on one replica (rules.cfg), or one handler and two replicas *)
(* of which the second learns of changes only through its refresh ticker    *)
(* (rules_converge.cfg).                                                    *)
EXTENDS RuleManagement, TLC
CONSTANTS p1, p2, r1, r2

OnFirstReplica == [p \in Callers |-> r1]

\* Handlers of one replica differ in nothing but their name.
InterchangeableHandlers == Permutations({p1, p2})
=============================================================================
