----------------------------- MODULE MCSettings -----------------------------
(* Two replicas with different environments and one API handler on each.    *)
EXTENDS Settings
CONSTANTS r1, r2, p1, p2

Home == [p \in Callers |-> IF p = p1 THEN r1 ELSE r2]

Setting(enabled, types, mode) == [enabled |-> enabled, types |-> types, mode |-> mode]

EnvOfEach == [r \in Replicas |-> IF r = r1 THEN Setting(TRUE, {"keys"}, "enforce")
                                          ELSE Setting(TRUE, {"keys", "ip"}, "detect")]
Legacy == {Setting(TRUE, {"ip"}, "legacy")}
Requests == {Setting(TRUE, {"keys", "ip"}, "enforce"), Setting(FALSE, {"ip"}, "detect")}
=============================================================================
