----------------------------- MODULE MCSentinel -----------------------------
(* Two sentinels, both needed for a quorum, watch a master and two slaves with the same priority. *)
EXTENDS Sentinel

CONSTANTS s1, s2, m, a, b

MCSentinels == {s1, s2}
MCRedis == {m, a, b}
MCPriority == [r \in MCRedis |-> 100]
MCSymmetry == Permutations(MCSentinels) \cup Permutations({a, b})
=============================================================================
