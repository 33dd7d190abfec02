----------------------------- MODULE MCCluster -----------------------------
(* Three masters and a slave of the first, where the first can fail; two    *)
(* masters and two slaves of the first, which compete; a slave that an     *)
(* operator makes a master with its master's help; two slaves that take     *)
(* over with the same epoch; two slaves of the only master with slots, in   *)
(* more than one attempt.                                                   *)
EXTENDS Cluster

Fails == [slaveof |-> <<0, 0, 0, 1>>, slots |-> <<1, 2, 3>>, unreachable |-> {1},
          links |-> {{1, 2}, {2, 3}, {2, 4}, {3, 4}}, crashing |-> {}, commands |-> {}, faults |-> 0, epochs |-> 4]
Competes == [slaveof |-> <<0, 0, 1, 1>>, slots |-> <<1, 2, 2>>, unreachable |-> {},
             links |-> {{1, 3}, {2, 3}, {1, 4}, {2, 4}}, crashing |-> {2}, commands |-> {"force"}, faults |-> 2, epochs |-> 3]
Manual == [slaveof |-> <<0, 0, 1, 2>>, slots |-> <<1, 2, 2>>, unreachable |-> {},
           links |-> {{1, 2}, {1, 3}, {2, 3}, {2, 4}}, crashing |-> {}, commands |-> {"failover"}, faults |-> 1, epochs |-> 3]
Takeover == [slaveof |-> <<0, 0, 1, 2>>, slots |-> <<1, 2, 2>>, unreachable |-> {},
             links |-> {{1, 2}, {1, 3}, {3, 4}}, crashing |-> {}, commands |-> {"takeover"}, faults |-> 2, epochs |-> 4]
Rivals == [slaveof |-> <<0, 1, 1, 1>>, slots |-> <<1, 1, 1>>, unreachable |-> {},
           links |-> {{1, 2}, {1, 3}}, crashing |-> {}, commands |-> {"force"}, faults |-> 2, epochs |-> 3]
MCLayouts == {Fails, Competes, Manual, Takeover, Rivals}
=============================================================================
