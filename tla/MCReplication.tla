--------------------------- MODULE MCReplication ---------------------------
(* Three servers.                                                           *)
EXTENDS Replication, TLC

CONSTANTS r1, r2, r3

Budget(writes, faults, pings, saves, waits, roles, crashes) ==
    [writes |-> writes, faults |-> faults, pings |-> pings, saves |-> saves,
     waits |-> waits, roles |-> roles, crashes |-> crashes, rewrites |-> 0, pauses |-> 0]

Alone == r1 :> NULL @@ r2 :> r1 @@ r3 :> NULL
Star == r1 :> NULL @@ r2 :> r1 @@ r3 :> r1
Chain == r1 :> NULL @@ r2 :> r1 @@ r3 :> r2

Run(host, clients, diskless, budget) ==
    [host |-> host, diskless |-> diskless, left |-> budget @@ [clients |-> clients]]

(* Each scenario lets one kind of thing happen often enough to meet itself: *)
(* lost links and a backlog that is too short, two slaves that want a save  *)
(* at the same time, a save to the sockets, a chain, a change of master, a  *)
(* server that restarts, clients that wait, a slave that is paused, a       *)
(* rewrite of the append only file in the way of a save.                    *)
Some ==
    {Run(Alone, {r1}, FALSE, Budget(2, 2, 0, 0, 0, 0, 0)),
     Run(Alone, {r1}, FALSE, Budget(1, 1, 1, 0, 0, 0, 0)),
     Run(Alone, {r1}, TRUE, Budget(2, 1, 0, 0, 0, 0, 0)),
     Run(Star, {r1}, FALSE, Budget(1, 0, 0, 1, 0, 0, 0)),
     Run(Star, {r1}, FALSE, Budget(1, 0, 0, 0, 1, 0, 0)),
     Run(Star, {r1}, TRUE, Budget(2, 0, 0, 0, 0, 0, 0)),
     Run(Chain, {r1}, FALSE, Budget(1, 1, 0, 0, 0, 0, 0)),
     Run(Chain, {r1}, FALSE, Budget(0, 0, 0, 0, 0, 0, 1)),
     Run(Alone, {r1, r2}, FALSE, Budget(1, 0, 0, 0, 0, 2, 0)),
     Run(Alone, {r1}, FALSE, Budget(2, 0, 0, 1, 0, 0, 1)),
     Run(Alone, {r1}, FALSE, Budget(1, 1, 0, 0, 1, 0, 0)),
     Run(Alone, {r1}, FALSE, [Budget(1, 0, 0, 0, 1, 0, 0) EXCEPT !.pauses = 1]),
     Run(Alone, {r1}, FALSE, [Budget(1, 1, 0, 0, 0, 0, 0) EXCEPT !.pauses = 1]),
     Run(Star, {r1}, FALSE, [Budget(1, 0, 0, 0, 0, 0, 0) EXCEPT !.rewrites = 1])}
============================================================================
