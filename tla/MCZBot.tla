------------------------------- MODULE MCZBot -------------------------------
(* Values for the constants of ZBot: two guilds with one server each, with  *)
(* and without redis, and one guild with two servers, where a configuration *)
(* can be incomplete; a job can be rejected.                                *)
EXTENDS ZBot, TLC

CONSTANTS g1, g2

MCGuild == {g1, g2}
MCJobs == {[id |-> 1, time |-> TRUE, text |-> TRUE, certain |-> FALSE]}
MCRcon == Guild \X (1..MaxServers) \X (1..MaxCalls)

Conf(f, e, s, b) == [form |-> f, enabled |-> e, servers |-> s, bad |-> b]

OneServer == {Conf("ok", TRUE, 1, 0), Conf("shapeless", FALSE, 0, 0)}
TwoServers == {Conf("ok", TRUE, 2, 0), Conf("ok", TRUE, 2, 2), Conf("unparsable", FALSE, 0, 0)}
OnOrOff == {Conf("ok", TRUE, 1, 0), Conf("ok", FALSE, 1, 0)}

\* config.js: enabled as delivered without redis, left to the panel with it.
Setup(gs, redis, configs, saves, n) ==
    [guilds |-> gs, redis |-> redis, default |-> Conf("ok", ~redis, 1, 0),
     configs |-> configs, saves |-> saves, calls |-> n]

MCSetups ==
    {Setup({g1, g2}, TRUE, OneServer, 1, 2), Setup({g1, g2}, FALSE, {}, 0, 2)}
        \cup {Setup({g}, TRUE, TwoServers, 2, 2) : g \in Guild}
        \cup {Setup({g}, TRUE, OnOrOff, 2, 3) : g \in Guild}

Symmetry == Permutations(Guild)
=============================================================================
