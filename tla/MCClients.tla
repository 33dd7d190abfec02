----------------------------- MODULE MCClients -----------------------------
(* Three clients, two keys, a channel and a pattern that matches it.  The   *)
(* workloads give each client the commands that meet in one subsystem.      *)
EXTENDS Clients

CONSTANTS c1, c2, c3, k1, k2, ch, pat

AnyMatch(p, c) == TRUE

Op(o) == [Command EXCEPT !.op = o]
On(o, k) == [Command EXCEPT !.op = o, !.k = k]
Wait(o, ks, t) == [Command EXCEPT !.op = o, !.ks = ks, !.timeout = t]
Move(k, dst) == [Command EXCEPT !.op = "brpoplpush", !.k = k, !.arg = dst]
With(o, arg) == [Command EXCEPT !.op = o, !.arg = arg]
Kill(c) == With("kill", c)
Reply(m) == With("reply", m)
Pause(over) == [Command EXCEPT !.op = "pause", !.timeout = over]

Some ==
    [lists |->
        [max |-> 4, batch |-> FALSE, ticks |-> 1, late |-> {}, writes |-> {"all"}, cmds |->
          (c1 :> {Wait("blpop", <<k1, k2>>, TRUE), On("set", k2)}) @@
          (c2 :> {Move(k1, k2), Wait("brpop", <<k2>>, FALSE)}) @@
          (c3 :> {On("rpush", k1), On("sortstore", k2), On("del", k2)})],
     transactions |->
        [max |-> 5, batch |-> FALSE, ticks |-> 0, late |-> {}, writes |-> {"all"}, cmds |->
          (c1 :> {On("watch", k1), Op("multi"), On("rpush", k1), Op("exec")}) @@
          (c2 :> {On("rpush", k2), On("lpop", k1), Op("flushall")}) @@
          (c3 :> {Move(k2, k1), On("rpush", k1)})],
     refusals |->
        [max |-> 4, batch |-> FALSE, ticks |-> 1, late |-> {c3}, writes |-> {"all"}, cmds |->
          (c1 :> {Op("multi"), Op("unknown"), On("rpush", k1), Op("exec"), Op("discard"),
                 Op("unwatch"), On("watch", k1)}) @@
          (c2 :> {Wait("blpop", <<k1>>, FALSE)}) @@
          (c3 :> {})],
     channels |->
        [max |-> 4, batch |-> FALSE, ticks |-> 1, late |-> {c3}, writes |-> {"all", "some", "error"}, cmds |->
          (c1 :> {With("subscribe", ch), With("psubscribe", pat), Op("unsubscribe"),
                 Op("punsubscribe")}) @@
          (c2 :> {With("publish", ch), Kill(c1)}) @@
          (c3 :> {With("psubscribe", pat)})],
     replies |->
        [max |-> 4, batch |-> FALSE, ticks |-> 1, late |-> {c3}, writes |-> {"all"}, cmds |->
          (c1 :> {Wait("blpop", <<k1>>, TRUE), Op("ping"), Op("quit"), Reply("skip")}) @@
          (c2 :> {On("rpush", k1), Reply("off"), Reply("on"), Op("ping")}) @@
          (c3 :> {})],
     pauses |->
        [max |-> 4, batch |-> TRUE, ticks |-> 1, late |-> {}, writes |-> {"all"}, cmds |->
          (c1 :> {Wait("blpop", <<k1>>, TRUE), Op("ping")}) @@
          (c2 :> {Kill(c1), Pause(FALSE)}) @@
          (c3 :> {Pause(TRUE), On("rpush", k1)})]]

=============================================================================
