------------------------------- MODULE Blocked -------------------------------
(* Blocking list operations: who waits for which key and how a push serves  *)
(* them (blocked.c and the second half of t_list.c), with the commands that *)
(* change the keys they wait for.                                           *)
EXTENDS Networking

(* The value of a key changes; the clients that watch it since before are  *)
(* remembered, for the property only.                                      *)
Write(s, k, val) ==
    LET since == IF val = s.db[k] THEN {} ELSE ToSet(s.watched_keys[k])
    IN [s EXCEPT !.cl = Overlay(@, [c \in since |-> [s.cl[c] EXCEPT !.stale = @ \cup {k}]]),
                 !.db[k] = val,
                 !.overwritten = IF val = None THEN @ \ {k} ELSE @]

signalModifiedKey(s, k) == touchWatchedKey(s, k)

(* A key that is already in the queue is not added twice.                  *)
signalListAsReady(s, k) ==
    IF s.blocking_keys[k] = <<>> \/ Contains(s.ready_keys, k) THEN s
    ELSE [s EXCEPT !.ready_keys = Append(@, k)]

(* Nobody is told that a list is there.                                    *)
dbAddUnsignalled(s, k, val) == Write(s, k, val)

dbAdd(s, k, val) ==
    LET q == Write(s, k, val)
    IN IF val.t = "list" THEN signalListAsReady(q, k) ELSE q

dbDelete(s, k) == Write(s, k, None)

(* dbOverwrite tells nobody that a list is there now; overwritten keeps it *)
(* for the property.                                                       *)
setKey(s, k, val) ==
    LET q == IF s.db[k] = None THEN dbAdd(s, k, val)
             ELSE [Write(s, k, val) EXCEPT
                      !.overwritten = IF val.t = "list" THEN @ \cup {k} ELSE @ \ {k}]
    IN signalModifiedKey(q, k)

listTypePush(val, v, where) ==
    List(IF where = "head" THEN <<v>> \o val.v ELSE Append(val.v, v))

listTypePop(val, where) ==
    List(IF where = "head" THEN Tail(val.v) ELSE Front(val.v))

Popped(val, where) == IF where = "head" THEN Head(val.v) ELSE Last(val.v)

(* A list that has become empty is removed with its key.                   *)
Keep(val) == IF val.v = <<>> THEN None ELSE val

----------------------------------------------------------------------------

PopOf(k, where) ==
    [Command EXCEPT !.op = IF where = "head" THEN "lpop" ELSE "rpop", !.k = k]

(* What a replica, or a server that loads the append only file, does with  *)
(* a command it is sent.                                                    *)
Replay(db, cmd) ==
    CASE cmd.op = "rpush" -> [db EXCEPT ![cmd.k] = listTypePush(@, cmd.v, "tail")]
      [] cmd.op = "lpush" -> [db EXCEPT ![cmd.k] = listTypePush(@, cmd.v, "head")]
      [] cmd.op = "lpop" -> [db EXCEPT ![cmd.k] = Keep(listTypePop(@, "head"))]
      [] cmd.op = "rpop" -> [db EXCEPT ![cmd.k] = Keep(listTypePop(@, "tail"))]
      [] cmd.op = "rpoplpush" ->
            LET v == Popped(db[cmd.k], "tail")
                d == [db EXCEPT ![cmd.k] = Keep(listTypePop(@, "tail"))]
            IN [d EXCEPT ![cmd.arg] = listTypePush(@, v, "head")]
      [] cmd.op = "set" -> [db EXCEPT ![cmd.k] = Str]
      [] cmd.op = "sortstore" -> [db EXCEPT ![cmd.k] = List(<<cmd.v>>)]
      [] cmd.op = "del" -> [db EXCEPT ![cmd.k] = None]
      [] cmd.op = "flushall" -> [k \in Keys |-> None]

propagate(s, cmd) == [s EXCEPT !.replica = Replay(@, cmd)]

----------------------------------------------------------------------------

blockClient(s, c) == Set(s, c, "BLOCKED")

blockForKeys(s, c, ks, target, timeout) ==
    LET new == ToSet(ks) \ s.cl[c].bpop.keys
    IN blockClient(
        [s EXCEPT !.blocking_keys = Overlay(@, [k \in new |-> Append(s.blocking_keys[k], c)]),
                  !.cl[c].bpop = [keys |-> @.keys \cup ToSet(ks), target |-> target,
                                  timeout |-> timeout]], c)

unblockClientWaitingData(s, c) ==
    [s EXCEPT !.blocking_keys =
                  Overlay(@, [k \in s.cl[c].bpop.keys |-> Without(s.blocking_keys[k], c)]),
              !.cl[c].bpop = createClient.bpop]

unblockClient(s, c) ==
    LET q == Clear(unblockClientWaitingData(s, c), c, {"BLOCKED"})
    IN IF Has(s, c, "UNBLOCKED") THEN q
       ELSE [Set(q, c, "UNBLOCKED") EXCEPT !.unblocked_clients = Append(@, c)]

replyToBlockedClientTimedOut(s, c) == Answer(s, c)

(* A master that becomes a slave lets its blocked clients go.              *)
Disconnected(s, c) ==
    IF Has(s, c, "BLOCKED")
    THEN Set(unblockClient(Answer(s, c), c), c, "CLOSE_AFTER_REPLY") ELSE s

disconnectAllBlockedClients(s) ==
    LET gone[n \in 0..Len(s.clients)] ==
            IF n = 0 THEN s ELSE Disconnected(gone[n - 1], s.clients[n])
    IN gone[Len(s.clients)]

----------------------------------------------------------------------------

(* Those who watch the destination are not told.                           *)
rpoplpushHandlePushUnsignalled(s, c, dst, v) ==
    LET q == IF s.db[dst] = None THEN dbAdd(s, dst, List(<<>>)) ELSE s
    IN Answer(Write(q, dst, listTypePush(q.db[dst], v, "head")), c)

rpoplpushHandlePush(s, c, dst, v) ==
    LET q == signalModifiedKey(
                 IF s.db[dst] = None THEN dbAdd(s, dst, List(<<>>)) ELSE s, dst)
    IN Answer(Write(q, dst, listTypePush(q.db[dst], v, "head")), c)

(* Serves one client that waited for k: FALSE in ok when the destination   *)
(* of its BRPOPLPUSH is not a list.                                         *)
serveClientBlockedOnList(s, c, k, dst, v, where) ==
    IF dst = NULL
    THEN [ok |-> TRUE,
          s |-> Answer(propagate(s, PopOf(k, where)), c)]
    ELSE IF s.db[dst].t = "string" THEN [ok |-> FALSE, s |-> Answer(s, c)]
    ELSE LET q == rpoplpushHandlePush(propagate(s, PopOf(k, "tail")), c, dst, v)
         IN [ok |-> TRUE, s |-> propagate(q, [Command EXCEPT !.op = "lpush", !.k = dst, !.v = v])]

(* The element is dropped when c can not use it.                           *)
ServeDrops(s, c, k) ==
    IF s.db[k].v = <<>> THEN s
    ELSE LET where == IF s.cl[c].lastcmd = "blpop" THEN "head" ELSE "tail"
             v == Popped(s.db[k], where)
             dst == s.cl[c].bpop.target
             q == unblockClient(Write(s, k, listTypePop(s.db[k], where)), c)
         IN serveClientBlockedOnList(q, c, k, dst, v, where).s

(* The next element of the list goes to c, and back when c can not use it. *)
Serve(s, c, k) ==
    IF s.db[k].v = <<>> THEN s
    ELSE LET where == IF s.cl[c].lastcmd = "blpop" THEN "head" ELSE "tail"
             v == Popped(s.db[k], where)
             dst == s.cl[c].bpop.target
             q == unblockClient(Write(s, k, listTypePop(s.db[k], where)), c)
             r == serveClientBlockedOnList(q, c, k, dst, v, where)
         IN IF r.ok THEN r.s ELSE Write(r.s, k, listTypePush(r.s.db[k], v, where))

(* One key of the ready list: the clients that wait for it now, from the   *)
(* one that blocked first, as far as its elements go.  What they push is   *)
(* put behind it in the ready list.                                         *)
handleClientsBlockedOnLists(s) ==
    LET k == Head(s.ready_keys)
        q == [s EXCEPT !.ready_keys = Tail(@)]
        waiting == q.blocking_keys[k]
        serving[n \in 0..Len(waiting)] ==
            IF n = 0 THEN q ELSE Serve(serving[n - 1], waiting[n], k)
        served == serving[Len(waiting)]
    IN IF q.db[k].t # "list" THEN q
       ELSE IF served.db[k].v = <<>> THEN dbDelete(served, k) ELSE served

----------------------------------------------------------------------------

(* Commands: dirty says whether the command is propagated, argv as what.   *)
Dirty(s, cmd) == [s EXCEPT !.dirty = TRUE, !.argv = cmd]

pushGenericCommand(s, c, cmd) ==
    IF s.db[cmd.k].t = "string" THEN Answer(s, c)
    ELSE LET q == IF s.db[cmd.k] = None THEN dbAdd(s, cmd.k, List(<<>>)) ELSE s
             r == Write(q, cmd.k, listTypePush(q.db[cmd.k], cmd.v, "tail"))
         IN Dirty(signalModifiedKey(Answer(r, c), cmd.k), cmd)

(* POP, as the client asked for it or as the blocking pop that need not    *)
(* wait becomes.                                                            *)
Pop(s, c, k, where) ==
    LET q == Answer(Write(s, k, Keep(listTypePop(s.db[k], where))), c)
    IN Dirty(signalModifiedKey(q, k),
             PopOf(k, where))

popGenericCommand(s, c, cmd) ==
    IF s.db[cmd.k].t # "list" THEN Answer(s, c) ELSE Pop(s, c, cmd.k, "head")

(* The first key that exists decides; in a transaction there is no waiting. *)
blockingPopGenericCommand(s, c, cmd, where) ==
    LET found == {i \in 1..Len(cmd.ks) : s.db[cmd.ks[i]] # None}
        k == cmd.ks[CHOOSE i \in found : \A j \in found : i <= j]
    IN IF found # {}
       THEN IF s.db[k].t # "list" THEN Answer(s, c) ELSE Pop(s, c, k, where)
       ELSE IF Has(s, c, "MULTI") THEN Answer(s, c)
       ELSE blockForKeys(s, c, cmd.ks, NULL, cmd.timeout)

rpoplpushCommand(s, c, cmd) ==
    IF s.db[cmd.arg].t = "string" THEN Answer(s, c)
    ELSE LET v == Popped(s.db[cmd.k], "tail")
             q == Write(s, cmd.k, listTypePop(s.db[cmd.k], "tail"))
             r == rpoplpushHandlePush(q, c, cmd.arg, v)
         IN Dirty(signalModifiedKey(Write(r, cmd.k, Keep(r.db[cmd.k])), cmd.k),
                  [cmd EXCEPT !.op = "rpoplpush"])

brpoplpushCommand(s, c, cmd) ==
    IF s.db[cmd.k] = None
    THEN IF Has(s, c, "MULTI") THEN Answer(s, c)
         ELSE blockForKeys(s, c, <<cmd.k>>, cmd.arg, cmd.timeout)
    ELSE IF s.db[cmd.k].t # "list" THEN Answer(s, c) ELSE rpoplpushCommand(s, c, cmd)

setCommand(s, c, cmd) == Dirty(Answer(setKey(s, cmd.k, Str), c), cmd)

(* SORT ... STORE of one element.                                          *)
sortStoreCommand(s, c, cmd) == Dirty(Answer(setKey(s, cmd.k, List(<<cmd.v>>)), c), cmd)

delCommand(s, c, cmd) ==
    IF s.db[cmd.k] = None THEN Answer(s, c)
    ELSE Dirty(Answer(signalModifiedKey(dbDelete(s, cmd.k), cmd.k), c), cmd)

emptyDb(s) ==
    [s EXCEPT !.cl = [c \in Clients |->
                         [s.cl[c] EXCEPT !.stale = @ \cup {k \in Keys :
                             s.db[k] # None /\ c \in ToSet(s.watched_keys[k])}]],
              !.db = [k \in Keys |-> None],
              !.overwritten = {}]

flushallCommand(s, c, cmd) == Dirty(Answer(emptyDb(touchWatchedKeysOnFlush(s)), c), cmd)

=============================================================================
