------------------------------- MODULE Clients -------------------------------
(* The event loop of a redis server and its clients: what they send is read *)
(* and executed, some of them wait, some are closed while others still      *)
(* refer to them.  The loop is one thread: phase says where it is.          *)
(*   events   file events, in any order, then at most one timer event       *)
(*   unblock  beforeSleep: processUnblockedClients                          *)
(*   write    beforeSleep: handleClientsWithPendingWrites                   *)
(* current is the client whose input is processed; while there are ready    *)
(* keys, the clients that wait for them are served first.                   *)
EXTENDS Blocked

(* A workload: the commands each client may send (cmds) and the bound of    *)
(* their number (max), the clients that connect later (late), the bound of  *)
(* timer events, closed connections and changes of role (ticks), what the   *)
(* sockets do with a write (writes) and whether one turn of the loop may    *)
(* find input of several clients (batch).                                   *)
CONSTANTS Workloads,
          MaxClients    \* maxclients

(* What a client may send: commands with the arguments they ask for.       *)
WriteCommands == {"rpush", "lpop", "blpop", "brpop", "brpoplpush", "set", "sortstore",
                  "del", "flushall"}
OtherCommands == {"multi", "exec", "discard", "watch", "unwatch", "subscribe", "unsubscribe",
                  "psubscribe", "punsubscribe", "publish", "kill", "reply", "pause", "ping",
                  "quit", "unknown"}
Arguments == Keys \cup Channels \cup Patterns \cup Clients \cup {"on", "off", "skip", NULL}
Request(cmd) ==
    /\ cmd.op \in {"rpush", "lpop", "set", "sortstore", "del", "watch"} => cmd.k \in Keys
    /\ cmd.op \in {"blpop", "brpop"} => cmd.ks # <<>>
    /\ cmd.op = "brpoplpush" => cmd.k \in Keys /\ cmd.arg \in Keys
    /\ cmd.op \in {"subscribe", "publish"} => cmd.arg \in Channels
    /\ cmd.op = "psubscribe" => cmd.arg \in Patterns
    /\ cmd.op = "kill" => cmd.arg \in Clients
    /\ cmd.op = "reply" => cmd.arg \in {"on", "off", "skip"}
Requests ==
    {cmd \in [op : WriteCommands \cup OtherCommands, k : Keys \cup {NULL}, ks : Seq(Keys),
              timeout : BOOLEAN, v : Nat, arg : Arguments] : Request(cmd)}

ASSUME ClientsAssumption ==
    /\ MaxClients \in Nat
    /\ IsFiniteSet(Clients)
    /\ \A w \in DOMAIN Workloads :
          /\ Workloads[w].late \subseteq Clients
          /\ \A c \in Clients : Workloads[w].cmds[c] \subseteq Requests
          /\ Workloads[w].max \in Nat /\ Workloads[w].ticks \in Nat
          /\ Workloads[w].writes \subseteq {"all", "some", "error"}

VARIABLES server,   \* struct redisServer
          phase, current,
          load, sent, ticks

vars == <<server, phase, current, load, sent, ticks>>

Live == {c \in Clients : server.cl[c].state = "open"}

Init ==
    /\ \E w \in DOMAIN Workloads : load = Workloads[w]
    /\ server = [cl |-> [c \in Clients |-> IF c \in load.late THEN NotYet ELSE createClient],
                 clients |-> SetToSeq(Clients \ load.late),
                 db |-> [k \in Keys |-> None], replica |-> [k \in Keys |-> None],
                 blocking_keys |-> [k \in Keys |-> <<>>],
                 watched_keys |-> [k \in Keys |-> <<>>],
                 ready_keys |-> <<>>, overwritten |-> {},
                 pubsub_channels |-> [ch \in Channels |-> <<>>], pubsub_patterns |-> <<>>,
                 unblocked_clients |-> <<>>, twice |-> {}, clients_pending_write |-> <<>>,
                 clients_to_close |-> <<>>, clients_paused |-> FALSE, pause_over |-> FALSE,
                 slave |-> FALSE, executing |-> FALSE, dirty |-> FALSE,
                 argv |-> Command]
    /\ phase = "events" /\ current = NULL
    /\ sent = 0 /\ ticks = 0

----------------------------------------------------------------------------

(* freeClient: whoever refers to the client forgets it.                    *)
freeClient(s, c) ==
    LET a == IF Has(s, c, "BLOCKED") THEN unblockClient(s, c) ELSE s
        b == unwatchAllKeys(a, c)
        d == pubsubUnsubscribeAllPatterns(pubsubUnsubscribeAllChannels(b, c), c)
        e == unlinkClient(d, c)
        f == IF Has(e, c, "CLOSE_ASAP")
             THEN [e EXCEPT !.clients_to_close = Without(@, c)] ELSE e
    IN [f EXCEPT !.cl[c] = Released(@)]

freeClientsInAsyncFreeQueue(s) ==
    LET freeing[n \in 0..Len(s.clients_to_close)] ==
            IF n = 0 THEN s ELSE freeClient(freeing[n - 1], s.clients_to_close[n])
    IN freeing[Len(s.clients_to_close)]

(* writeToClient: everything, a part, or an error.                         *)
Written(s, c, how) ==
    LET q == [s EXCEPT !.cl[c].pending = IF how = "all" THEN 0 ELSE @]
    IN IF how = "error" /\ s.cl[c].pending > 0 THEN freeClient(s, c)
       ELSE IF q.cl[c].pending > 0 THEN q
       ELSE IF Has(s, c, "CLOSE_AFTER_REPLY") THEN freeClient(q, c)
       ELSE [q EXCEPT !.cl[c].handler = FALSE]

----------------------------------------------------------------------------

(* CLIENT KILL of one client by its address: of itself after the reply.    *)
clientKill(s, c, target) ==
    IF s.cl[target].state # "open" THEN Answer(s, c)
    ELSE IF target = c THEN Set(Answer(s, c), c, "CLOSE_AFTER_REPLY")
    ELSE Answer(freeClient(s, target), c)

clientReply(s, c, mode) ==
    CASE mode = "on" -> Answer(Clear(s, c, {"REPLY_SKIP", "REPLY_OFF"}), c)
      [] mode = "off" -> [Set(s, c, "REPLY_OFF") EXCEPT !.cl[c].muted = TRUE]
      [] mode = "skip" -> [IF Has(s, c, "REPLY_OFF") THEN s ELSE Set(s, c, "REPLY_SKIP_NEXT")
                              EXCEPT !.cl[c].muted = TRUE]

clientPause(s, c, over) == Answer(pauseClients(s, over), c)

(* The command table.                                                      *)
Proc(s, c, cmd) ==
    CASE cmd.op = "rpush"        -> pushGenericCommand(s, c, cmd)
      [] cmd.op = "lpop"         -> popGenericCommand(s, c, cmd)
      [] cmd.op = "blpop"        -> blockingPopGenericCommand(s, c, cmd, "head")
      [] cmd.op = "brpop"        -> blockingPopGenericCommand(s, c, cmd, "tail")
      [] cmd.op = "brpoplpush"   -> brpoplpushCommand(s, c, cmd)
      [] cmd.op = "set"          -> setCommand(s, c, cmd)
      [] cmd.op = "sortstore"    -> sortStoreCommand(s, c, cmd)
      [] cmd.op = "del"          -> delCommand(s, c, cmd)
      [] cmd.op = "flushall"     -> flushallCommand(s, c, cmd)
      [] cmd.op = "multi"        -> multiCommand(s, c)
      [] cmd.op = "discard"      -> discardCommand(s, c)
      [] cmd.op = "watch"        -> watchCommand(s, c, cmd.k)
      [] cmd.op = "unwatch"      -> unwatchCommand(s, c)
      [] cmd.op = "subscribe"    -> subscribeCommand(s, c, cmd.arg)
      [] cmd.op = "unsubscribe"  -> unsubscribeCommand(s, c)
      [] cmd.op = "psubscribe"   -> psubscribeCommand(s, c, cmd.arg)
      [] cmd.op = "punsubscribe" -> punsubscribeCommand(s, c)
      [] cmd.op = "publish"      -> publishCommand(s, c, cmd.arg)
      [] cmd.op = "kill"         -> clientKill(s, c, cmd.arg)
      [] cmd.op = "reply"        -> clientReply(s, c, cmd.arg)
      [] cmd.op = "pause"        -> clientPause(s, c, cmd.timeout)
      [] cmd.op = "ping"         -> Answer(s, c)

(* A command that changed the data set is sent to the replicas as the      *)
(* command vector it left.                                                  *)
Propagated(s) ==
    IF s.dirty THEN [propagate(s, s.argv) EXCEPT !.dirty = FALSE, !.argv = Command]
    ELSE s

Executed(s, c, queued) ==
    LET run[n \in 0..Len(queued)] ==
            IF n = 0 THEN s ELSE Propagated(Proc(run[n - 1], c, queued[n]))
    IN run[Len(queued)]

(* EXEC runs what was queued unless a watched key was touched or a command *)
(* was refused when it was queued (multi.c).                               *)
execCommand(s, c) ==
    IF ~Has(s, c, "MULTI") THEN Answer(s, c)
    ELSE IF Has(s, c, "DIRTY_CAS") \/ Has(s, c, "DIRTY_EXEC")
    THEN discardTransaction(Answer(s, c), c)
    ELSE LET q == [unwatchAllKeys(Answer(s, c), c) EXCEPT
                     !.cl[c].broken = @ \/ s.cl[c].stale # {} \/ s.cl[c].refused,
                     !.executing = TRUE]
         IN discardTransaction([Executed(q, c, s.cl[c].mstate) EXCEPT !.executing = FALSE], c)

call(s, c, cmd) ==
    IF cmd.op = "exec" THEN execCommand(s, c) ELSE Propagated(Proc(s, c, cmd))

(* processCommand: QUIT, what is refused, what is queued, what is called.  *)
(* "unknown" stands for every refusal that flags the transaction (arity,   *)
(* NOAUTH, OOM, MISCONF, NOREPLICAS, a stale slave, a slow script), a write *)
(* at a read-only slave for those that do not (READONLY, LOADING).  The    *)
(* redirections of a cluster are the subject of Resharding.                *)
processCommand(s, c, cmd) ==
    LET q == [s EXCEPT !.cl[c].lastcmd = cmd.op]
    IN CASE cmd.op = "quit" -> Set(Answer(s, c), c, "CLOSE_AFTER_REPLY")
         [] cmd.op = "unknown" ->
              [Answer(flagTransaction(q, c), c) EXCEPT !.cl[c].refused = Has(q, c, "MULTI")]
         [] cmd.op \in WriteCommands /\ s.slave -> Answer(q, c)
         [] cmd.op # "unknown" /\ Has(q, c, "PUBSUB") /\ ~(cmd.op \in WriteCommands /\ s.slave)
            /\ cmd.op \notin {"quit", "ping", "subscribe", "unsubscribe", "psubscribe",
                              "punsubscribe"} -> Answer(q, c)
         [] OTHER ->
              IF Has(q, c, "MULTI") /\ cmd.op \notin {"exec", "discard", "multi", "watch"}
              THEN Answer(queueMultiCommand(q, c, cmd), c)
              ELSE call(q, c, cmd)

----------------------------------------------------------------------------

(* A blocked client goes on.                                              *)
StopsUnlessBlocked(s, c) ==
    s.cl[c].querybuf = <<>> \/ s.clients_paused \/ Has(s, c, "CLOSE_AFTER_REPLY")

(* The loop of processInputBuffer stops at a client that is paused,        *)
(* blocked or to be closed, and when the buffer is empty.                   *)
Stops(s, c) ==
    \/ s.cl[c].querybuf = <<>>
    \/ s.clients_paused
    \/ Has(s, c, "BLOCKED")
    \/ Has(s, c, "CLOSE_AFTER_REPLY")

Idle == phase = "events" /\ current = NULL

(* readQueryFromClient: one more command in the buffer of the client, that *)
(* processInputBuffer looks at next.                                        *)
readQueryFromClient(c, cmd) ==
    /\ Idle /\ c \in Live /\ sent < load.max
    /\ load.batch \/ server.unblocked_clients \o server.clients_pending_write = <<>>
    /\ server' = [server EXCEPT !.cl[c].querybuf =
                      Append(@, [cmd EXCEPT !.v = sent + 1])]
    /\ sent' = sent + 1
    /\ current' = c
    /\ UNCHANGED <<phase, load, ticks>>

(* The other end has closed the connection.                                *)
ReadClosed(c) ==
    /\ Idle /\ c \in Live /\ ticks < load.ticks
    /\ server' = freeClient(server, c)
    /\ ticks' = ticks + 1
    /\ UNCHANGED <<phase, current, load, sent>>

(* One client too many is closed again.                                    *)
acceptCommonHandler(c) ==
    /\ Idle /\ server.cl[c].state = "new"
    /\ server' = LET s == [server EXCEPT !.cl[c] = createClient, !.clients = Append(@, c)]
                 IN IF Len(s.clients) > MaxClients THEN freeClient(s, c) ELSE s
    /\ UNCHANGED <<phase, current, load, sent, ticks>>

(* One turn of the loop of processInputBuffer.                              *)
processInputBuffer ==
    /\ current # NULL /\ server.ready_keys = <<>>
    /\ LET c == current
           s == IF server.cl[c].querybuf = <<>> THEN server ELSE clientsArePaused(server)
           cmd == Head(s.cl[c].querybuf)
           q == processCommand([s EXCEPT !.cl[c].querybuf = Tail(@), !.cl[c].n = @ + 1], c, cmd)
       IN IF Stops(s, c)
          THEN server' = s /\ current' = NULL
          ELSE /\ server' = IF cmd.op = "quit" \/ q.ready_keys # <<>> THEN q
                            ELSE resetClient(q, c)
               /\ UNCHANGED current
    /\ UNCHANGED <<phase, load, sent, ticks>>

(* The clients blocked on the next ready key, before the command ends.     *)
ServeReady ==
    /\ server.ready_keys # <<>>
    /\ server' = LET q == handleClientsBlockedOnLists(server)
                 IN IF q.ready_keys = <<>> THEN resetClient(q, current) ELSE q
    /\ UNCHANGED <<phase, current, load, sent, ticks>>

(* The write handler of a client whose output did not fit before.          *)
sendReplyToClient(c, how) ==
    /\ Idle /\ c \in Live /\ server.cl[c].handler
    /\ server' = Written(server, c, how)
    /\ UNCHANGED <<phase, current, load, sent, ticks>>

----------------------------------------------------------------------------

(* clientsCron, over the clients from the last to the first: the expired   *)
(* ones stop waiting, the idle ones are closed.                             *)
clientsCronHandleTimeout(s, c, expired, idle) ==
    IF c \in idle /\ ~Has(s, c, "BLOCKED") /\ ~Has(s, c, "PUBSUB") THEN freeClient(s, c)
    ELSE IF c \in expired /\ Has(s, c, "BLOCKED") /\ s.cl[c].bpop.timeout
    THEN unblockClient(replyToBlockedClientTimedOut(s, c), c)
    ELSE s

clientsCron(s, expired, idle) ==
    LET l == Reverse(s.clients)
        seen[n \in 0..Len(l)] ==
            IF n = 0 THEN s ELSE clientsCronHandleTimeout(seen[n - 1], l[n], expired, idle)
    IN seen[Len(l)]

(* serverCron: the cached clock moves, so a pause may be over from here.   *)
serverCron(expired, idle, over) ==
    /\ Idle /\ ticks < load.ticks
    /\ LET s == clientsCron([server EXCEPT !.pause_over = @ \/ over], expired, idle)
       IN server' = clientsArePaused(freeClientsInAsyncFreeQueue(s))
    /\ server' # server
    /\ phase' = "unblock" /\ ticks' = ticks + 1
    /\ UNCHANGED <<current, load, sent>>

beforeSleep ==
    /\ Idle
    /\ phase' = IF server.unblocked_clients # <<>> THEN "unblock"
                ELSE IF server.clients_pending_write # <<>> THEN "write" ELSE "events"
    /\ UNCHANGED <<server, current, load, sent, ticks>>

(* The next of the unblocked clients.  One that has been freed is memory   *)
(* of somebody else: what the code does with it is not followed.           *)
processUnblockedClients ==
    /\ phase = "unblock" /\ current = NULL
    /\ IF server.unblocked_clients = <<>>
       THEN phase' = "write" /\ UNCHANGED <<server, current>>
       ELSE LET c == Head(server.unblocked_clients)
                s == Clear([server EXCEPT !.unblocked_clients = Tail(@)], c, {"UNBLOCKED"})
            IN /\ server' = s
               /\ current' = IF ~Has(s, c, "BLOCKED") /\ s.cl[c].querybuf # <<>> THEN c ELSE NULL
               /\ UNCHANGED phase
    /\ UNCHANGED <<load, sent, ticks>>

(* The next client with something to write, with a handler for the rest.   *)
handleClientsWithPendingWrites(how) ==
    /\ phase = "write"
    /\ IF server.clients_pending_write = <<>>
       THEN phase' = "events" /\ UNCHANGED server
       ELSE LET c == Head(server.clients_pending_write)
                s == Clear([server EXCEPT !.clients_pending_write = Tail(@)], c,
                           {"PENDING_WRITE"})
                q == Written(s, c, how)
            IN /\ server' = IF q.cl[c].pending > 0
                            THEN [q EXCEPT !.cl[c].handler = TRUE] ELSE q
               /\ UNCHANGED phase
    /\ UNCHANGED <<current, load, sent, ticks>>

(* replicationSetMaster and replicationUnsetMaster, as SLAVEOF or the      *)
(* cluster call them.                                                       *)
SlaveOf ==
    /\ Idle /\ ticks < load.ticks
    /\ server' = IF server.slave THEN [server EXCEPT !.slave = FALSE]
                 ELSE disconnectAllBlockedClients([server EXCEPT !.slave = TRUE])
    /\ ticks' = ticks + 1
    /\ UNCHANGED <<phase, current, load, sent>>

Next ==
    \/ \E c \in Clients : \E cmd \in load.cmds[c] : readQueryFromClient(c, cmd)
    \/ \E c \in Clients : ReadClosed(c) \/ acceptCommonHandler(c)
    \/ \E c \in Clients, how \in load.writes : sendReplyToClient(c, how)
    \/ processInputBuffer
    \/ ServeReady
    \/ \E expired, idle \in SUBSET Live, over \in BOOLEAN : serverCron(expired, idle, over)
    \/ beforeSleep
    \/ processUnblockedClients
    \/ \E how \in load.writes : handleClientsWithPendingWrites(how)
    \/ SlaveOf

Spec == Init /\ [][Next]_vars

----------------------------------------------------------------------------

(* Each list holds exactly the clients whose own state says so, each once. *)
Lists(l, S) == IsInjective(l) /\ ToSet(l) = S

(* The same, but for the clients in X, which may be there when they should *)
(* not be, or more than once.                                              *)
ListsBut(l, S, X) ==
    /\ S \subseteq ToSet(l)
    /\ ToSet(l) \subseteq S \cup X
    /\ \A i, j \in DOMAIN l : l[i] = l[j] => i = j \/ l[i] \in X

Flagged(f) == {c \in Live : Has(server, c, f)}

(* The tables agree with the clients: whoever watches, waits, subscribes,  *)
(* has output to write, is to be closed or was just unblocked is found     *)
(* once where the server looks for it, and a client that was freed is      *)
(* found nowhere (freeClient, unblockClient, unwatchAllKeys,               *)
(* pubsubUnsubscribeAll..., unlinkClient).  The exception: the end of a    *)
(* CLIENT PAUSE queues a client again that was just unblocked              *)
(* (networking.c:1900-1902), and unlinkClient removes it once.             *)
TablesAgree ==
    /\ Lists(server.clients, Live)
    /\ \A k \in Keys :
          /\ Lists(server.blocking_keys[k], {c \in Live : k \in server.cl[c].bpop.keys})
          /\ Lists(server.watched_keys[k], {c \in Live : Contains(server.cl[c].watched_keys, k)})
    /\ Flagged("BLOCKED") = {c \in Live : server.cl[c].bpop.keys # {}}
    /\ \A ch \in Channels :
          Lists(server.pubsub_channels[ch], {c \in Live : ch \in server.cl[c].channels})
    /\ Lists(server.pubsub_patterns,
             {e \in Live \X Patterns : Contains(server.cl[e[1]].patterns, e[2])})
    /\ Lists(server.clients_pending_write, Flagged("PENDING_WRITE"))
    /\ Lists(server.clients_to_close, Flagged("CLOSE_ASAP"))
    /\ ListsBut(server.unblocked_clients, Flagged("UNBLOCKED"), server.twice)

(* No client waits for a key that holds a list, once the command that put  *)
(* it there is over (handleClientsBlockedOnLists).  The one way around it  *)
(* is a list stored over another value: dbOverwrite signals nobody.        *)
NobodyMissesAList ==
    server.ready_keys = <<>> =>
        \A k \in Keys : server.db[k].t = "list" /\ server.blocking_keys[k] # <<>>
                            => k \in server.overwritten

(* Every command is answered once and in the order the client sent them,   *)
(* whatever it waited for in between and unless it asked for silence.      *)
AnsweredInOrder ==
    \A c \in Clients :
        LET cl == server.cl[c]
        IN /\ \A i \in 1..(Len(cl.answers) - 1) : cl.answers[i] < cl.answers[i + 1]
           /\ cl.state = "open" /\ ~cl.muted /\ "CLOSE_AFTER_REPLY" \notin cl.flags
              /\ "BLOCKED" \notin cl.flags => Len(cl.answers) = cl.n

(* No transaction ran although a key it watched had changed since WATCH or *)
(* one of its commands had been refused as unknown (execCommand).          *)
TransactionsAreIsolated == \A c \in Clients : ~server.cl[c].broken

(* What was propagated gives the same data set, the pops on behalf of      *)
(* blocked clients included.                                                *)
ReplicaAgrees == server.replica = server.db

=============================================================================
