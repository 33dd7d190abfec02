---------------------------- MODULE Replication ----------------------------
(* Replication between servers (replication.c, with the background saves of *)
(* rdb.c that feed it).  Every server is the whole program: it may be a     *)
(* master, a slave, or a slave with slaves of its own.                      *)
(*                                                                          *)
(* The data set is the sequence of the writes applied.  A command of the    *)
(* replication stream, a SELECT included, counts one in the offsets.  The   *)
(* backlog is the circular buffer of the code.  A connection is a pair of   *)
(* queues: what the slave has not read yet is lost when it breaks; an end   *)
(* that has not noticed keeps its state.                                    *)
EXTENDS Integers, FiniteSets, SequencesExt

CONSTANTS
    Nodes,          \* the servers
    DBs,            \* the databases, 0 is the one a new client starts in
    BacklogSize,    \* repl_backlog_size
    Scenarios,      \* who follows whom at first and how much may happen
    NULL

ASSUME BacklogAssumption == BacklogSize \in Nat \ {0}

VARIABLES
    srv,            \* the struct server of every node
    conn,           \* the connections, two for every slave: it may open one
                    \* while its old master has not noticed the end of the other
    left            \* how many writes, faults, ... are still to come

vars == <<srv, conn, left>>

Conns == Nodes \X {1, 2}

Closed == [open |-> FALSE, to |-> NULL, up |-> <<>>, down |-> <<>>]

Live(st, k) == st.conn[k].open

(* write() on a connection: nothing arrives once it is closed.              *)
Send(st, k, msgs) ==
    IF Live(st, k) THEN [st EXCEPT !.conn[k].down = @ \o msgs] ELSE st

SendUp(st, k, msg) ==
    IF Live(st, k) THEN [st EXCEPT !.conn[k].up = Append(@, msg)] ELSE st

(* The slave closes: what it has sent may still be read, and the reverse.   *)
SlaveCloses(st, k) == [st EXCEPT !.conn[k].open = FALSE, !.conn[k].down = <<>>]
MasterCloses(st, k) == [st EXCEPT !.conn[k].open = FALSE, !.conn[k].up = <<>>]

(* An end frees its descriptor.                                             *)
Held(st, k) ==
    \/ st.srv[k[1]].fd = k
    \/ \E n \in Nodes :
         \/ k \in st.srv[n].child.to
         \/ \E i \in DOMAIN st.srv[n].slaves : st.srv[n].slaves[i].conn = k

----------------------------------------------------------------------------
(* The messages.                                                            *)

Msg == [t |-> "none", runid |-> NULL, off |-> 0, db |-> 0, id |-> 0, data |-> <<>>, gen |-> 0]

FullResync(runid, off, gen) ==
    [Msg EXCEPT !.t = "fullresync", !.runid = runid, !.off = off, !.gen = gen]
Continue == [Msg EXCEPT !.t = "continue"]
Error == [Msg EXCEPT !.t = "error"]
Payload(data) == [Msg EXCEPT !.t = "rdb", !.data = data]
Psync(runid, off) == [Msg EXCEPT !.t = "psync", !.runid = runid, !.off = off]
Sync == [Msg EXCEPT !.t = "sync"]
Ack(off) == [Msg EXCEPT !.t = "ack", !.off = off]

(* What the stream is made of.                                              *)
Select(db) == [Msg EXCEPT !.t = "select", !.db = db]
Command(id) == [Msg EXCEPT !.t = "write", !.id = id]
Ping == [Msg EXCEPT !.t = "ping"]
GetAck == [Msg EXCEPT !.t = "getack"]

(* The data set after an entry of the stream, read with a database selected.*)
ApplyOne(at, m) ==
    CASE m.t = "select" -> [at EXCEPT !.db = m.db]
      [] m.t = "write" -> [at EXCEPT !.data = Append(@, <<at.db, m.id>>)]
      [] OTHER -> at

Apply(data, db, stream) == FoldLeft(ApplyOne, [data |-> data, db |-> db], stream)

----------------------------------------------------------------------------
(* The master: the backlog.                                                 *)

createReplicationBacklog(s) ==
    [s EXCEPT !.backlog = [buf |-> <<>>, idx |-> 0, histlen |-> 0, off |-> s.offset + 2],
              !.offset = @ + 1]

resizeReplicationBacklog(s) ==
    [s EXCEPT !.backlog = [buf |-> <<>>, idx |-> 0, histlen |-> 0, off |-> s.offset + 1]]

freeReplicationBacklog(s) == [s EXCEPT !.backlog = NULL]

(* The buffer is filled once and then overwritten from its start.           *)
feedReplicationBacklog(s, m) ==
    LET b == s.backlog
        histlen == IF b.histlen = BacklogSize THEN BacklogSize ELSE b.histlen + 1
    IN [s EXCEPT
          !.offset = @ + 1,
          !.backlog = [buf |-> IF b.idx < Len(b.buf) THEN [b.buf EXCEPT ![b.idx + 1] = m]
                               ELSE Append(b.buf, m),
                       idx |-> (b.idx + 1) % BacklogSize,
                       histlen |-> histlen,
                       off |-> (s.offset + 1) - histlen + 1]]

addReplyReplicationBacklog(s, offset) ==
    LET b == s.backlog
        skip == offset - b.off
        j == (b.idx + (BacklogSize - b.histlen) + skip) % BacklogSize
    IN IF b.histlen = 0 THEN <<>>
       ELSE [i \in 1..(b.histlen - skip) |-> b.buf[((j + i - 1) % BacklogSize) + 1]]

(* One entry goes to the backlog and to every slave that is not still       *)
(* waiting for a save to start; a slave that does not have its RDB file yet *)
(* finds it in its output buffer later.                                     *)
Feed(st, n, m) ==
    LET fed == IF st.srv[n].backlog = NULL THEN st
               ELSE [st EXCEPT !.srv[n] = feedReplicationBacklog(@, m)]
    IN FoldLeft(LAMBDA q, i :
                  LET c == q.srv[n].slaves[i] IN
                  CASE c.state = "wait_bgsave_start" -> q
                    [] c.state = "online" /\ ~c.onack -> Send(q, c.conn, <<m>>)
                    [] OTHER -> [q EXCEPT !.srv[n].slaves[i].out = Append(@, m)],
                fed, [i \in 1..Len(st.srv[n].slaves) |-> i])

replicationFeedSlaves(st, n, db, m) ==
    LET s == st.srv[n] IN
    IF s.backlog = NULL /\ s.slaves = <<>> THEN st
    ELSE Feed(IF s.seldb = db THEN st
              ELSE [Feed(st, n, Select(db)) EXCEPT !.srv[n].seldb = db], n, m)

----------------------------------------------------------------------------
(* The master: the clients that are slaves.                                 *)

Slave(k, pre) ==
    [conn |-> k, state |-> "wait_bgsave_start", out |-> <<>>, ack |-> 0, onack |-> FALSE,
     init |-> 0, pre |-> pre, file |-> <<>>]

Index(s, k) == CHOOSE i \in DOMAIN s.slaves : s.slaves[i].conn = k
IsSlave(s, k) == \E i \in DOMAIN s.slaves : s.slaves[i].conn = k

(* A child that writes to the socket has it open still: the slave notices   *)
(* nothing before the child ends.                                           *)
freeClient(st, n, k) ==
    LET q == [st EXCEPT !.srv[n].slaves = SelectSeq(@, LAMBDA c : c.conn # k)]
    IN IF k \in st.srv[n].child.to THEN q ELSE MasterCloses(q, k)

disconnectSlaves(st, n) ==
    FoldLeft(LAMBDA q, c : freeClient(q, n, c.conn), st, st.srv[n].slaves)

(* The writable event is back: what was kept goes out.                      *)
putSlaveOnline(st, n, k) ==
    LET i == Index(st.srv[n], k) IN
    Send([st EXCEPT !.srv[n].slaves[i] = [@ EXCEPT !.state = "online", !.onack = FALSE,
                                                   !.out = <<>>]],
         k, st.srv[n].slaves[i].out)

(* Creating the backlog will add one to the offset.                         *)
getPsyncInitialOffset(s) == s.offset + (IF s.backlog = NULL THEN 1 ELSE 0)

(* The stream goes on without naming the database.                          *)
replicationSetupSlaveForFullResyncNoSelect(st, n, k, off) ==
    LET i == Index(st.srv[n], k)
        q == [st EXCEPT !.srv[n].slaves[i] = [@ EXCEPT !.init = off, !.state = "wait_bgsave_end"]]
    IN IF st.srv[n].slaves[i].pre THEN q
       ELSE Send(q, k, <<FullResync(st.srv[n].runid, off, st.srv[n].gen)>>)

replicationSetupSlaveForFullResync(st, n, k, off) ==
    LET i == Index(st.srv[n], k)
        q == [st EXCEPT !.srv[n].slaves[i] = [@ EXCEPT !.init = off, !.state = "wait_bgsave_end"],
                        !.srv[n].seldb = -1]
    IN IF st.srv[n].slaves[i].pre THEN q
       ELSE Send(q, k, <<FullResync(st.srv[n].runid, off, st.srv[n].gen)>>)

Waiting(s) == SelectSeq(s.slaves, LAMBDA c : c.state = "wait_bgsave_start")

SetupWaiting(st, n) ==
    FoldLeft(LAMBDA q, c :
               replicationSetupSlaveForFullResync(q, n, c.conn, getPsyncInitialOffset(q.srv[n])),
             st, Waiting(st.srv[n]))

NoChild == [type |-> "none", data |-> <<>>, to |-> {}, done |-> FALSE]

(* fork(): the child has the data set of this moment.                       *)
rdbSaveBackground(st, n) ==
    [st EXCEPT !.srv[n].child = [NoChild EXCEPT !.type = "disk", !.data = st.srv[n].data]]

rdbSaveToSlavesSockets(st, n) ==
    LET to == {c.conn : c \in Range(Waiting(st.srv[n]))} IN
    [SetupWaiting(st, n) EXCEPT
        !.srv[n].child = [NoChild EXCEPT !.type = "socket", !.data = st.srv[n].data, !.to = to]]

(* The fork fails after the slaves have been told: they wait again.         *)
rdbSaveToSlavesSocketsFails(st, n) ==
    FoldLeft(LAMBDA q, c : [q EXCEPT !.srv[n].slaves[Index(q.srv[n], c.conn)].state =
                                        "wait_bgsave_start"],
             SetupWaiting(st, n), Waiting(st.srv[n]))

(* The save has not started: the waiting slaves are sent an error and are   *)
(* no slaves any more; the connection closes after the reply.               *)
BgsaveFailed(st, n) ==
    FoldLeft(LAMBDA q, c : freeClient(Send(q, c.conn, <<Error>>), n, c.conn),
             st, Waiting(st.srv[n]))

startBgsaveForReplication(st, n, forks) ==
    LET socket == st.srv[n].diskless IN
    CASE ~forks ->
           BgsaveFailed(IF socket THEN rdbSaveToSlavesSocketsFails(st, n) ELSE st, n)
      [] forks /\ socket -> rdbSaveToSlavesSockets(st, n)
      [] OTHER -> SetupWaiting(rdbSaveBackground(st, n), n)

(* Whether the backlog has what the slave misses.                           *)
Accepted(s, m) ==
    /\ m.runid = s.runid
    /\ s.backlog # NULL
    /\ m.off >= s.backlog.off
    /\ m.off <= s.backlog.off + s.backlog.histlen

masterTryPartialResynchronization(st, n, k, m) ==
    LET s == st.srv[n] IN
    Send([st EXCEPT !.srv[n].slaves = Append(@, [Slave(k, FALSE) EXCEPT !.state = "online"])],
         k, <<Continue>> \o addReplyReplicationBacklog(s, m.off))

copyClientOutputBuffer(st, n, k, src) ==
    [st EXCEPT !.srv[n].slaves[Index(st.srv[n], k)].out = src.out]

(* A full resynchronization: the slave joins a save on disk that another    *)
(* slave waits for, waits for the next one (or for the end of a rewrite of  *)
(* the append only file), or a save is started.  Every slave is this        *)
(* program and has told the same capabilities.                              *)
FullSync(st, n, k, m, forks) ==
    LET q == [st EXCEPT !.srv[n].slaves = Append(@, Slave(k, m.t = "sync"))]
        s == q.srv[n]
        ends == SelectSeq(s.slaves, LAMBDA c : c.state = "wait_bgsave_end")
        r == CASE s.child.type = "disk" /\ ends # <<>> ->
                    replicationSetupSlaveForFullResync(
                        copyClientOutputBuffer(q, n, k, ends[1]), n, k, ends[1].init)
               [] s.child.type = "none" /\ ~s.diskless -> startBgsaveForReplication(q, n, forks)
               [] OTHER -> q
    IN IF Len(r.srv[n].slaves) = 1 /\ r.srv[n].backlog = NULL
       THEN [r EXCEPT !.srv[n] = createReplicationBacklog(@)] ELSE r

syncCommand(st, n, k, m, forks) ==
    LET s == st.srv[n] IN
    CASE s.masterhost # NULL /\ s.state # "connected" -> Send(st, k, <<Error>>)
      [] m.t = "psync" /\ Accepted(s, m) -> masterTryPartialResynchronization(st, n, k, m)
      [] OTHER -> FullSync(st, n, k, m, forks)

(* REPLCONF ACK.                                                            *)
replconfCommand(st, n, k, m) ==
    LET i == Index(st.srv[n], k)
        q == [st EXCEPT !.srv[n].slaves[i].ack = IF m.off > @ THEN m.off ELSE @]
    IN IF ~IsSlave(st.srv[n], k) THEN st
       ELSE IF q.srv[n].slaves[i].onack /\ q.srv[n].slaves[i].state = "online"
            THEN putSlaveOnline(q, n, k) ELSE q

(* The RDB file is sent, then what was written since the fork.              *)
sendBulkToSlave(st, n, k) ==
    putSlaveOnline(Send(st, k, <<Payload(st.srv[n].slaves[Index(st.srv[n], k)].file)>>), n, k)

(* A slave that waits for the end of this save gets its file or is dropped; *)
(* those that came too late for it wait for the next, started here.         *)
updateSlavesWaitingBgsave(st, n, ok, type, file, forks) ==
    LET One(q, c) ==
          CASE c.state # "wait_bgsave_end" -> q
            [] type = "socket" ->
                 [q EXCEPT !.srv[n].slaves[Index(q.srv[n], c.conn)] =
                    [@ EXCEPT !.state = "online", !.onack = TRUE]]
            [] type = "disk" /\ ~ok -> freeClient(q, n, c.conn)
            [] OTHER ->
                 [q EXCEPT !.srv[n].slaves[Index(q.srv[n], c.conn)] =
                    [@ EXCEPT !.state = "send_bulk", !.file = file]]
        q == FoldLeft(One, st, st.srv[n].slaves)
    IN IF Waiting(st.srv[n]) = <<>> THEN q ELSE startBgsaveForReplication(q, n, forks)

backgroundSaveDoneHandlerDisk(st, n, ok, forks) ==
    LET file == IF ok THEN st.srv[n].child.data ELSE st.srv[n].rdb
    IN updateSlavesWaitingBgsave(
         [st EXCEPT !.srv[n].child = NoChild, !.srv[n].rdb = file], n, ok, "disk", file, forks)

(* The slaves the child could not write to are closed.  Those freed in the  *)
(* meantime lose their connection with the child.                           *)
backgroundSaveDoneHandlerSocket(st, n, ok, forks) ==
    LET s == st.srv[n]
        q == [st EXCEPT !.srv[n].child = NoChild]
        freed == SelectSeq(SetToSeq(s.child.to), LAMBDA k : ~IsSlave(s, k))
        bad == SelectSeq(s.slaves, LAMBDA c :
                           c.state = "wait_bgsave_end" /\ ~(ok /\ c.conn \in s.child.to))
        r == FoldLeft(MasterCloses, q, freed)
    IN updateSlavesWaitingBgsave(FoldLeft(LAMBDA u, c : freeClient(u, n, c.conn), r, bad),
                                 n, ok, "socket", <<>>, forks)

----------------------------------------------------------------------------
(* The slave.                                                               *)

replicationCreateMasterClient(s) ==
    [s EXCEPT !.state = "connected",
              !.master = [reploff |-> s.minit, runid |-> s.mrunid, gen |-> s.mgen, db |-> 0,
                          pre |-> s.minit = -1, buf |-> <<>>]]

replicationDiscardCachedMaster(s) == [s EXCEPT !.cached = NULL]

replicationResurrectCachedMaster(s) ==
    [s EXCEPT !.master = s.cached, !.cached = NULL, !.state = "connected"]

replicationHandleMasterDisconnection(s) ==
    [s EXCEPT !.master = NULL, !.state = "connect", !.fd = NULL]

(* freeClient of the master: it is kept for a partial resynchronization.    *)
replicationCacheMaster(st, n) ==
    LET s == [st.srv[n] EXCEPT !.cached = st.srv[n].master] IN
    SlaveCloses([st EXCEPT !.srv[n] = replicationHandleMasterDisconnection(s)], s.fd)

InHandshake(s) == s.state \in {"connecting", "receive_psync", "transfer"}

cancelReplicationHandshake(st, n) ==
    IF ~InHandshake(st.srv[n]) THEN st
    ELSE SlaveCloses([st EXCEPT !.srv[n].state = "connect", !.srv[n].fd = NULL], st.srv[n].fd)

connectWithMaster(st, n, k) ==
    [st EXCEPT !.srv[n].state = "connecting", !.srv[n].fd = k,
               !.conn[k] = [Closed EXCEPT !.open = TRUE, !.to = st.srv[n].masterhost]]

slaveTryPartialResynchronization(st, n) ==
    LET c == st.srv[n].cached IN
    SendUp([st EXCEPT !.srv[n].minit = -1], st.srv[n].fd,
           IF c = NULL THEN Psync(NULL, -1) ELSE Psync(c.runid, c.reploff + 1))

(* PING, AUTH, REPLCONF listening-port, ip-address and capa: each waits for *)
(* its reply and changes nothing but the state, and a failure of any of     *)
(* them is a failure of the connection.  Then PSYNC is sent.                *)
syncWithMasterHandshake(st, n) ==
    [slaveTryPartialResynchronization(st, n) EXCEPT !.srv[n].state = "receive_psync"]

(* The answer to PSYNC.                                                     *)
PsyncReply(s, m) ==
    CASE m.t = "continue" -> replicationResurrectCachedMaster(s)
      [] m.t = "fullresync" ->
           replicationDiscardCachedMaster(
             [s EXCEPT !.mrunid = m.runid, !.minit = m.off, !.mgen = m.gen])
      [] OTHER -> replicationDiscardCachedMaster(s)

(* Its own slaves are left alone.                                           *)
syncWithMasterReplyKeeps(st, n, m) ==
    LET q == [st EXCEPT !.srv[n] = PsyncReply(@, m)]
        r == [q EXCEPT !.srv[n] = [freeReplicationBacklog(@) EXCEPT !.state = "transfer"]]
    IN CASE m.t = "continue" -> q
         [] m.t = "fullresync" -> r
         [] OTHER -> SendUp(r, st.srv[n].fd, Sync)

(* Unless the master continues, the slaves of this slave have to            *)
(* resynchronize too; a master that refuses PSYNC is asked with SYNC.       *)
syncWithMasterReply(st, n, m) ==
    LET q == [st EXCEPT !.srv[n] = PsyncReply(@, m)]
        r == [disconnectSlaves(q, n) EXCEPT
                !.srv[n] = [freeReplicationBacklog(@) EXCEPT !.state = "transfer"]]
    IN CASE m.t = "continue" -> q
         [] m.t = "fullresync" -> r
         [] OTHER -> SendUp(r, st.srv[n].fd, Sync)

Seen(s) == [s EXCEPT !.seen = @ \cup {w[2] : w \in Range(s.data)}]

(* The RDB file replaces the data set and the file of the slave.            *)
readSyncBulkPayload(st, n, m) ==
    IF m.t # "rdb" THEN cancelReplicationHandshake(st, n)
    ELSE [st EXCEPT !.srv[n] =
            replicationCreateMasterClient(Seen([@ EXCEPT !.data = m.data, !.rdb = m.data]))]

(* Also a cron tick's, every second.                                        *)
replicationSendAck(st, n) == SendUp(st, st.srv[n].fd, Ack(st.srv[n].master.reploff))

(* An entry of the stream is executed; a write is passed on.                *)
Execute(st, n, m) ==
    LET s == st.srv[n] IN
    CASE m.t = "select" -> [st EXCEPT !.srv[n].master.db = m.db]
      [] m.t = "write" ->
           replicationFeedSlaves(
             [st EXCEPT !.srv[n] = Seen([@ EXCEPT !.data = Append(@, <<s.master.db, m.id>>)])],
             n, s.master.db, Command(m.id))
      [] m.t = "getack" -> replicationSendAck(st, n)
      [] OTHER -> st

(* All that is in the query buffer of the master is executed.               *)
processInputBuffer(st, n) ==
    FoldLeft(LAMBDA q, m : Execute(q, n, m),
             [st EXCEPT !.srv[n].master.buf = <<>>], st.srv[n].master.buf)

(* The offset counts what has been read, although a server whose clients    *)
(* are paused does not execute it yet.                                      *)
ReadStream(st, n, m) ==
    LET q == [st EXCEPT !.srv[n].master = [@ EXCEPT !.reploff = @ + 1, !.buf = Append(@, m)]]
    IN IF ~st.srv[n].paused THEN processInputBuffer(q, n)
       ELSE [q EXCEPT !.srv[n].seen = IF m.t = "write" THEN @ \cup {m.id} ELSE @]

(* Everything this server knew of its master is dropped, and so are its own *)
(* slaves.  gen counts, for the properties, how often the offsets of this   *)
(* server have started again.                                               *)
replicationSetMaster(st, n, m) ==
    LET q == IF st.srv[n].master # NULL THEN replicationCacheMaster(st, n) ELSE st
        r == cancelReplicationHandshake(disconnectSlaves(q, n), n)
    IN [r EXCEPT !.srv[n] =
          [freeReplicationBacklog(replicationDiscardCachedMaster(@)) EXCEPT
              !.masterhost = m, !.state = "connect", !.offset = 0, !.gen = @ + 1,
              !.waiters = <<>>]]

replicationUnsetMaster(st, n) ==
    LET s == st.srv[n]
        alone == s.master # NULL /\ s.slaves = <<>>
        q == IF alone
             THEN [st EXCEPT !.srv[n] = [freeReplicationBacklog(@) EXCEPT
                                            !.offset = s.master.reploff, !.gen = @ + 1]]
             ELSE st
        r == IF s.master # NULL THEN replicationCacheMaster(q, n) ELSE q
    IN [cancelReplicationHandshake(r, n) EXCEPT
            !.srv[n].masterhost = NULL, !.srv[n].cached = NULL, !.srv[n].state = "none"]

----------------------------------------------------------------------------
(* WAIT.                                                                    *)

(* A slave that still misses one entry counts too.                          *)
CountedOneShort(s, off) == SelectSeq(s.slaves, LAMBDA c : c.state = "online" /\ c.ack + 1 >= off)

Counted(s, off) == SelectSeq(s.slaves, LAMBDA c : c.state = "online" /\ c.ack >= off)

replicationCountAcksByOffset(s, off) == Len(Counted(s, off))

(* What WAIT said and, for the property, how many of the slaves connected   *)
(* have ever had the writes it was asked about.                             *)
Answer(st, n, said, w) ==
    [st EXCEPT !.srv[n].answer =
        [off |-> w.off, said |-> said,
         held |-> Len(SelectSeq(st.srv[n].slaves,
                                LAMBDA c : w.ids \subseteq st.srv[c.conn[1]].seen))]]

(* The client waits for what had been written when its last command ended,  *)
(* unless it is in a transaction; the slaves are asked before the event     *)
(* loop goes on.                                                            *)
waitCommand(st, n, num, multi) ==
    LET s == st.srv[n]
        w == s.woff
        acks == replicationCountAcksByOffset(s, w.off)
        q == IF acks >= num \/ multi THEN Answer(st, n, acks, w)
             ELSE [st EXCEPT
                     !.srv[n].waiters = Append(@, [off |-> w.off, ids |-> w.ids, num |-> num]),
                     !.srv[n].getack = TRUE]
    IN [q EXCEPT !.srv[n].woff.off = s.offset]

(* REPLCONF GETACK to all the slaves.                                       *)
RequestAcks(st, n) ==
    IF ~st.srv[n].getack THEN st
    ELSE [replicationFeedSlaves(st, n, st.srv[n].seldb, GetAck) EXCEPT !.srv[n].getack = FALSE]

(* One pass over the clients that wait: the answer of an earlier one, about *)
(* a later offset, serves one that asks for less.                           *)
processClientsWaitingReplicas(st, n) ==
    LET One(acc, w) ==
          LET num == replicationCountAcksByOffset(st.srv[n], w.off) IN
          CASE acc.off # 0 /\ acc.off > w.off /\ acc.num > w.num ->
                 [acc EXCEPT !.st = Answer(@, n, acc.num, w)]
            [] num >= w.num ->
                 [st |-> Answer(acc.st, n, num, w), off |-> w.off, num |-> num, kept |-> acc.kept]
            [] OTHER -> [acc EXCEPT !.kept = Append(@, w)]
        acc == FoldLeft(One, [st |-> st, off |-> 0, num |-> 0, kept |-> <<>>], st.srv[n].waiters)
    IN [acc.st EXCEPT !.srv[n].waiters = acc.kept]

replyToBlockedClientTimedOut(st, n) ==
    LET w == Head(st.srv[n].waiters) IN
    Answer([st EXCEPT !.srv[n].waiters = Tail(@)], n,
           replicationCountAcksByOffset(st.srv[n], w.off), w)

----------------------------------------------------------------------------
(* The actions.                                                             *)

Boot(n, host, diskless, data, boots) ==
    [data |-> data, rdb |-> data, runid |-> <<n, boots>>, boots |-> boots, gen |-> 0,
     offset |-> 0, backlog |-> NULL, seldb |-> -1, slaves |-> <<>>, child |-> NoChild,
     diskless |-> diskless, conf |-> host, masterhost |-> host,
     state |-> IF host = NULL THEN "none" ELSE "connect", fd |-> NULL,
     minit |-> -1, mrunid |-> NULL, mgen |-> 0, master |-> NULL, cached |-> NULL,
     seen |-> {}, woff |-> [off |-> 0, ids |-> {}], waiters |-> <<>>,
     answer |-> [off |-> 0, said |-> 0, held |-> 0], getack |-> FALSE, paused |-> FALSE]

Init ==
    \E sc \in Scenarios :
      /\ srv = [n \in Nodes |-> Boot(n, sc.host[n], sc.diskless, <<>>, 1)]
      /\ conn = [k \in Conns |-> Closed]
      /\ left = sc.left

State == [srv |-> srv, conn |-> conn]

(* A connection that both ends have closed is forgotten.                    *)
Become(st) ==
    /\ srv' = st.srv
    /\ conn' = [k \in Conns |->
                  IF /\ st.conn[k] # Closed
                     /\ ~st.conn[k].open /\ st.conn[k].up = <<>> /\ ~Held(st, k)
                  THEN Closed ELSE st.conn[k]]

Spend(what) == left[what] > 0 /\ left' = [left EXCEPT ![what] = @ - 1]

(* fork() fails only at the cost of a fault.                                *)
Forks(b) == IF b THEN UNCHANGED left ELSE Spend("faults")

(* A client writes to a master: processCommand, call and propagate.         *)
Write(n, db) ==
    LET id == left["writes"]
        q == replicationFeedSlaves(
               [State EXCEPT !.srv[n] = Seen([@ EXCEPT !.data = Append(@, <<db, id>>)])],
               n, db, Command(id))
    IN /\ srv[n].masterhost = NULL
       /\ n \in left["clients"] /\ ~srv[n].paused
       /\ Spend("writes")
       /\ Become([q EXCEPT !.srv[n].woff =
                    [off |-> q.srv[n].offset, ids |-> {w[2] : w \in Range(q.srv[n].data)}]])

(* The master reads from a connection.                                      *)
MasterReads(k, forks) ==
    LET n == conn[k].to
        m == Head(conn[k].up)
        st == [State EXCEPT !.conn[k].up = Tail(@)]
    IN /\ conn[k].up # <<>>
       /\ m.t = "ack" => forks
       /\ m.t = "ack" \/ ~srv[n].paused
       /\ Forks(forks)
       /\ Become(CASE m.t = "ack" -> replconfCommand(st, n, k, m)
                   [] m.t # "ack" /\ IsSlave(srv[n], k) -> st
                   [] OTHER -> syncCommand(st, n, k, m, forks))

MasterSeesEnd(n, k) ==
    /\ IsSlave(srv[n], k)
    /\ ~conn[k].open
    /\ conn[k].up = <<>>
    /\ Become(freeClient(State, n, k))
    /\ UNCHANGED left

SendBulk(n, k) ==
    /\ IsSlave(srv[n], k)
    /\ srv[n].slaves[Index(srv[n], k)].state = "send_bulk"
    /\ Become(sendBulkToSlave(State, n, k))
    /\ UNCHANGED left

(* A BGSAVE nobody waits for: the command or a save point.                  *)
Bgsave(n) ==
    /\ srv[n].child.type = "none"
    /\ n \in left["clients"]
    /\ Spend("saves")
    /\ Become(rdbSaveBackground(State, n))

(* A child rewrites the append only file, and ends: no save starts meanwhile.*)
Bgrewriteaof(n) ==
    /\ srv[n].child.type = "none"
    /\ n \in left["clients"]
    /\ Spend("rewrites")
    /\ Become([State EXCEPT !.srv[n].child.type = "aof"])

RewriteDone(n) ==
    /\ srv[n].child.type = "aof"
    /\ Become([State EXCEPT !.srv[n].child = NoChild])
    /\ UNCHANGED left

(* The child writes the RDB file to the sockets it was given.               *)
SocketChildWrites(n) ==
    LET child == srv[n].child
        reached == {k \in child.to : conn[k].open}
    IN /\ child.type = "socket"
       /\ ~child.done
       /\ Become(FoldLeft(LAMBDA q, k : Send(q, k, <<Payload(child.data)>>),
                          [State EXCEPT !.srv[n].child.done = TRUE, !.srv[n].child.to = reached],
                          SetToSeq(reached)))
       /\ UNCHANGED left

(* serverCron waits for the child, which may have failed; the next save may *)
(* have to start at once.                                                   *)
BackgroundSaveDone(n, ok, forks) ==
    /\ srv[n].child.type \in {"disk", "socket"}
    /\ srv[n].child.type = "socket" /\ ok => srv[n].child.done
    /\ ok \/ forks
    /\ IF ok /\ forks THEN UNCHANGED left ELSE Spend("faults")
    /\ Become(IF srv[n].child.type = "disk"
              THEN backgroundSaveDoneHandlerDisk(State, n, ok, forks)
              ELSE backgroundSaveDoneHandlerSocket(State, n, ok, forks))

(* The slave reads from its master, one entry at a time.                    *)
SlaveReads(n) ==
    LET k == srv[n].fd
        m == Head(conn[k].down)
        st == [State EXCEPT !.conn[k].down = Tail(@)]
    IN /\ k # NULL
       /\ conn[k].down # <<>>
       /\ Become(CASE srv[n].state = "receive_psync" -> syncWithMasterReply(st, n, m)
                   [] srv[n].state = "transfer" -> readSyncBulkPayload(st, n, m)
                   [] OTHER -> ReadStream(st, n, m))
       /\ UNCHANGED left

Handshake(n) ==
    /\ srv[n].state = "connecting"
    /\ conn[srv[n].fd].open
    /\ Become(syncWithMasterHandshake(State, n))
    /\ UNCHANGED left

LoseMaster(n) ==
    Become(IF srv[n].state = "connected" THEN replicationCacheMaster(State, n)
           ELSE cancelReplicationHandshake(State, n))

SlaveSeesEnd(n) ==
    /\ srv[n].fd # NULL
    /\ ~conn[srv[n].fd].open
    /\ conn[srv[n].fd].down = <<>>
    /\ LoseMaster(n)
    /\ UNCHANGED left

(* replicationCron, its parts: no answer for repl_timeout ...               *)
CronMasterTimedOut(n) ==
    /\ srv[n].fd # NULL
    /\ Spend("faults")
    /\ LoseMaster(n)

(* ... the link is opened again ...                                         *)
CronConnect(n, k) ==
    /\ srv[n].state = "connect"
    /\ k[1] = n
    /\ conn[k] = Closed
    /\ k[2] = 2 => conn[<<n, 1>>] # Closed
    /\ Become(connectWithMaster(State, n, k))
    /\ UNCHANGED left

(* ... the master is told how far this slave is (not again before it has    *)
(* read the last word) ...                                                  *)
CronAck(n) ==
    /\ srv[n].state = "connected"
    /\ ~srv[n].master.pre
    /\ conn[srv[n].fd].open
    /\ conn[srv[n].fd].up = <<>>
    /\ ~\E i \in DOMAIN srv[conn[srv[n].fd].to].slaves :
          LET c == srv[conn[srv[n].fd].to].slaves[i] IN
          c.conn = srv[n].fd /\ c.ack = srv[n].master.reploff /\ ~c.onack
    /\ Become(replicationSendAck(State, n))
    /\ UNCHANGED left

(* ... the slaves are pinged ...                                            *)
CronPing(n) ==
    /\ srv[n].backlog # NULL
    /\ Spend("pings")
    /\ Become(replicationFeedSlaves(State, n, srv[n].seldb, Ping))

(* ... those that have been silent are dropped ...                          *)
CronSlaveTimedOut(n, k) ==
    /\ IsSlave(srv[n], k)
    /\ srv[n].slaves[Index(srv[n], k)].state = "online"
    /\ ~srv[n].slaves[Index(srv[n], k)].pre
    /\ Spend("faults")
    /\ Become(freeClient(State, n, k))

(* ... the backlog is freed when there have been no slaves for long ...     *)
CronFreeBacklog(n) ==
    /\ srv[n].slaves = <<>>
    /\ srv[n].backlog # NULL
    /\ Spend("faults")
    /\ Become([State EXCEPT !.srv[n] = freeReplicationBacklog(@)])

(* ... and a save is started for the slaves that wait.                      *)
CronBgsave(n, forks) ==
    /\ srv[n].child.type = "none"
    /\ Waiting(srv[n]) # <<>>
    /\ Forks(forks)
    /\ Become(startBgsaveForReplication(State, n, forks))

(* CONFIG SET repl-backlog-size: the history is forgotten.                  *)
ConfigSetBacklog(n) ==
    /\ srv[n].backlog # NULL
    /\ Spend("faults")
    /\ Become([State EXCEPT !.srv[n] = resizeReplicationBacklog(@)])

Wait(n, num, multi) ==
    /\ Spend("waits")
    /\ srv[n].masterhost = NULL /\ ~srv[n].paused
    /\ n \in left["clients"]
    /\ Become(waitCommand(State, n, num, multi))

BeforeSleep(n) ==
    /\ \/ srv[n].getack
       \/ \E i \in DOMAIN srv[n].waiters :
             replicationCountAcksByOffset(srv[n], srv[n].waiters[i].off) >= srv[n].waiters[i].num
    /\ Become(processClientsWaitingReplicas(RequestAcks(State, n), n))
    /\ UNCHANGED left

(* CLIENT PAUSE at a slave (a master that is paused hears of no client but  *)
(* its slaves), and its end: what has been read meanwhile is executed, but  *)
(* that of a master which is only cached waits for the next read.           *)
ClientPause(n) ==
    /\ srv[n].masterhost # NULL /\ ~srv[n].paused
    /\ Spend("pauses")
    /\ Become([State EXCEPT !.srv[n].paused = TRUE])

PauseEnds(n) ==
    LET q == [State EXCEPT !.srv[n].paused = FALSE] IN
    /\ srv[n].paused
    /\ Become(IF srv[n].master = NULL THEN q ELSE processInputBuffer(q, n))
    /\ UNCHANGED left

WaitTimedOut(n) ==
    /\ srv[n].waiters # <<>>
    /\ Become(replyToBlockedClientTimedOut(State, n))
    /\ UNCHANGED left

(* Nobody is told to follow its own slave, or that slave's: two servers in  *)
(* a ring resynchronize with one another for ever.                          *)
InARing(n, m) ==
    /\ m # NULL
    /\ \/ srv[m].masterhost = n
       \/ srv[m].masterhost # NULL /\ srv[srv[m].masterhost].masterhost = n

(* SLAVEOF: NULL is NO ONE.                                                 *)
slaveofCommand(n, m) ==
    /\ m # n
    /\ m # srv[n].masterhost
    /\ ~InARing(n, m)
    /\ n \in left["clients"] /\ ~srv[n].paused
    /\ Spend("roles")
    /\ Become(IF m = NULL THEN replicationUnsetMaster(State, n)
              ELSE replicationSetMaster(State, n, m))

(* The network loses a connection with all that is on its way.              *)
Break(k) ==
    /\ conn[k].open
    /\ Spend("faults")
    /\ Become([State EXCEPT !.conn[k] = [@ EXCEPT !.open = FALSE, !.up = <<>>, !.down = <<>>]])

(* A server is killed and starts again from its RDB file.                   *)
Crash(n) ==
    /\ Spend("crashes")
    /\ Become([srv |-> [srv EXCEPT ![n] = [Boot(n, @.conf, @.diskless, @.rdb, @.boots + 1) EXCEPT
                                              !.seen = srv[n].seen]],
               conn |-> [k \in Conns |->
                           IF conn[k].to = n \/ k[1] = n
                           THEN [conn[k] EXCEPT !.open = FALSE, !.up = <<>>, !.down = <<>>]
                           ELSE conn[k]]])

Next ==
    \/ \E n \in Nodes :
         \/ \E db \in DBs : Write(n, db)
         \/ Bgsave(n) \/ SocketChildWrites(n) \/ Bgrewriteaof(n) \/ RewriteDone(n)
         \/ \E ok, forks \in BOOLEAN : BackgroundSaveDone(n, ok, forks)
         \/ SlaveReads(n) \/ Handshake(n) \/ SlaveSeesEnd(n)
         \/ CronMasterTimedOut(n) \/ CronAck(n) \/ CronPing(n) \/ CronFreeBacklog(n)
         \/ \E forks \in BOOLEAN : CronBgsave(n, forks)
         \/ ConfigSetBacklog(n)
         \/ \E num \in 1..2, multi \in BOOLEAN : Wait(n, num, multi)
         \/ BeforeSleep(n) \/ WaitTimedOut(n)
         \/ ClientPause(n) \/ PauseEnds(n)
         \/ \E m \in Nodes \cup {NULL} : slaveofCommand(n, m)
         \/ Crash(n)
    \/ \E k \in Conns :
         \/ Break(k)
         \/ \E forks \in BOOLEAN : MasterReads(k, forks)
         \/ \E n \in Nodes :
              \/ MasterSeesEnd(n, k) \/ SendBulk(n, k)
              \/ CronConnect(n, k) \/ CronSlaveTimedOut(n, k)

Spec == Init /\ [][Next]_vars

----------------------------------------------------------------------------
(* The properties.                                                          *)

(* A slave that is online misses nothing and gets nothing twice, however it *)
(* came to be: what it has, with what it has read and not executed and with *)
(* what is on its way to it, is exactly what its master has, each write in  *)
(* its database, and the two offsets agree.                                 *)
(* This is what createReplicationBacklog, getPsyncInitialOffset, the output *)
(* buffers and the backlog are for.  Two cases are left out: a slave that   *)
(* was answered SYNC after a refused PSYNC does not know its offset (pre),  *)
(* and a server whose offsets start again, in SLAVEOF, may continue a slave *)
(* it knew before (gen).                                                    *)
SlavesAreInSync ==
    \A n \in Nodes : \A i \in DOMAIN srv[n].slaves :
        LET c == srv[n].slaves[i]
            s == srv[c.conn[1]]
            stream == conn[c.conn].down
            end == Apply(s.data, s.master.db, s.master.buf \o stream)
        IN (/\ c.state = "online" /\ ~c.onack
            /\ conn[c.conn].open
            /\ s.fd = c.conn /\ s.state = "connected"
            /\ ~s.master.pre /\ s.master.gen = srv[n].gen)
           => /\ end.data = srv[n].data
              /\ s.master.reploff + Len(stream) = srv[n].offset

(* WAIT never counts a slave that has not read the writes asked about: the  *)
(* offset it waits for and the offsets the slaves acknowledge are the same  *)
(* count, through partial and full resynchronizations, pings and SELECTs.   *)
(* (Read, not executed: a slave whose clients are paused acknowledges what  *)
(* it still has in its query buffer.)                                       *)
(* Left out is a client whose last command found the offset still at 0: a   *)
(* slave that has acknowledged nothing counts for it.                       *)
WaitIsHonest ==
    \A n \in Nodes : srv[n].answer.off # 0 => srv[n].answer.said <= srv[n].answer.held

(* A slave in the list of a server has a backlog to be fed from             *)
(* (the assertion of replicationFeedSlaves), is never ahead of its master,  *)
(* and waits for the end of a save only while one is in progress.           *)
SlavesAreTended ==
    \A n \in Nodes : \A i \in DOMAIN srv[n].slaves :
        LET c == srv[n].slaves[i] IN
        /\ srv[n].backlog # NULL
        /\ c.ack <= srv[n].offset
        /\ c.state = "wait_bgsave_end" => srv[n].child.type \in {"disk", "socket"}
============================================================================
