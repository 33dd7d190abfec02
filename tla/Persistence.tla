---------------------------- MODULE Persistence ----------------------------
(* When what a client has written is on disk (aof.c, bio.c, the saving part *)
(* of rdb.c, serverCron, prepareForShutdown): the append only file and its  *)
(* buffer, the thread that calls fsync, the rewrite in a child process that *)
(* is sent what is written meanwhile, the RDB file, and the ways a server   *)
(* ends.  What the files say of a value is module Disk's subject:            *)
(* here the data set is the sequence of the writes, and an entry of the     *)
(* file is a SELECT, a write or the whole data set of a rewrite.            *)
EXTENDS Integers, SequencesExt

CONSTANTS
    DBs,            \* the databases
    Settings,       \* the configurations and how much may happen in each
    NULL

Configuration ==
    [aof : BOOLEAN, fsync : {"always", "everysec", "no"}, nofsync : BOOLEAN, saves : BOOLEAN]
Budget == [writes : Nat, rewrites : Nat, saves : Nat, config : Nat, errors : Nat, ends : Nat]

ASSUME PersistenceAssumption ==
    /\ NULL \notin DBs \cup {0}
    /\ Settings \subseteq [conf : Configuration, left : Budget]

VARIABLES
    data,           \* the data set
    conf,           \* the configuration file
    aof,            \* the append only file and the state around it
    file,           \* what write() has put in the file the server has open
    synced,         \* how much of it is on the disk for certain
    bio,            \* the fsync jobs of the background thread
    child,          \* the child process
    rdb,            \* the RDB file and the state around it
    acked,          \* how many writes have been answered
    left            \* how much may still happen

vars == <<data, conf, aof, file, synced, bio, child, rdb, acked, left>>

Select(db) == [t |-> "select", db |-> db, id |-> 0, data |-> <<>>]
Command(id) == [t |-> "write", db |-> 0, id |-> id, data |-> <<>>]
Snapshot(d) == [t |-> "snapshot", db |-> 0, id |-> 0, data |-> d]

(* Loading the file: a fake client, in database 0 at first, runs every      *)
(* command; what a rewrite has written comes with its own SELECTs.          *)
LoadOne(at, e) ==
    CASE e.t = "select" -> [at EXCEPT !.db = e.db]
      [] e.t = "write" -> [at EXCEPT !.data = Append(@, <<at.db, e.id>>)]
      [] OTHER -> [at EXCEPT !.data = @ \o e.data, !.db = NULL]

Loading(f) ==
    LET at[n \in 0..Len(f)] ==
            IF n = 0 THEN [data |-> <<>>, db |-> 0] ELSE LoadOne(at[n - 1], f[n])
    IN  at

loadAppendOnlyFile(f) == Loading(f)[Len(f)].data

----------------------------------------------------------------------------
(* Appending, unless the file is off.                                       *)

(* What a write adds: with the database when it is not the last one named.  *)
Entries(db, id) == (IF aof.sel = db THEN <<>> ELSE <<Select(db)>>) \o <<Command(id)>>

(* The child of a rewrite gets what it did not see at the fork.             *)
aofRewriteBufferAppend(entries) ==
    IF child.type = "aof" THEN aof.rewrite \o entries ELSE aof.rewrite

(* To the buffer of the file, and to the one of the rewrite in progress.    *)
feedAppendOnlyFile(db, id) ==
    [aof EXCEPT !.sel = db,
                !.buf = IF aof.state = "on" THEN @ \o Entries(db, id) ELSE @,
                !.rewrite = aofRewriteBufferAppend(Entries(db, id))]

(* write() puts n entries of the buffer in the file; an error leaves the    *)
(* rest for later and refuses the writes until then.                        *)
Flushed(a, n) ==
    [a EXCEPT !.buf = SubSeq(@, n + 1, Len(@)), !.ok = n = Len(a.buf), !.postponed = 0]

NoFsyncNow == conf.nofsync /\ child.type # "none"

(* A write and, according to the policy, a call of fsync, here or by the    *)
(* thread, at most once a second.                                           *)
ThreadSyncs(n) ==
    conf.fsync = "everysec" /\ aof.due /\ n = Len(aof.buf) /\ ~NoFsyncNow

flushAppendOnlyFile(n) ==
    /\ file' = file \o SubSeq(aof.buf, 1, n)
    /\ aof' = [Flushed(aof, n) EXCEPT !.due = @ /\ ~ThreadSyncs(n)]
    /\ synced' = IF conf.fsync = "always" /\ ~NoFsyncNow THEN Len(file') ELSE synced
    /\ bio' = IF ThreadSyncs(n) /\ bio = <<>> THEN <<[cur |-> TRUE, upto |-> NULL]>> ELSE bio

(* With the thread busy the write waits, for two seconds at most.           *)
Postpones == conf.fsync = "everysec" /\ bio # <<>> /\ aof.postponed < 3

(* beforeSleep: the buffer is written, then the clients get their answers.  *)
(* An error with fsync always ends the server.  What a stop could not write *)
(* fails again as long as no file is open.                                  *)
BeforeSleep ==
    /\ acked # Len(data) \/ aof.buf # <<>>
    /\ \/ /\ aof.buf = <<>>
          /\ UNCHANGED <<aof, file, synced, bio>>
       \/ /\ aof.buf # <<>> /\ Postpones
          /\ aof' = [aof EXCEPT !.postponed = IF @ = 0 THEN 1 ELSE @]
          /\ UNCHANGED <<file, synced, bio>>
       \/ /\ aof.buf # <<>> /\ ~Postpones
          /\ flushAppendOnlyFile(IF aof.state = "off" THEN 0 ELSE Len(aof.buf))
    /\ acked' = Len(data)
    /\ UNCHANGED <<data, conf, child, rdb, left>>

(* write() fails.                                                           *)
WriteError ==
    /\ aof.buf # <<>> /\ ~Postpones
    /\ conf.fsync # "always" /\ aof.state # "off"
    /\ left.errors > 0
    /\ \E n \in 0..(Len(aof.buf) - 1) : flushAppendOnlyFile(n)
    /\ acked' = Len(data)
    /\ left' = [left EXCEPT !.errors = @ - 1]
    /\ UNCHANGED <<data, conf, child, rdb>>

(* A client writes.  processCommand refuses when the file, or the last      *)
(* BGSAVE, could not be written.                                            *)
Write(db) ==
    LET id == left.writes IN
    /\ left.writes > 0
    /\ aof.ok
    /\ conf.saves => rdb.ok
    /\ data' = Append(data, <<db, id>>)
    /\ aof' = IF aof.state = "off" THEN aof ELSE feedAppendOnlyFile(db, id)
    /\ left' = [left EXCEPT !.writes = @ - 1]
    /\ UNCHANGED <<conf, file, synced, bio, child, rdb, acked>>

(* The thread calls fsync, on the file that is open or on one that has been *)
(* replaced since, and then takes the job from the queue.                   *)
bioProcessBackgroundJobs ==
    /\ bio # <<>>
    /\ IF Head(bio).upto = NULL
       THEN /\ bio' = [bio EXCEPT ![1].upto = Len(file)]
            /\ UNCHANGED synced
       ELSE /\ bio' = Tail(bio)
            /\ synced' = IF Head(bio).cur /\ Head(bio).upto > synced THEN Head(bio).upto ELSE synced
    /\ UNCHANGED <<data, conf, aof, file, child, rdb, acked, left>>

(* A second passes, and a failed write is tried again.                      *)
Tick ==
    /\ ~aof.due \/ aof.postponed \in {1, 2}
    /\ aof' = [aof EXCEPT !.due = TRUE,
                          !.postponed = IF @ \in {1, 2} THEN @ + 1 ELSE @]
    /\ UNCHANGED <<data, conf, file, synced, bio, child, rdb, acked, left>>

----------------------------------------------------------------------------
(* The rewrite.                                                             *)

NoChild == [type |-> "none", data |-> <<>>, diff |-> <<>>, pipe |-> <<>>, phase |-> "none"]

(* The child has the data set of the fork.  The next write names its        *)
(* database again: it may be the first of what the child is sent.           *)
RewriteChild == [NoChild EXCEPT !.type = "aof", !.data = data, !.phase = "writing"]

Rewriting(a) == [a EXCEPT !.sched = FALSE, !.sel = NULL, !.rewrite = <<>>, !.stop = FALSE]

rewriteAppendOnlyFileBackground ==
    /\ child' = RewriteChild
    /\ aof' = Rewriting(aof)

(* BGREWRITEAOF, the growth of the file, or a rewrite that was scheduled.   *)
BgrewriteAof ==
    /\ child.type # "aof"
    /\ left.rewrites > 0 \/ (aof.sched /\ child.type = "none")
    /\ IF child.type = "none" THEN rewriteAppendOnlyFileBackground
       ELSE aof' = [aof EXCEPT !.sched = TRUE] /\ UNCHANGED child
    /\ left' = [left EXCEPT !.rewrites = IF aof.sched THEN @ ELSE @ - 1]
    /\ aof.sched => child.type = "none"
    /\ UNCHANGED <<data, conf, file, synced, bio, rdb, acked>>

(* The pipe to the child is writable; entries go until it asked to stop.    *)
aofChildWriteDiffData ==
    /\ child.type = "aof" /\ child.phase # "done"
    /\ aof.rewrite # <<>> /\ ~aof.stop
    /\ \E n \in {1, Len(aof.rewrite)} :
         /\ child' = [child EXCEPT !.pipe = @ \o SubSeq(aof.rewrite, 1, n)]
         /\ aof' = [aof EXCEPT !.rewrite = SubSeq(@, n + 1, Len(@))]
    /\ UNCHANGED <<data, conf, file, synced, bio, rdb, acked, left>>

aofReadDiffFromParent(c) == [c EXCEPT !.diff = @ \o c.pipe, !.pipe = <<>>]

(* The child reads the pipe while it writes and when it is nearly done, and *)
(* asks the parent to stop sending.                                         *)
ChildReadsDiff ==
    /\ child.type = "aof" /\ child.phase = "writing"
    /\ child' = [aofReadDiffFromParent(child) EXCEPT !.phase = "asked"]
    /\ UNCHANGED <<data, conf, aof, file, synced, bio, rdb, acked, left>>

aofChildPipeReadable ==
    /\ child.type = "aof" /\ child.phase = "asked"
    /\ aof' = [aof EXCEPT !.stop = TRUE]
    /\ child' = [child EXCEPT !.phase = "told"]
    /\ UNCHANGED <<data, conf, file, synced, bio, rdb, acked, left>>

(* What is still in the pipe is not read.                                   *)
rewriteAppendOnlyFileEarly ==
    /\ child.type = "aof" /\ child.phase = "told"
    /\ child' = [child EXCEPT !.phase = "done"]
    /\ UNCHANGED <<data, conf, aof, file, synced, bio, rdb, acked, left>>

(* Having been told, it reads what is left and ends its file.               *)
rewriteAppendOnlyFile ==
    /\ child.type = "aof" /\ child.phase = "told"
    /\ child' = [aofReadDiffFromParent(child) EXCEPT !.phase = "done"]
    /\ UNCHANGED <<data, conf, aof, file, synced, bio, rdb, acked, left>>

(* The fsync of the new file is left to the next flush.                     *)
SwitchUnsynced(f) ==
    /\ file' = f
    /\ synced' = Len(f) - Len(aof.rewrite)
    /\ bio' = [i \in DOMAIN bio |-> [bio[i] EXCEPT !.cur = FALSE]]
    /\ aof' = [aof EXCEPT !.sel = NULL, !.buf = <<>>, !.rewrite = <<>>,
                          !.state = IF @ = "wait" THEN "on" ELSE @]

(* The server goes on with the file of the child, to which it has added     *)
(* what the child was not sent; this part may not be on the disk yet.  The  *)
(* buffer is dropped: its entries are in the new file.  With no file open   *)
(* the buffer stays, and so does what a stop could not write: aof.twice     *)
(* remembers that the next file to be opened has these entries already.     *)
Switch(f) ==
    LET old == [i \in DOMAIN bio |-> [bio[i] EXCEPT !.cur = FALSE]] IN
    /\ file' = f
    /\ synced' = IF aof.fd /\ conf.fsync = "always" THEN Len(f) ELSE Len(f) - Len(aof.rewrite)
    /\ bio' = IF aof.fd /\ conf.fsync = "everysec"
              THEN old \o <<[cur |-> TRUE, upto |-> NULL]>> ELSE old
    /\ aof' = IF aof.fd
              THEN [aof EXCEPT !.sel = NULL, !.buf = <<>>, !.rewrite = <<>>, !.twice = FALSE,
                               !.state = IF @ = "wait" THEN "on" ELSE @]
              ELSE [aof EXCEPT !.rewrite = <<>>, !.twice = @ \/ aof.buf # <<>>]

(* What the child was not sent is added to its file.                        *)
aofRewriteBufferWrite(f) == f \o aof.rewrite

(* serverCron has waited for the child.                                     *)
backgroundRewriteDoneHandler(ok) ==
    /\ child.type = "aof"
    /\ ok => child.phase = "done"
    /\ IF ok
       THEN /\ Switch(aofRewriteBufferWrite(<<Snapshot(child.data)>> \o child.diff))
            /\ UNCHANGED left
       ELSE /\ left.errors > 0
            /\ left' = [left EXCEPT !.errors = @ - 1]
            /\ aof' = [aof EXCEPT !.rewrite = <<>>, !.sched = @ \/ aof.state = "wait"]
            /\ UNCHANGED <<file, synced, bio>>
    /\ child' = NoChild
    /\ UNCHANGED <<data, conf, rdb, acked>>

----------------------------------------------------------------------------
(* The RDB file.                                                            *)

rdbSaveBackground ==
    /\ child.type = "none"
    /\ left.saves > 0
    /\ child' = [NoChild EXCEPT !.type = "rdb", !.data = data]
    /\ left' = [left EXCEPT !.saves = @ - 1]
    /\ UNCHANGED <<data, conf, aof, file, synced, bio, rdb, acked>>

(* rdbSave writes a file of another name, syncs it and renames it.          *)
backgroundSaveDoneHandler(ok) ==
    /\ child.type = "rdb"
    /\ ok \/ left.errors > 0
    /\ left' = IF ok THEN left ELSE [left EXCEPT !.errors = @ - 1]
    /\ rdb' = [data |-> IF ok THEN child.data ELSE rdb.data, ok |-> ok]
    /\ child' = NoChild
    /\ UNCHANGED <<data, conf, aof, file, synced, bio, acked>>

----------------------------------------------------------------------------
(* CONFIG SET appendonly.                                                   *)

(* The buffer is written whatever the thread does, all is synced, and a     *)
(* rewrite in progress is killed.  An error leaves the rest of the buffer.  *)
(* The jobs of the thread, the one of this flush too, are left with the     *)
(* number of a closed file.                                                 *)
stopAppendOnly ==
    LET old == [i \in DOMAIN bio |-> [bio[i] EXCEPT !.cur = FALSE]] IN
    /\ aof.state # "off"
    /\ left.config > 0
    /\ \E n \in 0..Len(aof.buf) :
         /\ n < Len(aof.buf) => conf.fsync # "always" /\ left.errors > 0
         /\ file' = file \o SubSeq(aof.buf, 1, n)
         /\ synced' = Len(file')
         /\ bio' = IF aof.buf # <<>> /\ ThreadSyncs(n) /\ bio = <<>>
                   THEN <<[cur |-> FALSE, upto |-> NULL]>> ELSE old
         /\ aof' = [(IF aof.buf = <<>> THEN aof ELSE Flushed(aof, n)) EXCEPT
                        !.sel = NULL, !.state = "off", !.fd = FALSE,
                        !.rewrite = IF child.type = "aof" THEN <<>> ELSE @]
         /\ left' = [left EXCEPT !.config = @ - 1,
                                 !.errors = IF n < Len(aof.buf) THEN @ - 1 ELSE @]
    /\ child' = IF child.type = "aof" THEN NoChild ELSE child
    /\ UNCHANGED <<data, conf, rdb, acked>>

(* The file is open again, and is used once it has been rewritten: at once, *)
(* or when the child that saves an RDB file has ended.  With a rewrite in   *)
(* progress the command is refused, but leaves the number of the file that  *)
(* it has closed in aof_fd.                                                 *)
startAppendOnly ==
    LET open == [aof EXCEPT !.fd = TRUE, !.due = FALSE] IN
    /\ aof.state = "off"
    /\ left.config > 0
    /\ \/ /\ child.type = "aof"
          /\ aof' = open
          /\ UNCHANGED child
       \/ /\ child.type = "rdb"
          /\ aof' = [open EXCEPT !.state = "wait", !.sched = TRUE]
          /\ UNCHANGED child
       \/ /\ child.type = "none"
          /\ aof' = [Rewriting(open) EXCEPT !.state = "wait"]
          /\ child' = RewriteChild
    /\ left' = [left EXCEPT !.config = @ - 1]
    /\ UNCHANGED <<data, conf, file, synced, bio, rdb, acked>>

----------------------------------------------------------------------------
(* The end of a server, and the next start: the append only file if the     *)
(* configuration says so, otherwise the RDB file.                           *)

loadDataFromDisk(f, saved) == IF conf.aof THEN loadAppendOnlyFile(f) ELSE saved

NewAof(on) ==
    [state |-> IF on THEN "on" ELSE "off", fd |-> on, buf |-> <<>>, sel |-> NULL, ok |-> TRUE,
     rewrite |-> <<>>, stop |-> FALSE, sched |-> FALSE, due |-> FALSE, postponed |-> 0,
     twice |-> FALSE]

(* Loading syncs nothing: s entries are on the disk, as they were before.   *)
Restart(f, saved, s) ==
    /\ data' = loadDataFromDisk(f, saved)
    /\ file' = f
    /\ synced' = s
    /\ rdb' = [data |-> saved, ok |-> TRUE]
    /\ acked' = Len(data')
    /\ aof' = NewAof(conf.aof)
    /\ bio' = <<>>
    /\ child' = NoChild
    /\ left.ends > 0
    /\ left' = [left EXCEPT !.ends = @ - 1]
    /\ UNCHANGED conf

(* The process dies: what write() has taken stays.                          *)
Kill == Restart(file, rdb.data, synced)

(* The power fails: what fsync has not seen may be lost, from some entry on *)
(* (a torn last entry is cut off when the file is loaded).                  *)
PowerLoss == \E n \in synced..(Len(file) - 1) : Restart(SubSeq(file, 1, n), rdb.data, n)

(* SHUTDOWN: children are killed, unless the first file is being written,   *)
(* the append only file is synced (its buffer is not written) and the RDB   *)
(* file is saved, as the save points, SAVE and NOSAVE say.                  *)
prepareForShutdown ==
    /\ ~(aof.state = "wait" /\ child.type = "aof")
    /\ \E saved \in {data, rdb.data} :
         Restart(file, saved, IF aof.state = "off" THEN synced ELSE Len(file))

----------------------------------------------------------------------------

Init ==
    \E s \in Settings :
      /\ conf = s.conf
      /\ left = s.left
      /\ data = <<>>
      /\ aof = NewAof(conf.aof)
      /\ file = <<>> /\ synced = 0 /\ bio = <<>>
      /\ child = NoChild
      /\ rdb = [data |-> <<>>, ok |-> TRUE]
      /\ acked = 0

Next ==
    \/ BeforeSleep \/ WriteError \/ bioProcessBackgroundJobs \/ Tick
    \/ \E db \in DBs : Write(db)
    \/ BgrewriteAof \/ aofChildWriteDiffData \/ ChildReadsDiff \/ aofChildPipeReadable
    \/ rewriteAppendOnlyFile
    \/ \E ok \in BOOLEAN : backgroundRewriteDoneHandler(ok)
    \/ rdbSaveBackground
    \/ \E ok \in BOOLEAN : backgroundSaveDoneHandler(ok)
    \/ stopAppendOnly \/ startAppendOnly
    \/ Kill \/ PowerLoss \/ prepareForShutdown

(* The event loop, the clock and the thread go on.                          *)
Spec ==
    /\ Init /\ [][Next]_vars
    /\ WF_vars(BeforeSleep) /\ WF_vars(Tick) /\ WF_vars(bioProcessBackgroundJobs)

----------------------------------------------------------------------------

(* While the append only file is on, the file and its buffer together are   *)
(* the data set, every write once, in order and in its database: through    *)
(* rewrites, failed writes, postponed ones and CONFIG SET appendonly.       *)
FileFollowsData ==
    aof.state = "on" => loadAppendOnlyFile(file \o aof.buf) = data

(* With appendfsync always, what a client has been answered survives the    *)
(* loss of power at any time between two events, the end of a rewrite       *)
(* included (no-appendfsync-on-rewrite waives this while a child works).    *)
AckedIsDurable ==
    (conf.fsync = "always" /\ ~conf.nofsync /\ aof.state = "on")
        => Len(loadAppendOnlyFile(SubSeq(file, 1, synced))) >= acked

(* However the server ends, the next one starts from a data set that this   *)
(* one had before: never one that misses a write and has a later one.  The  *)
(* exception is a buffer that CONFIG SET appendonly no could not write: a   *)
(* BGREWRITEAOF saves its entries, and CONFIG SET appendonly yes has them   *)
(* written after those, twice until the next rewrite has ended.             *)
StartsFromThePast ==
    [][aof.twice \/ IsPrefix(data, data') \/ IsPrefix(data', data)]_vars

(* "Redis can lose just one second of writes in a dramatic event like a     *)
(* server power outage" with the default fsync policy (redis.conf): what a  *)
(* client has been answered is on the disk soon.                            *)
AckedGetsDurable ==
    \A n \in 1..2 :
      (conf.fsync = "everysec" /\ aof.state = "on" /\ acked >= n)
        ~> (Len(loadAppendOnlyFile(SubSeq(file, 1, synced))) >= n \/ acked < n)
============================================================================
