------------------------------ MODULE Keyspace ------------------------------
(* A redis master executing commands, the slave it sends them to and the   *)
(* append only file it writes them to.  The slave and the server that will *)
(* load the file execute each command lag later than the master did.       *)
EXTENDS Disk

CONSTANTS Commands,   \* workload -> the commands its clients send
          Lags,       \* how late a replica may execute
          MaxNow,     \* bound of the clock
          MaxSize     \* bound of the elements in all values together

ASSUME KeyspaceAssumption ==
    Lags \subseteq Nat /\ MaxNow \in Nat /\ MaxSize \in Nat

VARIABLES now,      \* mstime()
          lag,      \* the replicas' delay
          load,     \* the workload
          master,   \* the data set: [db, ex]
          slave,    \* the data set of the slave
          aof,      \* the data set that loading the file will give
          untimed   \* history: keys that INCRBYFLOAT changed while they had a
                    \* time to live, which its SET takes from the replicas

vars == <<now, lag, load, master, slave, aof, untimed>>

Empty == [db |-> <<>>, ex |-> <<>>]

Data(s) == [db |-> s.db, ex |-> s.ex]

At(d, t, role) == Server(d.db, d.ex, t, role)

----------------------------------------------------------------------------

(* The command table.                                                      *)
exec(s, c) ==
    CASE c.op = "set"          -> setCommand(s, c)
      [] c.op = "setex"        -> setGenericCommand(s, c)
      [] c.op = "get"          -> getGenericCommand(s, c)
      [] c.op = "getset"       -> getsetCommand(s, c)
      [] c.op = "setrange"     -> setrangeCommand(s, c)
      [] c.op = "getrange"     -> getrangeCommand(s, c)
      [] c.op = "mget"         -> mgetCommand(s, c)
      [] c.op = "mset"         -> msetGenericCommand(s, c)
      [] c.op = "incrby"       -> incrDecrCommand(s, c)
      [] c.op = "incrbyfloat"  -> incrbyfloatCommand(s, c)
      [] c.op = "append"       -> appendCommand(s, c)
      [] c.op = "strlen"       -> strlenCommand(s, c)
      [] c.op = "setbit"       -> setbitCommand(s, c)
      [] c.op = "getbit"       -> getbitCommand(s, c)
      [] c.op = "bitop"        -> bitopCommand(s, c)
      [] c.op = "bitcount"     -> bitcountCommand(s, c)
      [] c.op = "bitpos"       -> bitposCommand(s, c)
      [] c.op = "bitfield"     -> bitfieldCommand(s, c)
      [] c.op = "push"         -> pushGenericCommand(s, c)
      [] c.op = "pushx"        -> pushxGenericCommand(s, c)
      [] c.op = "pop"          -> popGenericCommand(s, c)
      [] c.op = "llen"         -> llenCommand(s, c)
      [] c.op = "lindex"       -> lindexCommand(s, c)
      [] c.op = "lset"         -> lsetCommand(s, c)
      [] c.op = "lrange"       -> lrangeCommand(s, c)
      [] c.op = "ltrim"        -> ltrimCommand(s, c)
      [] c.op = "lrem"         -> lremCommand(s, c)
      [] c.op = "rpoplpush"    -> rpoplpushCommand(s, c)
      [] c.op = "hset"         -> hsetCommand(s, c)
      [] c.op = "hsetnx"       -> hsetnxCommand(s, c)
      [] c.op = "hmset"        -> hmsetCommand(s, c)
      [] c.op = "hincrby"      -> hincrbyCommand(s, c)
      [] c.op = "hincrbyfloat" -> hincrbyfloatCommand(s, c)
      [] c.op = "hget"         -> hgetCommand(s, c)
      [] c.op = "hmget"        -> hmgetCommand(s, c)
      [] c.op = "hdel"         -> hdelCommand(s, c)
      [] c.op = "hlen"         -> hlenCommand(s, c)
      [] c.op = "hstrlen"      -> hstrlenCommand(s, c)
      [] c.op = "hexists"      -> hexistsCommand(s, c)
      [] c.op = "hgetall"      -> genericHgetallCommand(s, c)
      [] c.op = "sadd"         -> saddCommand(s, c)
      [] c.op = "srem"         -> sremCommand(s, c)
      [] c.op = "smove"        -> smoveCommand(s, c)
      [] c.op = "sismember"    -> sismemberCommand(s, c)
      [] c.op = "scard"        -> scardCommand(s, c)
      [] c.op = "spop"         -> spopCommand(s, c)
      [] c.op = "spopcount"    -> spopWithCountCommand(s, c)
      [] c.op = "srandmember"  -> srandmemberWithCountCommand(s, c)
      [] c.op = "sinter"       -> sinterGenericCommand(s, c)
      [] c.op = "suniondiff"   -> sunionDiffGenericCommand(s, c)
      [] c.op = "zadd"         -> zaddGenericCommand(s, c)
      [] c.op = "zrem"         -> zremCommand(s, c)
      [] c.op = "zremrange"    -> zremrangeGenericCommand(s, c)
      [] c.op = "zunioninter"  -> zunionInterGenericCommand(s, c)
      [] c.op = "zrange"       -> zrangeGenericCommand(s, c)
      [] c.op = "zrangebyscore" -> genericZrangebyscoreCommand(s, c)
      [] c.op = "zrangebylex"  -> genericZrangebylexCommand(s, c)
      [] c.op = "zcount"       -> zcountCommand(s, c)
      [] c.op = "zlexcount"    -> zlexcountCommand(s, c)
      [] c.op = "zcard"        -> zcardCommand(s, c)
      [] c.op = "zscore"       -> zscoreCommand(s, c)
      [] c.op = "zrank"        -> zrankGenericCommand(s, c)
      [] c.op = "sort"         -> sortCommand(s, c)
      [] c.op = "del"          -> delCommand(s, c)
      [] c.op = "exists"       -> existsCommand(s, c)
      [] c.op = "flushdb"      -> flushdbCommand(s, c)
      [] c.op = "flushall"     -> flushallCommand(s, c)
      [] c.op = "rename"       -> renameGenericCommand(s, c)
      [] c.op = "move"         -> moveCommand(s, c)
      [] c.op = "expire"       -> expireGenericCommand(s, c)
      [] c.op = "persist"      -> persistCommand(s, c)
      [] c.op = "ttl"          -> ttlGenericCommand(s, c)
      [] c.op = "type"         -> typeCommand(s, c)
      [] c.op = "touch"        -> touchCommand(s, c)
      [] c.op = "keys"         -> keysCommand(s, c)
      [] c.op = "dbsize"       -> dbsizeCommand(s, c)

(* The command as it goes out, if it changed anything: rewritten or as it  *)
(* came, after the deletions of expired keys and before alsoPropagate's.   *)
call(r, c) ==
    r.out
    \o (IF r.dirty > 0 /\ ~r.prevent
        THEN IF r.argv = <<>> THEN <<c>> ELSE r.argv
        ELSE <<>>)
    \o r.also

(* What a replica makes of a sequence of commands.                         *)
Replay(d, q, t, role) ==
    LET f[i \in 0..Len(q)] ==
            IF i = 0 THEN d ELSE Data(exec(At(f[i - 1], t, role), q[i]))
    IN  f[Len(q)]

(* propagate: to the slave as it is, to the file as feedAppendOnlyFile     *)
(* puts it.                                                                *)
propagate(s, q) ==
    LET f[i \in 0..Len(q)] ==
            IF i = 0 THEN <<>> ELSE f[i - 1] \o feedAppendOnlyFile(s, q[i])
        fed == [slave |-> <<slave, q>>, loading |-> <<aof, f[Len(q)]>>]
    IN  \E r \in {[role \in {"slave", "loading"} |->
                     Replay(fed[role][1], fed[role][2], now + lag, role)]} :
           slave' = r["slave"] /\ aof' = r["loading"]

Size(o) ==
    IF o.t \in {"string", "list"} THEN Len(o.v)
    ELSE IF o.t = "set" THEN Cardinality(o.v)
    ELSE Cardinality(DOMAIN o.v)

TotalSize(db) ==
    LET f[S \in SUBSET DOMAIN db] ==
            IF S = {} THEN 0
            ELSE LET k == CHOOSE k \in S : TRUE IN Size(db[k]) + f[S \ {k}]
    IN  f[DOMAIN db]

Init ==
    /\ now = 0
    /\ lag \in Lags
    /\ load \in DOMAIN Commands
    /\ master = Empty
    /\ slave = Empty
    /\ aof = Empty
    /\ untimed = {}

(* A client's command.  The random choices of SPOP are part of it: c.pick  *)
(* must be members of the set.                                             *)
Sensible(c) ==
    c.op \in {"spop", "spopcount"} =>
        LET o == lookupKey(At(master, now, "master"), c.k)
        IN  o.t = "set" => \/ c.pick \subseteq o.v
                           \/ c.op = "spopcount" /\ c.n >= Cardinality(o.v)

Execute(c) ==
    /\ Sensible(c)
    /\ \E s \in {At(master, now, "master")} : \E r \in {exec(s, c)} :
          /\ TotalSize(r.db) <= MaxSize
          /\ master' = Data(r)
          /\ propagate(s, call(r, c))
          /\ untimed' = (IF c.op = "incrbyfloat" THEN untimed \cup {c.k} ELSE untimed) \cap DOMAIN r.ex
    /\ UNCHANGED <<now, lag, load>>

(* A key goes and the replicas are told.                                   *)
Discard(k) ==
    /\ master' = Data(dbDelete(At(master, now, "master"), k))
    /\ propagate(At(master, now, "master"), <<Del(<<k>>)>>)
    /\ untimed' = untimed \ {k}
    /\ UNCHANGED <<now, lag, load>>

(* activeExpireCycle: some of the keys past their time.                    *)
activeExpireCycleTryExpire(k) ==
    /\ k \in DOMAIN master.ex
    /\ now > master.ex[k]
    /\ Discard(k)

(* freeMemoryIfNeeded evicts any key, or only one that has a time to live; *)
(* a slave does not evict on its own here.                                 *)
freeMemoryIfNeeded(k) == k \in DOMAIN master.db /\ Discard(k)

Tick ==
    /\ now < MaxNow
    /\ now' = now + 1
    /\ UNCHANGED <<lag, load, master, slave, aof, untimed>>

Next ==
    \/ \E c \in Commands[load] : Execute(c)
    \/ \E k \in DOMAIN master.db :
          activeExpireCycleTryExpire(k) \/ freeMemoryIfNeeded(k)
    \/ Tick

Spec == Init /\ [][Next]_vars

----------------------------------------------------------------------------
(* Properties.                                                             *)

(* The compact encodings hold only what their limits allow: an operation   *)
(* that scans a ziplist or an intset scans a small one.  HINCRBY and       *)
(* HINCRBYFLOAT alone look at no length, so that a ziplist may have a long *)
(* field or a long value where that value is a number.                     *)
Compact(o) ==
    CASE o.t \in {"string", "list"} -> TRUE
      [] o.t = "set"  -> o.e = "intset" =>
            Size(o) <= MaxIntset /\ \A x \in o.v : IsNumber(x)
      [] o.t = "hash" -> o.e = "ziplist" =>
            /\ Size(o) <= HashEntries
            /\ \A f \in DOMAIN o.v :
                  \/ Len(f) <= HashValue /\ Len(o.v[f]) <= HashValue
                  \/ IsLongDouble(o.v[f])
      [] o.t = "zset" -> o.e = "ziplist" =>
            Size(o) <= ZsetEntries /\ \A x \in DOMAIN o.v : Len(x) <= ZsetValue

(* Every object is of a known type, no aggregate is ever left empty, only   *)
(* existing keys have a time to live, and a compact encoding is never kept  *)
(* past its limits, but for what HINCRBY or HINCRBYFLOAT puts there         *)
(* (Compact): on the master, on its replicas, and in what a server loads    *)
(* from the RDB file.                                                       *)
KeysAreSound ==
    LET r == rdbLoad(rdbSaveRio(At(master, now, "master")), now, "slave")
    IN  \A d \in {master, slave, aof, r} :
            /\ DOMAIN d.db \subseteq Dbs \X Keys
            /\ DOMAIN d.ex \subseteq DOMAIN d.db
            /\ \A k \in DOMAIN d.db :
                  /\ d.db[k].t \in {"string", "list", "set", "hash", "zset"}
                  /\ d.db[k].t # "string" => Size(d.db[k]) > 0
                  /\ Compact(d.db[k])

(* The values without their encodings.                                     *)
Values(db) == [k \in DOMAIN db |-> <<db[k].t, db[k].v>>]

(* A slave that executed all that was propagated, and a server that loads  *)
(* the append only file, hold the master's keys with the master's values,  *)
(* however much later they execute; no key of theirs expires earlier than  *)
(* the master's, and a key without a time to live has none there either.   *)
(* The exception is named: the SET that INCRBYFLOAT is propagated as takes *)
(* the time to live away there, although the master's key keeps it.        *)
ReplicasConverge ==
    \A d \in {slave, aof} :
        /\ Values(d.db) = Values(master.db)
        /\ DOMAIN d.ex \subseteq DOMAIN master.ex
        /\ DOMAIN master.ex \subseteq DOMAIN d.ex \cup untimed
        /\ \A k \in DOMAIN d.ex : d.ex[k] >= master.ex[k]

(* A rewritten append only file and a snapshot both restore every key that *)
(* has not expired, with its value and its time to live.                   *)
RebuiltFromDisk ==
    LET s == At(master, now, "master")
        live == {k \in DOMAIN s.db : k \in DOMAIN s.ex => s.ex[k] >= now}
        loaded == Replay(Empty, rewriteAppendOnlyFile(s), now + lag, "loading")
        restored == Data(rdbLoad(rdbSaveRio(s), now, "slave"))
    IN  \A d \in {loaded, restored} :
            /\ Values(d.db) = [k \in live |-> <<s.db[k].t, s.db[k].v>>]
            /\ d.ex = [k \in live \cap DOMAIN s.ex |-> s.ex[k]]

(* A command that changes the value of a key signals it, so that a         *)
(* transaction watching the key is aborted (MOVE is the exception: it      *)
(* signals nothing), and counts the change.  Only expiry changes keys      *)
(* silently.                                                               *)
ChangesAreSignalled ==
    LET s == At(master, now, "master")
        changed(before, after) ==
            {k \in DOMAIN before \cup DOMAIN after :
               /\ ~(Expired(s, k) /\ k \notin DOMAIN after)
               /\ \/ k \notin DOMAIN before
                  \/ k \notin DOMAIN after
                  \/ before[k] # after[k]}
        signalled(c, r, keys) == /\ c.op # "move" => keys \subseteq r.touched
                                 /\ keys # {} => r.dirty > 0
    IN  \A c \in Commands[load] : Sensible(c) =>
          \A r \in {exec(s, c)} : signalled(c, r, changed(Values(s.db), Values(r.db)))

(* A client that reads from a slave in step with its master gets the reply *)
(* the master gives at that moment: a key past its time is hidden from it  *)
(* although the slave keeps it until the master's DEL.  A key that lost    *)
(* its time to live at the slave by INCRBYFLOAT is excepted.               *)
ReadsAgree ==
    lag = 0 /\ untimed = {} =>
        \A c \in Commands[load] :
            c.op \in {"get", "mget", "strlen", "getrange", "getbit",
                      "bitcount", "bitpos", "llen", "lindex", "lrange",
                      "hget", "hmget", "hlen", "hstrlen", "hexists",
                      "hgetall", "scard", "sismember", "srandmember",
                      "zrange", "zrangebyscore", "zrangebylex", "zcount", "zlexcount", "zcard", "zscore",
                      "zrank", "type", "ttl", "touch", "keys"}
            => Cardinality({exec(s, c).reply :
                  s \in {At(slave, now, "reader"), At(master, now, "master")}}) = 1

============================================================================
