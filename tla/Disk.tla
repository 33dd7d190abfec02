-------------------------------- MODULE Disk -------------------------------
(* What the two files hold.  The append only file (aof.c): the form in     *)
(* which a command is appended to it, and the commands a rewrite replaces  *)
(* it with.  The snapshot (rdb.c): what it holds of a data set, and the    *)
(* data set it is loaded into.  Module Persistence is about when they      *)
(* reach the disk.                                                         *)
EXTENDS TString, Sort

CONSTANT ItemsPerCmd   \* AOF_REWRITE_ITEMS_PER_CMD

ASSUME AofAssumption == ItemsPerCmd \in Nat \ {0}

SetPlain(k, v) ==
    [op |-> "set", k |-> k, v |-> v, nx |-> FALSE, xx |-> FALSE, px |-> None]

PexpireAt(k, when) == [op |-> "expire", k |-> k, at |-> when, abs |-> TRUE]

(* The time of EXPIRE, PEXPIRE, SETEX and PSETEX made absolute.            *)
catAppendOnlyExpireAtCommand(s, k, at, abs) ==
    PexpireAt(k, IF abs THEN at ELSE s.now + at)

(* Any other command is appended as it is: SET with EX or PX as well.      *)
feedAppendOnlyFile(s, c) ==
    CASE c.op = "expire" ->
            <<catAppendOnlyExpireAtCommand(s, c.k, c.at, c.abs)>>
      [] c.op = "setex"  ->
            <<SetPlain(c.k, c.v),
              catAppendOnlyExpireAtCommand(s, c.k, c.px, FALSE)>>
      [] OTHER -> <<c>>

----------------------------------------------------------------------------
(* A rewrite: every key as few commands of at most ItemsPerCmd elements.   *)

Chunks(q) ==
    [i \in 1..((Len(q) + ItemsPerCmd - 1) \div ItemsPerCmd) |->
        SubSeq(q, (i - 1) * ItemsPerCmd + 1,
               IF i * ItemsPerCmd > Len(q) THEN Len(q) ELSE i * ItemsPerCmd)]

rewriteListObjectHead(k, o) ==
    LET ch == Chunks(o.v)
    IN  [i \in DOMAIN ch |->
            [op |-> "push", k |-> k, vs |-> ch[i], where |-> "head"]]

rewriteListObject(k, o) ==
    LET ch == Chunks(o.v)
    IN  [i \in DOMAIN ch |->
            [op |-> "push", k |-> k, vs |-> ch[i], where |-> "tail"]]

rewriteSetObject(k, o) ==
    LET ch == Chunks(InOrder(o.v))
    IN  [i \in DOMAIN ch |-> [op |-> "sadd", k |-> k, vs |-> ch[i]]]

rewriteSortedSetObject(k, o) ==
    LET ch == Chunks(InOrder(DOMAIN o.v))
    IN  [i \in DOMAIN ch |->
            [op |-> "zadd", k |-> k, vs |-> ch[i],
             scores |-> [j \in DOMAIN ch[i] |-> o.v[ch[i][j]]],
             nx |-> FALSE, xx |-> FALSE, ch |-> FALSE, incr |-> FALSE]]

rewriteHashObject(k, o) ==
    LET ch == Chunks(InOrder(DOMAIN o.v))
    IN  [i \in DOMAIN ch |->
            [op |-> "hmset", k |-> k, fs |-> ch[i],
             vs |-> [j \in DOMAIN ch[i] |-> o.v[ch[i][j]]]]]

rewriteObject(s, k) ==
    LET o == s.db[k]
    IN  (CASE o.t = "string" -> <<SetPlain(k, o.v)>>
           [] o.t = "list"   -> rewriteListObject(k, o)
           [] o.t = "set"    -> rewriteSetObject(k, o)
           [] o.t = "zset"   -> rewriteSortedSetObject(k, o)
           [] o.t = "hash"   -> rewriteHashObject(k, o))
        \o IF k \in DOMAIN s.ex THEN <<PexpireAt(k, s.ex[k])>> ELSE <<>>

(* The keys past their time are left out.                                  *)
rewriteAppendOnlyFile(s) ==
    LET f[S \in SUBSET DOMAIN s.db] ==
            IF S = {} THEN <<>>
            ELSE LET k == CHOOSE k \in S : TRUE
                 IN  f[S \ {k}] \o
                     IF getExpire(s, k) # -1 /\ getExpire(s, k) < s.now
                     THEN <<>> ELSE rewriteObject(s, k)
    IN  f[DOMAIN s.db]

----------------------------------------------------------------------------
(* The snapshot: a compact object is written as one blob, any other        *)
(* element by element; loading chooses the encoding anew.                  *)

(* rdbSaveObjectType and rdbSaveObject: [type, value].                     *)
rdbSaveObject(o) ==
    [type |-> <<o.t, CASE o.t = "string" -> "raw"
                       [] o.t = "list"   -> "quicklist"
                       [] OTHER          -> o.e>>,
     value |-> o.v]

(* Integers are not counted as long members of a sorted set.               *)
rdbLoadObject(r) ==
    LET n(f) == Cardinality(DOMAIN f)
        fits(S, max) == \A x \in S : Len(x) <= max
    IN  CASE r.type = <<"string", "raw">> -> String(r.value)
          [] r.type = <<"list", "quicklist">> -> List(r.value)
          [] r.type = <<"set", "ht">> -> Gathered(r.value)
          [] r.type = <<"set", "intset">> ->
                SetObj(IF Cardinality(r.value) > MaxIntset THEN "ht"
                       ELSE "intset", r.value)
          [] r.type = <<"zset", "skiplist">> ->
                zsetConvertToZiplistIfNeeded(r.value)
          [] r.type = <<"zset", "ziplist">> ->
                Zset(IF n(r.value) > ZsetEntries THEN "skiplist"
                     ELSE "ziplist", r.value)
          [] r.type = <<"hash", "ht">> ->
                Hash(IF /\ n(r.value) <= HashEntries
                        /\ fits(DOMAIN r.value \cup Range1(r.value), HashValue)
                     THEN "ziplist" ELSE "ht", r.value)
          [] r.type = <<"hash", "ziplist">> ->
                Hash(IF n(r.value) > HashEntries THEN "ht" ELSE "ziplist",
                     r.value)

(* A key past its time is not saved.                                       *)
rdbSaveKeyValuePair(s, k) == ~(getExpire(s, k) # -1 /\ getExpire(s, k) < s.now)

rdbSaveRio(s) ==
    LET saved == {k \in DOMAIN s.db : rdbSaveKeyValuePair(s, k)}
    IN  [db |-> [k \in saved |-> rdbSaveObject(s.db[k])],
         ex |-> [k \in saved \cap DOMAIN s.ex |-> s.ex[k]]]

(* A master passes over the keys that expired meanwhile; a slave keeps     *)
(* them until its master's DEL.                                            *)
rdbLoad(file, now, role) ==
    LET gone == {k \in DOMAIN file.ex : role = "master" /\ file.ex[k] < now}
    IN  Server([k \in DOMAIN file.db \ gone |-> rdbLoadObject(file.db[k])],
               Drop(file.ex, gone), now, role)

============================================================================
