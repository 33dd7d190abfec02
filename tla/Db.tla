-------------------------------- MODULE Db --------------------------------
(* The key space of a redis server (db.c) and the objects in it (object.c).*)
(* A command is an operator from a server and the command's arguments to   *)
(* the server after it.  A server is a record:                             *)
(*   db       key -> object; a key is a pair <<database, name>>            *)
(*   ex       key -> time at which it expires, of the keys that do         *)
(*   now      what mstime() reads                                          *)
(*   role     "master", "slave" (executing what its master sends),         *)
(*            "reader" (a slave serving a client's read) or "loading"      *)
(* and what one command leaves for its caller:                             *)
(*   dirty    how much server.dirty grew                                   *)
(*   touched  the keys passed to signalModifiedKey                         *)
(*   argv     the command as it will be propagated                         *)
(*   also     commands given to alsoPropagate                              *)
(*   prevent  preventCommandPropagation was called                         *)
(*   out      what was propagated, to slaves and append only file          *)
(*   reply    the reply                                                    *)
(* A string is a sequence of bytes, numbers are their decimal form.        *)
EXTENDS Integers, Sequences, FiniteSets, Functions

CONSTANTS Keys,       \* the names of keys
          Dbs,        \* the databases, numbered from 0
          LMax,       \* the greatest long long
          MaxString   \* the longest string a command may build (512 MB)

ASSUME DbAssumption ==
    /\ Dbs \subseteq Nat
    /\ LMax \in Nat \ {0}
    /\ MaxString \in Nat \ {0}

LMin == -LMax - 1

Range1(f) == {f[x] : x \in DOMAIN f}

Put(f, k, v) == [x \in DOMAIN f \cup {k} |-> IF x = k THEN v ELSE f[x]]

Drop(f, S) == [x \in DOMAIN f \ S |-> f[x]]

Least(S) == CHOOSE x \in S : \A y \in S : x <= y

Greatest(S) == CHOOSE x \in S : \A y \in S : x >= y

----------------------------------------------------------------------------
(* Objects and replies.                                                    *)

NoVal == [t |-> "none"]

String(b) == [t |-> "string", v |-> b]

Num(n) == <<"int", n>>

Bulk(b) == <<"bulk", b>>

Multi(q) == <<"multi", q>>

Nil == <<"nil">>

Ok == <<"ok">>

Error == <<"err">>

WrongType == <<"wrongtype">>

(* The decimal form of a number: one digit, with a sign if negative (LMax  *)
(* stands for the limit of long long, and is below ten).                   *)
ll2string(n) == IF n < 0 THEN <<45, 48 - n>> ELSE <<48 + n>>

IsNumber(b) == \E n \in LMin..LMax : ll2string(n) = b

(* getLongLongFromObject: a missing object counts as zero.                 *)
getLongLongFromObject(b) == CHOOSE n \in LMin..LMax : ll2string(n) = b

(* The numbers of INCRBYFLOAT and HINCRBYFLOAT: LMax stands for the limit  *)
(* of long double as well, and fractions are left out.  A sum past the     *)
(* limit is infinite, is written as inf or -inf and read back as such.     *)
ld2string(n) ==
    IF n > LMax THEN <<105, 110, 102>>
    ELSE IF n < LMin THEN <<45, 105, 110, 102>>
    ELSE ll2string(n)

LongDoubles == LMin - 1..LMax + 1

getLongDoubleFromObject(b) == CHOOSE n \in LongDoubles : ld2string(n) = b

IsLongDouble(b) == \E n \in LongDoubles : ld2string(n) = b

LongDoubleSum(m, n) == IF m \in LMin..LMax THEN m + n ELSE m

(* memcmp over the common length, then the lengths.                        *)
compareStringObjects(a, b) ==
    LET differ == {i \in 1..Len(a) : i <= Len(b) /\ a[i] # b[i]}
    IN  IF differ = {}
        THEN Len(a) - Len(b)
        ELSE a[Least(differ)] - b[Least(differ)]

(* A set of strings as a sequence in that order.                           *)
InOrder(S) ==
    CHOOSE q \in [1..Cardinality(S) -> S] :
        \A i, j \in 1..Cardinality(S) :
            i < j => compareStringObjects(q[i], q[j]) < 0

----------------------------------------------------------------------------
(* A server, and what a command does to it.                                *)

Server(d, e, t, r) ==
    [db |-> d, ex |-> e, now |-> t, role |-> r, dirty |-> 0, touched |-> {},
     argv |-> <<>>, also |-> <<>>, prevent |-> FALSE, out |-> <<>>,
     reply |-> Nil]

Reply(s, r) == [s EXCEPT !.reply = r]

signalModifiedKey(s, k) == [s EXCEPT !.touched = @ \cup {k}]

Dirty(s, n) == [s EXCEPT !.dirty = @ + n]

Modified(s, k) == Dirty(signalModifiedKey(s, k), 1)

rewriteClientCommandVector(s, c) == [s EXCEPT !.argv = <<c>>]

alsoPropagate(s, c) == [s EXCEPT !.also = Append(@, c)]

preventCommandPropagation(s) == [s EXCEPT !.prevent = TRUE]

Del(ks) == [op |-> "del", ks |-> ks]

----------------------------------------------------------------------------
(* Expires.                                                                *)

getExpire(s, k) == IF k \in DOMAIN s.ex THEN s.ex[k] ELSE -1

setExpire(s, k, when) == [s EXCEPT !.ex = Put(@, k, when)]

removeExpire(s, k) == [s EXCEPT !.ex = Drop(@, {k})]

dbDelete(s, k) == [s EXCEPT !.ex = Drop(@, {k}), !.db = Drop(@, {k})]

propagateExpire(s, k) == [s EXCEPT !.out = Append(@, Del(<<k>>))]

(* What expireIfNeeded returns, before it deletes.                         *)
Expired(s, k) ==
    /\ k \in DOMAIN s.ex
    /\ s.role # "loading"
    /\ s.now > s.ex[k]

expireIfNeededSilently(s, k) ==
    IF Expired(s, k) /\ s.role = "master" THEN dbDelete(s, k) ELSE s

(* A slave leaves the deletion to its master.                              *)
expireIfNeeded(s, k) ==
    IF Expired(s, k) /\ s.role = "master"
    THEN dbDelete(propagateExpire(s, k), k)
    ELSE s

----------------------------------------------------------------------------
(* Lookups.  lookupKeyWrite is expireIfNeeded and then lookupKey;          *)
(* lookupKeyRead also hides an expired key from the clients of a slave.    *)

lookupKey(s, k) == IF k \in DOMAIN s.db THEN s.db[k] ELSE NoVal

lookupKeyReadAny(s, k) ==
    IF Expired(s, k) /\ s.role = "master" THEN NoVal ELSE lookupKey(s, k)

lookupKeyRead(s, k) ==
    IF Expired(s, k) /\ s.role \in {"master", "reader"}
    THEN NoVal
    ELSE lookupKey(s, k)

dbExists(s, k) == k \in DOMAIN s.db

(* dbAdd and dbOverwrite.                                                  *)
dbAdd(s, k, o) == [s EXCEPT !.db = Put(@, k, o)]

setKeyUnsignalled(s, k, o) ==
    removeExpire(dbAdd(expireIfNeeded(s, k), k, o), k)

setKey(s, k, o) ==
    signalModifiedKey(removeExpire(dbAdd(expireIfNeeded(s, k), k, o), k), k)

(* Every key of the sequence in turn: the state after them.                *)
ExpireAll(s, ks) ==
    LET f[i \in 0..Len(ks)] ==
            IF i = 0 THEN s ELSE expireIfNeeded(f[i - 1], ks[i])
    IN  f[Len(ks)]

----------------------------------------------------------------------------
(* Commands that take keys of any type.                                    *)

delCommand(s, c) ==
    LET f[i \in 0..Len(c.ks)] ==
            IF i = 0
            THEN s
            ELSE LET e == expireIfNeeded(f[i - 1], c.ks[i])
                 IN  IF dbExists(e, c.ks[i])
                     THEN Modified(dbDelete(e, c.ks[i]), c.ks[i])
                     ELSE e
    IN  Reply(f[Len(c.ks)], Num(f[Len(c.ks)].dirty))

existsCommand(s, c) ==
    LET e == ExpireAll(s, c.ks)
    IN  Reply(e, Num(Cardinality({i \in 1..Len(c.ks) : dbExists(e, c.ks[i])})))

keysOf(s, d) == {k \in DOMAIN s.db : k[1] = d}

flushdbCommand(s, c) ==
    LET ks == keysOf(s, c.d)
    IN  Reply([Dirty(s, Cardinality(ks)) EXCEPT
                  !.db = Drop(@, ks), !.ex = Drop(@, ks),
                  !.touched = @ \cup ks], Ok)

flushallCommand(s, c) ==
    Reply([Dirty(s, Cardinality(DOMAIN s.db) + 1) EXCEPT
              !.db = <<>>, !.ex = <<>>,
              !.touched = @ \cup DOMAIN s.db], Ok)

(* RENAME and RENAMENX; the time to live moves with the value.             *)
renameGenericCommand(s, c) ==
    LET e == expireIfNeeded(s, c.k)
        o == lookupKey(e, c.k)
        when == getExpire(e, c.k)
        f == expireIfNeeded(e, c.dst)
        added == dbAdd(dbDelete(f, c.dst), c.dst, o)
        moved == IF when # -1 THEN setExpire(added, c.dst, when) ELSE added
    IN  IF o = NoVal THEN Reply(e, Error)
        ELSE IF c.k = c.dst THEN Reply(e, Ok)
        ELSE IF dbExists(f, c.dst) /\ c.nx THEN Reply(f, Num(0))
        ELSE Reply(Modified(signalModifiedKey(dbDelete(moved, c.k), c.k), c.dst),
                   Ok)

(* MOVE to another database; unlike the other commands it does not call    *)
(* signalModifiedKey.                                                      *)
moveCommand(s, c) ==
    LET dst == <<c.d, c.k[2]>>
        e == expireIfNeeded(s, c.k)
        o == lookupKey(e, c.k)
        when == getExpire(e, c.k)
        f == expireIfNeeded(e, dst)
        added == dbAdd(f, dst, o)
        moved == IF when # -1 THEN setExpire(added, dst, when) ELSE added
    IN  IF c.d \notin Dbs \/ c.d = c.k[1] THEN Reply(s, Error)
        ELSE IF o = NoVal THEN Reply(e, Num(0))
        ELSE IF dbExists(f, dst) THEN Reply(f, Num(0))
        ELSE Reply(Dirty(dbDelete(moved, c.k), 1), Num(1))

(* EXPIRE, PEXPIRE, EXPIREAT and PEXPIREAT (c.abs).  A time in the past    *)
(* deletes the key and is propagated as a DEL, but only by a master that   *)
(* is not loading.                                                         *)
expireGenericCommand(s, c) ==
    LET e == expireIfNeeded(s, c.k)
        when == IF c.abs THEN c.at ELSE s.now + c.at
    IN  IF ~dbExists(e, c.k) THEN Reply(e, Num(0))
        ELSE IF when <= e.now /\ e.role = "master"
        THEN Reply(rewriteClientCommandVector(
                       Modified(dbDelete(e, c.k), c.k), Del(<<c.k>>)), Num(1))
        ELSE Reply(Modified(setExpire(e, c.k, when), c.k), Num(1))

(* PERSIST looks at the dictionary itself: a key past its time that nobody *)
(* has deleted yet becomes a key without one.                              *)
persistCommand(s, c) ==
    IF dbExists(s, c.k) /\ c.k \in DOMAIN s.ex
    THEN Reply(Dirty(removeExpire(s, c.k), 1), Num(1))
    ELSE Reply(s, Num(0))

ttlGenericCommand(s, c) ==
    LET e == expireIfNeeded(s, c.k)
        left == getExpire(e, c.k) - e.now
    IN  Reply(e, IF lookupKeyRead(s, c.k) = NoVal THEN Num(-2)
                 ELSE IF getExpire(e, c.k) = -1 THEN Num(-1)
                 ELSE Num(IF left < 0 THEN 0 ELSE left))

typeCommand(s, c) ==
    Reply(expireIfNeeded(s, c.k), <<"status", lookupKeyRead(s, c.k).t>>)

touchCommand(s, c) ==
    Reply(ExpireAll(s, c.ks),
          Num(Cardinality({i \in 1..Len(c.ks) :
                              lookupKeyRead(s, c.ks[i]) # NoVal})))

(* KEYS * and RANDOMKEY pass over the keys that have expired (a master     *)
(* deletes them), and so does SCAN, whose cursor is module Dict's subject. *)
keysCommand(s, c) ==
    LET gone == {k \in keysOf(s, c.d) : Expired(s, k)}
        f[S \in SUBSET gone] ==
            IF S = {} THEN s
            ELSE LET k == CHOOSE k \in S : TRUE
                 IN  expireIfNeeded(f[S \ {k}], k)
    IN  Reply(f[gone], <<"names", keysOf(s, c.d) \ gone>>)

dbsizeCommand(s, c) == Reply(s, Num(Cardinality(keysOf(s, c.d))))

============================================================================
