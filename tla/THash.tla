------------------------------- MODULE THash -------------------------------
(* The commands on hashes (t_hash.c).  A hash is a function from fields to *)
(* values with its encoding: a ziplist while it is small, a hash table     *)
(* from then on.                                                           *)
EXTENDS Db

CONSTANTS HashEntries,   \* hash-max-ziplist-entries
          HashValue      \* hash-max-ziplist-value

ASSUME HashAssumption == HashEntries \in Nat /\ HashValue \in Nat

Hash(enc, f) == [t |-> "hash", e |-> enc, v |-> f]

(* Mutant: only the last argument is looked at.                            *)
hashTypeTryConversionValue(o, args) ==
    IF o.e = "ziplist" /\ Len(args[Len(args)]) > HashValue
    THEN Hash("ht", o.v)
    ELSE o

(* One long argument is enough to give up the ziplist.                     *)
hashTypeTryConversion(o, args) ==
    IF o.e = "ziplist" /\ \E i \in 1..Len(args) : Len(args[i]) > HashValue
    THEN Hash("ht", o.v)
    ELSE o

(* hashTypeConvertZiplist: the same fields and values in a hash table.     *)
hashTypeConvert(o) == Hash("ht", o.v)

hashTypeLength(o) == Cardinality(DOMAIN o.v)

hashTypeExists(o, f) == f \in DOMAIN o.v

(* Entries are counted only after the insertion.                           *)
hashTypeSet(o, f, v) ==
    LET new == Hash(o.e, Put(o.v, f, v))
    IN  IF new.e = "ziplist" /\ hashTypeLength(new) > HashEntries
        THEN hashTypeConvert(new)
        ELSE new

hashTypeDelete(o, fs) == Hash(o.e, Drop(o.v, fs))

(* The hash to write to, created when missing.                             *)
hashTypeLookupWriteOrCreate(s, k) ==
    IF lookupKey(s, k) = NoVal THEN Hash("ziplist", <<>>) ELSE lookupKey(s, k)

hsetCommand(s, c) ==
    LET e == expireIfNeeded(s, c.k)
        o == hashTypeLookupWriteOrCreate(e, c.k)
        new == hashTypeSet(hashTypeTryConversion(o, <<c.f, c.v>>), c.f, c.v)
    IN  IF o.t # "hash" THEN Reply(e, WrongType)
        ELSE Reply(Modified(dbAdd(e, c.k, new), c.k),
                   Num(IF hashTypeExists(o, c.f) THEN 0 ELSE 1))

(* A conversion happens even if the field is there and nothing is set.     *)
hsetnxCommand(s, c) ==
    LET e == expireIfNeeded(s, c.k)
        o == hashTypeLookupWriteOrCreate(e, c.k)
        conv == hashTypeTryConversion(o, <<c.f, c.v>>)
    IN  IF o.t # "hash" THEN Reply(e, WrongType)
        ELSE IF hashTypeExists(o, c.f) THEN Reply(dbAdd(e, c.k, conv), Num(0))
        ELSE Reply(Modified(dbAdd(e, c.k, hashTypeSet(conv, c.f, c.v)), c.k),
                   Num(1))

(* c.fs and c.vs are the fields and their values.                          *)
hmsetCommand(s, c) ==
    LET e == expireIfNeeded(s, c.k)
        o == hashTypeLookupWriteOrCreate(e, c.k)
        set[i \in 0..Len(c.fs)] ==
            IF i = 0 THEN hashTypeTryConversion(o, c.fs \o c.vs)
            ELSE hashTypeSet(set[i - 1], c.fs[i], c.vs[i])
    IN  IF o.t # "hash" THEN Reply(e, WrongType)
        ELSE Reply(Modified(dbAdd(e, c.k, set[Len(c.fs)]), c.k), Ok)

hincrbyCommand(s, c) ==
    LET e == expireIfNeeded(s, c.k)
        o == hashTypeLookupWriteOrCreate(e, c.k)
        old == IF hashTypeExists(o, c.f)
               THEN getLongLongFromObject(o.v[c.f]) ELSE 0
        new == hashTypeSet(o, c.f, ll2string(old + c.n))
    IN  IF o.t # "hash" THEN Reply(e, WrongType)
        ELSE IF hashTypeExists(o, c.f) /\ ~IsNumber(o.v[c.f])
        THEN Reply(e, Error)
        ELSE IF \/ c.n < 0 /\ old < 0 /\ c.n < LMin - old
                \/ c.n > 0 /\ old > 0 /\ c.n > LMax - old
        THEN Reply(e, Error)
        ELSE Reply(Modified(dbAdd(e, c.k, new), c.k), Num(old + c.n))

(* Propagated as HSET of the final value.  Neither this command nor        *)
(* HINCRBY calls hashTypeTryConversion, and an infinite sum is stored.     *)
hincrbyfloatCommand(s, c) ==
    LET e == expireIfNeeded(s, c.k)
        o == hashTypeLookupWriteOrCreate(e, c.k)
        old == IF hashTypeExists(o, c.f)
               THEN getLongDoubleFromObject(o.v[c.f]) ELSE 0
        v == ld2string(LongDoubleSum(old, c.n))
    IN  IF o.t # "hash" THEN Reply(e, WrongType)
        ELSE IF hashTypeExists(o, c.f) /\ ~IsLongDouble(o.v[c.f])
        THEN Reply(e, Error)
        ELSE Reply(rewriteClientCommandVector(
                       Modified(dbAdd(e, c.k, hashTypeSet(o, c.f, v)), c.k),
                       [op |-> "hset", k |-> c.k, f |-> c.f, v |-> v]),
                   Bulk(v))

addHashFieldToReply(o, f) ==
    IF o = NoVal \/ f \notin DOMAIN o.v THEN Nil ELSE Bulk(o.v[f])

hgetCommand(s, c) ==
    LET o == lookupKeyRead(s, c.k)
    IN  Reply(expireIfNeeded(s, c.k),
              IF o = NoVal THEN Nil
              ELSE IF o.t # "hash" THEN WrongType
              ELSE addHashFieldToReply(o, c.f))

hmgetCommand(s, c) ==
    LET o == lookupKeyRead(s, c.k)
    IN  Reply(expireIfNeeded(s, c.k),
              IF o # NoVal /\ o.t # "hash" THEN WrongType
              ELSE Multi([i \in 1..Len(c.fs) |->
                             addHashFieldToReply(o, c.fs[i])]))

(* Fields are deleted in turn; the key goes with the last one.             *)
hdelCommand(s, c) ==
    LET e == expireIfNeeded(s, c.k)
        o == lookupKey(e, c.k)
        gone == {c.fs[i] : i \in 1..Len(c.fs)} \cap DOMAIN o.v
        new == hashTypeDelete(o, gone)
        kept == IF new.v = <<>> THEN dbDelete(e, c.k) ELSE dbAdd(e, c.k, new)
    IN  IF o = NoVal THEN Reply(e, Num(0))
        ELSE IF o.t # "hash" THEN Reply(e, WrongType)
        ELSE IF gone = {} THEN Reply(e, Num(0))
        ELSE Reply(Dirty(signalModifiedKey(kept, c.k), Cardinality(gone)),
                   Num(Cardinality(gone)))

hlenCommand(s, c) ==
    LET o == lookupKeyRead(s, c.k)
    IN  Reply(expireIfNeeded(s, c.k),
              IF o = NoVal THEN Num(0)
              ELSE IF o.t # "hash" THEN WrongType
              ELSE Num(hashTypeLength(o)))

hstrlenCommand(s, c) ==
    LET o == lookupKeyRead(s, c.k)
    IN  Reply(expireIfNeeded(s, c.k),
              IF o = NoVal THEN Num(0)
              ELSE IF o.t # "hash" THEN WrongType
              ELSE Num(IF hashTypeExists(o, c.f) THEN Len(o.v[c.f]) ELSE 0))

hexistsCommand(s, c) ==
    LET o == lookupKeyRead(s, c.k)
    IN  Reply(expireIfNeeded(s, c.k),
              IF o = NoVal THEN Num(0)
              ELSE IF o.t # "hash" THEN WrongType
              ELSE Num(IF hashTypeExists(o, c.f) THEN 1 ELSE 0))

(* HGETALL, HKEYS and HVALS: the iteration order is the encoding's.        *)
genericHgetallCommand(s, c) ==
    LET o == lookupKeyRead(s, c.k)
    IN  Reply(expireIfNeeded(s, c.k),
              IF o = NoVal THEN Multi(<<>>)
              ELSE IF o.t # "hash" THEN WrongType
              ELSE <<"fields", o.v>>)

============================================================================
