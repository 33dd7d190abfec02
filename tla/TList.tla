------------------------------- MODULE TList -------------------------------
(* The commands on lists (t_list.c) that do not block.  A list is the      *)
(* sequence of its elements; module Quicklist is about how it is stored.   *)
EXTENDS Db

List(q) == [t |-> "list", v |-> q]

(* An object that must be absent or of the type.                           *)
IsOr(o, type) == o = NoVal \/ o.t = type

listTypePush(q, e, where) == IF where = "head" THEN <<e>> \o q ELSE Append(q, e)

(* What listTypePop returns and leaves.                                    *)
End(q, where) == IF where = "head" THEN q[1] ELSE q[Len(q)]

listTypePop(q, where) ==
    IF where = "head" THEN Tail(q) ELSE SubSeq(q, 1, Len(q) - 1)

(* Store the list, or delete the key when nothing is left.                 *)
Keep(s, k, q) == IF q = <<>> THEN dbDelete(s, k) ELSE dbAdd(s, k, List(q))

Reversed(q) == [i \in 1..Len(q) |-> q[Len(q) + 1 - i]]

(* LPUSH and RPUSH: the arguments one after the other.                     *)
pushGenericCommand(s, c) ==
    LET e == expireIfNeeded(s, c.k)
        o == lookupKey(e, c.k)
        q == IF o = NoVal THEN <<>> ELSE o.v
        new == IF c.where = "head" THEN Reversed(c.vs) \o q ELSE q \o c.vs
    IN  IF ~IsOr(o, "list") THEN Reply(e, WrongType)
        ELSE Reply(Dirty(signalModifiedKey(dbAdd(e, c.k, List(new)), c.k),
                         Len(c.vs)), Num(Len(new)))

(* LPUSHX and RPUSHX (c.ref = <<>>), and LINSERT next to the first element *)
(* equal to c.ref[1].                                                      *)
pushxGenericCommand(s, c) ==
    LET e == expireIfNeeded(s, c.k)
        o == lookupKey(e, c.k)
        at == {i \in 1..Len(o.v) : c.ref # <<>> /\ o.v[i] = c.ref[1]}
        p == IF c.where = "head" THEN Least(at) - 1 ELSE Least(at)
        new == IF c.ref = <<>> THEN listTypePush(o.v, c.v, c.where)
               ELSE SubSeq(o.v, 1, p) \o <<c.v>> \o SubSeq(o.v, p + 1, Len(o.v))
    IN  IF o = NoVal THEN Reply(e, Num(0))
        ELSE IF o.t # "list" THEN Reply(e, WrongType)
        ELSE IF c.ref # <<>> /\ at = {} THEN Reply(e, Num(-1))
        ELSE Reply(Modified(dbAdd(e, c.k, List(new)), c.k), Num(Len(new)))

llenCommand(s, c) ==
    LET o == lookupKeyRead(s, c.k)
    IN  Reply(expireIfNeeded(s, c.k),
              IF o = NoVal THEN Num(0)
              ELSE IF o.t # "list" THEN WrongType
              ELSE Num(Len(o.v)))

(* A 0-based index, from the end if negative, as a position.               *)
Position(q, n) == IF n < 0 THEN Len(q) + n + 1 ELSE n + 1

lindexCommand(s, c) ==
    LET o == lookupKeyRead(s, c.k)
    IN  Reply(expireIfNeeded(s, c.k),
              IF o = NoVal THEN Nil
              ELSE IF o.t # "list" THEN WrongType
              ELSE IF Position(o.v, c.n) \in 1..Len(o.v)
              THEN Bulk(o.v[Position(o.v, c.n)])
              ELSE Nil)

lsetCommand(s, c) ==
    LET e == expireIfNeeded(s, c.k)
        o == lookupKey(e, c.k)
        p == Position(o.v, c.n)
    IN  IF o = NoVal THEN Reply(e, Error)
        ELSE IF o.t # "list" THEN Reply(e, WrongType)
        ELSE IF p \notin 1..Len(o.v) THEN Reply(e, Error)
        ELSE Reply(Modified(dbAdd(e, c.k, List([o.v EXCEPT ![p] = c.v])), c.k),
                   Ok)

(* LPOP and RPOP.                                                          *)
popGenericCommand(s, c) ==
    LET e == expireIfNeeded(s, c.k)
        o == lookupKey(e, c.k)
    IN  IF o = NoVal THEN Reply(e, Nil)
        ELSE IF o.t # "list" THEN Reply(e, WrongType)
        ELSE Reply(Modified(Keep(e, c.k, listTypePop(o.v, c.where)), c.k),
                   Bulk(End(o.v, c.where)))

(* The elements between two indexes, counted from the end if negative.     *)
Between(q, start, end) ==
    LET a == IF start < 0 THEN Len(q) + start ELSE start
        b == IF end < 0 THEN Len(q) + end ELSE end
        a0 == IF a < 0 THEN 0 ELSE a
        b0 == IF b >= Len(q) THEN Len(q) - 1 ELSE b
    IN  IF a0 > b \/ a0 >= Len(q) THEN <<>> ELSE SubSeq(q, a0 + 1, b0 + 1)

lrangeCommand(s, c) ==
    LET o == lookupKeyRead(s, c.k)
    IN  Reply(expireIfNeeded(s, c.k),
              IF o = NoVal THEN Multi(<<>>)
              ELSE IF o.t # "list" THEN WrongType
              ELSE Multi(Between(o.v, c.start, c.end)))

ltrimCommand(s, c) ==
    LET e == expireIfNeeded(s, c.k)
        o == lookupKey(e, c.k)
    IN  IF o = NoVal THEN Reply(e, Ok)
        ELSE IF o.t # "list" THEN Reply(e, WrongType)
        ELSE Reply(Modified(Keep(e, c.k, Between(o.v, c.start, c.end)), c.k),
                   Ok)

(* The positions LREM deletes: the first c.n equal elements, the last -c.n *)
(* if negative, all of them if zero.                                       *)
Removed(q, e, n) ==
    LET at == {i \in 1..Len(q) : q[i] = e}
    IN  CASE n = 0 -> at
          [] n > 0 -> {i \in at : Cardinality({j \in at : j < i}) < n}
          [] n < 0 -> {i \in at : Cardinality({j \in at : j > i}) < -n}

lremCommand(s, c) ==
    LET e == expireIfNeeded(s, c.k)
        o == lookupKey(e, c.k)
        gone == Removed(o.v, c.v, c.n)
        kept == 1..Len(o.v) \ gone
        new == [i \in 1..Cardinality(kept) |->
                   o.v[CHOOSE j \in kept :
                          Cardinality({h \in kept : h < j}) = i - 1]]
        t == IF gone = {} THEN e
             ELSE Dirty(signalModifiedKey(e, c.k), Cardinality(gone))
    IN  IF o = NoVal THEN Reply(e, Num(0))
        ELSE IF o.t # "list" THEN Reply(e, WrongType)
        ELSE Reply(Keep(t, c.k, new), Num(Cardinality(gone)))

(* The push of RPOPLPUSH, also for a client that was blocked.              *)
rpoplpushHandlePush(s, dst, e) ==
    LET o == lookupKey(s, dst)
        q == IF o = NoVal THEN <<>> ELSE o.v
    IN  signalModifiedKey(dbAdd(s, dst, List(listTypePush(q, e, "head"))), dst)

(* The element is popped, then pushed, then an empty source is deleted:    *)
(* with source and destination the same key the list rotates.              *)
rpoplpushCommand(s, c) ==
    LET e == expireIfNeeded(s, c.k)
        o == lookupKey(e, c.k)
        f == expireIfNeeded(e, c.dst)
        d == lookupKey(f, c.dst)
        rest == dbAdd(f, c.k, List(listTypePop(o.v, "tail")))
        pushed == rpoplpushHandlePush(rest, c.dst, End(o.v, "tail"))
    IN  IF o = NoVal THEN Reply(e, Nil)
        ELSE IF o.t # "list" THEN Reply(e, WrongType)
        ELSE IF ~IsOr(d, "list") THEN Reply(f, WrongType)
        ELSE Reply(Modified(Keep(pushed, c.k, pushed.db[c.k].v), c.k),
                   Bulk(End(o.v, "tail")))

============================================================================
