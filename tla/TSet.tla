------------------------------- MODULE TSet --------------------------------
(* The commands on sets (t_set.c).  A set of integers is an intset while   *)
(* it is small, any other set a hash table.                                *)
EXTENDS Db

CONSTANT MaxIntset   \* set-max-intset-entries

ASSUME SetAssumption == MaxIntset \in Nat

SetObj(enc, S) == [t |-> "set", e |-> enc, v |-> S]

setTypeCreate(e) == SetObj(IF IsNumber(e) THEN "intset" ELSE "ht", {})

(* setTypeConvert: the same members in a hash table.                       *)
setTypeConvert(o) == SetObj("ht", o.v)

setTypeSize(o) == Cardinality(o.v)

setTypeAdd(o, e) ==
    LET new == SetObj(o.e, o.v \cup {e})
    IN  IF o.e = "intset" /\ (~IsNumber(e) \/ setTypeSize(new) > MaxIntset)
        THEN setTypeConvert(new)
        ELSE new

setTypeRemove(o, e) == SetObj(o.e, o.v \ {e})

(* A set built by adding members to an empty intset.                       *)
Gathered(S) ==
    SetObj(IF (\A e \in S : IsNumber(e)) /\ Cardinality(S) <= MaxIntset
           THEN "intset" ELSE "ht", S)

KeepSet(s, k, o) == IF o.v = {} THEN dbDelete(s, k) ELSE dbAdd(s, k, o)

saddCommand(s, c) ==
    LET e == expireIfNeeded(s, c.k)
        old == lookupKey(e, c.k)
        o == IF old = NoVal THEN setTypeCreate(c.vs[1]) ELSE old
        add[i \in 0..Len(c.vs)] ==
            IF i = 0 THEN o ELSE setTypeAdd(add[i - 1], c.vs[i])
        new == add[Len(c.vs)]
        added == setTypeSize(new) - setTypeSize(o)
        t == dbAdd(e, c.k, new)
    IN  IF o.t # "set" THEN Reply(e, WrongType)
        ELSE Reply(IF added = 0 THEN t
                   ELSE Dirty(signalModifiedKey(t, c.k), added), Num(added))

sremCommand(s, c) ==
    LET e == expireIfNeeded(s, c.k)
        o == lookupKey(e, c.k)
        gone == {c.vs[i] : i \in 1..Len(c.vs)} \cap o.v
    IN  IF o = NoVal THEN Reply(e, Num(0))
        ELSE IF o.t # "set" THEN Reply(e, WrongType)
        ELSE IF gone = {} THEN Reply(e, Num(0))
        ELSE Reply(Dirty(signalModifiedKey(
                       KeepSet(e, c.k, SetObj(o.e, o.v \ gone)), c.k),
                       Cardinality(gone)), Num(Cardinality(gone)))

smoveCommand(s, c) ==
    LET e == expireIfNeeded(expireIfNeeded(s, c.k), c.dst)
        o == lookupKey(e, c.k)
        d == lookupKey(e, c.dst)
        into == IF d = NoVal THEN setTypeCreate(c.v) ELSE d
        t == dbAdd(KeepSet(e, c.k, setTypeRemove(o, c.v)), c.dst,
                   setTypeAdd(into, c.v))
    IN  IF o = NoVal THEN Reply(e, Num(0))
        ELSE IF o.t # "set" \/ (d # NoVal /\ d.t # "set")
        THEN Reply(e, WrongType)
        ELSE IF c.k = c.dst
        THEN Reply(e, Num(IF c.v \in o.v THEN 1 ELSE 0))
        ELSE IF c.v \notin o.v THEN Reply(e, Num(0))
        ELSE Reply(Dirty(Modified(signalModifiedKey(t, c.k), c.dst),
                         IF c.v \in into.v THEN 0 ELSE 1), Num(1))

sismemberCommand(s, c) ==
    LET o == lookupKeyRead(s, c.k)
    IN  Reply(expireIfNeeded(s, c.k),
              IF o = NoVal THEN Num(0)
              ELSE IF o.t # "set" THEN WrongType
              ELSE Num(IF c.v \in o.v THEN 1 ELSE 0))

scardCommand(s, c) ==
    LET o == lookupKeyRead(s, c.k)
    IN  Reply(expireIfNeeded(s, c.k),
              IF o = NoVal THEN Num(0)
              ELSE IF o.t # "set" THEN WrongType
              ELSE Num(setTypeSize(o)))

Srem(k, e) == [op |-> "srem", k |-> k, vs |-> <<e>>]

(* SPOP with a count takes the members c.pick (all if the count reaches    *)
(* the size) and is propagated as DEL, or as one SREM per member.  Few     *)
(* members left are moved to a new set instead.                            *)
spopWithCountCommand(s, c) ==
    LET e == expireIfNeeded(s, c.k)
        o == lookupKeyRead(s, c.k)
        left == setTypeSize(o) - c.n
        new == IF left * 5 > c.n THEN SetObj(o.e, o.v \ c.pick)
                                 ELSE Gathered(o.v \ c.pick)
        q == InOrder(c.pick)
        also[i \in 0..Len(q)] ==
            IF i = 0
            THEN preventCommandPropagation(dbAdd(e, c.k, new))
            ELSE alsoPropagate(also[i - 1], Srem(c.k, q[i]))
    IN  IF c.n < 0 THEN Reply(s, Error)
        ELSE IF o = NoVal THEN Reply(e, Multi(<<>>))
        ELSE IF o.t # "set" THEN Reply(e, WrongType)
        ELSE IF c.n = 0 THEN Reply(e, Multi(<<>>))
        ELSE IF left <= 0
        THEN Reply(Dirty(signalModifiedKey(rewriteClientCommandVector(
                       dbDelete(e, c.k), Del(<<c.k>>)), c.k), c.n + 1),
                   <<"members", o.v>>)
        ELSE Reply(Dirty(signalModifiedKey(also[Len(q)], c.k), c.n + 1),
                   <<"members", c.pick>>)

(* SPOP of one member, the one in c.pick; propagated as its SREM.          *)
spopCommand(s, c) ==
    LET e == expireIfNeeded(s, c.k)
        o == lookupKey(e, c.k)
        x == CHOOSE x \in c.pick : TRUE
    IN  IF o = NoVal THEN Reply(e, Nil)
        ELSE IF o.t # "set" THEN Reply(e, WrongType)
        ELSE Reply(Modified(rewriteClientCommandVector(
                       KeepSet(e, c.k, setTypeRemove(o, x)), Srem(c.k, x)),
                       c.k), Bulk(x))

(* SRANDMEMBER returns members and changes nothing: c.pick, or everything. *)
srandmemberWithCountCommand(s, c) ==
    LET o == lookupKeyRead(s, c.k)
    IN  Reply(expireIfNeeded(s, c.k),
              IF o = NoVal THEN Multi(<<>>)
              ELSE IF o.t # "set" THEN WrongType
              ELSE IF c.n = 0 THEN Multi(<<>>)
              ELSE IF c.n >= setTypeSize(o) THEN <<"members", o.v>>
              ELSE <<"members", c.pick>>)

(* The source sets are looked up in order.  SINTER stops at the first that *)
(* is missing or of another type.                                          *)
LookedUp(s, c) ==
    LET bad == {i \in 1..Len(c.ks) : lookupKeyRead(s, c.ks[i]).t # "set"}
    IN  IF bad = {} THEN c.ks ELSE SubSeq(c.ks, 1, Least(bad))

(* Replace dst by the result, or delete it when the result is empty.       *)
StoreSet(s, dst, S) ==
    LET d == dbDelete(s, dst)
    IN  Reply(Modified(IF S = {} THEN d ELSE dbAdd(d, dst, Gathered(S)), dst),
              Num(Cardinality(S)))

sinterGenericCommand(s, c) ==
    LET looked == LookedUp(s, c)
        e == ExpireAll(s, looked)
        last == lookupKeyRead(s, looked[Len(looked)])
        res == {x \in lookupKeyRead(s, c.ks[1]).v :
                   \A i \in 2..Len(c.ks) : x \in lookupKeyRead(s, c.ks[i]).v}
    IN  IF last = NoVal
        THEN IF c.dst = <<>> THEN Reply(e, <<"members", {}>>)
             ELSE IF dbExists(e, c.dst)
             THEN Reply(Modified(dbDelete(e, c.dst), c.dst), Num(0))
             ELSE Reply(e, Num(0))
        ELSE IF last.t # "set" THEN Reply(e, WrongType)
        ELSE IF c.dst = <<>> THEN Reply(e, <<"members", res>>)
        ELSE StoreSet(e, c.dst, res)

(* SUNION and SDIFF: a missing set is empty, the first of another type     *)
(* ends the command.  Both algorithms of SDIFF compute the same members.   *)
sunionDiffGenericCommand(s, c) ==
    LET wrong == {i \in 1..Len(c.ks) :
                     lookupKeyRead(s, c.ks[i]).t \notin {"set", "none"}}
        e == ExpireAll(s, IF wrong = {} THEN c.ks
                          ELSE SubSeq(c.ks, 1, Least(wrong)))
        mem(i) == LET o == lookupKeyRead(s, c.ks[i])
                  IN  IF o = NoVal THEN {} ELSE o.v
        rest == UNION {mem(i) : i \in 2..Len(c.ks)}
        res == IF c.setop = "union" THEN mem(1) \cup rest ELSE mem(1) \ rest
    IN  IF wrong # {} THEN Reply(e, WrongType)
        ELSE IF c.dst = <<>> THEN Reply(e, <<"members", res>>)
        ELSE StoreSet(e, c.dst, res)

============================================================================
