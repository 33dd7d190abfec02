------------------------------- MODULE TZset -------------------------------
(* The commands on sorted sets (t_zset.c).  A sorted set is a function     *)
(* from members to scores with its encoding: a ziplist while it is small,  *)
(* a skip list with a dictionary from then on.  Scores are the doubles     *)
(* -Inf..Inf, whose ends are the infinities.                               *)
EXTENDS Db

CONSTANTS ZsetEntries,   \* zset-max-ziplist-entries
          ZsetValue,     \* zset-max-ziplist-value
          Inf            \* the infinite score

ASSUME ZsetAssumption ==
    ZsetEntries \in Nat /\ ZsetValue \in Nat /\ Inf \in Nat \ {0}

Zset(enc, f) == [t |-> "zset", e |-> enc, v |-> f]

NaN == Inf + 1

(* Sums and products of doubles.                                           *)
Saturate(x) == IF x > Inf THEN Inf ELSE IF x < -Inf THEN -Inf ELSE x

Plus(a, b) ==
    IF a = -b /\ a \in {-Inf, Inf} THEN NaN
    ELSE IF a \in {-Inf, Inf} THEN a
    ELSE IF b \in {-Inf, Inf} THEN b
    ELSE Saturate(a + b)

Times(a, b) ==
    IF {a, b} \cap {-Inf, Inf} # {} /\ 0 \in {a, b} THEN NaN
    ELSE Saturate(a * b)

(* The order of the members: by score, then by name.                       *)
Precedes(f, x, y) ==
    \/ f[x] < f[y]
    \/ f[x] = f[y] /\ compareStringObjects(x, y) < 0

(* The rank of a member, from 1, and the members in order.                 *)
zslGetRank(f, x) == Cardinality({y \in DOMAIN f : Precedes(f, y, x)}) + 1

zslGetElementByRank(f, r) == CHOOSE x \in DOMAIN f : zslGetRank(f, x) = r

Ranked(f) ==
    [r \in 1..Cardinality(DOMAIN f) |-> zslGetElementByRank(f, r)]

(* Ranges of scores: [min, max, minex, maxex].                             *)
zslValueGteMin(x, r) == IF r.minex THEN x > r.min ELSE x >= r.min

zslValueLteMax(x, r) == IF r.maxex THEN x < r.max ELSE x <= r.max

(* Ranges of names; an end is <<>> if it is - or +, <<name>> otherwise.    *)
zslLexValueGteMin(x, r) ==
    \/ r.min = <<>>
    \/ compareStringObjects(x, r.min[1]) > 0
    \/ compareStringObjects(x, r.min[1]) = 0 /\ ~r.minex

zslLexValueLteMax(x, r) ==
    \/ r.max = <<>>
    \/ compareStringObjects(x, r.max[1]) < 0
    \/ compareStringObjects(x, r.max[1]) = 0 /\ ~r.maxex

(* The members of a range are found by walking from the first that is not  *)
(* below it (in reverse, from the last that is not above) as long as they  *)
(* are inside: a run of consecutive ranks.                                 *)
Run(q, from, upto) ==
    LET starts == {i \in 1..Len(q) : q[i] \in from}
        first == Least(starts)
        stops == {i \in first..Len(q) : q[i] \notin upto}
    IN  IF starts = {} THEN <<>>
        ELSE SubSeq(q, first, IF stops = {} THEN Len(q) ELSE Least(stops) - 1)

Backwards(q) == [i \in 1..Len(q) |-> q[Len(q) + 1 - i]]

zslRangeByScore(f, r, rev) ==
    LET gte == {x \in DOMAIN f : zslValueGteMin(f[x], r)}
        lte == {x \in DOMAIN f : zslValueLteMax(f[x], r)}
    IN  IF rev THEN Run(Backwards(Ranked(f)), lte, gte) ELSE Run(Ranked(f), gte, lte)

zslRangeByLex(f, r, rev) ==
    LET gte == {x \in DOMAIN f : zslLexValueGteMin(x, r)}
        lte == {x \in DOMAIN f : zslLexValueLteMax(x, r)}
    IN  IF rev THEN Run(Backwards(Ranked(f)), lte, gte) ELSE Run(Ranked(f), gte, lte)

(* The members between two ranks that count from 0, from the end if        *)
(* negative.                                                               *)
RangeByRank(q, start, end) ==
    LET a == IF start < 0 THEN Len(q) + start ELSE start
        b == IF end < 0 THEN Len(q) + end ELSE end
        a0 == IF a < 0 THEN 0 ELSE a
        b0 == IF b >= Len(q) THEN Len(q) - 1 ELSE b
    IN  IF a0 > b \/ a0 >= Len(q) THEN <<>> ELSE SubSeq(q, a0 + 1, b0 + 1)

----------------------------------------------------------------------------
(* Encodings.                                                              *)

zsetConvert(o, enc) == Zset(enc, o.v)

zsetLength(o) == Cardinality(DOMAIN o.v)

(* A new sorted set looks at its first member only.                        *)
zsetCreate(x) ==
    Zset(IF ZsetEntries = 0 \/ ZsetValue < Len(x) THEN "skiplist"
         ELSE "ziplist", <<>>)

(* An insertion; entries and length are tested after it.                   *)
zsetInsert(o, x, score) ==
    LET new == Zset(o.e, Put(o.v, x, score))
    IN  IF o.e = "ziplist" /\ (zsetLength(new) > ZsetEntries \/ Len(x) > ZsetValue)
        THEN zsetConvert(new, "skiplist")
        ELSE new

(* A result of ZUNIONSTORE is built as a skip list; the lengths of members *)
(* that are numbers are not counted.                                       *)
zsetConvertToZiplistIfNeeded(f) ==
    IF /\ Cardinality(DOMAIN f) <= ZsetEntries
       /\ \A x \in DOMAIN f : IsNumber(x) \/ Len(x) <= ZsetValue
    THEN Zset("ziplist", f)
    ELSE Zset("skiplist", f)

----------------------------------------------------------------------------
(* ZADD and ZINCRBY.                                                       *)

(* One member of a ZADD: the object, how many were added and updated, the  *)
(* score that INCR reports, and whether anything was NaN.                  *)
zaddStep(a, x, sc, c) ==
    LET cur == x \in DOMAIN a.o.v
        score == IF cur /\ c.incr THEN Plus(a.o.v[x], sc) ELSE sc
    IN  IF a.nan \/ (cur /\ c.nx) \/ (~cur /\ c.xx) THEN a
        ELSE IF score = NaN THEN [a EXCEPT !.nan = TRUE]
        ELSE IF cur /\ score = a.o.v[x]
        THEN [a EXCEPT !.score = score, !.processed = TRUE]
        ELSE IF cur
        THEN [a EXCEPT !.o = Zset(a.o.e, Put(a.o.v, x, score)),
                       !.updated = @ + 1, !.score = score, !.processed = TRUE]
        ELSE [a EXCEPT !.o = zsetInsert(a.o, x, score),
                       !.added = @ + 1, !.score = score, !.processed = TRUE]

(* All members in turn.                                                    *)
zaddAll(o, c) ==
    LET f[i \in 0..Len(c.vs)] ==
            IF i = 0
            THEN [o |-> o, added |-> 0, updated |-> 0, score |-> 0,
                  processed |-> FALSE, nan |-> FALSE]
            ELSE zaddStep(f[i - 1], c.vs[i], c.scores[i], c)
    IN  f[Len(c.vs)]

zaddGenericCommand(s, c) ==
    LET signalled(e, changes) == IF changes = 0 THEN e ELSE signalModifiedKey(e, c.k)
        done(e, a) ==
            Reply(signalled(Dirty(dbAdd(e, c.k, a.o), a.added + a.updated),
                            a.added + a.updated),
                  IF a.nan THEN Error
                  ELSE IF c.incr THEN IF a.processed THEN Num(a.score) ELSE Nil
                  ELSE Num(IF c.ch THEN a.added + a.updated ELSE a.added))
        found(e, o) ==
            IF o = NoVal /\ c.xx THEN Reply(e, IF c.incr THEN Nil ELSE Num(0))
            ELSE IF o.t \notin {"none", "zset"} THEN Reply(e, WrongType)
            ELSE done(e, zaddAll(IF o = NoVal THEN zsetCreate(c.vs[1]) ELSE o, c))
        live(e) == found(e, lookupKey(e, c.k))
    IN  IF (c.nx /\ c.xx) \/ (c.incr /\ Len(c.vs) > 1) THEN Reply(s, Error)
        ELSE live(expireIfNeeded(s, c.k))

----------------------------------------------------------------------------

KeepZset(s, k, o) == IF o.v = <<>> THEN dbDelete(s, k) ELSE dbAdd(s, k, o)

(* Delete members from a sorted set, and the key with the last of them.    *)
RemoveMembers(s, k, gone) ==
    LET o == lookupKey(s, k)
    IN  Reply(IF gone = {} THEN s
              ELSE Dirty(signalModifiedKey(
                       KeepZset(s, k, Zset(o.e, Drop(o.v, gone))), k),
                       Cardinality(gone)), Num(Cardinality(gone)))

zremCommand(s, c) ==
    LET e == expireIfNeeded(s, c.k)
        o == lookupKey(e, c.k)
    IN  IF o = NoVal THEN Reply(e, Num(0))
        ELSE IF o.t # "zset" THEN Reply(e, WrongType)
        ELSE RemoveMembers(e, c.k, Range1(c.vs) \cap DOMAIN o.v)

(* ZREMRANGEBYRANK, ZREMRANGEBYSCORE and ZREMRANGEBYLEX.                   *)
zremrangeGenericCommand(s, c) ==
    LET e == expireIfNeeded(s, c.k)
        o == lookupKey(e, c.k)
        q == CASE c.by = "rank"  -> RangeByRank(Ranked(o.v), c.start, c.end)
               [] c.by = "score" -> zslRangeByScore(o.v, c.range, FALSE)
               [] c.by = "lex"   -> zslRangeByLex(o.v, c.range, FALSE)
    IN  IF o = NoVal THEN Reply(e, Num(0))
        ELSE IF o.t # "zset" THEN Reply(e, WrongType)
        ELSE RemoveMembers(e, c.k, Range1(q))

(* A source of ZUNIONSTORE: a sorted set, or a set whose members count 1.  *)
zuiScores(o) ==
    CASE o.t = "none" -> <<>>
      [] o.t = "set"  -> [x \in o.v |-> 1]
      [] o.t = "zset" -> o.v

(* The score of x in a source with its weight; NaN becomes 0.              *)
Weighted(f, x, w) ==
    LET y == Times(w, f[x]) IN IF y = NaN THEN 0 ELSE y

zunionInterAggregate(a, b, how) ==
    CASE how = "sum" -> LET y == Plus(a, b) IN IF y = NaN THEN 0 ELSE y
      [] how = "min" -> IF b < a THEN b ELSE a
      [] how = "max" -> IF b > a THEN b ELSE a

(* The result replaces the destination, or deletes it if it is empty.      *)
zunionInterGenericCommand(s, c) ==
    LET objs == [i \in 1..Len(c.ks) |-> lookupKey(ExpireAll(s, c.ks), c.ks[i])]
        wrong == {i \in 1..Len(c.ks) : objs[i].t \notin {"none", "set", "zset"}}
        e == ExpireAll(s, IF wrong = {} THEN c.ks
                          ELSE SubSeq(c.ks, 1, Least(wrong)))
        src == [i \in 1..Len(c.ks) |-> zuiScores(objs[i])]
        has(x) == {i \in 1..Len(c.ks) : x \in DOMAIN src[i]}
        members == {x \in UNION {DOMAIN src[i] : i \in 1..Len(c.ks)} :
                       c.setop = "union" \/ has(x) = 1..Len(c.ks)}
        score(x) ==
            LET f[i \in 0..Len(c.ks)] ==
                    IF i = 0 THEN <<>>
                    ELSE IF i \notin has(x) THEN f[i - 1]
                    ELSE LET y == Weighted(src[i], x, c.weights[i])
                         IN  IF f[i - 1] = <<>> THEN <<y>>
                             ELSE <<zunionInterAggregate(f[i - 1][1], y, c.aggr)>>
            IN  f[Len(c.ks)][1]
        res == [x \in members |-> score(x)]
        d == dbDelete(e, c.dst)
    IN  IF wrong # {} THEN Reply(e, WrongType)
        ELSE IF members # {}
        THEN Reply(Modified(dbAdd(d, c.dst, zsetConvertToZiplistIfNeeded(res)),
                            c.dst), Num(Cardinality(members)))
        ELSE Reply(IF dbExists(e, c.dst) THEN Modified(d, c.dst) ELSE d, Num(0))

----------------------------------------------------------------------------
(* Reads.                                                                  *)

ZsetRead(s, k, missing, answer(_)) ==
    LET o == lookupKeyRead(s, k)
    IN  Reply(expireIfNeeded(s, k),
              IF o = NoVal THEN missing
              ELSE IF o.t # "zset" THEN WrongType
              ELSE answer(o.v))

WithScores(f, q) == Multi([i \in 1..Len(q) |-> <<q[i], f[q[i]]>>])

zrangeGenericCommand(s, c) ==
    ZsetRead(s, c.k, Multi(<<>>), LAMBDA f :
        WithScores(f, RangeByRank(IF c.rev THEN Backwards(Ranked(f))
                                  ELSE Ranked(f), c.start, c.end)))

(* LIMIT: a negative count means all.                                      *)
Limit(q, offset, count) ==
    IF offset < 0 THEN <<>>
    ELSE SubSeq(q, offset + 1,
                IF count < 0 \/ offset + count > Len(q) THEN Len(q)
                ELSE offset + count)

genericZrangebyscoreCommand(s, c) ==
    ZsetRead(s, c.k, Multi(<<>>), LAMBDA f :
        WithScores(f, Limit(zslRangeByScore(f, c.range, c.rev),
                            c.offset, c.count)))

genericZrangebylexCommand(s, c) ==
    ZsetRead(s, c.k, Multi(<<>>), LAMBDA f :
        Multi(Limit(zslRangeByLex(f, c.range, c.rev), c.offset, c.count)))

zcountCommand(s, c) ==
    ZsetRead(s, c.k, Num(0), LAMBDA f :
        Num(Len(zslRangeByScore(f, c.range, FALSE))))

zlexcountCommand(s, c) ==
    ZsetRead(s, c.k, Num(0), LAMBDA f :
        Num(Len(zslRangeByLex(f, c.range, FALSE))))

zcardCommand(s, c) ==
    ZsetRead(s, c.k, Num(0), LAMBDA f : Num(Cardinality(DOMAIN f)))

zscoreCommand(s, c) ==
    ZsetRead(s, c.k, Nil, LAMBDA f :
        IF c.v \in DOMAIN f THEN Num(f[c.v]) ELSE Nil)

zrankGenericCommand(s, c) ==
    ZsetRead(s, c.k, Nil, LAMBDA f :
        IF c.v \notin DOMAIN f THEN Nil
        ELSE Num(IF c.rev THEN Cardinality(DOMAIN f) - zslGetRank(f, c.v)
                 ELSE zslGetRank(f, c.v) - 1))

============================================================================
