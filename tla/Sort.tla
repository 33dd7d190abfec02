-------------------------------- MODULE Sort --------------------------------
(* SORT (sort.c): the elements of a list, set or sorted set, ordered by    *)
(* themselves or by other keys, returned or stored as a list.  A pattern   *)
(* is [kind |-> "self"] for #, [kind |-> "const"] for one without *, and   *)
(* otherwise [kind |-> "key", of, f]: the key each element leads to, and   *)
(* the field of it in <<f>>, or <<>>.                                      *)
EXTENDS TList, THash, TSet, TZset

NoPattern == [kind |-> "none"]

(* The order in which a server meets the members of a hash table: servers  *)
(* with the same set need not agree.                                       *)
Visited(s, S) ==
    IF s.role = "master" THEN InOrder(S) ELSE Reversed(InOrder(S))

(* The value an element leads to, or <<>>.                                 *)
lookupKeyByPattern(s, p, x) ==
    LET o == IF x \in DOMAIN p.of THEN lookupKeyRead(s, p.of[x]) ELSE NoVal
    IN  CASE p.kind = "self"  -> <<x>>
          [] p.kind = "const" -> <<>>
          [] p.kind = "key"   ->
                IF p.f = <<>>
                THEN IF o.t = "string" THEN <<o.v>> ELSE <<>>
                ELSE IF o.t = "hash" /\ p.f[1] \in DOMAIN o.v
                     THEN <<o.v[p.f[1]]>> ELSE <<>>

(* The keys that the elements lead to, each of which is looked up.         *)
PatternKeys(p, q) ==
    IF p.kind # "key" THEN <<>>
    ELSE LET hit == {i \in 1..Len(q) : q[i] \in DOMAIN p.of}
             f[i \in 0..Len(q)] ==
                 IF i = 0 THEN <<>>
                 ELSE IF i \in hit THEN Append(f[i - 1], p.of[q[i]])
                 ELSE f[i - 1]
         IN  f[Len(q)]

(* A SET stored unsorted is sorted all the same, so that the result does   *)
(* not depend on the server: [sort, alpha, by] after that rule.            *)
SortMode(o, c) ==
    LET dontsort == c.by.kind \in {"const", "self"}
        forced == dontsort /\ o.t = "set" /\ c.store # <<>>
    IN  [sort |-> ~dontsort \/ forced,
         alpha |-> c.alpha \/ forced,
         by |-> IF dontsort THEN NoPattern ELSE c.by]

(* The first and the last index of the output, from 0.                     *)
SortRange(n, c) ==
    LET start == IF c.offset < 0 THEN 0 ELSE c.offset
        end == IF c.count < 0 THEN n - 1 ELSE start + c.count - 1
    IN  IF start >= n THEN <<n - 1, n - 2>>
        ELSE <<start, IF end >= n THEN n - 1 ELSE end>>

(* The elements as they are collected.  Unsorted lists and sorted sets are *)
(* walked from either end.                                                 *)
SortVector(s, o, c, mode) ==
    LET walk(q) == IF ~mode.sort /\ c.desc THEN Reversed(q) ELSE q
    IN  CASE o.t = "none" -> <<>>
          [] o.t = "list" -> walk(o.v)
          [] o.t = "zset" -> IF mode.sort THEN Visited(s, DOMAIN o.v)
                                          ELSE walk(Ranked(o.v))
          [] o.t = "set"  -> Visited(s, o.v)

(* What each element is sorted by: <<>> when its pattern leads nowhere.    *)
SortWeight(s, x, mode) ==
    IF mode.by.kind = "none" THEN <<x>> ELSE lookupKeyByPattern(s, mode.by, x)

(* Without ALPHA an element that leads nowhere weighs 0.                   *)
SortScore(w) == IF w = <<>> THEN 0 ELSE getLongLongFromObject(w[1])

SortConvertible(w) == w = <<>> \/ IsNumber(w[1])

(* Equal scores are ordered by the elements; equal strings that a pattern  *)
(* led to are not.                                                         *)
sortCompare(x, y, wx, wy, mode, c) ==
    LET scores(a, b) == IF a # b THEN a - b ELSE compareStringObjects(x, y)
        cmp == IF ~mode.alpha THEN scores(SortScore(wx), SortScore(wy))
               ELSE IF wx = <<>> \/ wy = <<>> THEN Len(wx) - Len(wy)
               ELSE compareStringObjects(wx[1], wy[1])
    IN  IF c.desc THEN -cmp ELSE cmp

(* qsort; elements that compare equal stay as they were collected.         *)
Sorted(q, w, mode, c) ==
    LET before(cmp, j, i) == cmp < 0 \/ (cmp = 0 /\ j < i)
        place(i) == Cardinality({j \in 1..Len(q) :
            before(sortCompare(q[j], q[i], w[j], w[i], mode, c), j, i)}) + 1
    IN  [n \in 1..Len(q) |-> q[CHOOSE i \in 1..Len(q) : place(i) = n]]

(* Every element, or what its GET patterns lead to.                        *)
SortOutput(s, q, c) ==
    IF c.get = <<>>
    THEN [i \in 1..Len(q) |-> <<q[i]>>]
    ELSE [i \in 1..(Len(q) * Len(c.get)) |->
             lookupKeyByPattern(s, c.get[((i - 1) % Len(c.get)) + 1],
                                q[((i - 1) \div Len(c.get)) + 1])]

SortReply(out) ==
    Multi([i \in 1..Len(out) |-> IF out[i] = <<>> THEN Nil ELSE Bulk(out[i][1])])

(* STORE: what a pattern did not find is stored as an empty string, and an *)
(* empty result deletes the key.                                           *)
SortStore(s, k, out) ==
    LET q == [i \in 1..Len(out) |-> IF out[i] = <<>> THEN <<>> ELSE out[i][1]]
    IN  Reply(IF Len(out) > 0 THEN Dirty(setKey(s, k, List(q)), Len(out))
              ELSE IF dbExists(s, k) THEN Modified(dbDelete(s, k), k)
              ELSE s, Num(Len(out)))

(* The elements that the range selects, and what the patterns find there. *)
SortShow(s, c, shown) ==
    LET got[i \in 0..Len(c.get)] ==
            IF i = 0 THEN s
            ELSE ExpireAll(got[i - 1], PatternKeys(c.get[i], shown))
        done(end, out) == IF c.store = <<>> THEN Reply(end, SortReply(out))
                          ELSE SortStore(end, c.store[1], out)
    IN  done(got[Len(c.get)], SortOutput(s, shown, c))

(* The elements with their weights, of which one may not be a number.      *)
SortElements(s, c, mode, q, w) ==
    LET shown(all, r) == SubSeq(all, r[1] + 1, r[2] + 1)
    IN  IF mode.sort /\ ~mode.alpha /\ \E i \in DOMAIN w : ~SortConvertible(w[i])
        THEN Reply(s, Error)
        ELSE SortShow(s, c, shown(IF mode.sort THEN Sorted(q, w, mode, c) ELSE q,
                                  SortRange(Len(q), c)))

(* The whole command on the object o, in a server where the keys that have *)
(* expired were deleted.  A sorted set is left converted to a skip list,   *)
(* even by a SORT that only reads.                                         *)
SortObject(s, c, o, mode) ==
    LET conv == IF o.t = "zset" THEN dbAdd(s, c.k, zsetConvert(o, "skiplist"))
                ELSE s
        weighed(q) == [i \in 1..Len(q) |-> SortWeight(s, q[i], mode)]
        by(q) == IF mode.sort THEN ExpireAll(conv, PatternKeys(mode.by, q)) ELSE conv
        collected(q) == SortElements(by(q), c, mode, q, weighed(q))
    IN  IF o.t \notin {"none", "list", "set", "zset"} THEN Reply(s, WrongType)
        ELSE collected(SortVector(s, o, c, mode))

sortCommand(s, c) ==
    LET found(o) == SortObject(expireIfNeeded(s, c.k), c, o, SortMode(o, c))
    IN  found(lookupKeyRead(s, c.k))

============================================================================
