------------------------------ MODULE Skiplist ------------------------------
(* The skiplist of a large sorted set (t_zset.c): forward pointers and      *)
(* spans per level, the search that collects `update' and `rank', insertion *)
(* and the deletions, kept together with the dictionary from members to     *)
(* scores.  A node is named by its member; the header is 0 and NULL is -1.  *)
EXTENDS Integers, FiniteSets, SequencesExt

CONSTANTS ZMembers,      \* members of the sorted set, compared as numbers
          ZScores,       \* scores
          ZMaxLevel      \* ZSKIPLIST_MAXLEVEL

ASSUME SkiplistAssumption ==
    /\ ZMembers \subseteq Nat \ {0} /\ IsFiniteSet(ZMembers)
    /\ ZScores \subseteq Int
    /\ ZMaxLevel \in Nat \ {0}

VARIABLES zsl,       \* [level, length, tail, nodes]
          zdict      \* the scores of the members

zslVars == <<zsl, zdict>>

Header == 0
NoNode == -1

(* The forward pointer and the span of node x at level i.                  *)
Forward(z, x, i) == z.nodes[x].forward[i]
Span(z, x, i) == z.nodes[x].span[i]

zslCreate ==
    [level |-> 1, length |-> 0, tail |-> NoNode,
     nodes |-> (Header :> [score |-> 0, backward |-> NoNode,
                           forward |-> [i \in 1..ZMaxLevel |-> NoNode],
                           span |-> [i \in 1..ZMaxLevel |-> 0]])]

----------------------------------------------------------------------------
(* Searching.  Before(f, rank) says whether the search goes on over the     *)
(* node f, which has that rank if the spans are right.                      *)

WalkLevel(z, i, from, Before(_, _)) ==
    LET w[p \in (DOMAIN z.nodes) \X Int] ==
            LET f == Forward(z, p[1], i)
                r == p[2] + Span(z, p[1], i)
            IN  IF f # NoNode /\ Before(f, r) THEN w[<<f, r>>] ELSE p
    IN  w[from]

(* Where the search leaves each level, and with which rank; the levels the *)
(* list does not have yet start at the header.                             *)
Descend(z, Before(_, _)) ==
    LET s[i \in 1..(ZMaxLevel + 1)] ==
            IF i > z.level THEN <<Header, 0>>
            ELSE WalkLevel(z, i, s[i + 1], Before)
    IN  s

(* Score first, then member.                                               *)
Less(s1, m1, s2, m2) == s1 < s2 \/ (s1 = s2 /\ m1 < m2)

SearchFor(z, score, m) ==
    Descend(z, LAMBDA f, r : Less(z.nodes[f].score, f, score, m))

----------------------------------------------------------------------------
(* Changes.                                                                *)

zslInsert(z, score, m, level) ==
    LET s == SearchFor(z, score, m)
        update(i) == s[i][1]
        gap(i) == s[1][2] - s[i][2]
        old(i) == IF i > z.level THEN z.length ELSE Span(z, update(i), i)
        x == [score |-> score,
              backward |-> IF update(1) = Header THEN NoNode ELSE update(1),
              forward |-> [i \in 1..level |-> Forward(z, update(i), i)],
              span |-> [i \in 1..level |-> old(i) - gap(i)]]
        relink(n) ==
            [z.nodes[n] EXCEPT
               !.backward = IF n = x.forward[1] THEN m ELSE @,
               !.forward = [i \in DOMAIN @ |->
                              IF update(i) = n /\ i <= level THEN m ELSE @[i]],
               !.span = [i \in DOMAIN @ |->
                           IF update(i) # n THEN @[i]
                           ELSE IF i <= level THEN gap(i) + 1
                           ELSE IF i <= z.level THEN @[i] + 1
                           ELSE @[i]]]
    IN  [level |-> IF level > z.level THEN level ELSE z.level,
         length |-> z.length + 1,
         tail |-> IF x.forward[1] = NoNode THEN m ELSE z.tail,
         nodes |-> [n \in DOMAIN z.nodes |-> relink(n)] @@ (m :> x)]

(* Node x leaves; s is the search that ended in front of it.               *)
zslDeleteNode(z, x, s) ==
    LET unlink(n) ==
            [z.nodes[n] EXCEPT
               !.backward = IF n = Forward(z, x, 1)
                            THEN z.nodes[x].backward ELSE @,
               !.forward = [i \in DOMAIN @ |->
                              IF /\ i <= z.level /\ s[i][1] = n
                                 /\ @[i] = x
                              THEN Forward(z, x, i) ELSE @[i]],
               !.span = [i \in DOMAIN @ |->
                           IF i > z.level \/ s[i][1] # n THEN @[i]
                           ELSE IF Forward(z, n, i) = x
                           THEN @[i] + Span(z, x, i) - 1
                           ELSE @[i] - 1]]
        nodes == [n \in DOMAIN z.nodes \ {x} |-> unlink(n)]
        used == {i \in 1..z.level : nodes[Header].forward[i] # NoNode}
    IN  [level |-> IF used = {} THEN 1
                   ELSE CHOOSE i \in used : \A j \in used : j <= i,
         length |-> z.length - 1,
         tail |-> IF Forward(z, x, 1) = NoNode THEN z.nodes[x].backward
                  ELSE z.tail,
         nodes |-> nodes]

zslDelete(z, score, m) ==
    LET s == SearchFor(z, score, m)
        x == Forward(z, s[1][1], 1)
    IN  IF x = m /\ z.nodes[x].score = score THEN zslDeleteNode(z, x, s)
        ELSE z

(* The nodes that follow node x at the lowest level, as long as they are   *)
(* wanted; the k-th has Wanted(node, k).                                   *)
RunAfter(z, x, Wanted(_, _)) ==
    LET run[p \in (DOMAIN z.nodes) \X Nat] ==
            LET f == Forward(z, p[1], 1)
            IN  IF f # NoNode /\ Wanted(f, p[2] + 1)
                THEN <<f>> \o run[<<f, p[2] + 1>>] ELSE <<>>
    IN  run[<<x, 0>>]

DeleteRun(z, s, xs) ==
    FoldLeft(LAMBDA y, x : zslDeleteNode(y, x, s), z, xs)

(* A range is [min, max, minex, maxex].                                    *)
zslValueGteMin(v, range) == IF range.minex THEN v > range.min ELSE v >= range.min
zslValueLteMax(v, range) == IF range.maxex THEN v < range.max ELSE v <= range.max

zslDeleteRangeByScore(z, range) ==
    LET s == Descend(z, LAMBDA f, r :
                            ~zslValueGteMin(z.nodes[f].score, range))
        xs == RunAfter(z, s[1][1], LAMBDA f, k :
                            zslValueLteMax(z.nodes[f].score, range))
    IN  [z |-> DeleteRun(z, s, xs), removed |-> ToSet(xs)]

zslDeleteRangeByLex(z, range) ==
    LET s == Descend(z, LAMBDA f, r : ~zslValueGteMin(f, range))
        xs == RunAfter(z, s[1][1], LAMBDA f, k : zslValueLteMax(f, range))
    IN  [z |-> DeleteRun(z, s, xs), removed |-> ToSet(xs)]

(* Ranks count from 1.                                                     *)
zslDeleteRangeByRank(z, start, end) ==
    LET s == Descend(z, LAMBDA f, r : r < start)
        xs == RunAfter(z, s[1][1], LAMBDA f, k : s[1][2] + k <= end)
    IN  [z |-> DeleteRun(z, s, xs), removed |-> ToSet(xs)]

----------------------------------------------------------------------------
(* Queries.                                                                *)

zslIsInRange(z, range) ==
    /\ ~(range.min > range.max)
    /\ ~(range.min = range.max /\ (range.minex \/ range.maxex))
    /\ z.tail # NoNode
    /\ zslValueGteMin(z.nodes[z.tail].score, range)
    /\ zslValueLteMax(z.nodes[Forward(z, Header, 1)].score, range)

zslFirstInRange(z, range) ==
    LET s == Descend(z, LAMBDA f, r :
                            ~zslValueGteMin(z.nodes[f].score, range))
        x == Forward(z, s[1][1], 1)
    IN  IF zslIsInRange(z, range) /\ zslValueLteMax(z.nodes[x].score, range)
        THEN x ELSE NoNode

zslLastInRange(z, range) ==
    LET s == Descend(z, LAMBDA f, r :
                            zslValueLteMax(z.nodes[f].score, range))
        x == s[1][1]
    IN  IF zslIsInRange(z, range) /\ zslValueGteMin(z.nodes[x].score, range)
        THEN x ELSE NoNode

zslGetRankBefore(z, score, m) == SearchFor(z, score, m)[1][2]

(* 0 when the element is not there; a level whose search ends on it ends   *)
(* the whole search.                                                       *)
zslGetRank(z, score, m) ==
    LET s == Descend(z, LAMBDA f, r : ~Less(score, m, z.nodes[f].score, f))
        hits == {i \in 1..z.level : s[i][1] = m}
    IN  IF hits = {} THEN 0
        ELSE s[CHOOSE i \in hits : \A j \in hits : j <= i][2]

zslGetElementByRank(z, rank) ==
    LET s == Descend(z, LAMBDA f, r : r <= rank)
        hits == {i \in 1..z.level : s[i][2] = rank}
    IN  IF hits = {} THEN NoNode
        ELSE s[CHOOSE i \in hits : \A j \in hits : j <= i][1]

----------------------------------------------------------------------------
(* What ZADD, ZREM and the ZREMRANGE commands do with the two structures.  *)

Without(f, S) == [x \in DOMAIN f \ S |-> f[x]]

(* A score that changes takes the node out and puts a new one in.          *)
zaddGeneric(m, score, level) ==
    /\ zsl' = IF m \notin DOMAIN zdict THEN zslInsert(zsl, score, m, level)
              ELSE IF zdict[m] = score THEN zsl
              ELSE zslInsert(zslDelete(zsl, zdict[m], m), score, m, level)
    /\ zdict' = (m :> score) @@ zdict

zremove(m) ==
    /\ m \in DOMAIN zdict
    /\ zsl' = zslDelete(zsl, zdict[m], m)
    /\ zdict' = Without(zdict, {m})

zremrangeGeneric(result) ==
    /\ zsl' = result.z
    /\ zdict' = Without(zdict, result.removed)

ScoreRanges == [min : ZScores, max : ZScores, minex : BOOLEAN, maxex : BOOLEAN]

(* A lexicographic range needs members of one score.                       *)
LexRanges == [min : ZMembers, max : ZMembers, minex : {FALSE}, maxex : {FALSE}]

OneScore == \A m, n \in DOMAIN zdict : zdict[m] = zdict[n]

ZslInit ==
    /\ zsl = zslCreate
    /\ zdict = << >>

ZslNext ==
    \/ \E m \in ZMembers, s \in ZScores, l \in 1..ZMaxLevel : zaddGeneric(m, s, l)
    \/ \E m \in ZMembers : zremove(m)
    \/ \E r \in ScoreRanges : zremrangeGeneric(zslDeleteRangeByScore(zsl, r))
    \/ OneScore /\ \E r \in LexRanges :
                      zremrangeGeneric(zslDeleteRangeByLex(zsl, r))
    \/ \E i, j \in 1..zsl.length :
          zremrangeGeneric(zslDeleteRangeByRank(zsl, i, j))

ZslSpec == ZslInit /\ [][ZslNext]_zslVars

----------------------------------------------------------------------------
(* Properties.                                                             *)

(* The position of a member in the order of the sorted set.                *)
Position(m) ==
    Cardinality({n \in DOMAIN zdict : ~Less(zdict[m], m, zdict[n], n)})

PositionOf(x) == IF x = Header THEN 0
                 ELSE IF x = NoNode THEN zsl.length
                 ELSE Position(x)

(* The skiplist holds what the dictionary holds, every level links the     *)
(* nodes that reach it in order, every span is the distance it skips (to   *)
(* the end of the list for the last node), the way back is the way forth,  *)
(* and the level is the one of the highest node.                           *)
SkiplistIsSound ==
    LET nodes == DOMAIN zdict
        reach(i) == {m \in nodes : Len(zsl.nodes[m].forward) >= i}
        after(x, i) == {m \in reach(i) : PositionOf(m) > PositionOf(x)}
    IN  /\ DOMAIN zsl.nodes = nodes \cup {Header}
        /\ zsl.length = Cardinality(nodes)
        /\ \A m \in nodes : zsl.nodes[m].score = zdict[m]
        /\ \A i \in 1..zsl.level, x \in nodes \cup {Header} :
              x \in reach(i) \cup {Header} =>
                 LET f == Forward(zsl, x, i)
                 IN  /\ f = NoNode <=> after(x, i) = {}
                     /\ f # NoNode =>
                           /\ f \in after(x, i)
                           /\ \A m \in after(x, i) : Position(f) <= Position(m)
                     /\ Span(zsl, x, i) = PositionOf(f) - PositionOf(x)
        /\ \A m \in nodes :
              LET b == zsl.nodes[m].backward
              IN  IF Position(m) = 1 THEN b = NoNode
                  ELSE Forward(zsl, b, 1) = m
        /\ zsl.tail = IF nodes = {} THEN NoNode
                      ELSE CHOOSE m \in nodes : Position(m) = zsl.length
        /\ zsl.level > 1 => reach(zsl.level) # {} /\ reach(zsl.level + 1) = {}

(* Ranks count positions, in both directions, and the first and the last   *)
(* node of a range are those of the sorted set.                            *)
SearchesAgree ==
    /\ \A m \in DOMAIN zdict :
          /\ zslGetRank(zsl, zdict[m], m) = Position(m)
          /\ zslGetElementByRank(zsl, Position(m)) = m
    /\ \A r \in ScoreRanges :
          LET in == {m \in DOMAIN zdict : /\ zslValueGteMin(zdict[m], r)
                                          /\ zslValueLteMax(zdict[m], r)}
          IN  /\ zslFirstInRange(zsl, r) =
                    IF in = {} THEN NoNode
                    ELSE CHOOSE m \in in : \A n \in in : Position(m) <= Position(n)
              /\ zslLastInRange(zsl, r) =
                    IF in = {} THEN NoNode
                    ELSE CHOOSE m \in in : \A n \in in : Position(m) >= Position(n)

============================================================================
