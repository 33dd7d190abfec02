------------------------------ MODULE Quicklist ------------------------------
(* A list (quicklist.c): a chain of ziplists, each of limited size, those    *)
(* away from the ends compressed when the configuration asks for it.  The    *)
(* actions are the calls t_list.c and rdb.c make, with the iterators they    *)
(* use.  A list is [nodes, count]; a node is [zl, count, enc, recompress].   *)
EXTENDS Ziplist

CONSTANTS QlValues,      \* values pushed, among those of Ziplist
          QlOptions,     \* [fill, depth]: list-max-ziplist-size and
                         \* list-compress-depth
          SizeLimit,     \* optimization_level of a negative fill
          SafetyLimit,   \* SIZE_SAFETY_LIMIT
          MinCompress,   \* bytes below which a node stays as it is
          MaxList        \* bound on the length of the list

ASSUME QuicklistAssumption ==
    /\ QlOptions \subseteq [fill : Int, depth : Nat]
    /\ {SizeLimit, SafetyLimit, MinCompress, MaxList} \subseteq Nat

VARIABLES ql, qlref, qlopt,
          marked     \* history: a command has left a node to be recompressed

quicklistVars == <<ql, qlref, qlopt, marked>>

(* Bytes of header and end mark of a ziplist.                              *)
Overhead == 11

BlobLen(n) == n.zl.bytes + Overhead

quicklistCreateNode(z) ==
    [zl |-> z, count |-> 0, enc |-> "raw", recompress |-> FALSE]

quicklistCreate == [nodes |-> <<>>, count |-> 0]

----------------------------------------------------------------------------
(* Compression.  A node that is too small stays as it is; LZF is taken to  *)
(* shrink the others.                                                      *)

quicklistCompressNode(n) ==
    IF n.enc = "raw" /\ BlobLen(n) >= MinCompress
    THEN [n EXCEPT !.enc = "lzf", !.recompress = FALSE] ELSE n

quicklistDecompressNode(n) == [n EXCEPT !.enc = "raw"]

quicklistDecompressNodeForUse(n) ==
    IF n.enc = "lzf" THEN [n EXCEPT !.enc = "raw", !.recompress = TRUE] ELSE n

(* Decompress what is within the depth of either end, compress node i if   *)
(* it is not (0 is NULL), and the nodes next to the depth.  `len' is the   *)
(* node counter, which the callers update afterwards.                      *)
CompressToDepth(nodes, i, len) ==
    LET depth == qlopt.depth
        n == Len(nodes)
        middle == n % 2 = 1 /\ (n + 1) \div 2 <= depth
        ends == {k \in 1..n : k <= depth \/ n + 1 - k <= depth}
        beyond == IF depth >= 2 THEN {depth + 1, n - depth} \cap (1..n) ELSE {}
        target(k) == \/ k = i /\ k \notin ends
                     \/ k \in beyond
    IN  IF depth = 0 \/ len < depth * 2 THEN nodes
        ELSE <<>> \o [k \in 1..n |->
                LET m == IF k \in ends THEN quicklistDecompressNode(nodes[k])
                         ELSE nodes[k]
                IN  IF ~middle /\ target(k)
                    THEN quicklistCompressNode(m) ELSE m]

quicklistCompress(nodes, i, len) ==
    IF nodes[i].recompress
    THEN [nodes EXCEPT ![i] = quicklistCompressNode(@)]
    ELSE CompressToDepth(nodes, i, len)

quicklistRecompressOnly(n) ==
    IF n.recompress THEN quicklistCompressNode(n) ELSE n

----------------------------------------------------------------------------
(* Nodes.                                                                  *)

(* The length of a value as text; one of an integer is close to its size.  *)
TextLen(v) == IF v.kind = "str" THEN v.n ELSE zipBodyLength(v)

quicklistNodeAllowInsert(nodes, i, v) ==
    /\ i \in 1..Len(nodes)
    /\ LET size == BlobLen(nodes[i]) + TextLen(v)
                   + zipPrevEncodeLength(TextLen(v)) + 1
       IN  \/ qlopt.fill < 0 /\ size <= SizeLimit
           \/ size <= SafetyLimit /\ nodes[i].count < qlopt.fill

quicklistNodeAllowMerge(nodes, a, b) ==
    /\ {a, b} \subseteq 1..Len(nodes)
    /\ LET size == BlobLen(nodes[a]) + BlobLen(nodes[b]) - Overhead
       IN  \/ qlopt.fill < 0 /\ size <= SizeLimit
           \/ /\ size <= SafetyLimit
              /\ nodes[a].count + nodes[b].count <= qlopt.fill

(* The new node goes before or after node i, which may be compressed then. *)
quicklistInsertNode(nodes, i, new, after) ==
    LET at == IF after THEN i + 1 ELSE i
        old == IF after THEN i ELSE i + 1
    IN  IF nodes = <<>> THEN <<new>>
        ELSE quicklistCompress(InsertAt(nodes, at, new), old, Len(nodes))

quicklistDelNode(q, i) ==
    [nodes |-> CompressToDepth(RemoveAt(q.nodes, i), 0, Len(q.nodes)),
     count |-> q.count - q.nodes[i].count]

NodeInsert(n, k, v) ==
    [n EXCEPT !.zl = ziplistInsertAt(@, k, v), !.count = @ + 1]

(* At the head or at the tail of the list.                                 *)
quicklistPush(q, v, where) ==
    LET head == where = "head"
        i == IF head THEN 1 ELSE Len(q.nodes)
        counted(nodes) == [nodes EXCEPT ![IF head THEN 1 ELSE Len(nodes)].count = @ + 1]
    IN  [nodes |-> counted(
             IF quicklistNodeAllowInsert(q.nodes, i, v)
             THEN [q.nodes EXCEPT ![i].zl = ziplistPush(@, v, where)]
             ELSE quicklistInsertNode(q.nodes, i,
                    quicklistCreateNode(ziplistPush(ziplistNew, v, where)), ~head)),
         count |-> q.count + 1]

(* Entry k of node i goes, and the node with its last entry.               *)
quicklistDelIndex(q, i, k) ==
    LET emptied(p) == IF p.nodes[i].count = 0 THEN quicklistDelNode(p, i) ELSE p
    IN  [emptied([q EXCEPT !.nodes[i].zl = ziplistDelete(@, k, 1),
                           !.nodes[i].count = @ - 1]) EXCEPT !.count = @ - 1]

(* The node of an index and the offset in it, negative from the tail; the  *)
(* node is decompressed and stays so until somebody compresses it.         *)
quicklistIndex(q, idx) ==
    LET n == Len(q.nodes)
        cnt(k) == q.nodes[k].count
        before[k \in 0..n] == IF k <= 1 THEN 0 ELSE before[k - 1] + cnt(k - 1)
        after[k \in 1..(n + 1)] == IF k >= n THEN 0 ELSE after[k + 1] + cnt(k + 1)
        i == IF idx >= 0
             THEN CHOOSE k \in 1..n : before[k] <= idx /\ idx < before[k] + cnt(k)
             ELSE CHOOSE k \in 1..n :
                     after[k] <= -idx - 1 /\ -idx - 1 < after[k] + cnt(k)
    IN  [i |-> i,
         offset |-> IF idx >= 0 THEN idx - before[i] ELSE idx + after[i],
         q |-> [q EXCEPT !.nodes[i] = quicklistDecompressNodeForUse(@)]]

quicklistReplaceAtIndex(q, idx, v) ==
    LET replaced(z, k) == ziplistInsertAt(ziplistDelete(z, k, 1), k, v)
        at(r) == [r.q.nodes EXCEPT ![r.i].zl = replaced(@, ziplistIndex(@, r.offset))]
        found(r) == quicklistCompress(at(r), r.i, Len(q.nodes))
    IN  [q EXCEPT !.nodes = found(quicklistIndex(q, idx))]

(* An iterator enters node i and leaves it again.                          *)
quicklistNext(nodes, i) ==
    quicklistCompress([nodes EXCEPT ![i] = quicklistDecompressNodeForUse(@)],
                      i, Len(nodes))

(* It is released in node i, if there is one.                              *)
quicklistReleaseIterator(q, i) ==
    IF i \in 1..Len(q.nodes)
    THEN [q EXCEPT !.nodes = quicklistCompress(@, i, Len(@))] ELSE q

----------------------------------------------------------------------------
(* Insertion in the middle.                                                *)

(* Nodes a and a+1 become one; the one with fewer entries is given up.     *)
quicklistZiplistMerge(q, a) ==
    LET keep(x, y) == IF Len(x.zl.entries) >= Len(y.zl.entries) THEN x ELSE y
        filled(n, z) == [n EXCEPT !.zl = z, !.count = ziplistLen(z)]
        merge(x, y) == [q EXCEPT !.nodes[a] = filled(keep(x, y), ziplistMerge(x.zl, y.zl)),
                                 !.nodes[a + 1].count = 0]
        both == merge(quicklistDecompressNode(q.nodes[a]),
                      quicklistDecompressNode(q.nodes[a + 1]))
    IN  [quicklistDelNode(both, a + 1) EXCEPT !.nodes = quicklistCompress(@, a, Len(@))]

MergeIf(q, a) ==
    IF quicklistNodeAllowMerge(q.nodes, a, a + 1)
    THEN quicklistZiplistMerge(q, a) ELSE q

(* The two in front of the centre, the two behind it, then the centre with *)
(* its neighbours.  `at' is where the centre is in the end, 0 if the merge *)
(* gave it up.                                                             *)
quicklistMergeNodes(q, c) ==
    LET entries(p, k) == Len(p.nodes[k].zl.entries)
        merged(p, r) == Len(r.nodes) < Len(p.nodes)
        forth(q2, q3, q4, c1, t) ==
            [q |-> q4,
             at |-> IF \/ merged(q2, q3) /\ entries(q2, c1 - 1) >= entries(q2, c1)
                       \/ merged(q3, q4) /\ entries(q3, t) < entries(q3, t + 1)
                    THEN 0 ELSE t]
        back(q2, q3, c1, t) == forth(q2, q3, MergeIf(q3, t), c1, t)
        centre(q2, q3, c1) == back(q2, q3, c1, IF merged(q2, q3) THEN c1 - 1 ELSE c1)
        behind(q2, c1) == centre(q2, MergeIf(q2, c1 - 1), c1)
        front(q1, c1) == behind(MergeIf(q1, c1 + 1), c1)
        start(q1) == front(q1, c - (Len(q.nodes) - Len(q1.nodes)))
    IN  start(MergeIf(q, c - 2))

(* Two copies of the node, each with one part deleted; the node keeps the  *)
(* part that ends or begins next to the new entry.                         *)
quicklistSplitNode(n, offset, after) ==
    LET cut == IF after THEN offset + 1 ELSE offset
        part(lower) == ziplistRecount(ziplistDeleteRange(n.zl,
            IF lower THEN cut ELSE 0,
            IF lower THEN Len(n.zl.entries) ELSE cut))
        holding(m, z) == [m EXCEPT !.zl = z, !.count = ziplistLen(z)]
        parts(z) == [orig |-> holding(n, z[after]),
                     new |-> holding(quicklistCreateNode(ziplistNew), z[~after])]
    IN  parts([lower \in BOOLEAN |-> part(lower)])

(* Insert next to entry offset (from 0) of node i.  In a full node: a      *)
(* neighbour with room when the place is at the edge, a node of its own    *)
(* when the neighbour is full too, else a split.  The last entry of a node *)
(* has offset count - 1 and never counts as its tail.  `at' is node i.     *)
quicklistInsert(q, i, offset, v, after) ==
    LET nodes == q.nodes
        at_tail == after /\ offset = nodes[i].count
        at_head == ~after /\ offset = 0
        side == IF after THEN i + 1 ELSE i - 1
        edge == (at_tail \/ at_head) /\ side \in 1..Len(nodes)
        allowed == {j \in {i} \cup (IF edge THEN {side} ELSE {}) :
                       quicklistNodeAllowInsert(nodes, j, v)}
        put(j, k) ==
            [nodes EXCEPT ![j] = quicklistRecompressOnly(
                NodeInsert(quicklistDecompressNodeForUse(@), k, v))]
        place(j) == IF j = i THEN IF after THEN offset + 2 ELSE offset + 1
                    ELSE IF after THEN 1 ELSE Len(nodes[side].zl.entries) + 1
        lone(n) == [n EXCEPT !.zl = ziplistPush(@, v, IF after THEN "head" ELSE "tail"),
                             !.count = @ + 1]
        beside(orig, new) ==
            quicklistInsertNode([nodes EXCEPT ![i] = orig], i, lone(new), after)
        here(ns) == [q |-> [q EXCEPT !.nodes = ns],
                     at |-> IF Len(ns) > Len(nodes) /\ ~after THEN i + 1 ELSE i]
        parted(s) == IF edge THEN here(beside(s.orig, s.new))
                     ELSE quicklistMergeNodes(
                            [q EXCEPT !.nodes = beside(s.orig, s.new)],
                            IF after THEN i ELSE i + 1)
        split == IF edge
                 THEN [orig |-> nodes[i], new |-> quicklistCreateNode(ziplistNew)]
                 ELSE quicklistSplitNode(quicklistDecompressNodeForUse(nodes[i]),
                                         offset, after)
        into(js) == IF js = {} THEN parted(split)
                    ELSE LET j == IF i \in js THEN i ELSE side
                         IN  here(put(j, place(j)))
    IN  [into(allowed) EXCEPT !.q.count = @ + 1]

----------------------------------------------------------------------------
(* Deletion.                                                               *)

(* LTRIM deletes from the head (start 0) or at the tail (start -n).        *)
quicklistDelRange(q, start, count) ==
    LET del(s, n) == IF s.offset >= 0 /\ s.extent >= n THEN n - s.offset
                     ELSE IF s.offset < 0 /\ -s.offset < s.extent THEN -s.offset
                     ELSE s.extent
        cut(n, s, d) == [quicklistDecompressNodeForUse(n) EXCEPT
                           !.zl = ziplistDeleteRange(@, s.offset, d),
                           !.count = @ - d]
        left(p, i) == IF p.nodes[i].count = 0 THEN quicklistDelNode(p, i)
                      ELSE [p EXCEPT !.nodes[i] = quicklistRecompressOnly(@)]
        on(s, d, p) == [q |-> p, offset |-> 0, extent |-> s.extent - d,
                        i |-> s.i + 1 - (Len(s.q.nodes) - Len(p.nodes))]
        part(s, d) == on(s, d, left([s.q EXCEPT !.nodes[s.i] = cut(@, s, d),
                                                !.count = @ - d], s.i))
        step(s, k) == IF s.extent = 0 THEN s
                      ELSE part(s, del(s, s.q.nodes[s.i].count))
        from(e) == FoldLeft(step, [q |-> e.q, i |-> e.i, offset |-> e.offset,
                                   extent |-> IF count > q.count THEN q.count
                                              ELSE count],
                            [k \in 1..Len(q.nodes) |-> k])
    IN  IF count = 0 \/ q.count = 0 THEN q ELSE from(quicklistIndex(q, start)).q

(* LREM: an iterator from one end deletes the entries that match, `left'   *)
(* of them.  A node is decompressed when the iterator enters it and        *)
(* compressed again when it leaves or when the iterator is released.       *)
quicklistDelEntries(q, v, left, forward) ==
    LET matches(n) == {j \in 1..Len(n.zl.entries) : ziplistGet(n.zl.entries[j]) = v}
        first(S, n) == {j \in S : Cardinality({m \in S : IF forward THEN m <= j
                                                         ELSE m >= j}) <= n}
        deleted(p, i, hits) ==
            FoldLeft(LAMBDA r, j : quicklistDelIndex(r, i, j), p,
                     Reverse(SetToSortSeq(hits, <)))
        done(s, i, hits, p, gone) ==
            [q |-> IF ~gone \/ s.left = Cardinality(hits)
                   THEN quicklistReleaseIterator(p, IF gone /\ ~forward THEN i - 1 ELSE i)
                   ELSE p,
             left |-> s.left - Cardinality(hits),
             i |-> IF gone THEN s.i ELSE s.i + 1]
        after(s, i, hits, p) == done(s, i, hits, p, Len(p.nodes) < Len(s.q.nodes))
        within(s, i, p, hits) == after(s, i, hits, deleted(p, i, hits))
        enter(s, i, p) == within(s, i, p, first(matches(p.nodes[i]), s.left))
        node(s, i) == enter(s, i,
            [s.q EXCEPT !.nodes[i] = quicklistDecompressNodeForUse(@)])
        visit(s, k) == IF s.left = 0 THEN s
                       ELSE node(s, IF forward THEN s.i ELSE Len(s.q.nodes) - s.i + 1)
    IN  FoldLeft(visit, [q |-> q, left |-> left, i |-> 1],
                 [k \in 1..Len(q.nodes) |-> k]).q

(* RDB loading: one node per ziplist that was saved.                       *)
quicklistAppendZiplist(q, z) ==
    LET n == [quicklistCreateNode(z) EXCEPT !.count = ziplistLen(z)]
    IN  [nodes |-> quicklistInsertNode(q.nodes, Len(q.nodes), n, TRUE),
         count |-> q.count + n.count]

(* Lists of ziplists written by older versions are split into nodes.       *)
quicklistAppendValuesFromZiplist(q, z) ==
    FoldLeft(LAMBDA p, e : quicklistPush(p, ziplistGet(e), "tail"),
             q, z.entries)

----------------------------------------------------------------------------
(* The commands.                                                           *)

Room == Len(qlref) < MaxList

PushCommand ==
    /\ Room
    /\ \E v \in QlValues, where \in {"head", "tail"} :
          /\ ql' = quicklistPush(ql, v, where)
          /\ qlref' = IF where = "head" THEN <<v>> \o qlref ELSE Append(qlref, v)

PopCommand ==
    /\ qlref # <<>>
    /\ \E where \in {"head", "tail"} :
          LET i == IF where = "head" THEN 1 ELSE Len(ql.nodes)
              k == ziplistIndex(ql.nodes[i].zl, IF where = "head" THEN 0 ELSE -1)
          IN  /\ ql' = quicklistDelIndex(ql, i, k)
              /\ qlref' = IF where = "head" THEN Tail(qlref) ELSE Front(qlref)

(* LINSERT: an iterator comes from the head and stops at the pivot.  When  *)
(* a merge gives up the node it stands on, its release touches memory that *)
(* was freed; nothing is taken to come of it here.                         *)
InsertCommand ==
    /\ Room /\ qlref # <<>>
    /\ \E idx \in 0..(Len(qlref) - 1), v \in QlValues, after \in BOOLEAN :
          /\ \E passed \in {FoldLeft(quicklistNext, ql.nodes,
                                [k \in 1..(quicklistIndex(ql, idx).i - 1) |-> k])} :
             \E e \in {quicklistIndex([ql EXCEPT !.nodes = passed], idx)} :
             \E r \in {quicklistInsert(e.q, e.i, e.offset, v, after)} :
                ql' = quicklistReleaseIterator(r.q, r.at)
          /\ qlref' = InsertAt(qlref, IF after THEN idx + 2 ELSE idx + 1, v)

(* LRANGE and SORT read from one entry to another one.                     *)
RangeCommand ==
    /\ \E from, to \in 0..(Len(qlref) - 1) :
          /\ from <= to
          /\ \E e \in {quicklistIndex(ql, from)}, j \in {quicklistIndex(ql, to).i} :
                ql' = [ql EXCEPT !.nodes =
                          FoldLeft(quicklistNext, e.q.nodes,
                                   [k \in 1..(j - e.i + 1) |-> e.i + k - 1])]
    /\ UNCHANGED qlref

SetCommand ==
    \E j \in 1..Len(qlref), v \in QlValues, negative \in BOOLEAN :
       /\ ql' = quicklistReplaceAtIndex(ql,
                    IF negative THEN j - 1 - Len(qlref) ELSE j - 1, v)
       /\ qlref' = [qlref EXCEPT ![j] = v]

IndexCommand ==
    /\ \E idx \in 0..(Len(qlref) - 1) : ql' = quicklistIndex(ql, idx).q
    /\ UNCHANGED qlref

TrimCommand ==
    /\ qlref # <<>>
    /\ \E ltrim, rtrim \in 0..(Len(qlref) - 1) :
          /\ ltrim + rtrim < Len(qlref)
          /\ ql' = FoldLeft(LAMBDA q, c : quicklistDelRange(q, c[1], c[2]), ql,
                             <<<<0, ltrim>>, <<-rtrim, rtrim>>>>)
          /\ qlref' = SubSeq(qlref, ltrim + 1, Len(qlref) - rtrim)

RemCommand ==
    \E v \in QlValues, left \in 1..2, forward \in BOOLEAN :
       /\ ql' = quicklistDelEntries(ql, v, left, forward)
       /\ LET hits == {j \in 1..Len(qlref) : qlref[j] = v}
              rank(j) == Cardinality({m \in hits : IF forward THEN m <= j
                                                   ELSE m >= j})
              gone == {j \in hits : rank(j) <= left}
          IN  qlref' = [k \in 1..(Len(qlref) - Cardinality(gone)) |->
                          qlref[CHOOSE j \in (1..Len(qlref)) \ gone :
                                  Cardinality({m \in (1..Len(qlref)) \ gone :
                                                 m <= j}) = k]]

(* A reload of a dump, and of one where the list is a single ziplist.      *)
Reload ==
    /\ \/ ql' = FoldLeft(LAMBDA q, n : quicklistAppendZiplist(q, n.zl),
                         quicklistCreate, ql.nodes)
       \/ ql' = quicklistAppendValuesFromZiplist(quicklistCreate,
                  FoldLeft(LAMBDA z, v : ziplistPush(z, v, "tail"),
                           ziplistNew, qlref))
    /\ UNCHANGED qlref

QuicklistInit ==
    /\ ql = quicklistCreate
    /\ qlref = <<>>
    /\ qlopt \in QlOptions
    /\ marked = FALSE

Ends(q) == {q.nodes[i] : i \in {1, Len(q.nodes)} \cap (1..Len(q.nodes))}

(* A node whose ziplist was torn (InsertEntry), or an end that the next    *)
(* push or pop would take for a ziplist although it is compressed: nothing *)
(* is known of the memory from then on.                                    *)
TornNode(q) == \E i \in 1..Len(q.nodes) : IsTorn(q.nodes[i].zl)
Corrupt == TornNode(ql) \/ \E n \in Ends(ql) : n.enc = "lzf"

QuicklistNext ==
    /\ \/ /\ ~Corrupt
          /\ \/ PushCommand \/ PopCommand \/ InsertCommand \/ SetCommand
             \/ RangeCommand \/ IndexCommand \/ TrimCommand \/ RemCommand \/ Reload
          /\ marked' = (marked \/ \E n \in Range(ql'.nodes) : n.recompress)
       \/ Corrupt /\ UNCHANGED <<ql, qlref, marked>>
    /\ UNCHANGED qlopt

QuicklistSpec == QuicklistInit /\ [][QuicklistNext]_quicklistVars

----------------------------------------------------------------------------
(* Properties.                                                             *)

(* The values a chain of nodes holds.                                      *)
Values(nodes) ==
    FoldLeft(LAMBDA s, n : s \o [k \in 1..Len(n.zl.entries) |->
                                    ziplistGet(n.zl.entries[k])], <<>>, nodes)

(* The list is what the commands made of it, no node is empty, every node  *)
(* is a sound ziplist with the right counter, and the counters add up.     *)
(* Pushes and pops use the end nodes where they lie, so that these must    *)
(* never be left compressed.  Two exceptions: a list with a torn node, and *)
(* an end compressed by a mark that a command (LINDEX, LTRIM) left behind. *)
QuicklistIsSound ==
    \/ TornNode(ql)
    \/ /\ marked \/ \A n \in Ends(ql) : n.enc = "raw"
       /\ Values(ql.nodes) = qlref
       /\ ql.count = Len(qlref)
       /\ \A i \in 1..Len(ql.nodes) :
             LET n == ql.nodes[i]
             IN  /\ n.count > 0
                 /\ n.count = Len(n.zl.entries)
                 /\ Readable(n.zl, Values(<<n>>))

============================================================================
