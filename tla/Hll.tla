------------------------------- MODULE Hll ----------------------------------
(* HyperLogLogs (hyperloglog.c): registers that keep the largest count seen, *)
(* as a run-length code that an addition takes apart and joins again, or as  *)
(* an array once the code is too long or a count too large for it; and the   *)
(* cardinality that PFCOUNT leaves in the header.  An element is the         *)
(* register and the count that its hash gives.                               *)
EXTENDS Integers, Sequences, SequencesExt, FiniteSetsExt

CONSTANTS
    Registers,      \* HLL_REGISTERS
    XZeroMax,       \* HLL_SPARSE_XZERO_MAX_LEN
    ZeroMax,        \* HLL_SPARSE_ZERO_MAX_LEN
    ValMax,         \* HLL_SPARSE_VAL_MAX_LEN
    ValMaxValue,    \* HLL_SPARSE_VAL_MAX_VALUE
    MaxCount,       \* the largest count of an element
    SparseBytes     \* hll-sparse-max-bytes, the header left out

VARIABLES
    hll,            \* the object
    hllref          \* the registers it stands for

hllVars == <<hll, hllref>>

HllIndex == 0..(Registers - 1)
HllElement == [index : HllIndex, count : 1..MaxCount]
NoCard == <<>>     \* the bit that says the cardinality is stale

HllXZero(n) == [op |-> "xzero", v |-> 0, len |-> n]
HllZero(n) == [op |-> "zero", v |-> 0, len |-> n]
HllVal(v, n) == [op |-> "val", v |-> v, len |-> n]

(* The estimate is computed from how many registers have each value.        *)
hllRawSum(regs) == [v \in 0..MaxCount |-> Cardinality({i \in HllIndex : regs[i] = v})]

(* A new object is a run of zeros in as few opcodes as possible; the zero   *)
(* in its header is taken for its cardinality.                              *)
createHLLObject ==
    LET none == [i \in HllIndex |-> 0]
        full == Registers \div XZeroMax
        rest == Registers % XZeroMax
    IN  [enc |-> "sparse", regs |-> none, card |-> hllRawSum(none),
         ops |-> [i \in 1..full |-> HllXZero(XZeroMax)]
                     \o (IF rest = 0 THEN <<>> ELSE <<HllXZero(rest)>>)]

HllBytes(ops) == FoldLeft(LAMBDA n, o : n + (IF o.op = "xzero" THEN 2 ELSE 1), 0, ops)

(* The register an opcode begins with.                                      *)
HllStart(ops, p) == FoldLeft(LAMBDA n, o : n + o.len, 0, SubSeq(ops, 1, p - 1))

(* The registers that the opcodes describe.                                 *)
Decoded(ops) ==
    FoldLeft(LAMBDA regs, p : [i \in HllIndex |->
                 IF i \in HllStart(ops, p)..(HllStart(ops, p) + ops[p].len - 1)
                 THEN ops[p].v ELSE regs[i]],
             [i \in HllIndex |-> 0], [p \in 1..Len(ops) |-> p])

hllSparseToDense(o) ==
    IF o.enc = "dense" THEN o
    ELSE [o EXCEPT !.enc = "dense", !.regs = Decoded(o.ops), !.ops = <<>>]

hllDenseAdd(o, e) ==
    IF e.count > o.regs[e.index]
    THEN [o |-> [o EXCEPT !.regs[e.index] = e.count], changed |-> TRUE]
    ELSE [o |-> o, changed |-> FALSE]

(* n equal registers beside the one that is set.                            *)
Beside(o, n) ==
    IF n = 0 THEN <<>>
    ELSE IF o.op = "val" THEN <<HllVal(o.v, n)>>
    ELSE IF n > ZeroMax THEN <<HllXZero(n)>> ELSE <<HllZero(n)>>

Joins(ops, p) ==
    /\ p < Len(ops)
    /\ ops[p].op = "val" /\ ops[p + 1].op = "val" /\ ops[p].v = ops[p + 1].v
    /\ ops[p].len + ops[p + 1].len <= ValMax

Joined(ops, p) ==
    SubSeq(ops, 1, p - 1) \o <<HllVal(ops[p].v, ops[p].len + ops[p + 1].len)>>
        \o SubSeq(ops, p + 2, Len(ops))

(* Five steps, from the opcode before the one that was set.                 *)
MergeAdjacent(ops, from) ==
    FoldLeft(LAMBDA s, k : IF Joins(s.ops, s.p) THEN [s EXCEPT !.ops = Joined(s.ops, s.p)]
                           ELSE [s EXCEPT !.p = @ + 1],
             [ops |-> ops, p |-> from], <<1, 2, 3, 4, 5>>).ops

HllPromote(o, e) == hllDenseAdd(hllSparseToDense(o), e)

hllSparseAdd(o, e) ==
    LET p == CHOOSE q \in DOMAIN o.ops :
                 e.index \in HllStart(o.ops, q)..(HllStart(o.ops, q) + o.ops[q].len - 1)
        cur == o.ops[p]
        first == HllStart(o.ops, p)
        seq == Beside(cur, e.index - first) \o <<HllVal(e.count, 1)>>
                   \o Beside(cur, first + cur.len - 1 - e.index)
        delta == HllBytes(seq) - HllBytes(<<cur>>)
        ops == SubSeq(o.ops, 1, p - 1) \o seq \o SubSeq(o.ops, p + 1, Len(o.ops))
    IN  IF e.count > ValMaxValue THEN HllPromote(o, e)
        ELSE IF cur.op = "val" /\ cur.v >= e.count THEN [o |-> o, changed |-> FALSE]
        ELSE IF delta > 0 /\ HllBytes(o.ops) + delta > SparseBytes THEN HllPromote(o, e)
        ELSE [o |-> [o EXCEPT !.ops = MergeAdjacent(ops, IF p = 1 THEN 1 ELSE p - 1),
                              !.card = NoCard],
              changed |-> TRUE]

hllAdd(o, e) == IF o.enc = "dense" THEN hllDenseAdd(o, e) ELSE hllSparseAdd(o, e)

----------------------------------------------------------------------------
(* Counting, from the array or from the opcodes, and merging.               *)

hllDenseSum(o) == hllRawSum(o.regs)

hllSparseSum(o) ==
    [v \in 0..MaxCount |->
        FoldLeft(LAMBDA n, op : n + (IF op.v = v THEN op.len ELSE 0), 0, o.ops)]

hllCount(o) == IF o.enc = "dense" THEN hllDenseSum(o) ELSE hllSparseSum(o)

hllMerge(max, o) ==
    LET regs == IF o.enc = "dense" THEN o.regs ELSE Decoded(o.ops)
    IN  [i \in HllIndex |-> IF regs[i] > max[i] THEN regs[i] ELSE max[i]]

----------------------------------------------------------------------------
(* The commands.                                                            *)

(* PFADD forgets the cardinality when a register has changed.               *)
pfaddCommand(e) ==
    LET r == hllAdd(hll, e)
    IN  /\ hll' = IF r.changed THEN [r.o EXCEPT !.card = NoCard] ELSE r.o
        /\ hllref' = [hllref EXCEPT ![e.index] = Max({@, e.count})]

(* PFCOUNT of one key keeps what it has computed.                           *)
pfcountCommand ==
    /\ hll' = IF hll.card = NoCard THEN [hll EXCEPT !.card = hllCount(hll)] ELSE hll
    /\ UNCHANGED hllref

(* PFMERGE with another key, which has one element.  The result is dense.   *)
pfmergeCommand(e) ==
    LET src == hllAdd(createHLLObject, e).o
        zero == [i \in HllIndex |-> 0]
    IN  /\ hll' = [hllSparseToDense(hll) EXCEPT
                      !.regs = hllMerge(hllMerge(zero, hll), src), !.card = NoCard]
        /\ hllref' = [hllref EXCEPT ![e.index] = Max({@, e.count})]

(* PFADD without elements has made the key.                                 *)
HllInit ==
    /\ hll = [createHLLObject EXCEPT !.card = NoCard]
    /\ hllref = [i \in HllIndex |-> 0]

HllNext ==
    \/ \E e \in HllElement : pfaddCommand(e)
    \/ pfcountCommand
    \/ \E e \in HllElement : pfmergeCommand(e)

HllSpec == HllInit /\ [][HllNext]_hllVars

----------------------------------------------------------------------------
(* Both representations stand for the largest counts added, a cardinality   *)
(* that is kept is that of the registers of now, and the sparse one is      *)
(* within its limits, covers every register once, and has no two opcodes    *)
(* that could be one.                                                       *)
HllIsSound ==
    /\ (IF hll.enc = "dense" THEN hll.regs ELSE Decoded(hll.ops)) = hllref
    /\ hll.card # NoCard => hll.card = hllRawSum(hllref)
    /\ hllCount(hll) = hllRawSum(hllref)
    /\ hll.enc = "sparse" =>
          /\ HllBytes(hll.ops) <= Max({SparseBytes, HllBytes(createHLLObject.ops)})
          /\ HllStart(hll.ops, Len(hll.ops) + 1) = Registers
          /\ \A p \in DOMAIN hll.ops :
                /\ hll.ops[p].len \in 1..(CASE hll.ops[p].op = "zero" -> ZeroMax
                                            [] hll.ops[p].op = "xzero" -> XZeroMax
                                            [] OTHER -> ValMax)
                /\ ~Joins(hll.ops, p)
=============================================================================
