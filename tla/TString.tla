------------------------------ MODULE TString ------------------------------
(* The commands on strings (t_string.c) and on their bits (bitops.c).      *)
(* Numeric arguments are numbers: an argument that is not one is refused   *)
(* before anything is looked up or changed.                                *)
EXTENDS Db

(* Two's complement arithmetic in the width of long long.                  *)
Wrap(n) == ((n - LMin) % (2 * LMax + 2)) + LMin

(* The bytes between two indexes, which count from the end if negative and *)
(* are clipped to the string: <<first, last>> from 1.                      *)
Clip(len, start, end) ==
    LET a == IF start < 0 THEN len + start ELSE start
        b == IF end < 0 THEN len + end ELSE end
        b0 == IF b < 0 THEN 0 ELSE b
    IN  <<(IF a < 0 THEN 0 ELSE a) + 1, IF b0 >= len THEN len ELSE b0 + 1>>

(* GETRANGE and BITCOUNT select nothing when both indexes are negative and *)
(* in the wrong order; BITPOS has no such test.                            *)
Slice(b, start, end) ==
    LET r == Clip(Len(b), start, end)
    IN  IF start < 0 /\ end < 0 /\ start > end
        THEN <<>>
        ELSE SubSeq(b, r[1], r[2])

Zeroes(n) == [i \in 1..n |-> 0]

(* sdsgrowzero *)
GrowZero(b, n) == IF Len(b) >= n THEN b ELSE b \o Zeroes(n - Len(b))

checkStringLength(n) == n <= MaxString

----------------------------------------------------------------------------

(* SET with its options, SETNX, SETEX and PSETEX.  c.px is the time to     *)
(* live, or None.                                                          *)
None == -1

setGenericCommand(s, c) ==
    LET e == IF c.nx \/ c.xx THEN expireIfNeeded(s, c.k) ELSE s
        set == Dirty(setKey(e, c.k, String(c.v)), 1)
    IN  IF c.px # None /\ c.px <= 0 THEN Reply(s, Error)
        ELSE IF (c.nx /\ dbExists(e, c.k)) \/ (c.xx /\ ~dbExists(e, c.k))
        THEN Reply(e, Nil)
        ELSE Reply(IF c.px = None THEN set
                   ELSE setExpire(set, c.k, s.now + c.px), Ok)

(* The options of SET: NX excludes XX, EX excludes PX.                     *)
setCommand(s, c) ==
    IF c.nx /\ c.xx THEN Reply(s, Error) ELSE setGenericCommand(s, c)

getGenericCommand(s, c) ==
    LET o == lookupKeyRead(s, c.k)
    IN  Reply(expireIfNeeded(s, c.k),
              IF o = NoVal THEN Nil
              ELSE IF o.t # "string" THEN WrongType
              ELSE Bulk(o.v))

getsetCommand(s, c) ==
    LET g == getGenericCommand(s, c)
    IN  IF g.reply = WrongType THEN g
        ELSE Dirty(setKey(g, c.k, String(c.v)), 1)

setrangeCommand(s, c) ==
    LET e == expireIfNeeded(s, c.k)
        o == lookupKey(e, c.k)
        old == IF o = NoVal THEN <<>> ELSE o.v
        n == c.n + Len(c.v)
        grown == GrowZero(old, n)
        new == [i \in 1..Len(grown) |->
                   IF i > c.n /\ i <= n THEN c.v[i - c.n] ELSE grown[i]]
    IN  IF c.n < 0 THEN Reply(s, Error)
        ELSE IF o # NoVal /\ o.t # "string" THEN Reply(e, WrongType)
        ELSE IF c.v = <<>> THEN Reply(e, Num(Len(old)))
        ELSE IF ~checkStringLength(n) THEN Reply(e, Error)
        ELSE Reply(Modified(dbAdd(e, c.k, String(new)), c.k), Num(Len(new)))

getrangeCommand(s, c) ==
    LET o == lookupKeyRead(s, c.k)
    IN  Reply(expireIfNeeded(s, c.k),
              IF o = NoVal THEN Bulk(<<>>)
              ELSE IF o.t # "string" THEN WrongType
              ELSE Bulk(Slice(o.v, c.start, c.end)))

mgetCommand(s, c) ==
    Reply(ExpireAll(s, c.ks),
          Multi([i \in 1..Len(c.ks) |->
                    LET o == lookupKeyRead(s, c.ks[i])
                    IN  IF o.t = "string" THEN Bulk(o.v) ELSE Nil]))

(* MSET and MSETNX; setKey is called once for every key.                   *)
msetGenericCommand(s, c) ==
    LET e == IF c.nx THEN ExpireAll(s, c.ks) ELSE s
        f[i \in 0..Len(c.ks)] ==
            IF i = 0 THEN e ELSE setKey(f[i - 1], c.ks[i], String(c.vs[i]))
    IN  IF c.nx /\ \E i \in 1..Len(c.ks) : dbExists(e, c.ks[i])
        THEN Reply(e, Num(0))
        ELSE Reply(Dirty(f[Len(c.ks)], Len(c.ks)), Ok)

(* INCR, DECR, INCRBY and DECRBY (whose caller negates: Wrap).             *)
Overflows(old, incr) ==
    \/ incr < 0 /\ old < 0 /\ incr < LMin - old
    \/ incr > 0 /\ old > 0 /\ incr > LMax - old

incrDecrCommand(s, c) ==
    LET e == expireIfNeeded(s, c.k)
        o == lookupKey(e, c.k)
        old == IF o = NoVal THEN 0 ELSE getLongLongFromObject(o.v)
        incr == IF c.decr THEN Wrap(-c.n) ELSE c.n
    IN  IF o # NoVal /\ o.t # "string" THEN Reply(e, WrongType)
        ELSE IF o # NoVal /\ ~IsNumber(o.v) THEN Reply(e, Error)
        ELSE IF Overflows(old, incr) THEN Reply(e, Error)
        ELSE Reply(Modified(dbAdd(e, c.k, String(ll2string(old + incr))), c.k),
                   Num(old + incr))

(* Propagated as SET of the final value, because the sum may be rounded    *)
(* differently elsewhere.                                                  *)
incrbyfloatCommand(s, c) ==
    LET e == expireIfNeeded(s, c.k)
        o == lookupKey(e, c.k)
        old == IF o = NoVal THEN 0 ELSE getLongDoubleFromObject(o.v)
        sum == LongDoubleSum(old, c.n)
        new == ld2string(sum)
    IN  IF o # NoVal /\ o.t # "string" THEN Reply(e, WrongType)
        ELSE IF o # NoVal /\ ~IsLongDouble(o.v) THEN Reply(e, Error)
        ELSE IF sum \notin LMin..LMax THEN Reply(e, Error)
        ELSE Reply(rewriteClientCommandVector(
                       Modified(dbAdd(e, c.k, String(new)), c.k),
                       [op |-> "set", k |-> c.k, v |-> new, nx |-> FALSE,
                        xx |-> FALSE, px |-> None]), Bulk(new))

appendCommand(s, c) ==
    LET e == expireIfNeeded(s, c.k)
        o == lookupKey(e, c.k)
        new == IF o = NoVal THEN c.v ELSE o.v \o c.v
    IN  IF o # NoVal /\ o.t # "string" THEN Reply(e, WrongType)
        ELSE IF o # NoVal /\ ~checkStringLength(Len(new)) THEN Reply(e, Error)
        ELSE Reply(Modified(dbAdd(e, c.k, String(new)), c.k), Num(Len(new)))

strlenCommand(s, c) ==
    LET o == lookupKeyRead(s, c.k)
    IN  Reply(expireIfNeeded(s, c.k),
              IF o = NoVal THEN Num(0)
              ELSE IF o.t # "string" THEN WrongType
              ELSE Num(Len(o.v)))

----------------------------------------------------------------------------
(* Bits: number 0 is the most significant bit of the first byte.           *)

BitOf(b, i) == (b[i \div 8 + 1] \div 2^(7 - (i % 8))) % 2

PutBit(b, i, on) ==
    [b EXCEPT ![i \div 8 + 1] = @ + (on - BitOf(b, i)) * 2^(7 - (i % 8))]

(* How many bits of the bytes are set.                                     *)
redisPopcount(b) == Cardinality({i \in 0..(8 * Len(b) - 1) : BitOf(b, i) = 1})

(* The first bit with the value, or -1; the bytes are taken to be followed *)
(* by zeroes.                                                              *)
redisBitpos(b, bit) ==
    LET at == {i \in 0..(8 * Len(b) - 1) : BitOf(b, i) = bit}
    IN  IF at # {} THEN Least(at) ELSE IF bit = 1 THEN -1 ELSE 8 * Len(b)

(* Offsets beyond the longest string are refused.                          *)
getBitOffsetFromArgument(n) == n >= 0 /\ n \div 8 < MaxString

(* The string, grown to hold the bit, created when missing.                *)
lookupStringForBitCommand(s, k, maxbit) ==
    LET o == lookupKey(s, k)
    IN  GrowZero(IF o = NoVal THEN <<>> ELSE o.v, maxbit \div 8 + 1)

setbitCommand(s, c) ==
    LET e == expireIfNeeded(s, c.k)
        o == lookupKey(e, c.k)
        old == lookupStringForBitCommand(e, c.k, c.n)
    IN  IF ~getBitOffsetFromArgument(c.n) THEN Reply(s, Error)
        ELSE IF o # NoVal /\ o.t # "string" THEN Reply(e, WrongType)
        ELSE Reply(Modified(dbAdd(e, c.k, String(PutBit(old, c.n, c.on))), c.k),
                   Num(BitOf(old, c.n)))

getbitCommand(s, c) ==
    LET o == lookupKeyRead(s, c.k)
    IN  Reply(expireIfNeeded(s, c.k),
              IF ~getBitOffsetFromArgument(c.n) THEN Error
              ELSE IF o = NoVal THEN Num(0)
              ELSE IF o.t # "string" THEN WrongType
              ELSE Num(IF c.n \div 8 < Len(o.v) THEN BitOf(o.v, c.n) ELSE 0))

(* One output bit of BITOP; missing bytes are zero.                        *)
BitopBit(op, srcs, i) ==
    LET bit(b) == IF i \div 8 < Len(b) THEN BitOf(b, i) ELSE 0
        ones == {j \in 1..Len(srcs) : bit(srcs[j]) = 1}
    IN  CASE op = "and" -> IF ones = 1..Len(srcs) THEN 1 ELSE 0
          [] op = "or"  -> IF ones # {} THEN 1 ELSE 0
          [] op = "xor" -> Cardinality(ones) % 2
          [] op = "not" -> 1 - bit(srcs[1])

(* A byte from its bits.                                                   *)
ByteOf(bit) == bit[0] * 128 + bit[1] * 64 + bit[2] * 32 + bit[3] * 16
               + bit[4] * 8 + bit[5] * 4 + bit[6] * 2 + bit[7]

(* BITOP writes the result, or deletes the target when it is empty, and is *)
(* propagated either way.                                                  *)
bitopCommand(s, c) ==
    LET e == ExpireAll(s, c.ks)
        objs == [j \in 1..Len(c.ks) |-> lookupKeyRead(s, c.ks[j])]
        srcs == [j \in 1..Len(c.ks) |->
                    IF objs[j] = NoVal THEN <<>> ELSE objs[j].v]
        maxlen == Greatest({Len(srcs[j]) : j \in 1..Len(c.ks)})
        res == [y \in 1..maxlen |->
                   ByteOf([x \in 0..7 |-> BitopBit(c.bitop, srcs, 8 * (y - 1) + x)])]
    IN  IF c.bitop = "not" /\ Len(c.ks) # 1 THEN Reply(s, Error)
        ELSE IF \E j \in 1..Len(c.ks) : objs[j].t \notin {"none", "string"}
        THEN Reply(e, WrongType)
        ELSE IF maxlen > 0
        THEN Reply(Dirty(setKey(e, c.dst, String(res)), 1), Num(maxlen))
        ELSE Reply(Dirty(IF dbExists(e, c.dst)
                         THEN signalModifiedKey(dbDelete(e, c.dst), c.dst)
                         ELSE e, 1), Num(0))

bitcountCommand(s, c) ==
    LET o == lookupKeyRead(s, c.k)
    IN  Reply(expireIfNeeded(s, c.k),
              IF o = NoVal THEN Num(0)
              ELSE IF o.t # "string" THEN WrongType
              ELSE Num(redisPopcount(Slice(o.v, c.start, c.end))))

(* With an end given, a string of ones has no zero in it; without, the     *)
(* first zero follows it.                                                  *)
bitposCommand(s, c) ==
    LET o == lookupKeyRead(s, c.k)
        r == Clip(Len(o.v), c.start, c.end)
        bytes == SubSeq(o.v, r[1], r[2])
        pos == redisBitpos(bytes, c.on)
    IN  Reply(expireIfNeeded(s, c.k),
              IF o = NoVal THEN Num(IF c.on = 1 THEN -1 ELSE 0)
              ELSE IF o.t # "string" THEN WrongType
              ELSE IF bytes = <<>> THEN Num(-1)
              ELSE IF c.endgiven /\ c.on = 0 /\ pos = 8 * Len(bytes) THEN Num(-1)
              ELSE Num(IF pos = -1 THEN -1 ELSE pos + 8 * (r[1] - 1)))

----------------------------------------------------------------------------
(* BITFIELD: fields of a given width inside the string.                    *)

getUnsignedBitfield(b, off, bits) ==
    LET bit(i) == IF (off + i) \div 8 < Len(b) THEN BitOf(b, off + i) ELSE 0
        f[i \in 0..bits] == IF i = 0 THEN 0 ELSE 2 * f[i - 1] + bit(i - 1)
    IN  f[bits]

getSignedBitfield(b, off, bits) ==
    LET u == getUnsignedBitfield(b, off, bits)
    IN  IF u >= 2^(bits - 1) THEN u - 2^bits ELSE u

setUnsignedBitfield(b, off, bits, v) ==
    LET f[i \in 0..bits] ==
            IF i = 0 THEN b
            ELSE PutBit(f[i - 1], off + i - 1, (v \div 2^(bits - i)) % 2)
    IN  f[bits]

setSignedBitfield(b, off, bits, v) ==
    setUnsignedBitfield(b, off, bits, v % 2^bits)

(* What is stored when value + incr does not fit: <<overflow, stored>>.    *)
checkUnsignedBitfieldOverflow(value, incr, bits, ow) ==
    LET max == 2^bits - 1
        sum == value + incr
    IN  IF value > max \/ (incr > 0 /\ incr > max - value)
        THEN <<TRUE, IF ow = "sat" THEN max ELSE sum % 2^bits>>
        ELSE IF incr < 0 /\ incr < -value
        THEN <<TRUE, IF ow = "sat" THEN 0 ELSE sum % 2^bits>>
        ELSE <<FALSE, sum>>

checkSignedBitfieldOverflow(value, incr, bits, ow) ==
    LET max == 2^(bits - 1) - 1
        min == -max - 1
        wrapped == ((value + incr - min) % 2^bits) + min
    IN  IF value > max \/ incr > max - value
        THEN <<TRUE, IF ow = "sat" THEN max ELSE wrapped>>
        ELSE IF value < min \/ incr < min - value
        THEN <<TRUE, IF ow = "sat" THEN min ELSE wrapped>>
        ELSE <<FALSE, value + incr>>

(* One operation of a BITFIELD; a field is [off, bits, sign, n, ow].       *)
bitfieldStep(b, o) ==
    LET set(n) == IF o.sign THEN setSignedBitfield(b, o.off, o.bits, n)
                            ELSE setUnsignedBitfield(b, o.off, o.bits, n)
        put(old, r) == IF r[1] /\ o.ow = "fail" THEN [b |-> b, r |-> Nil]
                       ELSE [b |-> set(r[2]),
                             r |-> Num(IF o.sub = "incrby" THEN r[2] ELSE old)]
        checked(base, incr) ==
            IF o.sign THEN checkSignedBitfieldOverflow(base, incr, o.bits, o.ow)
            ELSE checkUnsignedBitfieldOverflow(base, incr, o.bits, o.ow)
        step(old) == IF o.sub = "get" THEN [b |-> b, r |-> Num(old)]
                     ELSE put(old, IF o.sub = "incrby" THEN checked(old, o.n)
                                   ELSE checked(o.n, 0))
    IN  step(IF o.sign THEN getSignedBitfield(b, o.off, o.bits)
             ELSE getUnsignedBitfield(b, o.off, o.bits))

(* The operations in order; the string is created or grown to the highest  *)
(* bit any of them writes, and counts as changed even when all of them     *)
(* failed.                                                                 *)
bitfieldCommand(s, c) ==
    LET writes == {i \in 1..Len(c.ops) : c.ops[i].sub # "get"}
        e == expireIfNeeded(s, c.k)
        o == IF writes = {} THEN lookupKeyRead(s, c.k) ELSE lookupKey(e, c.k)
        top == Greatest({c.ops[i].off + c.ops[i].bits - 1 : i \in writes})
        old == IF writes # {} THEN lookupStringForBitCommand(e, c.k, top)
               ELSE IF o = NoVal THEN <<>> ELSE o.v
        steps ==
            LET f[i \in 0..Len(c.ops)] ==
                    IF i = 0 THEN [b |-> old, r |-> Nil]
                    ELSE bitfieldStep(f[i - 1].b, c.ops[i])
            IN  f
        rs(f) == Multi([i \in 1..Len(c.ops) |-> f[i].r])
        done(f) == IF writes = {} THEN Reply(e, rs(f))
                   ELSE Reply(Dirty(signalModifiedKey(
                                  dbAdd(e, c.k, String(f[Len(c.ops)].b)), c.k),
                                  Cardinality(writes)), rs(f))
    IN  IF \E i \in 1..Len(c.ops) : ~getBitOffsetFromArgument(c.ops[i].off)
        THEN Reply(s, Error)
        ELSE IF o # NoVal /\ o.t # "string" THEN Reply(e, WrongType)
        ELSE done(steps)

============================================================================
