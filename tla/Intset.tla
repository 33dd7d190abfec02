------------------------------- MODULE Intset -------------------------------
(* The sorted array of integers behind a small set (intset.c): one          *)
(* encoding for all the values, raised when a value does not fit.  The      *)
(* contents are memory cells of the narrowest encoding, so that a value     *)
(* written over part of another one really destroys it.                     *)
EXTENDS Integers, FiniteSets

CONSTANTS IntValues,     \* the values tried
          Limit16,       \* values of -Limit16 .. Limit16-1 need one cell,
          Limit32        \* those of -Limit32 .. Limit32-1 two, others four

ASSUME IntsetAssumption ==
    /\ IntValues \subseteq Int /\ IsFiniteSet(IntValues)
    /\ Limit16 \in Nat \ {0} /\ Limit32 \in Nat /\ Limit16 < Limit32

VARIABLES is,        \* [enc, length, contents]
          iset       \* the integers that were added and not removed

intsetVars == <<is, iset>>

(* Cells per value: INTSET_ENC_INT16, INTSET_ENC_INT32, INTSET_ENC_INT64.  *)
intsetValueEncoding(v) ==
    IF v < -Limit32 \/ v >= Limit32 THEN 4
    ELSE IF v < -Limit16 \/ v >= Limit16 THEN 2
    ELSE 1

intsetNew == [enc |-> 1, length |-> 0, contents |-> << >>]

(* What a read of cells that no single write has left yields.              *)
Garbage == 2 * Limit32

Cells(pos, enc) == (pos * enc)..(pos * enc + enc - 1)

intsetGetEncoded(s, pos, enc) ==
    LET c == s.contents[pos * enc]
    IN  IF \A i \in Cells(pos, enc) :
              s.contents[i] = [val |-> c.val, enc |-> enc, part |-> i - pos * enc]
        THEN c.val ELSE Garbage

intsetGet(s, pos) == intsetGetEncoded(s, pos, s.enc)

intsetSet(s, pos, v) ==
    [s EXCEPT !.contents = [i \in DOMAIN @ |->
        IF i \in Cells(pos, s.enc)
        THEN [val |-> v, enc |-> s.enc, part |-> i - pos * s.enc] ELSE @[i]]]

(* zrealloc keeps what fits; the new cells hold nothing yet.               *)
intsetResize(s, len) ==
    [s EXCEPT !.contents =
        [i \in 0..(len * s.enc - 1) |->
           IF i \in DOMAIN @ THEN @[i] ELSE [val |-> 0, enc |-> 0, part |-> 0]]]

(* Found or not, and the position of the value or of its insertion.        *)
intsetSearch(s, v) ==
    LET last == s.length - 1
        search[b \in (0..s.length) \X (-1..last)] ==
            LET mid == (b[1] + b[2]) \div 2
                cur == intsetGet(s, mid)
            IN  IF b[2] < b[1] THEN [found |-> FALSE, pos |-> b[1]]
                ELSE IF v > cur THEN search[<<mid + 1, b[2]>>]
                ELSE IF v < cur THEN search[<<b[1], mid - 1>>]
                ELSE [found |-> TRUE, pos |-> mid]
    IN  IF s.length = 0 THEN [found |-> FALSE, pos |-> 0]
        ELSE IF v > intsetGet(s, last) THEN [found |-> FALSE, pos |-> s.length]
        ELSE IF v < intsetGet(s, 0) THEN [found |-> FALSE, pos |-> 0]
        ELSE search[<<0, last>>]

(* The values move to their wider places back to front, the new one goes   *)
(* to one of the ends: it lies outside the range of those that were there. *)
intsetUpgradeAndAdd(s, v) ==
    LET prepend == IF v < 0 THEN 1 ELSE 0
        wide == intsetResize([s EXCEPT !.enc = intsetValueEncoding(v)],
                             s.length + 1)
        move[k \in 0..s.length] ==
            IF k = 0 THEN wide
            ELSE LET t == move[k - 1]
                     i == s.length - k
                 IN  intsetSet(t, i + prepend, intsetGetEncoded(t, i, s.enc))
    IN  [intsetSet(move[s.length], IF v < 0 THEN 0 ELSE s.length, v)
           EXCEPT !.length = @ + 1]

(* memmove of the values from position `from' on.                          *)
intsetMoveTail(s, from, to) ==
    LET shift == (to - from) * s.enc
        moved == (from * s.enc)..(s.length * s.enc - 1)
    IN  [s EXCEPT !.contents = [i \in DOMAIN @ |->
            IF i - shift \in moved THEN @[i - shift] ELSE @[i]]]

intsetAdd(s, v) ==
    LET r == intsetSearch(s, v)
        t == intsetResize(s, s.length + 1)
        u == IF r.pos < s.length THEN intsetMoveTail(t, r.pos, r.pos + 1) ELSE t
    IN  IF intsetValueEncoding(v) > s.enc THEN intsetUpgradeAndAdd(s, v)
        ELSE IF r.found THEN s
        ELSE [intsetSet(u, r.pos, v) EXCEPT !.length = @ + 1]

intsetFind(s, v) ==
    intsetValueEncoding(v) <= s.enc /\ intsetSearch(s, v).found

intsetRemove(s, v) ==
    LET pos == intsetSearch(s, v).pos
        t == IF pos < s.length - 1 THEN intsetMoveTail(s, pos + 1, pos) ELSE s
    IN  IF ~intsetFind(s, v) THEN s
        ELSE [intsetResize(t, s.length - 1) EXCEPT !.length = @ - 1]

IntsetInit ==
    /\ is = intsetNew
    /\ iset = {}

IntsetNext ==
    \E v \in IntValues :
       \/ is' = intsetAdd(is, v) /\ iset' = iset \cup {v}
       \/ is' = intsetRemove(is, v) /\ iset' = iset \ {v}

IntsetSpec == IntsetInit /\ [][IntsetNext]_intsetVars

(* The array holds the integers of the set once each and in order, and     *)
(* the search finds those and no others, whatever encodings the set went   *)
(* through.                                                                *)
IntsetIsSound ==
    /\ is.length = Cardinality(iset)
    /\ {intsetGet(is, i) : i \in 0..(is.length - 1)} = iset
    /\ \A i, j \in 0..(is.length - 1) :
          i < j => intsetGet(is, i) < intsetGet(is, j)
    /\ \A v \in IntValues : intsetFind(is, v) <=> v \in iset

============================================================================
