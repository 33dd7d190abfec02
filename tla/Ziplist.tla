------------------------------- MODULE Ziplist -------------------------------
(* The packed list behind small hashes, small sorted sets and the nodes of  *)
(* a list (ziplist.c).  An entry starts with the length of the entry before *)
(* it, in one byte if that is below BigLen and in five otherwise, so an     *)
(* insertion or a deletion may change the size of the next entry, and of    *)
(* the one after that.  Offsets and sizes are counted in bytes after the    *)
(* header; the length of a string and the width of an integer are scaled.   *)
EXTENDS Integers, SequencesExt

CONSTANTS ZlValues,      \* [kind |-> "str", n |-> length], [kind |-> "int", n |-> v]
          BigLen,        \* ZIP_BIGLEN
          LenMax,        \* UINT16_MAX, where the header's counter saturates
          ImmMax,        \* integers 0..ImmMax are part of the encoding byte
          IntBits,       \* bits of the 8, 16, 24, 32 and 64 bit integers
          MaxEntries     \* bound on the entries of the list that is tried

ASSUME ZiplistAssumption ==
    /\ ZlValues \subseteq [kind : {"str", "int"}, n : Int]
    /\ BigLen \in Nat /\ BigLen > 5
    /\ LenMax \in Nat \ {0}
    /\ ImmMax \in Nat
    /\ IntBits \in [1..5 -> Nat \ {0}]
    /\ \A i \in 1..4 : IntBits[i] < IntBits[i + 1]
    /\ MaxEntries \in Nat

VARIABLES zl,        \* [entries, tail, count, bytes]
          zlref      \* the values it should hold

ziplistVars == <<zl, zlref>>

Torn == [kind |-> "torn", n |-> 0]

----------------------------------------------------------------------------
(* Entries.                                                                *)

(* 0 is the immediate encoding, i the i-th of IntBits.                     *)
zipTryEncoding(v) ==
    IF v \in 0..ImmMax THEN 0
    ELSE CHOOSE i \in 1..5 :
            /\ -(2^(IntBits[i] - 1)) <= v /\ v < 2^(IntBits[i] - 1)
            /\ \A j \in 1..(i - 1) :
                  ~(-(2^(IntBits[j] - 1)) <= v /\ v < 2^(IntBits[j] - 1))

zipIntSize(enc) == IF enc = 0 THEN 0 ELSE <<1, 2, 3, 4, 8>>[enc]

(* Two's complement in the bytes of the encoding.                          *)
zipSaveInteger(v, enc) == IF enc = 0 THEN v ELSE v % 2^IntBits[enc]

zipLoadInteger(b, enc) ==
    IF enc = 0 THEN b
    ELSE IF b >= 2^(IntBits[enc] - 1) THEN b - 2^IntBits[enc] ELSE b

(* Encoding byte and content.                                              *)
zipBodyLength(v) ==
    1 + (IF v.kind = "str" THEN v.n ELSE zipIntSize(zipTryEncoding(v.n)))

Stored(v) ==
    IF v.kind # "int" THEN v
    ELSE [kind |-> "int", enc |-> zipTryEncoding(v.n),
          bits |-> zipSaveInteger(v.n, zipTryEncoding(v.n))]

(* An entry is [data, body, prevlen, prevsize].                            *)
ziplistGet(e) ==
    IF e.data.kind # "int" THEN e.data
    ELSE [kind |-> "int", n |-> zipLoadInteger(e.data.bits, e.data.enc)]

zipPrevEncodeLength(len) == IF len < BigLen THEN 1 ELSE 5

zipRawEntryLength(e) == e.prevsize + e.body

zipEntry(v, prevlen) ==
    [data |-> Stored(v), body |-> zipBodyLength(v), prevlen |-> prevlen,
     prevsize |-> zipPrevEncodeLength(prevlen)]

ziplistNew == [entries |-> <<>>, tail |-> 0, count |-> 0, bytes |-> 0]

Bytes(es) == FoldLeft(LAMBDA s, e : s + zipRawEntryLength(e), 0, es)

(* The offset of entry i.                                                  *)
OffsetOf(z, i) == Bytes(SubSeq(z.entries, 1, i - 1))

(* The entry a tail offset points at.                                      *)
AtOffset(z, o) == CHOOSE i \in 1..Len(z.entries) : OffsetOf(z, i) = o

(* The header's counter, which keeps LenMax once it is reached.            *)
INCR_LENGTH(z, n) ==
    [z EXCEPT !.count = IF @ < LenMax THEN @ + n ELSE @]

----------------------------------------------------------------------------
(* Changes.                                                                *)

ziplistCascadeUpdateNone(z, from) == z

(* An entry with one byte for a length that takes five grows, and then the *)
(* next one may have to.  Entries never shrink here: a length that would   *)
(* fit one byte stays in five.                                             *)
ziplistCascadeUpdate(z, from) ==
    LET step(s, i) ==
            LET raw == zipRawEntryLength(s.z.entries[i])
                next == s.z.entries[i + 1]
                extra == zipPrevEncodeLength(raw) - next.prevsize
            IN  IF ~s.going \/ next.prevlen = raw
                THEN [s EXCEPT !.going = FALSE]
                ELSE IF extra > 0
                THEN [going |-> TRUE,
                      z |-> [s.z EXCEPT
                               !.entries[i + 1].prevlen = raw,
                               !.entries[i + 1].prevsize = @ + extra,
                               !.bytes = @ + extra,
                               !.tail = IF @ # OffsetOf(s.z, i + 1)
                                        THEN @ + extra ELSE @]]
                ELSE [going |-> FALSE,
                      z |-> [s.z EXCEPT !.entries[i + 1].prevlen = raw]]
        n == Len(z.entries) - from
    IN  FoldLeft(step, [z |-> z, going |-> TRUE],
                 [k \in 1..n |-> from + k - 1]).z

(* The entry that grew or shrank by diff follows entry i.                  *)
Settled(z, i, diff) == IF diff # 0 THEN ziplistCascadeUpdate(z, i) ELSE z

(* Entry e, of req bytes, goes in front of entry i, whose prevlen changes  *)
(* its size by diff.  When the next entry gives up four bytes and the new  *)
(* one takes fewer, the list is cut before its end is moved, and the last  *)
(* entry is torn.                                                          *)
InsertEntry(z, i, e, req, diff) ==
    LET len == Len(z.entries)
        end == i > len
        next == [z.entries[i] EXCEPT !.prevlen = req, !.prevsize = @ + diff]
        moved == IF end THEN Append(z.entries, e)
                 ELSE InsertAt([z.entries EXCEPT ![i] = next], i, e)
    IN  [entries |-> IF req + diff < 0
                     THEN [moved EXCEPT ![len + 1].data = Torn] ELSE moved,
         tail |-> IF end THEN z.bytes
                  ELSE z.tail + req + (IF i = len THEN 0 ELSE diff),
         count |-> z.count,
         bytes |-> z.bytes + req + diff]

(* Insert in front of entry i, or at the end when there is no entry i.     *)
ziplistInsertAt(z, i, v) ==
    LET end == i > Len(z.entries)
        prevlen == IF ~end THEN z.entries[i].prevlen
                   ELSE IF z.entries = <<>> THEN 0
                   ELSE zipRawEntryLength(z.entries[AtOffset(z, z.tail)])
        diff(req) == IF end THEN 0
                     ELSE zipPrevEncodeLength(req) - z.entries[i].prevsize
        insert(e, req) == Settled(InsertEntry(z, i, e, req, diff(req)), i + 1, diff(req))
        place(e) == insert(e, zipRawEntryLength(e))
    IN  INCR_LENGTH(place(zipEntry(v, prevlen)), 1)

(* Delete num entries from entry i on, as many as there are.               *)
ziplistDelete(z, i, num) ==
    LET len == Len(z.entries)
        prevlen == z.entries[i].prevlen
        tot(j) == OffsetOf(z, j) - OffsetOf(z, i)
        kept(j, diff) ==
            IF j > len THEN z.entries
            ELSE [z.entries EXCEPT ![j].prevlen = prevlen, ![j].prevsize = @ + diff]
        without(j, diff, entries) ==
            [entries |-> SubSeq(entries, 1, i - 1) \o SubSeq(entries, j, len),
             tail |-> IF j > len THEN OffsetOf(z, i) - prevlen
                      ELSE z.tail - tot(j) + (IF j = len THEN 0 ELSE diff),
             count |-> z.count,
             bytes |-> z.bytes - tot(j) + diff]
        cut(j, diff) == INCR_LENGTH(Settled(without(j, diff, kept(j, diff)), i, diff), i - j)
        upto(j) == cut(j, IF j > len THEN 0
                          ELSE zipPrevEncodeLength(prevlen) - z.entries[j].prevsize)
    IN  IF num = 0 \/ i > len THEN z
        ELSE upto(IF num > len - i + 1 THEN len + 1 ELSE i + num)

(* Two lists that are not empty, one behind the other.                     *)
ziplistMerge(a, b) ==
    LET y == [entries |-> a.entries \o b.entries,
              tail |-> a.bytes + b.tail,
              count |-> IF a.count + b.count < LenMax
                        THEN a.count + b.count ELSE LenMax,
              bytes |-> a.bytes + b.bytes]
    IN  ziplistCascadeUpdate(y, AtOffset(a, a.tail))

ziplistPush(z, v, where) ==
    ziplistInsertAt(z, IF where = "head" THEN 1 ELSE Len(z.entries) + 1, v)

----------------------------------------------------------------------------
(* Queries.  0 is NULL.                                                    *)

(* One step back, by the length the entry has recorded.                    *)
ziplistPrev(z, i) ==
    IF z.entries[i].prevlen = 0 THEN 0
    ELSE AtOffset(z, OffsetOf(z, i) - z.entries[i].prevlen)

(* Negative indexes go back from the tail.                                 *)
ziplistIndex(z, index) ==
    LET len == Len(z.entries)
        back[k \in 0..len] == IF k = 0 THEN AtOffset(z, z.tail)
                              ELSE ziplistPrev(z, back[k - 1])
    IN  IF index >= len \/ -index > len THEN 0
        ELSE IF index >= 0 THEN index + 1
        ELSE back[-index - 1]

(* Every (skip + 1)-th entry is compared.                                  *)
ziplistFind(z, v, skip) ==
    LET hits == {i \in 1..Len(z.entries) : /\ (i - 1) % (skip + 1) = 0
                                           /\ ziplistGet(z.entries[i]) = v}
    IN  IF hits = {} THEN 0 ELSE CHOOSE i \in hits : \A j \in hits : i <= j

(* The counter, unless it is saturated: then the entries are counted, and  *)
(* the counter works again if they are fewer.                              *)
ziplistLen(z) == IF z.count < LenMax THEN z.count ELSE Len(z.entries)

ziplistRecount(z) ==
    IF z.count >= LenMax /\ Len(z.entries) < LenMax
    THEN [z EXCEPT !.count = Len(z.entries)] ELSE z

ziplistDeleteRange(z, index, num) ==
    LET i == ziplistIndex(z, index)
    IN  IF i = 0 THEN z ELSE ziplistDelete(z, i, num)

----------------------------------------------------------------------------

(* Nothing is known of a torn list: what it holds was freed.               *)
IsTorn(z) == \E i \in 1..Len(z.entries) : z.entries[i].data = Torn

Insert ==
    /\ Len(zlref) < MaxEntries
    /\ ~IsTorn(zl)
    /\ \E i \in 1..(Len(zlref) + 1), v \in ZlValues :
          /\ zl' = ziplistInsertAt(zl, i, v)
          /\ zlref' = InsertAt(zlref, i, v)

Delete ==
    /\ ~IsTorn(zl)
    /\ \E i \in 1..Len(zlref), num \in 1..2 :
          /\ zl' = ziplistDelete(zl, i, num)
          /\ zlref' = SubSeq(zlref, 1, i - 1)
                      \o SubSeq(zlref, i + num, Len(zlref))

AskLength ==
    /\ zl' = ziplistRecount(zl)
    /\ UNCHANGED zlref

ZiplistInit ==
    /\ zl = ziplistNew
    /\ zlref = <<>>

ZiplistNext == Insert \/ Delete \/ AskLength

ZiplistSpec == ZiplistInit /\ [][ZiplistNext]_ziplistVars

----------------------------------------------------------------------------
(* A list is readable in both directions: it holds the values, every entry *)
(* records the length of the entry before it in a field large enough, the  *)
(* tail and the size in the header are right, and so is the length; a      *)
(* search that compares every other entry finds the first one with a value.*)
Readable(z, values) ==
    LET len == Len(values)
        raw(i) == IF i = 0 THEN 0 ELSE zipRawEntryLength(z.entries[i])
    IN  /\ [i \in 1..Len(z.entries) |-> ziplistGet(z.entries[i])] = values
        /\ \A i \in 1..len :
              /\ z.entries[i].prevlen = raw(i - 1)
              /\ z.entries[i].prevsize >= zipPrevEncodeLength(raw(i - 1))
        /\ z.tail = IF len = 0 THEN 0 ELSE OffsetOf(z, len)
        /\ z.bytes = Bytes(z.entries)
        /\ ziplistLen(z) = len
        /\ \A i \in 1..len : ziplistIndex(z, i - 1 - len) = i
        /\ \A v \in ToSet(values) :
              LET fields == {i \in 1..len : i % 2 = 1 /\ values[i] = v}
              IN  ziplistFind(z, v, 1) = IF fields = {} THEN 0 ELSE Min(fields)

(* Whatever insertions and deletions grow, shrink and cascade.  The        *)
(* exception is named: an entry of less than four bytes in front of one    *)
(* that kept five bytes for a short length tears the end off (InsertEntry).*)
ZiplistIsSound == IsTorn(zl) \/ Readable(zl, zlref)

============================================================================
