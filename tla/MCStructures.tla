---------------------------- MODULE MCStructures ----------------------------
(* The data structures under the keyspace, each driven by what its callers   *)
(* do with it.  One of them is chosen at the start; they share no state.     *)
EXTENDS Dict, Skiplist, Intset, Quicklist, Hll

CONSTANT Parts       \* the structures to check

VARIABLE which

vars == <<dictVars, zslVars, intsetVars, ziplistVars, quicklistVars, hllVars, which>>

Num(n) == [kind |-> "int", n |-> n]
Str(n) == [kind |-> "str", n |-> n]

(* Integers of 0, 24 and 64 bits, and a string that takes BigLen bytes or  *)
(* more: in front of an entry that keeps five bytes for a short length,    *)
(* the first is the one that is too small.                                 *)
SomeValues == {Num(0), Num(-16), Num(32), Str(11)}
ListValues == {Num(0), Str(11)}
SomeBits == <<3, 4, 5, 6, 7>>
SomeIntegers == {-5, -4, -3, -1, 0, 1, 3, 4}

(* Without compression, with it at one end node, and at two.               *)
Lists == {[fill |-> 2, depth |-> 0],
          [fill |-> -1, depth |-> 0],
          [fill |-> 2, depth |-> 1],
          [fill |-> 1, depth |-> 2]}

Init ==
    /\ which \in Parts
    /\ DictInit /\ ZslInit /\ IntsetInit /\ ZiplistInit /\ QuicklistInit /\ HllInit
    /\ which # "quicklist" => qlopt = CHOOSE o \in QlOptions : TRUE

Next ==
    /\ \/ /\ which = "dict" /\ DictNext
          /\ UNCHANGED <<zslVars, intsetVars, ziplistVars, quicklistVars, hllVars>>
       \/ /\ which = "skiplist" /\ ZslNext
          /\ UNCHANGED <<dictVars, intsetVars, ziplistVars, quicklistVars, hllVars>>
       \/ /\ which = "intset" /\ IntsetNext
          /\ UNCHANGED <<dictVars, zslVars, ziplistVars, quicklistVars, hllVars>>
       \/ /\ which = "ziplist" /\ ZiplistNext
          /\ UNCHANGED <<dictVars, zslVars, intsetVars, quicklistVars, hllVars>>
       \/ /\ which = "quicklist" /\ QuicklistNext
          /\ UNCHANGED <<dictVars, zslVars, intsetVars, ziplistVars, hllVars>>
       \/ /\ which = "hll" /\ HllNext
          /\ UNCHANGED <<dictVars, zslVars, intsetVars, ziplistVars, quicklistVars>>
    /\ UNCHANGED which

Spec == Init /\ [][Next]_vars

(* Every structure holds what was put into it, in the order it promises,   *)
(* with counters, spans, lengths and links that agree with the contents:   *)
(* rehashing (dict.c), zslInsert and the deletions, intset's upgrades,      *)
(* ziplist's cascades, quicklist's splits and merges, hllSparseAdd.         *)
StructuresAreSound ==
    /\ TablesAreSound
    /\ SkiplistIsSound
    /\ IntsetIsSound
    /\ ZiplistIsSound
    /\ QuicklistIsSound
    /\ HllIsSound

=============================================================================
