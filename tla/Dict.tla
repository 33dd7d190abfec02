-------------------------------- MODULE Dict --------------------------------
(* The hash table behind every database, large set and large hash          *)
(* (dict.c): two tables while it is resized, moved bucket by bucket by the *)
(* operations themselves, and what SCAN and the iterators make of that.    *)
(* A key stands for its hash; a table is its size and its keys, the bucket *)
(* of a key being the hash modulo the size.                                *)
EXTENDS Integers, FiniteSets

CONSTANTS Hashes,        \* the keys
          InitialSize,   \* DICT_HT_INITIAL_SIZE
          MinFill,       \* HASHTABLE_MIN_FILL, per cent
          ForceRatio,    \* dict_force_resize_ratio
          EmptyVisits,   \* empty buckets one rehash step passes at most
          Width          \* bits of an unsigned long, those of a cursor

ASSUME DictAssumption ==
    /\ Hashes \subseteq Nat
    /\ InitialSize \in Nat \ {0}
    /\ MinFill \in 0..100
    /\ ForceRatio \in Nat \ {0}
    /\ EmptyVisits \in Nat \ {0}
    /\ Width \in Nat \ {0}

VARIABLES d,         \* [t0, t1, idx]: the two tables and rehashidx
          resize,    \* dict_can_resize: no child is saving
          walk       \* the SCAN or the iteration in progress

dictVars == <<d, resize, walk>>

NoTable == [size |-> 0, keys |-> {}]

NoWalk == [kind |-> "none"]

Members(e) == e.t0.keys \cup e.t1.keys

IsRehashing(e) == e.idx # -1

Bucket(t, i) == {k \in t.keys : k % t.size = i}

MinOf(S) == CHOOSE x \in S : \A y \in S : x <= y

----------------------------------------------------------------------------
(* Resizing.                                                               *)

(* The power of two times the initial size that is large enough.           *)
NextPower(n) ==
    InitialSize * 2^MinOf({p \in 0..Width : InitialSize * 2^p >= n})

dictExpand(e, n) ==
    IF \/ IsRehashing(e)
       \/ Cardinality(e.t0.keys) > n
       \/ NextPower(n) = e.t0.size
    THEN e
    ELSE LET t == [size |-> NextPower(n), keys |-> {}]
         IN  IF e.t0.size = 0 THEN [e EXCEPT !.t0 = t]
             ELSE [e EXCEPT !.t1 = t, !.idx = 0]

ExpandIfNeeded(e) ==
    LET used == Cardinality(e.t0.keys)
    IN  IF IsRehashing(e) THEN e
        ELSE IF e.t0.size = 0 THEN dictExpand(e, InitialSize)
        ELSE IF /\ used >= e.t0.size
                /\ resize \/ used \div e.t0.size > ForceRatio
        THEN dictExpand(e, used * 2)
        ELSE e

(* One step of dictRehash: the next bucket that is not empty moves, unless *)
(* too many empty ones come first; the last one ends the resizing.         *)
dictRehash(e) ==
    LET full == {i \in e.idx..(e.t0.size - 1) : Bucket(e.t0, i) # {}}
        at == MinOf(full)
        moved == [t0 |-> [e.t0 EXCEPT !.keys = @ \ Bucket(e.t0, at)],
                  t1 |-> [e.t1 EXCEPT !.keys = @ \cup Bucket(e.t0, at)],
                  idx |-> at + 1]
        done(f) == IF f.t0.keys = {}
                   THEN [t0 |-> f.t1, t1 |-> NoTable, idx |-> -1]
                   ELSE f
    IN  IF ~IsRehashing(e) THEN e
        ELSE IF e.t0.keys = {} THEN done(e)
        ELSE IF at - e.idx >= EmptyVisits
        THEN [e EXCEPT !.idx = @ + EmptyVisits]
        ELSE done(moved)

(* Operations do not move anything while a safe iterator is at work.       *)
RehashStep(e) == IF walk.kind = "iter" THEN e ELSE dictRehash(e)

----------------------------------------------------------------------------
(* Operations.  A key that is deleted is no longer due to the SCAN or to   *)
(* the iteration; one that is added may or may not be returned.            *)

NoLongerDue(k) ==
    walk' = IF walk.kind = "none" THEN walk
            ELSE [walk EXCEPT !.due = @ \ {k}, !.seen = @ \ {k},
                              !.skipped = @ \ {k}]

dictAdd(k) ==
    /\ LET e == ExpandIfNeeded(RehashStep(d))
       IN  d' = IF k \in Members(e) THEN e
                ELSE IF IsRehashing(e)
                THEN [e EXCEPT !.t1.keys = @ \cup {k}]
                ELSE [e EXCEPT !.t0.keys = @ \cup {k}]
    /\ UNCHANGED <<resize, walk>>

dictGenericDelete(k) ==
    /\ d.t0.size # 0
    /\ LET e == RehashStep(d)
       IN  d' = [e EXCEPT !.t0.keys = @ \ {k}, !.t1.keys = @ \ {k}]
    /\ NoLongerDue(k)
    /\ UNCHANGED resize

(* dictFind, dictGetRandomKey and one lookup of dictGetSomeKeys move a     *)
(* bucket as well.                                                         *)
dictFind ==
    /\ Members(d) # {}
    /\ d' = RehashStep(d)
    /\ UNCHANGED <<resize, walk>>

(* The keys dictGetRandomKey chooses from: while the dictionary is resized *)
(* the buckets of table 0 before rehashidx are skipped.                    *)
dictGetRandomKey(e) ==
    {k \in e.t0.keys : IsRehashing(e) => k % e.t0.size >= e.idx} \cup e.t1.keys

dictEmpty ==
    /\ walk.kind # "iter"
    /\ d' = [t0 |-> NoTable, t1 |-> NoTable, idx |-> -1]
    /\ walk' = IF walk.kind = "none" THEN walk ELSE [walk EXCEPT !.due = {}]
    /\ UNCHANGED resize

(* databasesCron, which runs between commands: tryResizeHashTables when    *)
(* less than MinFill is used, and incrementallyRehash.                     *)
tryResizeHashTables ==
    /\ walk.kind # "iter"
    /\ resize
    /\ LET size == d.t0.size + d.t1.size
           used == Cardinality(Members(d))
       IN  size > InitialSize /\ (used * 100) \div size < MinFill
    /\ ~IsRehashing(d)
    /\ LET used == Cardinality(d.t0.keys)
       IN  d' = dictExpand(d, IF used < InitialSize THEN InitialSize ELSE used)
    /\ UNCHANGED <<resize, walk>>

incrementallyRehash ==
    /\ walk.kind # "iter"
    /\ resize
    /\ IsRehashing(d)
    /\ d' = dictRehash(d)
    /\ UNCHANGED <<resize, walk>>

(* A child starts or ends saving.                                          *)
updateDictResizePolicy ==
    /\ resize' = ~resize
    /\ UNCHANGED <<d, walk>>

----------------------------------------------------------------------------
(* SCAN.  The cursor counts through the buckets with its bits reversed, so *)
(* that the buckets of a larger and of a smaller table correspond.         *)

(* The bits of a cursor in the opposite order.                             *)
rev(v) ==
    LET f[i \in 0..Width] ==
            IF i = 0 THEN 0
            ELSE 2 * f[i - 1] + ((v \div 2^(i - 1)) % 2)
    IN  f[Width]

(* Set the bits above the mask and increment the reversed cursor.          *)
NextCursor(v, size) ==
    rev((rev((v % size) + (2^Width - size)) + 1) % 2^Width)

dictScanOneBucket(e, v) ==
    LET small == IF e.t0.size > e.t1.size THEN e.t1 ELSE e.t0
        large == IF e.t0.size > e.t1.size THEN e.t0 ELSE e.t1
    IN  IF Members(e) = {} THEN [keys |-> {}, cursor |-> 0]
        ELSE IF ~IsRehashing(e)
        THEN [keys |-> Bucket(e.t0, v % e.t0.size),
              cursor |-> NextCursor(v, e.t0.size)]
        ELSE [keys |-> Bucket(small, v % small.size)
                       \cup Bucket(large, v % large.size),
              cursor |-> NextCursor(v, small.size)]

(* While the table is resized: the bucket of the smaller one, and of the   *)
(* larger one the buckets it expands to, counting up from the cursor's.    *)
dictScan(e, v) ==
    LET small == IF e.t0.size > e.t1.size THEN e.t1 ELSE e.t0
        large == IF e.t0.size > e.t1.size THEN e.t0 ELSE e.t1
        upward == {i \in 0..(large.size - 1) :
                      i % small.size = v % small.size /\ i >= v % large.size}
    IN  IF Members(e) = {} THEN [keys |-> {}, cursor |-> 0]
        ELSE IF ~IsRehashing(e)
        THEN [keys |-> Bucket(e.t0, v % e.t0.size),
              cursor |-> NextCursor(v, e.t0.size)]
        ELSE [keys |-> Bucket(small, v % small.size)
                       \cup UNION {Bucket(large, i) : i \in upward},
              cursor |-> NextCursor(v, small.size)]

(* What dictScan passes over: the loop over the larger table counts up from *)
(* the cursor's bucket and ends when the bits between the masks are zero,  *)
(* while the cursor itself counts those bits from the other end.  With two *)
(* such bits or more, buckets below the cursor may not have been visited.  *)
PassedOver(e, v) ==
    LET small == IF e.t0.size > e.t1.size THEN e.t1 ELSE e.t0
        large == IF e.t0.size > e.t1.size THEN e.t0 ELSE e.t1
    IN  IF IsRehashing(e) /\ large.size >= 4 * small.size
        THEN UNION {Bucket(large, i) : i \in {j \in 0..(large.size - 1) :
                       j % small.size = v % small.size /\ j < v % large.size}}
        ELSE {}

ScanStart ==
    /\ walk.kind = "none"
    /\ walk' = [kind |-> "scan", cursor |-> 0, due |-> Members(d),
                seen |-> {}, twice |-> {}, over |-> FALSE, skipped |-> {}]
    /\ UNCHANGED <<d, resize>>

(* One call with the cursor of the call before it.                         *)
ScanStep ==
    /\ walk.kind = "scan" /\ ~walk.over
    /\ LET r == dictScan(d, walk.cursor)
       IN  walk' = [walk EXCEPT !.cursor = r.cursor, !.due = @ \ r.keys,
                                !.over = r.cursor = 0,
                                !.skipped = @ \cup
                                   (walk.due \cap PassedOver(d, walk.cursor))]
    /\ UNCHANGED <<d, resize>>

----------------------------------------------------------------------------
(* A safe iterator: table 0, then table 1 if the dictionary is resized     *)
(* when the end of table 0 is reached.  Its cursor is the bucket to visit. *)

dictGetSafeIterator ==
    /\ walk.kind = "none"
    /\ walk' = [kind |-> "iter", cursor |-> 0, due |-> Members(d),
                seen |-> {}, twice |-> {}, over |-> FALSE, skipped |-> {},
                table |-> 0]
    /\ UNCHANGED <<d, resize>>

dictNext ==
    /\ walk.kind = "iter" /\ ~walk.over
    /\ LET t == IF walk.table = 0 THEN d.t0 ELSE d.t1
           b == Bucket(t, walk.cursor)
       IN  walk' =
             IF walk.cursor < t.size
             THEN [walk EXCEPT !.cursor = @ + 1, !.due = @ \ b,
                               !.seen = @ \cup b,
                               !.twice = @ \cup (b \cap walk.seen)]
             ELSE IF walk.table = 0 /\ IsRehashing(d)
             THEN [walk EXCEPT !.table = 1, !.cursor = 0]
             ELSE [walk EXCEPT !.over = TRUE]
    /\ UNCHANGED <<d, resize>>

dictReleaseIterator ==
    /\ walk.kind # "none" /\ walk.over
    /\ walk' = NoWalk
    /\ UNCHANGED <<d, resize>>

DictInit ==
    /\ d = [t0 |-> NoTable, t1 |-> NoTable, idx |-> -1]
    /\ resize = TRUE
    /\ walk = NoWalk

DictNext ==
    \/ \E k \in Hashes : dictAdd(k) \/ dictGenericDelete(k)
    \/ dictFind \/ dictEmpty
    \/ tryResizeHashTables \/ incrementallyRehash \/ updateDictResizePolicy
    \/ ScanStart \/ ScanStep
    \/ dictGetSafeIterator \/ dictNext \/ dictReleaseIterator

DictSpec == DictInit /\ [][DictNext]_dictVars

----------------------------------------------------------------------------
(* Properties.                                                             *)

(* No key is in both tables, every key can be chosen at random, and        *)
(* rehashidx stays inside the table while there is something to move.      *)
TablesAreSound ==
    /\ d.t0.keys \cap d.t1.keys = {}
    /\ ~IsRehashing(d) => d.t1 = NoTable
    /\ dictGetRandomKey(d) = Members(d)
    /\ IsRehashing(d) /\ d.t0.keys # {} => d.idx < d.t0.size

(* A full SCAN, from cursor 0 until it returns 0, returns every key that   *)
(* was there from its start to its end, however the dictionary is modified *)
(* and resized meanwhile, with one exception: keys in the buckets that a   *)
(* call passes over while the table is moved to one of a quarter of its    *)
(* size or less (dict.c:896-904).  A safe iterator returns every such key, *)
(* and none twice.                                                         *)
WalksAreComplete ==
    walk.kind # "none" => /\ walk.over => walk.due \subseteq walk.skipped
                          /\ walk.twice = {}

============================================================================
