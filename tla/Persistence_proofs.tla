-------------------------- MODULE Persistence_proofs --------------------------
EXTENDS Persistence, SequenceTheorems, WellFoundedInduction, TLAPS

(* Induction over the natural numbers, with a set in place of a predicate. *)
LEMMA Induction ==
    ASSUME NEW S \in SUBSET Nat, 0 \in S, \A n \in S : n + 1 \in S
    PROVE  \A n \in Nat : n \in S
<1>1. SUFFICES ASSUME Nat \ S # {} PROVE FALSE
    OBVIOUS
<1>2. PICK m \in Nat \ S : \A k \in Nat \ S : ~(k < m)
    <2>1. Nat \ S \subseteq Nat
        OBVIOUS
    <2>2. \E m \in Nat \ S : \A k \in Nat \ S : ~(<<k, m>> \in OpToRel(<, Nat))
        <3> HIDE DEF OpToRel
        <3> QED
            BY <1>1, <2>1, NatLessThanWellFounded, WFMin
    <2>3. \A k, m \in Nat : k < m => <<k, m>> \in OpToRel(<, Nat)
        BY DEF OpToRel
    <2> QED
        BY <2>2, <2>3, Zenon
<1>3. m # 0 /\ m - 1 \in Nat /\ m - 1 < m
    BY <1>2
<1>4. m - 1 \in S
    BY <1>2, <1>3
<1>5. (m - 1) + 1 = m
    BY <1>2
<1> QED
    BY <1>2, <1>4, <1>5

-----------------------------------------------------------------------------
(* Loading a file. *)

Start == [data |-> <<>>, db |-> 0]
Loaded(f) == Loading(f)[Len(f)]

\* g is what loading has come to after each of the first n entries of f.
Steps(f, g, n) == g = [k \in 0..n |-> IF k = 0 THEN Start ELSE LoadOne(g[k - 1], f[k])]

LEMMA StepsExist ==
    ASSUME NEW f
    PROVE  \A n \in Nat : \E g : Steps(f, g, n)
<1> DEFINE S == {n \in Nat : \E g : Steps(f, g, n)}
<1>1. 0 \in S
    <2>1. Steps(f, [k \in 0..0 |-> Start], 0)
        BY DEF Steps
    <2> QED
        BY <2>1
<1>2. ASSUME NEW n \in S PROVE n + 1 \in S
    <2>1. PICK g : Steps(f, g, n)
        BY <1>2
    <2> DEFINE h == [k \in 0..(n + 1) |-> IF k <= n THEN g[k] ELSE LoadOne(g[n], f[k])]
    <2>2. n \in Nat
        BY <1>2
    <2>3. ASSUME NEW k \in 0..(n + 1)
          PROVE  h[k] = IF k = 0 THEN Start ELSE LoadOne(h[k - 1], f[k])
        <3>1. CASE k = 0
            BY <2>1, <2>2, <3>1 DEF Steps
        <3>2. CASE k # 0 /\ k <= n
            <4>1. k - 1 \in 0..(n + 1) /\ k - 1 <= n /\ k \in 0..n
                BY <2>2, <2>3, <3>2
            <4>2. h[k] = g[k] /\ h[k - 1] = g[k - 1]
                BY <2>3, <3>2, <4>1
            <4>3. g[k] = LoadOne(g[k - 1], f[k])
                BY <2>1, <3>2, <4>1, Zenon DEF Steps
            <4> QED
                BY <3>2, <4>2, <4>3, Zenon
        <3>3. CASE k = n + 1
            <4>1. n \in 0..(n + 1) /\ n <= n /\ k - 1 = n /\ ~(k <= n) /\ k # 0
                BY <2>2, <3>3
            <4>2. h[n] = g[n] /\ h[k] = LoadOne(g[n], f[k])
                BY <2>3, <4>1
            <4> QED
                BY <4>1, <4>2
        <3> QED
            BY <2>2, <2>3, <3>1, <3>2, <3>3
    <2>4. Steps(f, h, n + 1)
        BY <2>3, Zenon DEF Steps
    <2> QED
        BY <2>2, <2>4
<1> HIDE DEF S
<1>3. \A n \in Nat : n \in S
    BY <1>1, <1>2, Induction DEF S
<1> QED
    BY <1>3 DEF S

(* The equations of loading. *)
LEMMA LoadingEquations ==
    ASSUME NEW f, Len(f) \in Nat
    PROVE  /\ Loading(f)[0] = Start
           /\ \A n \in 1..Len(f) : Loading(f)[n] = LoadOne(Loading(f)[n - 1], f[n])
<1>1. \E g : Steps(f, g, Len(f))
    BY StepsExist
<1>2. Steps(f, Loading(f), Len(f))
    BY <1>1 DEF Loading, Steps, Start
<1>3. 0 \in 0..Len(f) /\ \A n \in 1..Len(f) : n \in 0..Len(f) /\ n # 0
    OBVIOUS
<1>4. \A n \in 0..Len(f) : Loading(f)[n] = IF n = 0 THEN Start ELSE LoadOne(Loading(f)[n - 1], f[n])
    BY <1>2, Zenon DEF Steps
<1> QED
    BY <1>3, <1>4, Zenon

(* Loading depends on the entries read only. *)
LEMMA LoadingAgrees ==
    ASSUME NEW f, Len(f) \in Nat, NEW g, Len(g) \in Nat,
           NEW m \in Nat, m <= Len(f), m <= Len(g), \A k \in 1..m : f[k] = g[k]
    PROVE  \A k \in 0..m : Loading(f)[k] = Loading(g)[k]
<1> DEFINE S == {k \in Nat : k <= m => Loading(f)[k] = Loading(g)[k]}
<1>1. 0 \in S
    BY LoadingEquations
<1>2. ASSUME NEW k \in S PROVE k + 1 \in S
    <2>1. SUFFICES ASSUME k + 1 <= m PROVE Loading(f)[k + 1] = Loading(g)[k + 1]
        OBVIOUS
    <2>2. k \in Nat /\ Loading(f)[k] = Loading(g)[k]
        BY <1>2, <2>1
    <2>3. k + 1 \in 1..m /\ k + 1 \in 1..Len(f) /\ k + 1 \in 1..Len(g) /\ (k + 1) - 1 = k
        BY <2>1, <2>2
    <2>4. f[k + 1] = g[k + 1]
        BY <2>3, Zenon
    <2>5. /\ Loading(f)[k + 1] = LoadOne(Loading(f)[k], f[k + 1])
          /\ Loading(g)[k + 1] = LoadOne(Loading(g)[k], g[k + 1])
        BY <2>3, LoadingEquations
    <2> QED
        BY <2>2, <2>4, <2>5, Zenon
<1> HIDE DEF S
<1>3. \A k \in Nat : k \in S
    BY <1>1, <1>2, Induction DEF S
<1> QED
    BY <1>3 DEF S

-----------------------------------------------------------------------------
(* Prefixes. *)

Item == (DBs \cup {0, NULL}) \X Nat

LEMMA PrefixPointwise ==
    ASSUME NEW s \in Seq(Item), NEW t \in Seq(Item)
    PROVE  IsPrefix(s, t) <=> Len(s) <= Len(t) /\ \A i \in 1..Len(s) : s[i] = t[i]
<1>1. Len(s) \in Nat /\ Len(t) \in Nat /\ \A i \in 1..Len(s) : s[i] \in Item
    BY ElementOfSeq
<1>2. \A i \in 1..Len(t) : t[i] \in Item
    BY ElementOfSeq
<1> HIDE DEF Item
<1>3. SUFFICES ASSUME Len(s) <= Len(t)
              PROVE  SubSeq(s, 1, Len(s)) = SubSeq(t, 1, Len(s)) <=> \A i \in 1..Len(s) : s[i] = t[i]
    BY DEF IsPrefix
<1>4. SubSeq(s, 1, Len(s)) = s
    BY SubSeqFull
<1>5. SubSeq(t, 1, Len(s)) = [i \in 1..Len(s) |-> t[i]]
    BY <1>1, <1>2, <1>3
<1>6. s = [i \in 1..Len(s) |-> s[i]]
    BY <1>1
<1> QED
    BY <1>4, <1>5, <1>6

LEMMA PrefixReflexive ==
    ASSUME NEW s \in Seq(Item)
    PROVE  IsPrefix(s, s)
<1> HIDE DEF Item
<1> QED
    BY PrefixPointwise

LEMMA PrefixTransitive ==
    ASSUME NEW s \in Seq(Item), NEW t \in Seq(Item), NEW u \in Seq(Item),
           IsPrefix(s, t), IsPrefix(t, u)
    PROVE  IsPrefix(s, u)
<1> HIDE DEF Item
<1>1. /\ Len(s) <= Len(t) /\ \A i \in 1..Len(s) : s[i] = t[i]
      /\ Len(t) <= Len(u) /\ \A i \in 1..Len(t) : t[i] = u[i]
    BY PrefixPointwise
<1>2. Len(s) \in Nat /\ Len(t) \in Nat /\ Len(u) \in Nat
    OBVIOUS
<1>3. Len(s) <= Len(u) /\ \A i \in 1..Len(s) : i \in 1..Len(t)
    BY <1>1, <1>2
<1>4. \A i \in 1..Len(s) : s[i] = u[i]
    BY <1>1, <1>3
<1> QED
    BY <1>3, <1>4, PrefixPointwise

LEMMA PrefixConcat ==
    ASSUME NEW s \in Seq(Item), NEW t \in Seq(Item)
    PROVE  s \o t \in Seq(Item) /\ IsPrefix(s, s \o t)
<1> HIDE DEF Item
<1>1. /\ s \o t \in Seq(Item) /\ Len(s \o t) = Len(s) + Len(t)
      /\ \A i \in 1..(Len(s) + Len(t)) : (s \o t)[i] = IF i <= Len(s) THEN s[i] ELSE t[i - Len(s)]
    BY ConcatProperties
<1>2. Len(s) \in Nat /\ Len(t) \in Nat
    OBVIOUS
<1>3. Len(s) <= Len(s \o t) /\ \A i \in 1..Len(s) : s[i] = (s \o t)[i]
    BY <1>1, <1>2
<1> QED
    BY <1>1, <1>3, PrefixPointwise

LEMMA PrefixAppend ==
    ASSUME NEW s \in Seq(Item), NEW e \in Item
    PROVE  Append(s, e) \in Seq(Item) /\ IsPrefix(s, Append(s, e))
<1> HIDE DEF Item
<1>1. /\ Append(s, e) \in Seq(Item) /\ Len(Append(s, e)) = Len(s) + 1
      /\ \A i \in 1..Len(s) : Append(s, e)[i] = s[i]
    BY AppendProperties
<1>2. Len(s) <= Len(Append(s, e)) /\ \A i \in 1..Len(s) : s[i] = Append(s, e)[i]
    <2>1. Len(s) \in Nat
        OBVIOUS
    <2> QED
        BY <1>1, <2>1
<1>3. Append(s, e) \in Seq(Item)
    BY <1>1
<1>4. IsPrefix(s, Append(s, e))
    BY <1>2, <1>3, PrefixPointwise, Zenon
<1> QED
    BY <1>3, <1>4

-----------------------------------------------------------------------------
(* What loading a file comes to. *)

Entry == [t : {"select", "write", "snapshot"}, db : DBs \cup {0}, id : Nat, data : Seq(Item)]
At == [data : Seq(Item), db : DBs \cup {0, NULL}]

LEMMA LoadOneGrows ==
    ASSUME NEW at \in At, NEW e \in Entry
    PROVE  LoadOne(at, e) \in At /\ IsPrefix(at.data, LoadOne(at, e).data)
<1> USE DEF At, Entry
<1>0. at.data \in Seq(Item) /\ at.db \in DBs \cup {0, NULL} /\ e.data \in Seq(Item)
      /\ e.db \in DBs \cup {0} /\ <<at.db, e.id>> \in Item
    BY DEF Item
<1> HIDE DEF Item
<1>1. CASE e.t = "select"
    <2>1. LoadOne(at, e) = [at EXCEPT !.db = e.db]
        BY <1>1 DEF LoadOne
    <2> QED
        BY <1>0, <2>1, PrefixReflexive
<1>2. CASE e.t = "write"
    <2>1. LoadOne(at, e) = [at EXCEPT !.data = Append(at.data, <<at.db, e.id>>)]
        BY <1>2 DEF LoadOne
    <2>2. LoadOne(at, e) = [data |-> Append(at.data, <<at.db, e.id>>), db |-> at.db]
        BY <2>1
    <2>3. Append(at.data, <<at.db, e.id>>) \in Seq(Item)
          /\ IsPrefix(at.data, Append(at.data, <<at.db, e.id>>))
        BY <1>0, PrefixAppend
    <2> QED
        BY <1>0, <2>2, <2>3
<1>3. CASE e.t = "snapshot"
    <2>1. LoadOne(at, e) = [at EXCEPT !.data = at.data \o e.data, !.db = NULL]
        BY <1>3 DEF LoadOne
    <2>2. LoadOne(at, e) = [data |-> at.data \o e.data, db |-> NULL]
        BY <2>1
    <2>3. at.data \o e.data \in Seq(Item) /\ IsPrefix(at.data, at.data \o e.data)
        BY <1>0, PrefixConcat
    <2> QED
        BY <2>2, <2>3
<1> QED
    BY <1>1, <1>2, <1>3

LEMMA LoadingType ==
    ASSUME NEW f \in Seq(Entry)
    PROVE  \A n \in 0..Len(f) : Loading(f)[n] \in At
<1> DEFINE S == {n \in Nat : n <= Len(f) => Loading(f)[n] \in At}
<1>0. Len(f) \in Nat /\ \A n \in 1..Len(f) : f[n] \in Entry
    BY ElementOfSeq
<1>1. 0 \in S
    <2>1. Start \in At
        BY EmptySeq DEF Start, At
    <2> QED
        BY <1>0, <2>1, LoadingEquations
<1>2. ASSUME NEW n \in S PROVE n + 1 \in S
    <2>1. SUFFICES ASSUME n + 1 <= Len(f) PROVE Loading(f)[n + 1] \in At
        OBVIOUS
    <2>2. n \in Nat /\ Loading(f)[n] \in At
        BY <1>0, <1>2, <2>1
    <2>3. n + 1 \in 1..Len(f) /\ (n + 1) - 1 = n
        BY <1>0, <2>1, <2>2
    <2>4. Loading(f)[n + 1] = LoadOne(Loading(f)[n], f[n + 1])
        BY <1>0, <2>3, LoadingEquations
    <2> QED
        BY <1>0, <2>2, <2>3, <2>4, LoadOneGrows
<1> HIDE DEF S
<1>3. \A n \in Nat : n \in S
    BY <1>1, <1>2, Induction DEF S
<1> QED
    BY <1>0, <1>3 DEF S

LEMMA LoadingGrows ==
    ASSUME NEW f \in Seq(Entry), NEW m \in 0..Len(f)
    PROVE  \A n \in m..Len(f) : IsPrefix(Loading(f)[m].data, Loading(f)[n].data)
<1> DEFINE S == {i \in Nat : m + i <= Len(f) => IsPrefix(Loading(f)[m].data, Loading(f)[m + i].data)}
<1>0. Len(f) \in Nat /\ m \in Nat /\ \A n \in 1..Len(f) : f[n] \in Entry
    BY ElementOfSeq
<1>1. 0 \in S
    <2>1. Loading(f)[m].data \in Seq(Item) /\ m + 0 = m
        BY <1>0, LoadingType DEF At
    <2> QED
        BY <2>1, PrefixReflexive
<1>2. ASSUME NEW i \in S PROVE i + 1 \in S
    <2>1. SUFFICES ASSUME m + (i + 1) <= Len(f)
                   PROVE  IsPrefix(Loading(f)[m].data, Loading(f)[m + (i + 1)].data)
        OBVIOUS
    <2>2. i \in Nat /\ IsPrefix(Loading(f)[m].data, Loading(f)[m + i].data)
        BY <1>0, <1>2, <2>1
    <2>3. m + (i + 1) \in 1..Len(f) /\ (m + (i + 1)) - 1 = m + i /\ m + i \in 0..Len(f)
        BY <1>0, <2>1, <2>2
    <2>4. Loading(f)[m + (i + 1)] = LoadOne(Loading(f)[m + i], f[m + (i + 1)])
        BY <1>0, <2>3, LoadingEquations
    <2>5. Loading(f)[m + i] \in At /\ f[m + (i + 1)] \in Entry /\ Loading(f)[m] \in At
        BY <1>0, <2>3, LoadingType
    <2>6. LoadOne(Loading(f)[m + i], f[m + (i + 1)]) \in At
          /\ IsPrefix(Loading(f)[m + i].data, LoadOne(Loading(f)[m + i], f[m + (i + 1)]).data)
        BY <2>5, LoadOneGrows
    <2>7. /\ Loading(f)[m].data \in Seq(Item) /\ Loading(f)[m + i].data \in Seq(Item)
          /\ Loading(f)[m + (i + 1)].data \in Seq(Item)
        BY <2>4, <2>5, <2>6 DEF At
    <2> QED
        BY <2>2, <2>4, <2>6, <2>7, PrefixTransitive
<1> HIDE DEF S
<1>3. \A i \in Nat : i \in S
    BY <1>1, <1>2, Induction DEF S
<1>4. ASSUME NEW n \in m..Len(f) PROVE IsPrefix(Loading(f)[m].data, Loading(f)[n].data)
    <2>1. n - m \in Nat /\ m + (n - m) = n /\ n <= Len(f)
        BY <1>0
    <2>2. n - m \in S
        BY <1>3, <2>1
    <2> QED
        BY <2>1, <2>2 DEF S
<1> QED
    BY <1>4

(* Loading the start of a file gives a prefix. *)
LEMMA LoadedCut ==
    ASSUME NEW f \in Seq(Entry), NEW n \in 0..Len(f)
    PROVE  /\ SubSeq(f, 1, n) \in Seq(Entry)
           /\ Loaded(SubSeq(f, 1, n)) = Loading(f)[n]
           /\ IsPrefix(Loaded(SubSeq(f, 1, n)).data, Loaded(f).data)
<1>0. Len(f) \in Nat /\ n \in Nat /\ n <= Len(f)
    OBVIOUS
<1>1. /\ SubSeq(f, 1, n) \in Seq(Entry) /\ Len(SubSeq(f, 1, n)) = n
      /\ \A i \in 1..n : SubSeq(f, 1, n)[i] = f[i]
    <2>1. \A i \in 1..n : f[i] \in Entry
        BY <1>0, ElementOfSeq
    <2> HIDE DEF Entry
    <2> QED
        BY <1>0, <2>1
<1>2. Loading(SubSeq(f, 1, n))[n] = Loading(f)[n]
    <2> DEFINE g == SubSeq(f, 1, n)
    <2>1. Len(g) \in Nat /\ n <= Len(g) /\ \A i \in 1..n : g[i] = f[i]
        BY <1>0, <1>1
    <2> HIDE DEF g
    <2>2. \A k \in 0..n : Loading(g)[k] = Loading(f)[k]
        BY <1>0, <2>1, LoadingAgrees
    <2>3. n \in 0..n
        BY <1>0
    <2>4. Loading(g)[n] = Loading(f)[n]
        BY <2>2, <2>3, Zenon
    <2> QED
        BY <2>4 DEF g
<1>3. IsPrefix(Loading(f)[n].data, Loading(f)[Len(f)].data)
    BY <1>0, LoadingGrows
<1> QED
    BY <1>1, <1>2, <1>3 DEF Loaded

(* Loading one entry more. *)
LEMMA LoadedAppend ==
    ASSUME NEW f \in Seq(Entry), NEW e \in Entry
    PROVE  Loaded(Append(f, e)) = LoadOne(Loaded(f), e)
<1>1. /\ Append(f, e) \in Seq(Entry) /\ Len(Append(f, e)) = Len(f) + 1 /\ Len(f) \in Nat
      /\ Append(f, e)[Len(f) + 1] = e /\ \A i \in 1..Len(f) : Append(f, e)[i] = f[i]
    BY AppendProperties
<1> DEFINE g == Append(f, e)
           n == Len(f)
<1>2. /\ n \in Nat /\ Len(g) = n + 1 /\ Len(g) \in Nat /\ g[n + 1] = e /\ \A i \in 1..n : g[i] = f[i]
      /\ n <= Len(g) /\ n <= Len(f) /\ Len(f) \in Nat
    BY <1>1
<1>3. Loaded(f) = Loading(f)[n] /\ Loaded(g) = Loading(g)[n + 1]
    BY <1>2 DEF Loaded
<1> HIDE DEF g, n
<1>4. \A k \in 0..n : Loading(g)[k] = Loading(f)[k]
    BY <1>2, LoadingAgrees
<1>5. Loading(g)[n] = Loading(f)[n]
    <2>1. n \in 0..n
        BY <1>2
    <2> QED
        BY <1>4, <2>1, Zenon
<1>6. n + 1 \in 1..Len(g) /\ (n + 1) - 1 = n
    BY <1>2
<1>7. \A k \in 1..Len(g) : Loading(g)[k] = LoadOne(Loading(g)[k - 1], g[k])
    BY <1>2, LoadingEquations
<1>8. Loading(g)[n + 1] = LoadOne(Loading(g)[n], g[n + 1])
    BY <1>6, <1>7
<1>9. Loaded(g) = LoadOne(Loaded(f), e)
    BY <1>2, <1>3, <1>5, <1>8
<1> QED
    BY <1>9 DEF g

LEMMA LoadedType ==
    ASSUME NEW f \in Seq(Entry)
    PROVE  Loaded(f) \in At /\ Loaded(f).data \in Seq(Item) /\ loadAppendOnlyFile(f) = Loaded(f).data
<1>1. Loaded(f) \in At
    BY LoadingType DEF Loaded
<1> QED
    BY <1>1 DEF At, Loaded, loadAppendOnlyFile

LEMMA LoadedEmpty == Loaded(<<>>) = Start
    BY LoadingEquations DEF Loaded

-----------------------------------------------------------------------------
(* The sequences of entries that the actions build. *)

LEMMA Joined ==
    ASSUME NEW f \in Seq(Entry), NEW g \in Seq(Entry)
    PROVE  f \o g \in Seq(Entry) /\ Len(f \o g) = Len(f) + Len(g) /\ f \o <<>> = f
<1> HIDE DEF Entry
<1> QED
    BY ConcatProperties, ConcatEmptySeq

(* A sequence cut in two. *)
LEMMA Cut ==
    ASSUME NEW f \in Seq(Entry), NEW n \in 0..Len(f)
    PROVE  /\ SubSeq(f, 1, n) \in Seq(Entry) /\ SubSeq(f, n + 1, Len(f)) \in Seq(Entry)
           /\ SubSeq(f, 1, n) \o SubSeq(f, n + 1, Len(f)) = f
           /\ n = Len(f) => SubSeq(f, 1, n) = f /\ SubSeq(f, n + 1, Len(f)) = <<>>
<1> HIDE DEF Entry
<1>0. Len(f) \in Nat /\ n \in Nat /\ n <= Len(f) /\ \A i \in 1..Len(f) : f[i] \in Entry
    BY ElementOfSeq
<1>1. SubSeq(f, 1, n) \in Seq(Entry) /\ SubSeq(f, n + 1, Len(f)) \in Seq(Entry)
    <2>1. \A i \in 1..n : f[i] \in Entry
        BY <1>0
    <2>2. \A i \in (n + 1)..Len(f) : f[i] \in Entry
        BY <1>0
    <2>3. 1 \in Int /\ n \in Int /\ n + 1 \in Int /\ Len(f) \in Int
        BY <1>0
    <2>4. SubSeq(f, 1, n) \in Seq(Entry)
        BY <2>1, <2>3, SubSeqProperties
    <2>5. SubSeq(f, n + 1, Len(f)) \in Seq(Entry)
        BY <2>2, <2>3, SubSeqProperties
    <2> QED
        BY <2>4, <2>5
<1>2. SubSeq(f, 1, n) \o SubSeq(f, n + 1, Len(f)) = SubSeq(f, 1, Len(f))
    <2>1. 1 \in 1..(Len(f) + 1) /\ n \in (1 - 1)..Len(f) /\ Len(f) \in n..Len(f)
        BY <1>0
    <2> QED
        BY <2>1, ConcatAdjacentSubSeq
<1>3. SubSeq(f, 1, Len(f)) = f
    BY SubSeqFull
<1>4. n = Len(f) => SubSeq(f, n + 1, Len(f)) = <<>>
    <2>1. n + 1 \in Int /\ Len(f) \in Int /\ (n = Len(f) => Len(f) < n + 1)
        BY <1>0
    <2> QED
        BY <2>1, SubSeqEmpty
<1> QED
    BY <1>1, <1>2, <1>3, <1>4

LEMMA Associative ==
    ASSUME NEW f \in Seq(Entry), NEW g \in Seq(Entry), NEW h \in Seq(Entry)
    PROVE  (f \o g) \o h = f \o (g \o h)
<1> HIDE DEF Entry
<1> QED
    BY ConcatAssociative

(* The first part of a sequence moved to the end of the one before it. *)
LEMMA Moved ==
    ASSUME NEW f \in Seq(Entry), NEW g \in Seq(Entry), NEW n \in 0..Len(g)
    PROVE  (f \o SubSeq(g, 1, n)) \o SubSeq(g, n + 1, Len(g)) = f \o g
<1> HIDE DEF Entry
<1>1. /\ SubSeq(g, 1, n) \in Seq(Entry) /\ SubSeq(g, n + 1, Len(g)) \in Seq(Entry)
      /\ SubSeq(g, 1, n) \o SubSeq(g, n + 1, Len(g)) = g
    BY Cut
<1>2. (f \o SubSeq(g, 1, n)) \o SubSeq(g, n + 1, Len(g))
        = f \o (SubSeq(g, 1, n) \o SubSeq(g, n + 1, Len(g)))
    BY <1>1, Associative
<1> QED
    BY <1>1, <1>2

(* What is loaded from the start of a file is a prefix of the rest. *)
LEMMA LoadedPrefix ==
    ASSUME NEW f \in Seq(Entry), NEW g \in Seq(Entry)
    PROVE  IsPrefix(Loaded(f).data, Loaded(f \o g).data)
<1> HIDE DEF Entry
<1> DEFINE h == f \o g
<1>1. /\ h \in Seq(Entry) /\ Len(h) = Len(f) + Len(g)
      /\ \A i \in 1..(Len(f) + Len(g)) : h[i] = IF i <= Len(f) THEN f[i] ELSE g[i - Len(f)]
    BY ConcatProperties
<1>2. Len(f) \in Nat /\ Len(g) \in Nat
    OBVIOUS
<1>3. Loaded(f) = Loading(f)[Len(f)] /\ Loaded(h) = Loading(h)[Len(h)]
    BY DEF Loaded
<1> HIDE DEF h
<1>4. /\ Len(h) \in Nat /\ Len(f) <= Len(f) /\ Len(f) <= Len(h) /\ Len(h) \in Len(f)..Len(h)
      /\ Len(f) \in 0..Len(h) /\ Len(f) \in 0..Len(f) /\ \A i \in 1..Len(f) : f[i] = h[i]
    BY <1>1, <1>2
<1>5. \A k \in 0..Len(f) : Loading(f)[k] = Loading(h)[k]
    BY <1>2, <1>4, LoadingAgrees
<1>6. Loading(f)[Len(f)] = Loading(h)[Len(f)]
    BY <1>4, <1>5, Zenon
<1>7. \A k \in Len(f)..Len(h) : IsPrefix(Loading(h)[Len(f)].data, Loading(h)[k].data)
    BY <1>1, <1>4, LoadingGrows
<1>8. IsPrefix(Loading(h)[Len(f)].data, Loading(h)[Len(h)].data)
    BY <1>4, <1>7, Zenon
<1>9. IsPrefix(Loaded(f).data, Loaded(h).data)
    BY <1>3, <1>6, <1>8, Zenon
<1> QED
    BY <1>9, Zenon DEF h

LEMMA EntryTypes ==
    ASSUME NEW db \in DBs, NEW id \in Nat, NEW d \in Seq(Item)
    PROVE  Select(db) \in Entry /\ Command(id) \in Entry /\ Snapshot(d) \in Entry /\ <<db, id>> \in Item
<1>1. <<db, id>> \in Item
    BY DEF Item
<1> HIDE DEF Item
<1>2. <<>> \in Seq(Item)
    OBVIOUS
<1> QED
    BY <1>1, <1>2 DEF Select, Command, Snapshot, Entry

(* A file that begins with a rewrite. *)
LEMMA LoadedSnapshot ==
    ASSUME NEW d \in Seq(Item)
    PROVE  <<Snapshot(d)>> \in Seq(Entry) /\ Loaded(<<Snapshot(d)>>) = [data |-> d, db |-> NULL]
<1>1. Snapshot(d) \in Entry
    <2> HIDE DEF Item
    <2>1. <<>> \in Seq(Item)
        OBVIOUS
    <2> QED
        BY <2>1 DEF Snapshot, Entry
<1> HIDE DEF Entry
<1>2. <<>> \in Seq(Entry) /\ <<Snapshot(d)>> = Append(<<>>, Snapshot(d)) /\ <<Snapshot(d)>> \in Seq(Entry)
    BY <1>1
<1>3. Loaded(<<Snapshot(d)>>) = LoadOne(Start, Snapshot(d))
    BY <1>1, <1>2, LoadedAppend, LoadedEmpty
<1>4. LoadOne(Start, Snapshot(d)) = [data |-> <<>> \o d, db |-> NULL]
    BY DEF LoadOne, Start, Snapshot
<1>5. <<>> \o d = d
    <2> HIDE DEF Item
    <2> QED
        BY ConcatEmptySeq
<1> QED
    BY <1>2, <1>3, <1>4, <1>5

(* What a write adds to a file has it loaded as it is in the data set, if   *)
(* the file is in the database the server takes it to be in.               *)
LEMMA LoadedEntries ==
    ASSUME NEW f \in Seq(Entry), NEW db \in DBs, NEW id \in Nat,
           aof.sel # NULL => Loaded(f).db = aof.sel
    PROVE  /\ Entries(db, id) \in Seq(Entry) /\ f \o Entries(db, id) \in Seq(Entry)
           /\ Loaded(f \o Entries(db, id)).data = Append(Loaded(f).data, <<db, id>>)
           /\ Loaded(f \o Entries(db, id)).db = db
<1>0. Select(db) \in Entry /\ Command(id) \in Entry
    <2> HIDE DEF Item
    <2>1. <<>> \in Seq(Item)
        OBVIOUS
    <2> QED
        BY <2>1 DEF Select, Command, Entry
<1>1. Loaded(f) \in At
    BY LoadedType
<1> HIDE DEF Entry
<1>2. db # NULL
    BY PersistenceAssumption
<1>3. ASSUME NEW g \in Seq(Entry), Loaded(g).db = db, Loaded(g).data = Loaded(f).data, Loaded(g) \in At
      PROVE  /\ Loaded(Append(g, Command(id))).data = Append(Loaded(f).data, <<db, id>>)
             /\ Loaded(Append(g, Command(id))).db = db
    <2>1. Loaded(Append(g, Command(id))) = LoadOne(Loaded(g), Command(id))
        BY <1>0, <1>3, LoadedAppend
    <2>2. LoadOne(Loaded(g), Command(id)) = [Loaded(g) EXCEPT !.data = Append(Loaded(g).data, <<Loaded(g).db, id>>)]
        BY DEF LoadOne, Command
    <2> HIDE DEF Loaded
    <2>3. LoadOne(Loaded(g), Command(id)) = [data |-> Append(Loaded(g).data, <<Loaded(g).db, id>>), db |-> Loaded(g).db]
        BY <1>3, <2>2 DEF At
    <2> QED
        BY <1>3, <2>1, <2>3
<1>4. CASE aof.sel = db
    <2>1. Entries(db, id) = <<Command(id)>>
        <3>1. <<Command(id)>> \in Seq(Entry)
            BY <1>0
        <3> QED
            BY <1>4, <3>1, ConcatEmptySeq DEF Entries
    <2>2. f \o <<Command(id)>> = Append(f, Command(id)) /\ <<Command(id)>> \in Seq(Entry)
          /\ Append(f, Command(id)) \in Seq(Entry)
        BY <1>0, AppendIsConcat, AppendProperties
    <2>3. Loaded(f).db = db
        BY <1>2, <1>4
    <2>4. /\ Loaded(Append(f, Command(id))).data = Append(Loaded(f).data, <<db, id>>)
          /\ Loaded(Append(f, Command(id))).db = db
        BY <1>1, <1>3, <2>3
    <2> QED
        BY <2>1, <2>2, <2>4
<1>5. CASE aof.sel # db
    <2> DEFINE g == Append(f, Select(db))
    <2>1. Entries(db, id) = <<Select(db)>> \o <<Command(id)>>
        BY <1>5 DEF Entries
    <2>2. <<Select(db)>> \in Seq(Entry) /\ <<Command(id)>> \in Seq(Entry)
        BY <1>0
    <2>3. Entries(db, id) \in Seq(Entry) /\ f \o Entries(db, id) \in Seq(Entry)
        BY <2>1, <2>2, Joined
    <2>4. f \o Entries(db, id) = (f \o <<Select(db)>>) \o <<Command(id)>>
        BY <2>1, <2>2, Associative
    <2>5. g = f \o <<Select(db)>> /\ g \in Seq(Entry)
        BY <1>0, AppendIsConcat, AppendProperties
    <2>6. Loaded(g) = LoadOne(Loaded(f), Select(db))
        BY <1>0, LoadedAppend
    <2>7. Append(g, Command(id)) = g \o <<Command(id)>>
        BY <1>0, <2>5, AppendIsConcat
    <2>8. Loaded(g) \in At
        BY <2>5, LoadedType
    <2> HIDE DEF g
    <2>9. Loaded(g).db = db /\ Loaded(g).data = Loaded(f).data
        <3>1. LoadOne(Loaded(f), Select(db)) = [Loaded(f) EXCEPT !.db = db]
            BY DEF LoadOne, Select
        <3> HIDE DEF Loaded
        <3> QED
            BY <1>1, <2>6, <3>1 DEF At
    <2>10. /\ Loaded(Append(g, Command(id))).data = Append(Loaded(f).data, <<db, id>>)
           /\ Loaded(Append(g, Command(id))).db = db
        BY <1>3, <2>5, <2>8, <2>9
    <2> QED
        BY <2>3, <2>4, <2>5, <2>7, <2>10
<1> QED
    BY <1>4, <1>5

-----------------------------------------------------------------------------
(* The inductive invariant. *)

AofType ==
    [state : {"on", "wait", "off"}, fd : BOOLEAN, buf : Seq(Entry), sel : DBs \cup {NULL},
     ok : BOOLEAN, rewrite : Seq(Entry), stop : BOOLEAN, sched : BOOLEAN, due : BOOLEAN,
     postponed : 0..3, twice : BOOLEAN]
ChildType ==
    [type : {"none", "aof", "rdb"}, data : Seq(Item), diff : Seq(Entry), pipe : Seq(Entry),
     phase : {"none", "writing", "asked", "told", "done"}]
Job == [cur : BOOLEAN, upto : Nat \cup {NULL}]

Types ==
    /\ data \in Seq(Item)
    /\ conf \in Configuration
    /\ left \in Budget
    /\ file \in Seq(Entry)
    /\ synced \in Nat
    /\ acked \in Nat /\ acked <= Len(data)
    /\ aof \in AofType
    /\ bio \in Seq(Job)
    /\ child \in ChildType
    /\ rdb \in [data : Seq(Item), ok : BOOLEAN]

\* A file after which loading is where the server takes its file to be.
Follows(f) == Loaded(f).data = data /\ (aof.sel # NULL => Loaded(f).db = aof.sel)

\* The file that a rewrite in progress is going to leave.
Rewritten == ((<<Snapshot(child.data)>> \o child.diff) \o child.pipe) \o aof.rewrite

(* The file and its buffer are the data set, and so is what the child has   *)
(* written, was sent and is going to be sent.                               *)
Files ==
    /\ aof.state = "on" => Follows(file \o aof.buf)
    /\ child.type = "aof" /\ aof.state # "off" => Follows(Rewritten)
    /\ aof.state # "off" => aof.fd

(* What the buffers of a rewrite hold when there is none, or when nothing   *)
(* is appended; a child that is told to stop has read everything.           *)
Buffers ==
    /\ child.type # "aof" \/ aof.state = "off" => aof.rewrite = <<>> /\ child.diff = <<>> /\ child.pipe = <<>>
    /\ child.type = "aof" /\ child.phase \in {"told", "done"} => aof.stop
    /\ child.phase = "done" => child.pipe = <<>>

(* What a server would start from is a state the data set has been in, also *)
(* when a buffer that a stop could not write has been added to the file.    *)
Past ==
    /\ conf.aof /\ ~aof.twice => IsPrefix(Loaded(file \o aof.buf).data, data)
    /\ ~conf.aof => IsPrefix(rdb.data, data)
    /\ child.type # "none" => IsPrefix(child.data, data)

(* With fsync always the thread has nothing to do, and what is answered is  *)
(* in the file, all of it on the disk; a stop leaves nothing in the buffer. *)
Durable ==
    conf.fsync = "always" =>
      /\ bio = <<>>
      /\ aof.state # "on" => aof.buf = <<>>
      /\ ~conf.nofsync => synced = Len(file)
      /\ ~conf.nofsync /\ aof.state = "on" => acked <= Len(Loaded(file).data)

IInv == Types /\ Files /\ Buffers /\ Past /\ Durable

-----------------------------------------------------------------------------
(* Steps that leave the files alone. *)

(* One of the things that may still happen has happened.                    *)
LEMMA Spent ==
    ASSUME NEW b \in Budget
    PROVE  /\ b.writes > 0 => [b EXCEPT !.writes = @ - 1] \in Budget
           /\ b.saves > 0 => [b EXCEPT !.saves = @ - 1] \in Budget
           /\ b.config > 0 => [b EXCEPT !.config = @ - 1] \in Budget
           /\ b.errors > 0 => [b EXCEPT !.errors = @ - 1] \in Budget
           /\ b.ends > 0 => [b EXCEPT !.ends = @ - 1] \in Budget
<1>1. ASSUME b.writes > 0 PROVE [b EXCEPT !.writes = @ - 1] \in Budget
    <2>1. b.writes \in Nat
        BY DEF Budget
    <2>2. b.writes - 1 \in Nat
        BY <1>1, <2>1
    <2> QED
        BY <2>2 DEF Budget
<1>2. ASSUME b.saves > 0 PROVE [b EXCEPT !.saves = @ - 1] \in Budget
    <2>1. b.saves \in Nat
        BY DEF Budget
    <2>2. b.saves - 1 \in Nat
        BY <1>2, <2>1
    <2> QED
        BY <2>2 DEF Budget
<1>3. ASSUME b.config > 0 PROVE [b EXCEPT !.config = @ - 1] \in Budget
    <2>1. b.config \in Nat
        BY DEF Budget
    <2>2. b.config - 1 \in Nat
        BY <1>3, <2>1
    <2> QED
        BY <2>2 DEF Budget
<1>4. ASSUME b.errors > 0 PROVE [b EXCEPT !.errors = @ - 1] \in Budget
    <2>1. b.errors \in Nat
        BY DEF Budget
    <2>2. b.errors - 1 \in Nat
        BY <1>4, <2>1
    <2> QED
        BY <2>2 DEF Budget
<1>5. ASSUME b.ends > 0 PROVE [b EXCEPT !.ends = @ - 1] \in Budget
    <2>1. b.ends \in Nat
        BY DEF Budget
    <2>2. b.ends - 1 \in Nat
        BY <1>5, <2>1
    <2> QED
        BY <2>2 DEF Budget
<1> QED
    BY <1>1, <1>2, <1>3, <1>4, <1>5

LEMMA Kept ==
    ASSUME IInv, Types', UNCHANGED <<data, conf, file, child, rdb>>,
           conf.fsync = "always" => UNCHANGED <<synced, bio>> /\ acked' = acked,
           aof'.state = aof.state, aof'.buf = aof.buf, aof'.sel = aof.sel,
           aof'.rewrite = aof.rewrite, aof.fd => aof'.fd, aof.stop => aof'.stop,
           aof'.twice = aof.twice
    PROVE  IInv'
<1>1. Files'
    BY DEF IInv, Files, Follows, Rewritten
<1>2. Buffers'
    BY DEF IInv, Buffers
<1>3. Past'
    BY DEF IInv, Past
<1>4. Durable'
    BY DEF IInv, Durable
<1> QED
    BY <1>1, <1>2, <1>3, <1>4 DEF IInv

LEMMA TickKeeps == IInv /\ Tick => IInv'
<1> SUFFICES ASSUME IInv, Tick PROVE IInv'
    OBVIOUS
<1> USE DEF Tick
<1> HIDE DEF Entry, Item
<1>1. aof \in AofType
    BY DEF IInv, Types
<1> DEFINE p == IF aof.postponed \in {1, 2} THEN aof.postponed + 1 ELSE aof.postponed
<1>2. aof' \in AofType
    <2>1. p \in 0..3
        BY <1>1 DEF AofType
    <2>2. aof' = [aof EXCEPT !.due = TRUE, !.postponed = p]
        BY <1>1 DEF AofType
    <2> HIDE DEF p
    <2> QED
        BY <1>1, <2>1, <2>2 DEF AofType
<1>3. Types'
    BY <1>2 DEF IInv, Types
<1>4. /\ aof'.state = aof.state /\ aof'.buf = aof.buf /\ aof'.sel = aof.sel
      /\ aof'.rewrite = aof.rewrite /\ aof'.fd = aof.fd /\ aof'.stop = aof.stop
      /\ aof'.twice = aof.twice
    BY <1>1 DEF AofType
<1> QED
    BY <1>3, <1>4, Kept

LEMMA ThreadKeeps == IInv /\ bioProcessBackgroundJobs => IInv'
<1> SUFFICES ASSUME IInv, bioProcessBackgroundJobs PROVE IInv'
    OBVIOUS
<1> USE DEF bioProcessBackgroundJobs
<1>1. /\ bio \in Seq(Job) /\ bio # <<>> /\ file \in Seq(Entry) /\ synced \in Nat
      /\ conf.fsync # "always"
    BY DEF IInv, Types, Durable
<1> HIDE DEF Entry, Item
<1>2. Len(file) \in Nat
    BY <1>1
<1>3. Head(bio) \in Job /\ Tail(bio) \in Seq(Job) /\ bio[1] \in Job /\ 1 \in 1..Len(bio)
    <2> HIDE DEF Job
    <2> QED
        BY <1>1, HeadTailProperties, EmptySeq, ElementOfSeq
<1>4. bio' \in Seq(Job) /\ synced' \in Nat
    <2>1. CASE Head(bio).upto = NULL
        <3>1. [bio[1] EXCEPT !.upto = Len(file)] \in Job
            BY <1>2, <1>3 DEF Job
        <3>2. bio' = [bio EXCEPT ![1] = [bio[1] EXCEPT !.upto = Len(file)]]
            BY <2>1
        <3> HIDE DEF Job
        <3>3. [bio EXCEPT ![1] = [bio[1] EXCEPT !.upto = Len(file)]] \in Seq(Job)
            BY <1>1, <1>3, <3>1, ExceptSeq
        <3> QED
            BY <1>1, <2>1, <3>2, <3>3
    <2>2. CASE Head(bio).upto # NULL
        <3>1. Head(bio).upto \in Nat
            BY <1>3, <2>2 DEF Job
        <3> QED
            BY <1>1, <1>3, <2>2, <3>1
    <2> QED
        BY <2>1, <2>2
<1>5. Types'
    BY <1>4 DEF IInv, Types
<1> QED
    BY <1>1, <1>5, Kept

-----------------------------------------------------------------------------
(* Appending to the file. *)

LEMMA FlushKeeps ==
    ASSUME IInv, aof.buf # <<>>, NEW n \in 0..Len(aof.buf), flushAppendOnlyFile(n),
           n = Len(aof.buf) \/ conf.fsync # "always",
           acked' = Len(data), UNCHANGED <<data, conf, child, rdb>>, left' \in Budget
    PROVE  IInv'
<1> HIDE DEF Entry, Item
<1>1. /\ aof \in AofType /\ aof.buf \in Seq(Entry) /\ file \in Seq(Entry) /\ data \in Seq(Item)
      /\ synced \in Nat /\ bio \in Seq(Job) /\ Len(data) \in Nat /\ conf \in Configuration
    BY DEF IInv, Types, AofType
<1> DEFINE head == SubSeq(aof.buf, 1, n)
           tail == SubSeq(aof.buf, n + 1, Len(aof.buf))
<1>2. /\ head \in Seq(Entry) /\ tail \in Seq(Entry) /\ head \o tail = aof.buf
      /\ n = Len(aof.buf) => head = aof.buf /\ tail = <<>>
    BY <1>1, Cut
<1>3. /\ aof' \in AofType /\ aof'.state = aof.state /\ aof'.buf = tail /\ aof'.sel = aof.sel
      /\ aof'.rewrite = aof.rewrite /\ aof'.fd = aof.fd /\ aof'.stop = aof.stop
      /\ aof'.twice = aof.twice
    <2> HIDE DEF tail
    <2>1. aof' = [[aof EXCEPT !.buf = tail, !.ok = n = Len(aof.buf), !.postponed = 0]
                    EXCEPT !.due = aof'.due] /\ aof'.due \in BOOLEAN
        BY <1>1 DEF flushAppendOnlyFile, ThreadSyncs, Flushed, AofType, tail
    <2> HIDE DEF flushAppendOnlyFile
    <2> DEFINE b == aof'.due
               c == (n = Len(aof.buf))
    <2>2. b \in BOOLEAN /\ c \in BOOLEAN /\ 0 \in 0..3
        BY <2>1
    <2>3. aof' = [aof EXCEPT !.buf = tail, !.ok = c, !.postponed = 0, !.due = b]
        BY <1>1, <2>1 DEF AofType
    <2> HIDE DEF b, c
    <2>4. [aof EXCEPT !.buf = tail, !.ok = c, !.postponed = 0, !.due = b] \in AofType
        BY <1>1, <1>2, <2>2 DEF AofType
    <2> QED
        BY <1>1, <2>3, <2>4 DEF AofType
<1>4. file' = file \o head /\ file' \in Seq(Entry) /\ Len(file') \in Nat
    <2>1. file' = file \o head
        BY DEF flushAppendOnlyFile
    <2> HIDE DEF head
    <2>2. file \o head \in Seq(Entry)
        BY <1>1, <1>2, Joined
    <2> QED
        BY <2>1, <2>2
<1>5. file' \o tail = file \o aof.buf
    <2> HIDE DEF head, tail
    <2>1. (file \o head) \o tail = file \o (head \o tail)
        BY <1>1, <1>2, Associative
    <2> QED
        BY <1>2, <1>4, <2>1
<1>6. bio' \in Seq(Job) /\ synced' \in Nat
    <2>1. <<[cur |-> TRUE, upto |-> NULL]>> \in Seq(Job)
        BY DEF Job
    <2> HIDE DEF Job
    <2> QED
        BY <1>1, <1>4, <2>1 DEF flushAppendOnlyFile
<1> HIDE DEF head, tail
<1>7. Types'
    BY <1>1, <1>3, <1>4, <1>6 DEF IInv, Types
<1>8. Files'
    <2>1. aof.state = "on" => Follows(file \o aof.buf)'
        BY <1>3, <1>5 DEF IInv, Files, Follows
    <2> QED
        BY <1>3, <2>1 DEF IInv, Files, Follows, Rewritten
<1>9. Buffers'
    BY <1>3 DEF IInv, Buffers
<1>10. Past'
    BY <1>3, <1>5 DEF IInv, Past
<1>11. Durable'
    <2>1. SUFFICES ASSUME conf.fsync = "always" PROVE Durable'
        BY DEF Durable
    <2>2. bio' = <<>> /\ n = Len(aof.buf) /\ aof.state = "on"
        BY <2>1 DEF IInv, Durable, flushAppendOnlyFile, ThreadSyncs
    <2>3. ~conf.nofsync => synced' = Len(file')
        BY <2>1 DEF flushAppendOnlyFile, NoFsyncNow
    <2>4. Loaded(file').data = data
        BY <1>2, <1>4, <2>2 DEF IInv, Files, Follows
    <2> QED
        BY <1>1, <1>3, <2>2, <2>3, <2>4 DEF Durable
<1> QED
    BY <1>7, <1>8, <1>9, <1>10, <1>11 DEF IInv

LEMMA BeforeSleepKeeps == IInv /\ BeforeSleep => IInv'
<1> SUFFICES ASSUME IInv, BeforeSleep PROVE IInv'
    OBVIOUS
<1> HIDE DEF Entry, Item
<1>1. /\ aof \in AofType /\ aof.buf \in Seq(Entry) /\ file \in Seq(Entry) /\ data \in Seq(Item)
      /\ Len(data) \in Nat /\ left \in Budget /\ Len(aof.buf) \in Nat
    BY DEF IInv, Types, AofType
<1>2. acked' = Len(data) /\ UNCHANGED <<data, conf, child, rdb, left>>
    BY DEF BeforeSleep
<1>3. CASE aof.buf = <<>> /\ UNCHANGED <<aof, file, synced, bio>>
    <2>1. Types'
        BY <1>1, <1>2, <1>3 DEF IInv, Types
    <2>2. Files' /\ Buffers' /\ Past'
        BY <1>2, <1>3 DEF IInv, Files, Buffers, Past, Follows, Rewritten
    <2>3. aof.state = "on" => Loaded(file).data = data
        BY <1>1, <1>3, Joined DEF IInv, Files, Follows
    <2>4. Durable'
        BY <1>1, <1>2, <1>3, <2>3 DEF IInv, Durable
    <2> QED
        BY <2>1, <2>2, <2>4 DEF IInv
<1>4. CASE /\ aof.buf # <<>> /\ Postpones
           /\ aof' = [aof EXCEPT !.postponed = IF @ = 0 THEN 1 ELSE @]
           /\ UNCHANGED <<file, synced, bio>>
    <2>1. /\ aof' \in AofType /\ aof'.state = aof.state /\ aof'.buf = aof.buf /\ aof'.sel = aof.sel
          /\ aof'.rewrite = aof.rewrite /\ aof'.fd = aof.fd /\ aof'.stop = aof.stop
          /\ aof'.twice = aof.twice
        <3> DEFINE p == IF aof.postponed = 0 THEN 1 ELSE aof.postponed
        <3>1. p \in 0..3
            BY <1>1 DEF AofType
        <3>2. aof' = [aof EXCEPT !.postponed = p]
            BY <1>1, <1>4 DEF AofType
        <3> HIDE DEF p
        <3> QED
            BY <1>1, <3>1, <3>2 DEF AofType
    <2>2. Types'
        BY <1>1, <1>2, <1>4, <2>1 DEF IInv, Types
    <2>3. conf.fsync # "always"
        BY <1>4 DEF Postpones
    <2> QED
        BY <1>2, <1>4, <2>1, <2>2, <2>3, Kept
<1>5. CASE aof.buf # <<>> /\ flushAppendOnlyFile(IF aof.state = "off" THEN 0 ELSE Len(aof.buf))
    <2> DEFINE n == IF aof.state = "off" THEN 0 ELSE Len(aof.buf)
    <2>1. n \in 0..Len(aof.buf)
        BY <1>1
    <2>2. n = Len(aof.buf) \/ conf.fsync # "always"
        BY <1>5 DEF IInv, Durable
    <2>3. flushAppendOnlyFile(n)
        BY <1>5
    <2> HIDE DEF n
    <2> QED
        BY <1>1, <1>2, <1>5, <2>1, <2>2, <2>3, FlushKeeps
<1> QED
    BY <1>3, <1>4, <1>5 DEF BeforeSleep

LEMMA WriteErrorKeeps == IInv /\ WriteError => IInv'
<1> SUFFICES ASSUME IInv, WriteError PROVE IInv'
    OBVIOUS
<1> HIDE DEF Entry, Item
<1>1. aof.buf \in Seq(Entry) /\ left \in Budget
    BY DEF IInv, Types, AofType
<1>2. PICK n \in 0..(Len(aof.buf) - 1) : flushAppendOnlyFile(n)
    BY DEF WriteError
<1>3. n \in 0..Len(aof.buf)
    BY <1>1, <1>2
<1>4. left' \in Budget
    BY <1>1, Spent DEF WriteError
<1>5. /\ aof.buf # <<>> /\ conf.fsync # "always" /\ acked' = Len(data)
      /\ UNCHANGED <<data, conf, child, rdb>>
    BY DEF WriteError
<1> QED
    BY <1>2, <1>3, <1>4, <1>5, FlushKeeps

LEMMA WriteKeeps == \A db \in DBs : IInv /\ Write(db) => IInv'
<1> SUFFICES ASSUME NEW db \in DBs, IInv, Write(db) PROVE IInv'
    OBVIOUS
<1> HIDE DEF Entry, Item
<1> DEFINE id == left.writes
           e == Entries(db, id)
<1>1. /\ aof \in AofType /\ aof.buf \in Seq(Entry) /\ aof.rewrite \in Seq(Entry)
      /\ file \in Seq(Entry) /\ data \in Seq(Item) /\ Len(data) \in Nat /\ left \in Budget
      /\ acked \in Nat /\ acked <= Len(data) /\ child \in ChildType
      /\ child.data \in Seq(Item) /\ child.diff \in Seq(Entry) /\ child.pipe \in Seq(Entry)
      /\ rdb.data \in Seq(Item)
    BY DEF IInv, Types, AofType, ChildType
<1>2. id \in Nat /\ left' \in Budget
    <2>1. left.writes > 0 /\ left' = [left EXCEPT !.writes = @ - 1]
        BY DEF Write
    <2>2. left' \in Budget
        BY <1>1, <2>1, Spent
    <2>3. left.writes \in Nat
        BY <1>1 DEF Budget
    <2> QED
        BY <2>2, <2>3
<1>3. data' = Append(data, <<db, id>>) /\ UNCHANGED <<conf, file, synced, bio, child, rdb, acked>>
    BY DEF Write
<1>4. data' \in Seq(Item) /\ Len(data') \in Nat /\ acked' <= Len(data') /\ IsPrefix(data, data')
    <2>1. <<db, id>> \in Item
        BY <1>2 DEF Item
    <2>2. Append(data, <<db, id>>) \in Seq(Item) /\ IsPrefix(data, Append(data, <<db, id>>))
        BY <1>1, <2>1, PrefixAppend
    <2>3. Len(Append(data, <<db, id>>)) = Len(data) + 1
        BY <1>1, <2>1, AppendProperties
    <2> QED
        BY <1>1, <1>3, <2>2, <2>3
<1>5. /\ IsPrefix(Loaded(file \o aof.buf).data, data) => IsPrefix(Loaded(file \o aof.buf).data, data')
      /\ IsPrefix(rdb.data, data) => IsPrefix(rdb.data, data')
      /\ IsPrefix(child.data, data) => IsPrefix(child.data, data')
    <2>1. file \o aof.buf \in Seq(Entry)
        BY <1>1, Joined
    <2>2. Loaded(file \o aof.buf).data \in Seq(Item)
        BY <2>1, LoadedType
    <2> QED
        BY <1>1, <1>4, <2>2, PrefixTransitive
<1>6. CASE aof.state = "off"
    <2>1. aof' = aof
        BY <1>6 DEF Write
    <2>2. Types'
        BY <1>1, <1>2, <1>3, <1>4, <2>1 DEF IInv, Types
    <2>3. Files' /\ Buffers' /\ Durable'
        BY <1>3, <1>6, <2>1 DEF IInv, Files, Buffers, Durable
    <2>4. Past'
        BY <1>3, <1>5, <2>1 DEF IInv, Past
    <2> QED
        BY <2>2, <2>3, <2>4 DEF IInv
<1>7. CASE aof.state # "off"
    <2> DEFINE buf == IF aof.state = "on" THEN aof.buf \o e ELSE aof.buf
               rewrite == IF child.type = "aof" THEN aof.rewrite \o e ELSE aof.rewrite
    <2>1. e \in Seq(Entry)
        <3>1. Select(db) \in Entry /\ Command(id) \in Entry
            BY <1>1, <1>2, EntryTypes
        <3>2. <<>> \in Seq(Entry) /\ <<Select(db)>> \in Seq(Entry) /\ <<Command(id)>> \in Seq(Entry)
            BY <3>1
        <3> QED
            BY <3>2, Joined DEF Entries
    <2>2. aof' = [aof EXCEPT !.sel = db, !.buf = buf, !.rewrite = rewrite]
        BY <1>1, <1>7 DEF Write, feedAppendOnlyFile, aofRewriteBufferAppend, AofType
    <2> HIDE DEF e
    <2>3. buf \in Seq(Entry) /\ rewrite \in Seq(Entry)
        BY <1>1, <2>1, Joined
    <2> HIDE DEF buf, rewrite
    <2>4. [aof EXCEPT !.sel = db, !.buf = buf, !.rewrite = rewrite] \in AofType
        BY <1>1, <2>3 DEF AofType
    <2>5. /\ aof'.state = aof.state /\ aof'.buf = buf /\ aof'.sel = db
          /\ aof'.rewrite = rewrite /\ aof'.fd = aof.fd /\ aof'.stop = aof.stop
          /\ aof'.twice = aof.twice
        BY <1>1, <2>2 DEF AofType
    <2>6. Types'
        BY <1>1, <1>2, <1>3, <1>4, <2>2, <2>4 DEF IInv, Types
    <2>7. ASSUME NEW f \in Seq(Entry), Follows(f)
          PROVE  Loaded(f \o e).data = data' /\ Loaded(f \o e).db = db
        BY <1>2, <1>3, <2>7, LoadedEntries DEF Follows, e
    <2>8. aof.state = "on" => Follows(file \o aof.buf)'
        <3>1. SUFFICES ASSUME aof.state = "on" PROVE Follows(file \o aof.buf)'
            OBVIOUS
        <3>2. file \o aof.buf \in Seq(Entry) /\ (file \o aof.buf) \o e = file \o (aof.buf \o e)
            <4>1. file \o aof.buf \in Seq(Entry)
                BY <1>1, Joined
            <4>2. aof.buf \in Seq(Entry) /\ file \in Seq(Entry)
                BY <1>1
            <4>3. (file \o aof.buf) \o e = file \o (aof.buf \o e)
                BY <2>1, <4>2, Associative
            <4> QED
                BY <4>1, <4>3
        <3>3. Follows(file \o aof.buf)
            BY <3>1 DEF IInv, Files
        <3>4. Loaded((file \o aof.buf) \o e).data = data' /\ Loaded((file \o aof.buf) \o e).db = db
            BY <2>7, <3>2, <3>3
        <3>5. (file \o aof.buf)' = file \o (aof.buf \o e)
            BY <1>3, <2>5, <3>1 DEF buf
        <3> QED
            BY <2>5, <3>2, <3>4, <3>5 DEF Follows
    <2>9. child.type = "aof" => Follows(Rewritten)'
        <3>1. SUFFICES ASSUME child.type = "aof" PROVE Follows(Rewritten)'
            OBVIOUS
        <3> DEFINE sent == (<<Snapshot(child.data)>> \o child.diff) \o child.pipe
        <3>2. sent \in Seq(Entry)
            <4>1. <<Snapshot(child.data)>> \in Seq(Entry)
                BY <1>1, LoadedSnapshot
            <4>2. <<Snapshot(child.data)>> \o child.diff \in Seq(Entry)
                BY <1>1, <4>1, Joined
            <4> QED
                BY <1>1, <4>2, Joined
        <3>3. Rewritten = sent \o aof.rewrite /\ Rewritten' = sent \o aof'.rewrite
            BY <1>3 DEF Rewritten
        <3> HIDE DEF sent
        <3>4. sent \o aof.rewrite \in Seq(Entry) /\ (sent \o aof.rewrite) \o e = sent \o (aof.rewrite \o e)
            <4>1. sent \o aof.rewrite \in Seq(Entry)
                BY <1>1, <3>2, Joined
            <4>2. aof.rewrite \in Seq(Entry)
                BY <1>1
            <4>3. (sent \o aof.rewrite) \o e = sent \o (aof.rewrite \o e)
                BY <2>1, <3>2, <4>2, Associative
            <4> QED
                BY <4>1, <4>3
        <3>5. Follows(sent \o aof.rewrite)
            BY <1>7, <3>1, <3>3 DEF IInv, Files
        <3>6. Loaded((sent \o aof.rewrite) \o e).data = data' /\ Loaded((sent \o aof.rewrite) \o e).db = db
            BY <2>7, <3>4, <3>5
        <3>7. Rewritten' = sent \o (aof.rewrite \o e)
            BY <2>5, <3>1, <3>3 DEF rewrite
        <3> QED
            BY <2>5, <3>4, <3>6, <3>7 DEF Follows
    <2>10. Files'
        BY <1>3, <2>5, <2>8, <2>9 DEF IInv, Files, buf
    <2>11. Buffers'
        BY <1>3, <1>7, <2>5 DEF IInv, Buffers, rewrite
    <2>12. Durable'
        BY <1>3, <2>5 DEF IInv, Durable, buf
    <2>13. Past'
        <3>1. CASE aof.state = "on"
            <4>1. Loaded(file' \o aof'.buf).data = data'
                BY <2>5, <2>10, <3>1 DEF Files, Follows
            <4>2. IsPrefix(data', data')
                BY <1>4, PrefixReflexive
            <4> QED
                BY <1>3, <1>5, <4>1, <4>2 DEF IInv, Past
        <3>2. CASE aof.state # "on"
            BY <1>3, <1>5, <2>5, <3>2 DEF IInv, Past, buf
        <3> QED
            BY <3>1, <3>2
    <2> QED
        BY <2>6, <2>10, <2>11, <2>12, <2>13 DEF IInv
<1> QED
    BY <1>6, <1>7

-----------------------------------------------------------------------------
(* The rewrite. *)

(* A child that begins has the data set, and the server names the database  *)
(* again.                                                                   *)
LEMMA RewriteBegins ==
    ASSUME IInv, Types', UNCHANGED <<data, conf, file, synced, bio, rdb, acked>>,
           child' = RewriteChild,
           aof'.state = aof.state \/ (aof.state = "off" /\ aof'.state = "wait"),
           aof'.buf = aof.buf, aof'.sel = NULL, aof'.rewrite = <<>>, aof'.state # "off" => aof'.fd,
           aof'.twice = aof.twice
    PROVE  IInv'
<1> HIDE DEF Entry, Item
<1>1. data \in Seq(Item)
    BY DEF IInv, Types
<1>2. /\ child'.type = "aof" /\ child'.data = data /\ child'.diff = <<>> /\ child'.pipe = <<>>
      /\ child'.phase = "writing"
    BY DEF RewriteChild, NoChild
<1>3. Rewritten' = <<Snapshot(data)>>
    <2>1. <<Snapshot(data)>> \in Seq(Entry) /\ <<>> \in Seq(Entry)
        BY <1>1, LoadedSnapshot, EmptySeq
    <2>2. <<Snapshot(data)>> \o <<>> = <<Snapshot(data)>>
        BY <2>1, Joined
    <2> QED
        BY <1>2, <2>2 DEF Rewritten
<1>4. Follows(Rewritten)'
    <2>1. Loaded(<<Snapshot(data)>>) = [data |-> data, db |-> NULL]
        BY <1>1, LoadedSnapshot
    <2>2. Loaded(Rewritten').data = data /\ aof'.sel = NULL /\ data' = data
        BY <1>3, <2>1
    <2> QED
        BY <2>2 DEF Follows
<1>5. Files'
    BY <1>4 DEF IInv, Files, Follows
<1>6. Buffers'
    BY <1>2 DEF IInv, Buffers
<1>7. Past'
    BY <1>1, <1>2, PrefixReflexive DEF IInv, Past
<1>8. Durable'
    BY DEF IInv, Durable
<1> QED
    BY <1>5, <1>6, <1>7, <1>8 DEF IInv

LEMMA RewriteChildType == Types => RewriteChild \in ChildType /\ NoChild \in ChildType
<1> HIDE DEF Entry, Item
<1>1. <<>> \in Seq(Entry) /\ <<>> \in Seq(Item)
    BY EmptySeq
<1>2. NoChild \in ChildType
    BY <1>1 DEF NoChild, ChildType
<1> QED
    BY <1>2 DEF Types, RewriteChild, ChildType

LEMMA BgrewriteAofKeeps == IInv /\ BgrewriteAof => IInv'
<1> SUFFICES ASSUME IInv, BgrewriteAof PROVE IInv'
    OBVIOUS
<1> HIDE DEF Entry, Item
<1>1. aof \in AofType /\ left \in Budget /\ RewriteChild \in ChildType
    BY RewriteChildType DEF IInv, Types
<1>2. left' \in Budget
    <2>1. left.rewrites \in Nat /\ (aof.sched \/ left.rewrites > 0)
        BY <1>1 DEF BgrewriteAof, Budget
    <2> DEFINE r == IF aof.sched THEN left.rewrites ELSE left.rewrites - 1
    <2>2. r \in Nat
        BY <2>1
    <2>3. left' = [left EXCEPT !.rewrites = r]
        BY DEF BgrewriteAof
    <2> HIDE DEF r
    <2> QED
        BY <1>1, <2>2, <2>3 DEF Budget
<1>3. UNCHANGED <<data, conf, file, synced, bio, rdb, acked>>
    BY DEF BgrewriteAof
<1>4. CASE child.type = "none"
    <2>1. child' = RewriteChild /\ aof' = [aof EXCEPT !.sched = FALSE, !.sel = NULL, !.rewrite = <<>>, !.stop = FALSE]
        BY <1>4 DEF BgrewriteAof, rewriteAppendOnlyFileBackground, Rewriting
    <2>2. [aof EXCEPT !.sched = FALSE, !.sel = NULL, !.rewrite = <<>>, !.stop = FALSE] \in AofType
        <3>1. <<>> \in Seq(Entry) /\ FALSE \in BOOLEAN /\ NULL \in DBs \cup {NULL}
            BY EmptySeq
        <3> QED
            BY <1>1, <3>1 DEF AofType
    <2>3. /\ aof'.state = aof.state /\ aof'.buf = aof.buf /\ aof'.sel = NULL
          /\ aof'.rewrite = <<>> /\ aof'.fd = aof.fd /\ aof'.twice = aof.twice
        BY <1>1, <2>1 DEF AofType
    <2>4. Types'
        BY <1>1, <1>2, <1>3, <2>1, <2>2 DEF IInv, Types
    <2>5. aof'.state # "off" => aof'.fd
        BY <2>3 DEF IInv, Files
    <2> QED
        <3>1. aof'.state = aof.state \/ (aof.state = "off" /\ aof'.state = "wait")
            BY <2>3
        <3>2. /\ aof'.buf = aof.buf /\ aof'.sel = NULL /\ aof'.rewrite = <<>> /\ child' = RewriteChild
              /\ aof'.twice = aof.twice
            BY <2>1, <2>3
        <3> QED
            BY <1>3, <2>4, <2>5, <3>1, <3>2, RewriteBegins
<1>5. CASE child.type # "none"
    <2>1. aof' = [aof EXCEPT !.sched = TRUE] /\ UNCHANGED child
        BY <1>5 DEF BgrewriteAof
    <2>2. /\ aof' \in AofType /\ aof'.state = aof.state /\ aof'.buf = aof.buf /\ aof'.sel = aof.sel
          /\ aof'.rewrite = aof.rewrite /\ aof'.fd = aof.fd /\ aof'.stop = aof.stop
          /\ aof'.twice = aof.twice
        BY <1>1, <2>1 DEF AofType
    <2>3. Types'
        BY <1>2, <1>3, <2>1, <2>2 DEF IInv, Types
    <2> QED
        BY <1>3, <2>1, <2>2, <2>3, Kept
<1> QED
    BY <1>4, <1>5

(* Entries on their way to the child and in it, in another place.           *)
LEMMA Passed ==
    ASSUME IInv, Types', UNCHANGED <<data, conf, file, synced, bio, rdb, acked>>,
           child.type = "aof", child'.type = "aof", child'.data = child.data,
           aof'.state = aof.state, aof'.buf = aof.buf, aof'.sel = aof.sel, aof'.fd = aof.fd,
           aof'.twice = aof.twice, Rewritten' = Rewritten, Buffers'
    PROVE  IInv'
<1>1. Files'
    BY DEF IInv, Files, Follows
<1>2. Past'
    BY DEF IInv, Past
<1>3. Durable'
    BY DEF IInv, Durable
<1> QED
    BY <1>1, <1>2, <1>3 DEF IInv

LEMMA WriteDiffKeeps == IInv /\ aofChildWriteDiffData => IInv'
<1> SUFFICES ASSUME IInv, aofChildWriteDiffData PROVE IInv'
    OBVIOUS
<1> HIDE DEF Entry, Item
<1>1. /\ aof \in AofType /\ child \in ChildType /\ aof.rewrite \in Seq(Entry) /\ child.pipe \in Seq(Entry)
      /\ child.diff \in Seq(Entry) /\ child.data \in Seq(Item)
    BY DEF IInv, Types, AofType, ChildType
<1>2. /\ child.type = "aof" /\ child.phase # "done" /\ ~aof.stop /\ aof.rewrite # <<>>
      /\ UNCHANGED <<data, conf, file, synced, bio, rdb, acked, left>>
    BY DEF aofChildWriteDiffData
<1>3. PICK n \in {1, Len(aof.rewrite)} :
         /\ child' = [child EXCEPT !.pipe = child.pipe \o SubSeq(aof.rewrite, 1, n)]
         /\ aof' = [aof EXCEPT !.rewrite = SubSeq(aof.rewrite, n + 1, Len(aof.rewrite))]
    BY DEF aofChildWriteDiffData
<1>4. n \in 0..Len(aof.rewrite)
    <2>1. Len(aof.rewrite) \in Nat \ {0}
        BY <1>1, <1>2, EmptySeq
    <2> QED
        BY <1>3, <2>1
<1> DEFINE head == SubSeq(aof.rewrite, 1, n)
           tail == SubSeq(aof.rewrite, n + 1, Len(aof.rewrite))
           sent == <<Snapshot(child.data)>> \o child.diff
<1>5. head \in Seq(Entry) /\ tail \in Seq(Entry) /\ head \o tail = aof.rewrite
    BY <1>1, <1>4, Cut
<1>6. sent \in Seq(Entry)
    <2>1. <<Snapshot(child.data)>> \in Seq(Entry)
        BY <1>1, LoadedSnapshot
    <2> QED
        BY <1>1, <2>1, Joined
<1> HIDE DEF head, tail
<1>7. child' = [child EXCEPT !.pipe = child.pipe \o head] /\ aof' = [aof EXCEPT !.rewrite = tail]
    BY <1>3 DEF head, tail
<1>8. /\ child'.type = child.type /\ child'.data = child.data /\ child'.diff = child.diff
      /\ child'.pipe = child.pipe \o head /\ child'.phase = child.phase
      /\ aof'.state = aof.state /\ aof'.buf = aof.buf /\ aof'.sel = aof.sel /\ aof'.fd = aof.fd
      /\ aof'.stop = aof.stop /\ aof'.rewrite = tail /\ aof'.twice = aof.twice
    BY <1>1, <1>7 DEF AofType, ChildType
<1>9. child' \in ChildType /\ aof' \in AofType
    <2>1. child.pipe \o head \in Seq(Entry)
        BY <1>1, <1>5, Joined
    <2> QED
        BY <1>1, <1>5, <1>7, <2>1 DEF ChildType, AofType
<1>10. Types'
    BY <1>2, <1>9 DEF IInv, Types
<1>11. Rewritten' = (sent \o (child.pipe \o head)) \o tail /\ Rewritten = (sent \o child.pipe) \o aof.rewrite
    BY <1>8 DEF Rewritten
<1> HIDE DEF sent
<1>12. Rewritten' = Rewritten
    <2>1. sent \o (child.pipe \o head) = (sent \o child.pipe) \o head /\ sent \o child.pipe \in Seq(Entry)
        <3>1. sent \o child.pipe \in Seq(Entry)
            BY <1>1, <1>6, Joined
        <3>2. (sent \o child.pipe) \o head = sent \o (child.pipe \o head)
            BY <1>1, <1>5, <1>6, Associative
        <3> QED
            BY <3>1, <3>2
    <2>2. ((sent \o child.pipe) \o head) \o tail = (sent \o child.pipe) \o (head \o tail)
        BY <1>5, <2>1, Associative
    <2> QED
        BY <1>5, <1>11, <2>1, <2>2
<1>13. Buffers'
    BY <1>2, <1>8 DEF IInv, Buffers
<1> QED
    BY <1>2, <1>8, <1>10, <1>12, <1>13, Passed

(* The child reads what is in the pipe.                                     *)
LEMMA ReadKeeps ==
    ASSUME IInv, NEW phase \in {"asked", "done"}, child.type = "aof", phase = "done" => aof.stop,
           child' = [aofReadDiffFromParent(child) EXCEPT !.phase = phase],
           UNCHANGED <<data, conf, aof, file, synced, bio, rdb, acked, left>>
    PROVE  IInv'
<1> HIDE DEF Entry, Item
<1>1. /\ child \in ChildType /\ child.pipe \in Seq(Entry) /\ child.diff \in Seq(Entry)
      /\ child.data \in Seq(Item) /\ <<>> \in Seq(Entry)
    BY EmptySeq DEF IInv, Types, ChildType
<1> DEFINE read == child.diff \o child.pipe
           first == <<Snapshot(child.data)>>
<1>2. read \in Seq(Entry)
    BY <1>1, Joined
<1>3. child' = [child EXCEPT !.diff = read, !.pipe = <<>>, !.phase = phase]
    BY <1>1 DEF aofReadDiffFromParent, ChildType
<1>4. first \in Seq(Entry)
    BY <1>1, LoadedSnapshot
<1>5. first \o read = (first \o child.diff) \o child.pipe
    BY <1>1, <1>4, Associative
<1>6. first \o read \in Seq(Entry)
    <2> HIDE DEF first, read
    <2> QED
        BY <1>2, <1>4, Joined
<1>7. (first \o read) \o <<>> = first \o read
    <2> HIDE DEF first, read
    <2> QED
        BY <1>1, <1>6, Joined
<1> HIDE DEF read
<1>8. /\ child'.type = "aof" /\ child'.data = child.data /\ child'.diff = read
      /\ child'.pipe = <<>> /\ child'.phase = phase
    BY <1>1, <1>3 DEF ChildType
<1>9. child' \in ChildType
    BY <1>1, <1>2, <1>3 DEF ChildType
<1>10. Types'
    BY <1>9 DEF IInv, Types
<1>11. Rewritten' = ((first \o read) \o <<>>) \o aof.rewrite
    BY <1>8 DEF Rewritten
<1>12. Rewritten = ((first \o child.diff) \o child.pipe) \o aof.rewrite
    BY DEF Rewritten
<1> HIDE DEF first
<1>13. Rewritten' = Rewritten
    BY <1>5, <1>7, <1>11, <1>12
<1>14. Buffers'
    <2>1. aof.state = "off" => read = <<>> /\ aof.rewrite = <<>>
        BY <1>1, Joined DEF IInv, Buffers, read
    <2> QED
        BY <1>8, <2>1 DEF IInv, Buffers
<1>15. aof' = aof
    OBVIOUS
<1> QED
    BY <1>8, <1>10, <1>13, <1>14, <1>15, Passed

LEMMA ChildKeeps ==
    IInv /\ (ChildReadsDiff \/ aofChildPipeReadable \/ rewriteAppendOnlyFile) => IInv'
<1> SUFFICES ASSUME IInv, ChildReadsDiff \/ aofChildPipeReadable \/ rewriteAppendOnlyFile PROVE IInv'
    OBVIOUS
<1> HIDE DEF Entry, Item
<1>1. CASE ChildReadsDiff
    BY <1>1, ReadKeeps DEF ChildReadsDiff
<1>2. CASE aofChildPipeReadable
    <2>1. aof \in AofType /\ child \in ChildType
        BY DEF IInv, Types
    <2>2. /\ child.type = "aof" /\ child.phase = "asked" /\ aof' = [aof EXCEPT !.stop = TRUE]
          /\ child' = [child EXCEPT !.phase = "told"]
          /\ UNCHANGED <<data, conf, file, synced, bio, rdb, acked, left>>
        BY <1>2 DEF aofChildPipeReadable
    <2>3. aof' \in AofType /\ child' \in ChildType
        BY <2>1, <2>2 DEF AofType, ChildType
    <2>4. /\ child'.type = "aof" /\ child'.data = child.data /\ child'.diff = child.diff
          /\ child'.pipe = child.pipe /\ child'.phase = "told"
          /\ aof'.state = aof.state /\ aof'.buf = aof.buf /\ aof'.sel = aof.sel /\ aof'.fd = aof.fd
          /\ aof'.stop = TRUE /\ aof'.rewrite = aof.rewrite /\ aof'.twice = aof.twice
        BY <2>1, <2>2 DEF AofType, ChildType
    <2>5. Types'
        BY <2>2, <2>3 DEF IInv, Types
    <2>6. Rewritten' = Rewritten
        BY <2>4 DEF Rewritten
    <2>7. Buffers'
        BY <2>2, <2>4 DEF IInv, Buffers
    <2> QED
        BY <2>2, <2>4, <2>5, <2>6, <2>7, Passed
<1>3. CASE rewriteAppendOnlyFile
    <2>1. aof.stop
        BY <1>3 DEF rewriteAppendOnlyFile, IInv, Buffers
    <2> QED
        BY <1>3, <2>1, ReadKeeps DEF rewriteAppendOnlyFile
<1> QED
    BY <1>1, <1>2, <1>3

(* The file that the child leaves, with what it was not sent.               *)
LEMMA RewrittenFile ==
    ASSUME IInv, child.type = "aof", child.phase = "done"
    PROVE  LET f == aofRewriteBufferWrite(<<Snapshot(child.data)>> \o child.diff)
           IN  /\ f \in Seq(Entry) /\ Len(f) \in Nat /\ Len(f) - Len(aof.rewrite) \in Nat
               /\ aof.state # "off" => Loaded(f).data = data
               /\ IsPrefix(Loaded(f).data, data)
<1> HIDE DEF Entry, Item
<1> DEFINE g == <<Snapshot(child.data)>> \o child.diff
           f == g \o aof.rewrite
<1>1. /\ child.diff \in Seq(Entry) /\ child.data \in Seq(Item) /\ aof.rewrite \in Seq(Entry)
      /\ <<>> \in Seq(Entry) /\ data \in Seq(Item)
    BY EmptySeq DEF IInv, Types, ChildType, AofType
<1>2. <<Snapshot(child.data)>> \in Seq(Entry)
    BY <1>1, LoadedSnapshot
<1>3. g \in Seq(Entry)
    BY <1>1, <1>2, Joined
<1>4. Rewritten = (g \o child.pipe) \o aof.rewrite /\ child.pipe = <<>>
    BY DEF Rewritten, IInv, Buffers
<1>5. aof.state = "off" => f = <<Snapshot(child.data)>>
    <2>1. SUFFICES ASSUME aof.state = "off" PROVE f = <<Snapshot(child.data)>>
        OBVIOUS
    <2>2. child.diff = <<>> /\ aof.rewrite = <<>>
        BY <2>1 DEF IInv, Buffers
    <2>3. <<Snapshot(child.data)>> \o <<>> = <<Snapshot(child.data)>>
        BY <1>1, <1>2, Joined
    <2> QED
        BY <2>2, <2>3
<1> HIDE DEF g
<1>6. f \in Seq(Entry) /\ Len(f) = Len(g) + Len(aof.rewrite)
    BY <1>1, <1>3, Joined
<1>7. Len(g) \in Nat /\ Len(aof.rewrite) \in Nat
    BY <1>1, <1>3
<1>8. Rewritten = f
    <2>1. g \o <<>> = g
        BY <1>1, <1>3, Joined
    <2> QED
        BY <1>4, <2>1
<1> HIDE DEF f
<1>9. aof.state # "off" => Loaded(f).data = data
    BY <1>8 DEF IInv, Files, Follows
<1>10. IsPrefix(Loaded(f).data, data)
    <2>1. CASE aof.state = "off"
        <3>1. Loaded(<<Snapshot(child.data)>>) = [data |-> child.data, db |-> NULL]
            BY <1>1, LoadedSnapshot
        <3>2. Loaded(f).data = child.data
            BY <1>5, <2>1, <3>1
        <3> QED
            BY <3>2 DEF IInv, Past
    <2>2. CASE aof.state # "off"
        <3>1. Loaded(f).data = data
            BY <1>9, <2>2
        <3> QED
            BY <1>1, <3>1, PrefixReflexive
    <2> QED
        BY <2>1, <2>2
<1>11. Len(f) \in Nat /\ Len(f) - Len(aof.rewrite) \in Nat
    BY <1>6, <1>7
<1>12. f = aofRewriteBufferWrite(<<Snapshot(child.data)>> \o child.diff)
    BY DEF f, g, aofRewriteBufferWrite
<1> QED
    BY <1>6, <1>9, <1>10, <1>11, <1>12

(* Jobs of the thread for a file that has been replaced.                    *)
LEMMA OldJobs ==
    ASSUME NEW b \in Seq(Job)
    PROVE  /\ [i \in DOMAIN b |-> [b[i] EXCEPT !.cur = FALSE]] \in Seq(Job)
           /\ b = <<>> => [i \in DOMAIN b |-> [b[i] EXCEPT !.cur = FALSE]] = <<>>
<1>1. \A i \in 1..Len(b) : [b[i] EXCEPT !.cur = FALSE] \in Job
    <2>1. \A i \in 1..Len(b) : b[i] \in Job
        <3> HIDE DEF Job
        <3> QED
            BY ElementOfSeq
    <2> QED
        BY <2>1 DEF Job
<1> HIDE DEF Job
<1>2. Len(b) \in Nat /\ DOMAIN b = 1..Len(b)
    BY LenProperties
<1>3. [i \in 1..Len(b) |-> [b[i] EXCEPT !.cur = FALSE]] \in [1..Len(b) -> Job]
    BY <1>1
<1>4. [i \in 1..Len(b) |-> [b[i] EXCEPT !.cur = FALSE]] \in Seq(Job)
    BY <1>2, <1>3, SeqDef
<1>5. b = <<>> => [i \in DOMAIN b |-> [b[i] EXCEPT !.cur = FALSE]] = <<>>
    OBVIOUS
<1> QED
    BY <1>2, <1>4, <1>5

LEMMA RewriteDoneKeeps == \A ok \in BOOLEAN : IInv /\ backgroundRewriteDoneHandler(ok) => IInv'
<1> SUFFICES ASSUME NEW ok \in BOOLEAN, IInv, backgroundRewriteDoneHandler(ok) PROVE IInv'
    OBVIOUS
<1> HIDE DEF Entry, Item
<1>1. /\ aof \in AofType /\ left \in Budget /\ data \in Seq(Item) /\ bio \in Seq(Job)
      /\ acked \in Nat /\ acked <= Len(data) /\ Len(data) \in Nat /\ <<>> \in Seq(Entry)
      /\ aof.buf \in Seq(Entry)
    BY EmptySeq DEF IInv, Types, AofType
<1>2. child.type = "aof" /\ child' = NoChild /\ UNCHANGED <<data, conf, rdb, acked>>
    BY DEF backgroundRewriteDoneHandler
<1>3. /\ child'.type = "none" /\ child'.diff = <<>> /\ child'.pipe = <<>> /\ child'.phase = "none"
      /\ child' \in ChildType
    <2>1. NoChild \in ChildType
        BY RewriteChildType DEF IInv
    <2> QED
        BY <1>2, <2>1 DEF NoChild
<1>4. CASE ok
    <2> DEFINE f == aofRewriteBufferWrite(<<Snapshot(child.data)>> \o child.diff)
    <2>1. child.phase = "done" /\ Switch(f) /\ UNCHANGED left
        BY <1>4 DEF backgroundRewriteDoneHandler
    <2>2. /\ f \in Seq(Entry) /\ Len(f) \in Nat /\ Len(f) - Len(aof.rewrite) \in Nat
          /\ aof.state # "off" => Loaded(f).data = data
          /\ IsPrefix(Loaded(f).data, data)
        BY <1>2, <2>1, RewrittenFile
    <2> HIDE DEF f
    <2>3. /\ file' = f
          /\ synced' = IF aof.fd /\ conf.fsync = "always" THEN Len(f) ELSE Len(f) - Len(aof.rewrite)
          /\ aof' = IF aof.fd
                    THEN [aof EXCEPT !.sel = NULL, !.buf = <<>>, !.rewrite = <<>>, !.twice = FALSE,
                                     !.state = IF @ = "wait" THEN "on" ELSE @]
                    ELSE [aof EXCEPT !.rewrite = <<>>, !.twice = @ \/ aof.buf # <<>>]
        BY <2>1 DEF Switch
    <2>4. bio' \in Seq(Job) /\ (conf.fsync = "always" => bio' = <<>>)
        <3> DEFINE old == [i \in DOMAIN bio |-> [bio[i] EXCEPT !.cur = FALSE]]
        <3>1. old \in Seq(Job) /\ (bio = <<>> => old = <<>>)
            BY <1>1, OldJobs
        <3>2. bio' = IF aof.fd /\ conf.fsync = "everysec"
                     THEN old \o <<[cur |-> TRUE, upto |-> NULL]>> ELSE old
            BY <2>1 DEF Switch
        <3> HIDE DEF old
        <3>3. <<[cur |-> TRUE, upto |-> NULL]>> \in Seq(Job)
            BY DEF Job
        <3>4. old \o <<[cur |-> TRUE, upto |-> NULL]>> \in Seq(Job)
            <4> HIDE DEF Job
            <4> QED
                BY <3>1, <3>3, ConcatProperties
        <3>5. conf.fsync = "always" => bio = <<>>
            BY DEF IInv, Durable
        <3> QED
            BY <3>1, <3>2, <3>4, <3>5
    <2>5. /\ aof' \in AofType
          /\ aof'.state = IF aof.state = "wait" THEN "on" ELSE aof.state
          /\ aof'.state # "off" => aof'.fd /\ aof'.sel = NULL
          /\ aof'.rewrite = <<>> /\ aof'.buf \in {<<>>, aof.buf}
          /\ aof'.state = "on" \/ ~aof'.twice => aof'.buf = <<>>
        <3>1. CASE aof.fd
            <4> DEFINE s == IF aof.state = "wait" THEN "on" ELSE aof.state
            <4>1. aof' = [aof EXCEPT !.sel = NULL, !.buf = <<>>, !.rewrite = <<>>, !.twice = FALSE,
                                     !.state = s]
                BY <1>1, <2>3, <3>1 DEF AofType
            <4>2. s \in {"on", "wait", "off"}
                BY <1>1 DEF AofType
            <4> HIDE DEF s
            <4>3. aof' \in AofType
                BY <1>1, <4>1, <4>2 DEF AofType
            <4>4. aof'.state = s /\ aof'.fd = aof.fd /\ aof'.sel = NULL /\ aof'.buf = <<>> /\ aof'.rewrite = <<>>
                BY <1>1, <4>1 DEF AofType
            <4> QED
                BY <3>1, <4>3, <4>4 DEF s
        <3>2. CASE ~aof.fd
            <4>1. aof.state = "off"
                BY <3>2 DEF IInv, Files
            <4> DEFINE b == aof.twice \/ aof.buf # <<>>
            <4>2. aof' = [aof EXCEPT !.rewrite = <<>>, !.twice = b] /\ b \in BOOLEAN
                BY <2>3, <3>2
            <4>3. ~b => aof.buf = <<>>
                OBVIOUS
            <4> HIDE DEF b
            <4>4. /\ aof' \in AofType /\ aof'.state = aof.state /\ aof'.buf = aof.buf /\ aof'.rewrite = <<>>
                  /\ aof'.twice = b
                BY <1>1, <4>2 DEF AofType
            <4> QED
                BY <4>1, <4>3, <4>4
        <3> QED
            BY <3>1, <3>2
    <2>6. aof'.state = "on" => aof.fd /\ Loaded(f).data = data
        <3>1. aof.state # "off" => aof.fd
            BY DEF IInv, Files
        <3> QED
            BY <2>2, <2>5, <3>1
    <2>7. Types'
        <3>1. file' \in Seq(Entry) /\ synced' \in Nat
            BY <2>2, <2>3
        <3> QED
            BY <1>1, <1>2, <1>3, <2>1, <2>4, <2>5, <3>1 DEF IInv, Types
    <2>8. Files'
        <3>1. file' \o <<>> = f
            BY <1>1, <2>2, <2>3, Joined
        <3>2. aof'.state = "on" => Follows(file \o aof.buf)'
            BY <1>2, <2>5, <2>6, <3>1 DEF Follows
        <3> QED
            BY <1>3, <2>5, <3>2 DEF Files
    <2>9. Buffers'
        BY <1>3, <2>5 DEF Buffers
    <2>10. Past'
        <3>1. f \o <<>> = f
            BY <1>1, <2>2, Joined
        <3> QED
            BY <1>2, <1>3, <2>2, <2>3, <2>5, <3>1 DEF IInv, Past
    <2>11. Durable'
        <3>1. aof.fd \/ aof.rewrite = <<>>
            BY DEF IInv, Files, Buffers
        <3>2. conf.fsync = "always" => synced' = Len(file')
            BY <2>2, <2>3, <3>1
        <3>3. conf.fsync = "always" /\ aof'.state # "on" => aof'.buf = <<>>
            BY <2>5 DEF IInv, Durable
        <3> QED
            BY <1>1, <1>2, <2>3, <2>4, <2>6, <3>2, <3>3 DEF Durable
    <2> QED
        BY <2>7, <2>8, <2>9, <2>10, <2>11 DEF IInv
<1>5. CASE ~ok
    <2>1. /\ left.errors > 0 /\ left' = [left EXCEPT !.errors = @ - 1]
          /\ aof' = [aof EXCEPT !.rewrite = <<>>, !.sched = @ \/ aof.state = "wait"]
          /\ UNCHANGED <<file, synced, bio>>
        BY <1>5 DEF backgroundRewriteDoneHandler
    <2>2. left' \in Budget
        BY <1>1, <2>1, Spent
    <2>3. /\ aof' \in AofType /\ aof'.state = aof.state /\ aof'.buf = aof.buf /\ aof'.sel = aof.sel
          /\ aof'.rewrite = <<>> /\ aof'.fd = aof.fd /\ aof'.twice = aof.twice
        <3> DEFINE b == aof.sched \/ aof.state = "wait"
        <3>1. aof' = [aof EXCEPT !.rewrite = <<>>, !.sched = b] /\ b \in BOOLEAN
            BY <2>1
        <3> HIDE DEF b
        <3> QED
            BY <1>1, <3>1 DEF AofType
    <2>4. Types'
        BY <1>1, <1>2, <1>3, <2>1, <2>2, <2>3 DEF IInv, Types
    <2>5. Files' /\ Buffers' /\ Past' /\ Durable'
        BY <1>2, <1>3, <2>1, <2>3 DEF IInv, Files, Follows, Buffers, Past, Durable
    <2> QED
        BY <2>4, <2>5 DEF IInv
<1> QED
    BY <1>4, <1>5

-----------------------------------------------------------------------------
(* The RDB file. *)

LEMMA SavesKeep ==
    ASSUME IInv, rdbSaveBackground \/ \E ok \in BOOLEAN : backgroundSaveDoneHandler(ok)
    PROVE  IInv'
<1> HIDE DEF Entry, Item
<1>1. /\ left \in Budget /\ data \in Seq(Item) /\ <<>> \in Seq(Entry) /\ child \in ChildType
      /\ child.data \in Seq(Item) /\ rdb.data \in Seq(Item) /\ NoChild \in ChildType
    BY EmptySeq, RewriteChildType DEF IInv, Types, ChildType
<1>2. CASE rdbSaveBackground
    <2>1. /\ child.type = "none" /\ left.saves > 0 /\ left' = [left EXCEPT !.saves = @ - 1]
          /\ child' = [NoChild EXCEPT !.type = "rdb", !.data = data]
          /\ UNCHANGED <<data, conf, aof, file, synced, bio, rdb, acked>>
        BY <1>2 DEF rdbSaveBackground
    <2>2. left' \in Budget
        BY <1>1, <2>1, Spent
    <2>3. /\ child' \in ChildType /\ child'.type = "rdb" /\ child'.data = data
          /\ child'.diff = <<>> /\ child'.pipe = <<>> /\ child'.phase = "none"
        BY <1>1, <2>1 DEF NoChild, ChildType
    <2>4. Types'
        BY <2>1, <2>2, <2>3 DEF IInv, Types
    <2>5. IsPrefix(data, data)
        BY <1>1, PrefixReflexive
    <2>6. Files' /\ Buffers' /\ Past' /\ Durable'
        BY <2>1, <2>3, <2>5 DEF IInv, Files, Follows, Buffers, Past, Durable
    <2> QED
        BY <2>4, <2>6 DEF IInv
<1>3. ASSUME NEW ok \in BOOLEAN, backgroundSaveDoneHandler(ok) PROVE IInv'
    <2>1. /\ child.type = "rdb" /\ (ok \/ left.errors > 0)
          /\ left' = IF ok THEN left ELSE [left EXCEPT !.errors = @ - 1]
          /\ rdb' = [data |-> IF ok THEN child.data ELSE rdb.data, ok |-> ok]
          /\ child' = NoChild
          /\ UNCHANGED <<data, conf, aof, file, synced, bio, acked>>
        BY <1>3 DEF backgroundSaveDoneHandler
    <2>2. left' \in Budget
        <3>1. CASE ok
            BY <1>1, <2>1, <3>1
        <3>2. CASE ~ok
            <4>1. left.errors > 0 /\ left' = [left EXCEPT !.errors = @ - 1]
                BY <2>1, <3>2
            <4> QED
                BY <1>1, <4>1, Spent
        <3> QED
            BY <3>1, <3>2
    <2>3. /\ child' \in ChildType /\ child'.type = "none" /\ child'.diff = <<>> /\ child'.pipe = <<>>
          /\ child'.phase = "none"
        BY <1>1, <2>1 DEF NoChild
    <2>4. rdb' \in [data : Seq(Item), ok : BOOLEAN] /\ rdb'.data \in {child.data, rdb.data}
        BY <1>1, <1>3, <2>1
    <2>5. Types'
        BY <2>1, <2>2, <2>3, <2>4 DEF IInv, Types
    <2>6. Files' /\ Buffers' /\ Past' /\ Durable'
        BY <2>1, <2>3, <2>4 DEF IInv, Files, Follows, Buffers, Past, Durable
    <2> QED
        BY <2>5, <2>6 DEF IInv
<1> QED
    BY <1>2, <1>3

-----------------------------------------------------------------------------
(* CONFIG SET appendonly. *)

LEMMA StopKeeps == IInv /\ stopAppendOnly => IInv'
<1> SUFFICES ASSUME IInv, stopAppendOnly PROVE IInv'
    OBVIOUS
<1> HIDE DEF Entry, Item
<1>1. /\ aof \in AofType /\ left \in Budget /\ file \in Seq(Entry) /\ aof.buf \in Seq(Entry)
      /\ data \in Seq(Item) /\ <<>> \in Seq(Entry) /\ child \in ChildType /\ NoChild \in ChildType
      /\ bio \in Seq(Job) /\ Len(aof.buf) \in Nat
    BY EmptySeq, RewriteChildType DEF IInv, Types, AofType
<1> DEFINE old == [i \in DOMAIN bio |-> [bio[i] EXCEPT !.cur = FALSE]]
<1>2. /\ aof.state # "off" /\ left.config > 0
      /\ child' = IF child.type = "aof" THEN NoChild ELSE child
      /\ UNCHANGED <<data, conf, rdb, acked>>
    BY DEF stopAppendOnly
<1>3. PICK n \in 0..Len(aof.buf) :
         /\ n < Len(aof.buf) => conf.fsync # "always" /\ left.errors > 0
         /\ file' = file \o SubSeq(aof.buf, 1, n)
         /\ synced' = Len(file')
         /\ bio' = IF aof.buf # <<>> /\ ThreadSyncs(n) /\ bio = <<>>
                   THEN <<[cur |-> FALSE, upto |-> NULL]>> ELSE old
         /\ aof' = [(IF aof.buf = <<>> THEN aof ELSE Flushed(aof, n)) EXCEPT
                        !.sel = NULL, !.state = "off", !.fd = FALSE,
                        !.rewrite = IF child.type = "aof" THEN <<>> ELSE @]
         /\ left' = [left EXCEPT !.config = @ - 1,
                                 !.errors = IF n < Len(aof.buf) THEN @ - 1 ELSE @]
    BY DEF stopAppendOnly
<1> DEFINE head == SubSeq(aof.buf, 1, n)
           tail == SubSeq(aof.buf, n + 1, Len(aof.buf))
<1>4. /\ head \in Seq(Entry) /\ tail \in Seq(Entry) /\ head \o tail = aof.buf
      /\ n = Len(aof.buf) => tail = <<>>
      /\ n < Len(aof.buf) \/ n = Len(aof.buf)
    <2>1. n < Len(aof.buf) \/ n = Len(aof.buf)
        BY <1>1
    <2> QED
        BY <1>1, <2>1, Cut
<1>5. left' \in Budget
    <2> DEFINE c == left.config - 1
               x == IF n < Len(aof.buf) THEN left.errors - 1 ELSE left.errors
    <2>1. c \in Nat /\ x \in Nat
        <3>1. left.config \in Nat /\ left.errors \in Nat
            BY <1>1 DEF Budget
        <3>2. left.config > 0 /\ (n < Len(aof.buf) => left.errors > 0)
            BY <1>2, <1>3
        <3> QED
            BY <3>1, <3>2
    <2>2. left' = [left EXCEPT !.config = c, !.errors = x]
        BY <1>3
    <2> HIDE DEF c, x
    <2> QED
        BY <1>1, <2>1, <2>2 DEF Budget
<1>6. file' = file \o head /\ file' \in Seq(Entry) /\ synced' = Len(file') /\ synced' \in Nat
    <2>1. file' = file \o head /\ synced' = Len(file')
        BY <1>3
    <2> HIDE DEF head
    <2>2. file \o head \in Seq(Entry)
        BY <1>1, <1>4, Joined
    <2> QED
        BY <2>1, <2>2
<1>7. bio' \in Seq(Job) /\ (conf.fsync = "always" => bio' = <<>>)
    <2>1. old \in Seq(Job) /\ (bio = <<>> => old = <<>>)
        BY <1>1, OldJobs
    <2>2. <<[cur |-> FALSE, upto |-> NULL]>> \in Seq(Job)
        BY DEF Job
    <2>3. conf.fsync = "always" => bio = <<>> /\ ~ThreadSyncs(n)
        BY DEF IInv, Durable, ThreadSyncs
    <2> HIDE DEF old
    <2>4. bio' \in {old, <<[cur |-> FALSE, upto |-> NULL]>>} /\ (conf.fsync = "always" => bio' = old)
        BY <1>3, <2>3 DEF old
    <2> HIDE DEF Job
    <2> QED
        BY <2>1, <2>2, <2>3, <2>4
<1> HIDE DEF old
<1>8. /\ aof' \in AofType /\ aof'.state = "off" /\ aof'.buf = tail /\ aof'.rewrite = <<>>
      /\ aof'.twice = aof.twice
    <2>1. child.type # "aof" => aof.rewrite = <<>>
        BY DEF IInv, Buffers
    <2>2. (IF child.type = "aof" THEN <<>> ELSE aof.rewrite) = <<>>
        BY <2>1
    <2>3. CASE aof.buf = <<>>
        <3>1. tail = <<>>
            BY <1>4, <2>3, EmptySeq
        <3>2. aof' = [aof EXCEPT !.sel = NULL, !.state = "off", !.fd = FALSE, !.rewrite = <<>>]
            BY <1>3, <2>2, <2>3
        <3> HIDE DEF tail
        <3>3. aof' \in AofType
            BY <1>1, <3>2 DEF AofType
        <3> QED
            BY <1>1, <2>3, <3>1, <3>2, <3>3 DEF AofType
    <2>4. CASE aof.buf # <<>>
        <3> DEFINE c == (n = Len(aof.buf))
        <3>1. Flushed(aof, n) = [aof EXCEPT !.buf = tail, !.ok = c, !.postponed = 0] /\ c \in BOOLEAN
            BY DEF Flushed
        <3>2. aof' = [Flushed(aof, n) EXCEPT !.sel = NULL, !.state = "off", !.fd = FALSE,
                          !.rewrite = IF child.type = "aof" THEN <<>> ELSE @]
            BY <1>3, <2>4
        <3> HIDE DEF tail, c
        <3>3. Flushed(aof, n).rewrite = aof.rewrite
            BY <1>1, <3>1 DEF AofType
        <3>4. aof' = [aof EXCEPT !.buf = tail, !.ok = c, !.postponed = 0,
                          !.sel = NULL, !.state = "off", !.fd = FALSE, !.rewrite = <<>>]
            BY <1>1, <2>2, <3>1, <3>2, <3>3 DEF AofType
        <3>5. aof' \in AofType
            <4>1. 0 \in 0..3 /\ tail \in Seq(Entry) /\ c \in BOOLEAN
                BY <1>4, <3>1 DEF tail
            <4> QED
                BY <1>1, <3>4, <4>1 DEF AofType
        <3> QED
            BY <1>1, <3>4, <3>5 DEF AofType
    <2> QED
        BY <2>3, <2>4
<1> HIDE DEF head, tail
<1>9. /\ child' \in ChildType /\ child'.type # "aof" /\ child'.diff = <<>> /\ child'.pipe = <<>>
      /\ child'.type # "none" => child'.data = child.data /\ child.type # "none"
      /\ child'.phase = "done" => child'.pipe = <<>>
    <2>1. CASE child.type = "aof"
        BY <1>1, <1>2, <2>1 DEF NoChild
    <2>2. CASE child.type # "aof"
        BY <1>1, <1>2, <2>2 DEF IInv, Buffers
    <2> QED
        BY <2>1, <2>2
<1>10. Types'
    BY <1>2, <1>5, <1>6, <1>7, <1>8, <1>9 DEF IInv, Types
<1>11. Past'
    <2>1. head \in Seq(Entry) /\ tail \in Seq(Entry) /\ head \o tail = aof.buf
        BY <1>4
    <2>2. (file \o head) \o tail = file \o (head \o tail)
        BY <1>1, <2>1, Associative
    <2>3. file' \o aof'.buf = file \o aof.buf
        BY <1>6, <1>8, <2>1, <2>2
    <2> QED
        BY <1>2, <1>8, <1>9, <2>3 DEF IInv, Past
<1>12. Files' /\ Buffers'
    BY <1>8, <1>9 DEF Files, Buffers
<1>13. Durable'
    BY <1>2, <1>3, <1>4, <1>6, <1>7, <1>8 DEF Durable
<1> QED
    BY <1>10, <1>11, <1>12, <1>13 DEF IInv

LEMMA StartKeeps == IInv /\ startAppendOnly => IInv'
<1> SUFFICES ASSUME IInv, startAppendOnly PROVE IInv'
    OBVIOUS
<1> HIDE DEF Entry, Item
<1> DEFINE open == [aof EXCEPT !.fd = TRUE, !.due = FALSE]
<1>1. /\ aof \in AofType /\ left \in Budget /\ aof.buf \in Seq(Entry) /\ data \in Seq(Item)
      /\ <<>> \in Seq(Entry) /\ child \in ChildType /\ RewriteChild \in ChildType
    BY EmptySeq, RewriteChildType DEF IInv, Types, AofType
<1>2. /\ aof.state = "off" /\ left.config > 0 /\ left' = [left EXCEPT !.config = @ - 1]
      /\ UNCHANGED <<data, conf, file, synced, bio, rdb, acked>>
    BY DEF startAppendOnly
<1>3. left' \in Budget
    BY <1>1, <1>2, Spent
<1>4. /\ open \in AofType /\ open.state = aof.state /\ open.buf = aof.buf /\ open.sel = aof.sel
      /\ open.rewrite = aof.rewrite /\ open.fd = TRUE /\ open.stop = aof.stop
      /\ open.twice = aof.twice
    BY <1>1 DEF AofType
<1>5. CASE child.type = "aof" /\ aof' = open /\ UNCHANGED child
    <2> HIDE DEF open
    <2>1. Types'
        BY <1>2, <1>3, <1>4, <1>5 DEF IInv, Types
    <2> QED
        BY <1>2, <1>4, <1>5, <2>1, Kept
<1>6. CASE child.type = "rdb" /\ aof' = [open EXCEPT !.state = "wait", !.sched = TRUE] /\ UNCHANGED child
    <2> HIDE DEF open
    <2>1. /\ aof' \in AofType /\ aof'.state = "wait" /\ aof'.buf = aof.buf
          /\ aof'.rewrite = aof.rewrite /\ aof'.fd = TRUE /\ aof'.twice = aof.twice
        BY <1>4, <1>6 DEF AofType
    <2>2. Types'
        BY <1>2, <1>3, <1>6, <2>1 DEF IInv, Types
    <2>3. Files' /\ Buffers' /\ Past' /\ Durable'
        BY <1>2, <1>6, <2>1 DEF IInv, Files, Buffers, Past, Durable
    <2> QED
        BY <2>2, <2>3 DEF IInv
<1>7. CASE child.type = "none" /\ aof' = [Rewriting(open) EXCEPT !.state = "wait"] /\ child' = RewriteChild
    <2> HIDE DEF open
    <2>1. aof' = [open EXCEPT !.sched = FALSE, !.sel = NULL, !.rewrite = <<>>, !.stop = FALSE, !.state = "wait"]
        BY <1>4, <1>7 DEF Rewriting, AofType
    <2>2. aof' \in AofType
        BY <1>1, <1>4, <2>1 DEF AofType
    <2>3. /\ aof'.state = "wait" /\ aof'.buf = aof.buf /\ aof'.sel = NULL /\ aof'.rewrite = <<>>
          /\ aof'.fd = TRUE /\ aof'.twice = aof.twice
        BY <1>4, <2>1 DEF AofType
    <2>4. Types'
        BY <1>1, <1>2, <1>3, <1>7, <2>2 DEF IInv, Types
    <2>5. aof'.state = aof.state \/ (aof.state = "off" /\ aof'.state = "wait")
        BY <1>2, <2>3
    <2>6. /\ aof'.buf = aof.buf /\ aof'.sel = NULL /\ aof'.rewrite = <<>> /\ child' = RewriteChild
          /\ aof'.twice = aof.twice
        BY <1>7, <2>3
    <2>7. aof'.state # "off" => aof'.fd
        BY <2>3
    <2> QED
        BY <1>2, <2>4, <2>5, <2>6, <2>7, RewriteBegins
<1> QED
    BY <1>5, <1>6, <1>7 DEF startAppendOnly

-----------------------------------------------------------------------------
(* The end of a server and the next start. *)

LEMMA RestartKeeps ==
    ASSUME IInv, NEW f \in Seq(Entry), NEW saved \in Seq(Item), NEW s \in Nat,
           Restart(f, saved, s), conf.fsync = "always" /\ ~conf.nofsync => s = Len(f)
    PROVE  IInv'
<1> HIDE DEF Entry, Item
<1>1. left \in Budget /\ conf \in Configuration /\ <<>> \in Seq(Entry) /\ NoChild \in ChildType
      /\ <<>> \in Seq(Job)
    BY EmptySeq, RewriteChildType DEF IInv, Types
<1>2. /\ data' = loadDataFromDisk(f, saved) /\ file' = f /\ synced' = s
      /\ rdb' = [data |-> saved, ok |-> TRUE] /\ acked' = Len(data') /\ aof' = NewAof(conf.aof)
      /\ bio' = <<>> /\ child' = NoChild /\ left.ends > 0 /\ left' = [left EXCEPT !.ends = @ - 1]
      /\ conf' = conf
    BY DEF Restart
<1>3. left' \in Budget
    BY <1>1, <1>2, Spent
<1>4. /\ conf.aof => data' = Loaded(f).data
      /\ ~conf.aof => data' = saved
    BY <1>2, LoadedType DEF loadDataFromDisk
<1>5. data' \in Seq(Item) /\ Len(data') \in Nat /\ IsPrefix(data', data')
    <2>1. Loaded(f).data \in Seq(Item)
        BY LoadedType
    <2>2. data' \in Seq(Item)
        BY <1>4, <2>1
    <2> QED
        BY <2>2, PrefixReflexive
<1>6. /\ aof' \in AofType /\ aof'.state = (IF conf.aof THEN "on" ELSE "off") /\ aof'.fd = conf.aof
      /\ aof'.buf = <<>> /\ aof'.sel = NULL /\ aof'.rewrite = <<>>
    <2>1. conf.aof \in BOOLEAN
        BY <1>1 DEF Configuration
    <2> DEFINE st == IF conf.aof THEN "on" ELSE "off"
    <2>2. st \in {"on", "wait", "off"}
        OBVIOUS
    <2>3. aof' = [state |-> st, fd |-> conf.aof, buf |-> <<>>, sel |-> NULL, ok |-> TRUE,
                  rewrite |-> <<>>, stop |-> FALSE, sched |-> FALSE, due |-> FALSE, postponed |-> 0,
                  twice |-> FALSE]
        BY <1>2 DEF NewAof
    <2> HIDE DEF st
    <2>4. aof' \in AofType
        BY <1>1, <2>1, <2>2, <2>3 DEF AofType
    <2> QED
        BY <2>3, <2>4 DEF st
<1>7. /\ child' \in ChildType /\ child'.type = "none" /\ child'.diff = <<>> /\ child'.pipe = <<>>
      /\ child'.phase = "none"
    BY <1>1, <1>2 DEF NoChild
<1>8. Types'
    <2>1. Len(f) \in Nat /\ rdb' \in [data : Seq(Item), ok : BOOLEAN]
        BY <1>2
    <2> QED
        BY <1>1, <1>2, <1>3, <1>5, <1>6, <1>7, <2>1 DEF Types
<1>9. Files'
    <2>1. f \o <<>> = f
        BY <1>1, Joined
    <2>2. aof'.state = "on" => Follows(file \o aof.buf)'
        BY <1>2, <1>4, <1>6, <2>1 DEF Follows
    <2>3. conf.aof \in BOOLEAN
        BY <1>1 DEF Configuration
    <2> QED
        BY <1>6, <1>7, <2>2, <2>3 DEF Files
<1>10. Buffers'
    BY <1>6, <1>7 DEF Buffers
<1>11. Past'
    <2>1. f \o <<>> = f
        BY <1>1, Joined
    <2> QED
        BY <1>2, <1>4, <1>5, <1>6, <1>7, <2>1 DEF Past
<1>12. Durable'
    <2>1. aof'.state = "on" => Len(data') <= Len(Loaded(f).data)
        BY <1>4, <1>5, <1>6
    <2> QED
        BY <1>2, <1>6, <2>1 DEF Durable
<1> QED
    BY <1>8, <1>9, <1>10, <1>11, <1>12 DEF IInv

(* What a server starts from is a prefix of the data set.                   *)
LEMMA Restarts ==
    ASSUME IInv, Kill \/ PowerLoss \/ prepareForShutdown
    PROVE  /\ IInv'
           /\ aof.twice \/ IsPrefix(data', data)
<1> HIDE DEF Entry, Item
<1>1. /\ file \in Seq(Entry) /\ data \in Seq(Item) /\ rdb.data \in Seq(Item) /\ synced \in Nat
      /\ Len(file) \in Nat /\ aof.buf \in Seq(Entry)
      /\ conf.fsync = "always" /\ ~conf.nofsync => synced = Len(file)
    BY DEF IInv, Types, AofType, Durable
<1>2. ASSUME NEW f \in Seq(Entry), NEW saved \in Seq(Item), NEW s \in Nat, Restart(f, saved, s),
             conf.fsync = "always" /\ ~conf.nofsync => s = Len(f),
             IsPrefix(Loaded(f).data, Loaded(file).data), saved \in {data, rdb.data}
      PROVE  /\ IInv'
             /\ aof.twice \/ IsPrefix(data', data)
    <2>1. data' = IF conf.aof THEN Loaded(f).data ELSE saved
        BY <1>2, LoadedType DEF Restart, loadDataFromDisk
    <2>2. /\ Loaded(f).data \in Seq(Item) /\ Loaded(file).data \in Seq(Item)
          /\ Loaded(file \o aof.buf).data \in Seq(Item)
        <3>1. file \o aof.buf \in Seq(Entry)
            BY <1>1, Joined
        <3> QED
            BY <1>1, <1>2, <3>1, LoadedType
    <2>3. conf.aof /\ ~aof.twice => IsPrefix(Loaded(f).data, data)
        <3>1. IsPrefix(Loaded(file).data, Loaded(file \o aof.buf).data)
            BY <1>1, LoadedPrefix
        <3>2. IsPrefix(Loaded(f).data, Loaded(file \o aof.buf).data)
            BY <1>2, <2>2, <3>1, PrefixTransitive
        <3> QED
            BY <1>1, <2>2, <3>2, PrefixTransitive DEF IInv, Past
    <2>4. ~conf.aof => IsPrefix(saved, data)
        BY <1>1, <1>2, PrefixReflexive DEF IInv, Past
    <2>5. IInv'
        BY <1>2, RestartKeeps
    <2>6. aof.twice \/ IsPrefix(data', data)
        BY <2>1, <2>3, <2>4
    <2> QED
        BY <2>5, <2>6
<1>3. IsPrefix(Loaded(file).data, Loaded(file).data)
    BY <1>1, LoadedType, PrefixReflexive
<1>4. CASE Kill
    BY <1>1, <1>2, <1>3, <1>4 DEF Kill
<1>5. CASE PowerLoss
    <2>1. PICK n \in synced..(Len(file) - 1) : Restart(SubSeq(file, 1, n), rdb.data, n)
        BY <1>5 DEF PowerLoss
    <2>2. n \in 0..Len(file) /\ n \in Nat /\ ~(conf.fsync = "always" /\ ~conf.nofsync)
        BY <1>1, <2>1
    <2>3. /\ SubSeq(file, 1, n) \in Seq(Entry)
          /\ IsPrefix(Loaded(SubSeq(file, 1, n)).data, Loaded(file).data)
        BY <1>1, <2>2, LoadedCut
    <2> QED
        BY <1>1, <1>2, <2>1, <2>2, <2>3
<1>6. CASE prepareForShutdown
    <2> DEFINE s == IF aof.state = "off" THEN synced ELSE Len(file)
    <2>1. PICK saved \in {data, rdb.data} : Restart(file, saved, s)
        BY <1>6 DEF prepareForShutdown
    <2>2. /\ saved \in Seq(Item) /\ s \in Nat
          /\ conf.fsync = "always" /\ ~conf.nofsync => s = Len(file)
        BY <1>1, <2>1
    <2> HIDE DEF s
    <2> QED
        BY <1>1, <1>2, <1>3, <2>1, <2>2
<1> QED
    BY <1>4, <1>5, <1>6

-----------------------------------------------------------------------------
(* The theorems. *)

LEMMA InitInv == Init => IInv
<1> SUFFICES ASSUME Init PROVE IInv
    OBVIOUS
<1> HIDE DEF Entry, Item
<1>1. PICK s \in Settings : conf = s.conf /\ left = s.left
    BY DEF Init
<1>2. conf \in Configuration /\ left \in Budget /\ conf.aof \in BOOLEAN
    BY <1>1, PersistenceAssumption DEF Configuration
<1>3. /\ <<>> \in Seq(Entry) /\ <<>> \in Seq(Item) /\ <<>> \in Seq(Job) /\ Len(<<>>) = 0
      /\ <<>> \o <<>> = <<>>
    BY EmptySeq
<1>4. /\ data = <<>> /\ aof = NewAof(conf.aof) /\ file = <<>> /\ synced = 0 /\ bio = <<>>
      /\ child = NoChild /\ rdb = [data |-> <<>>, ok |-> TRUE] /\ acked = 0
    BY DEF Init
<1>5. /\ aof \in AofType /\ aof.state = (IF conf.aof THEN "on" ELSE "off") /\ aof.fd = conf.aof
      /\ aof.buf = <<>> /\ aof.sel = NULL /\ aof.rewrite = <<>>
    <2> DEFINE st == IF conf.aof THEN "on" ELSE "off"
    <2>1. st \in {"on", "wait", "off"}
        OBVIOUS
    <2>2. aof = [state |-> st, fd |-> conf.aof, buf |-> <<>>, sel |-> NULL, ok |-> TRUE,
                 rewrite |-> <<>>, stop |-> FALSE, sched |-> FALSE, due |-> FALSE, postponed |-> 0,
                  twice |-> FALSE]
        BY <1>4 DEF NewAof
    <2> HIDE DEF st
    <2>3. aof \in AofType
        BY <1>2, <1>3, <2>1, <2>2 DEF AofType
    <2> QED
        BY <2>2, <2>3 DEF st
<1>6. /\ child \in ChildType /\ child.type = "none" /\ child.diff = <<>> /\ child.pipe = <<>>
      /\ child.phase = "none"
    BY <1>3, <1>4 DEF NoChild, ChildType
<1>7. Types
    <2>1. rdb \in [data : Seq(Item), ok : BOOLEAN]
        BY <1>3, <1>4
    <2> QED
        BY <1>2, <1>3, <1>4, <1>5, <1>6, <2>1 DEF Types
<1>8. Loaded(<<>>).data = <<>> /\ IsPrefix(<<>>, <<>>)
    <2>1. Loaded(<<>>) = [data |-> <<>>, db |-> 0]
        BY LoadedEmpty DEF Start
    <2>2. IsPrefix(<<>>, <<>>)
        BY <1>3, PrefixReflexive
    <2> QED
        BY <2>1, <2>2
<1>9. Files
    BY <1>2, <1>3, <1>4, <1>5, <1>6, <1>8 DEF Files, Follows
<1>10. Buffers /\ Past /\ Durable
    BY <1>3, <1>4, <1>5, <1>6, <1>8 DEF Buffers, Past, Durable
<1> QED
    BY <1>7, <1>9, <1>10 DEF IInv

LEMMA NextKeeps == IInv /\ [Next]_vars => IInv'
<1> SUFFICES ASSUME IInv, [Next]_vars PROVE IInv'
    OBVIOUS
<1>1. CASE BeforeSleep \/ WriteError \/ bioProcessBackgroundJobs \/ Tick \/ \E db \in DBs : Write(db)
    BY <1>1, BeforeSleepKeeps, WriteErrorKeeps, ThreadKeeps, TickKeeps, WriteKeeps
<1>2. CASE BgrewriteAof \/ aofChildWriteDiffData \/ ChildReadsDiff \/ aofChildPipeReadable
           \/ rewriteAppendOnlyFile \/ \E ok \in BOOLEAN : backgroundRewriteDoneHandler(ok)
    BY <1>2, BgrewriteAofKeeps, WriteDiffKeeps, ChildKeeps, RewriteDoneKeeps
<1>3. CASE rdbSaveBackground \/ \E ok \in BOOLEAN : backgroundSaveDoneHandler(ok)
    BY <1>3, SavesKeep
<1>4. CASE stopAppendOnly \/ startAppendOnly
    BY <1>4, StopKeeps, StartKeeps
<1>5. CASE Kill \/ PowerLoss \/ prepareForShutdown
    BY <1>5, Restarts
<1>6. CASE UNCHANGED vars
    <2>1. Types' /\ Files' /\ Buffers' /\ Past' /\ Durable'
        BY <1>6 DEF vars, IInv, Types, Files, Follows, Rewritten, Buffers, Past, Durable
    <2> QED
        BY <2>1 DEF IInv
<1> QED
    BY <1>1, <1>2, <1>3, <1>4, <1>5, <1>6 DEF Next

(* The invariant holds in every state the server reaches, whatever the      *)
(* databases, the configuration and the numbers of writes, rewrites, saves, *)
(* errors and ends: in particular every variable keeps its type.            *)
THEOREM Invariance == Spec => []IInv
<1>1. Init => IInv
    BY InitInv
<1>2. IInv /\ [Next]_vars => IInv'
    BY NextKeeps
<1> QED
    BY <1>1, <1>2, PTL DEF Spec

(* While appending is on, the append only file and its buffer load to the   *)
(* data set, through every interleaving of flushAppendOnlyFile, rewrites,   *)
(* failed writes and CONFIG SET appendonly.                                 *)
THEOREM FileFollowsDataHolds == Spec => []FileFollowsData
<1>1. IInv => FileFollowsData
    <2> SUFFICES ASSUME IInv, aof.state = "on" PROVE loadAppendOnlyFile(file \o aof.buf) = data
        BY DEF FileFollowsData
    <2> HIDE DEF Entry
    <2>1. file \o aof.buf \in Seq(Entry)
        BY Joined DEF IInv, Types, AofType
    <2>2. loadAppendOnlyFile(file \o aof.buf) = Loaded(file \o aof.buf).data
        BY <2>1, LoadedType
    <2>3. Loaded(file \o aof.buf).data = data
        BY DEF IInv, Files, Follows
    <2> QED
        BY <2>2, <2>3
<1> QED
    BY <1>1, Invariance, PTL

(* With appendfsync always, beforeSleep answers no client before its write  *)
(* is in the synced part of the file, and no rewrite takes it out again.    *)
THEOREM AckedIsDurableHolds == Spec => []AckedIsDurable
<1>1. IInv => AckedIsDurable
    <2> SUFFICES ASSUME IInv, conf.fsync = "always", ~conf.nofsync, aof.state = "on"
                 PROVE  Len(loadAppendOnlyFile(SubSeq(file, 1, synced))) >= acked
        BY DEF AckedIsDurable
    <2> HIDE DEF Entry, Item
    <2>1. file \in Seq(Entry) /\ acked \in Nat
        BY DEF IInv, Types
    <2>2. synced = Len(file) /\ acked <= Len(Loaded(file).data)
        BY DEF IInv, Durable
    <2>3. SubSeq(file, 1, synced) = file
        BY <2>1, <2>2, SubSeqFull
    <2>4. loadAppendOnlyFile(file) = Loaded(file).data /\ Loaded(file).data \in Seq(Item)
        BY <2>1, LoadedType
    <2>5. Len(Loaded(file).data) \in Nat
        BY <2>4
    <2> QED
        BY <2>1, <2>2, <2>3, <2>4, <2>5
<1> QED
    BY <1>1, Invariance, PTL

(* However the server ends (killed, shut down, or without power), what      *)
(* loadDataFromDisk gives the next one is a prefix of what the last one had,*)
(* unless a buffer that a stop could not write is in the file twice.        *)
THEOREM StartsFromThePastHolds == Spec => StartsFromThePast
<1>1. IInv /\ [Next]_vars => [aof.twice \/ IsPrefix(data, data') \/ IsPrefix(data', data)]_vars
    <2> SUFFICES ASSUME IInv, Next PROVE aof.twice \/ IsPrefix(data, data') \/ IsPrefix(data', data)
        OBVIOUS
    <2> HIDE DEF Entry, Item
    <2>1. data \in Seq(Item) /\ left \in Budget
        BY DEF IInv, Types
    <2>2. IsPrefix(data, data)
        BY <2>1, PrefixReflexive
    <2>3. CASE Kill \/ PowerLoss \/ prepareForShutdown
        BY <2>3, Restarts
    <2>4. ASSUME NEW db \in DBs, Write(db) PROVE IsPrefix(data, data')
        <3>1. data' = Append(data, <<db, left.writes>>) /\ left.writes \in Nat
            BY <2>1, <2>4 DEF Write, Budget
        <3>2. <<db, left.writes>> \in Item
            BY <3>1 DEF Item
        <3> QED
            BY <2>1, <3>1, <3>2, PrefixAppend
    <2>5. CASE UNCHANGED data
        BY <2>2, <2>5
    <2>6. BeforeSleep \/ WriteError \/ bioProcessBackgroundJobs \/ Tick => UNCHANGED data
        BY DEF BeforeSleep, WriteError, bioProcessBackgroundJobs, Tick
    <2>7. BgrewriteAof \/ aofChildWriteDiffData \/ ChildReadsDiff \/ aofChildPipeReadable
          \/ rewriteAppendOnlyFile => UNCHANGED data
        BY DEF BgrewriteAof, aofChildWriteDiffData, ChildReadsDiff, aofChildPipeReadable, rewriteAppendOnlyFile
    <2>8. /\ (\E ok \in BOOLEAN : backgroundRewriteDoneHandler(ok)) => UNCHANGED data
          /\ (\E ok \in BOOLEAN : backgroundSaveDoneHandler(ok)) => UNCHANGED data
        BY DEF backgroundRewriteDoneHandler, backgroundSaveDoneHandler
    <2>9. rdbSaveBackground \/ stopAppendOnly \/ startAppendOnly => UNCHANGED data
        BY DEF rdbSaveBackground, stopAppendOnly, startAppendOnly
    <2> QED
        BY <2>3, <2>4, <2>5, <2>6, <2>7, <2>8, <2>9 DEF Next
<1> QED
    BY <1>1, Invariance, PTL DEF Spec, StartsFromThePast
=============================================================================
