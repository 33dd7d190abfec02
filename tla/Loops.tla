-------------------------------- MODULE Loops --------------------------------
(* What a loop over a list establishes, for any body and any loop invariant. *)
(* Step(p, q, x) is the state that the body leaves when it finds q and deals  *)
(* with the element x; Holds(p, n, q) is what holds of q after n elements; p  *)
(* are parameters of the loop.  A module that wants to know something of a    *)
(* loop of its own instantiates this one with its body and its invariant.     *)
EXTENDS Naturals, Sequences, WellFoundedInduction, TLAPS

CONSTANTS Step(_, _, _), Holds(_, _, _)

(* The state that the loop over l leaves when it finds s.                     *)
Loop(p, s, l) ==
    LET run[n \in 0..Len(l)] == IF n = 0 THEN s ELSE Step(p, run[n - 1], l[n])
    IN  run[Len(l)]

(* g are the states before the first and after each of the first n elements.  *)
Steps(p, s, l, g, n) == g = [k \in 0..n |-> IF k = 0 THEN s ELSE Step(p, g[k - 1], l[k])]

-----------------------------------------------------------------------------
(* A set of natural numbers that is not empty has a smallest element.         *)
LEMMA Smallest ==
    ASSUME NEW S \in SUBSET Nat, S # {}
    PROVE  \E m \in S : \A k \in S : m <= k
<1>1. \E m \in S : \A k \in S : ~(<<k, m>> \in OpToRel(<, Nat))
    <2> HIDE DEF OpToRel
    <2> QED
        BY NatLessThanWellFounded, WFMin, Zenon
<1>2. \A k, m \in Nat : k < m => <<k, m>> \in OpToRel(<, Nat)
    BY DEF OpToRel
<1>3. \A k, m \in Nat : ~(k < m) => m <= k
    OBVIOUS
<1> QED
    BY <1>1, <1>2, <1>3, Zenon

(* Induction over the natural numbers, with a set in place of a predicate.    *)
LEMMA Induction ==
    ASSUME NEW S \in SUBSET Nat, 0 \in S, \A n \in S : n + 1 \in S
    PROVE  \A n \in Nat : n \in S
<1>1. SUFFICES ASSUME Nat \ S # {} PROVE FALSE
    OBVIOUS
<1>2. PICK m \in Nat \ S : \A k \in Nat \ S : m <= k
    BY <1>1, Smallest
<1>3. m # 0 /\ m - 1 \in Nat /\ ~(m <= m - 1)
    BY <1>2
<1>4. m - 1 \in S
    BY <1>2, <1>3
<1>5. (m - 1) + 1 = m
    BY <1>2
<1> QED
    BY <1>2, <1>4, <1>5

(* The states of a run exist, however long it is: the function that Loop
   defines by recursion is one.                                               *)
LEMMA StepsExist ==
    ASSUME NEW p, NEW s, NEW l
    PROVE  \A n \in Nat : \E g : Steps(p, s, l, g, n)
<1> DEFINE S == {n \in Nat : \E g : Steps(p, s, l, g, n)}
<1>1. 0 \in S
    <2>1. Steps(p, s, l, [k \in 0..0 |-> s], 0)
        BY DEF Steps
    <2> QED
        BY <2>1
<1>2. ASSUME NEW n \in S PROVE n + 1 \in S
    <2>1. PICK g : Steps(p, s, l, g, n)
        BY <1>2
    <2> DEFINE h == [k \in 0..(n + 1) |-> IF k <= n THEN g[k] ELSE Step(p, g[n], l[k])]
    <2>2. n \in Nat
        BY <1>2
    <2>3. ASSUME NEW k \in 0..(n + 1)
          PROVE  h[k] = IF k = 0 THEN s ELSE Step(p, h[k - 1], l[k])
        <3>1. CASE k = 0
            BY <2>1, <2>2, <3>1 DEF Steps
        <3>2. CASE k # 0 /\ k <= n
            <4>1. k - 1 \in 0..(n + 1) /\ k - 1 <= n /\ k \in 0..n
                BY <2>2, <2>3, <3>2
            <4>2. h[k] = g[k] /\ h[k - 1] = g[k - 1]
                BY <2>3, <3>2, <4>1
            <4>3. g[k] = Step(p, g[k - 1], l[k])
                BY <2>1, <3>2, <4>1, Zenon DEF Steps
            <4> QED
                BY <3>2, <4>2, <4>3, Zenon
        <3>3. CASE k = n + 1
            <4>1. n \in 0..(n + 1) /\ n <= n /\ k - 1 = n /\ ~(k <= n) /\ k # 0
                BY <2>2, <3>3
            <4>2. h[n] = g[n] /\ h[k] = Step(p, g[n], l[k])
                BY <2>3, <4>1
            <4> QED
                BY <4>1, <4>2
        <3> QED
            BY <2>2, <2>3, <3>1, <3>2, <3>3
    <2>4. Steps(p, s, l, h, n + 1)
        BY <2>3, Zenon DEF Steps
    <2> QED
        BY <2>2, <2>4
<1> HIDE DEF S
<1>3. \A n \in Nat : n \in S
    BY <1>1, <1>2, Induction DEF S
<1> QED
    BY <1>3 DEF S

(* What holds before the loop and is kept by each turn holds after it.         *)
THEOREM LoopHolds ==
    ASSUME NEW p, NEW s, NEW l, Len(l) \in Nat, Holds(p, 0, s),
           \A n \in 1..Len(l) : \A q : Holds(p, n - 1, q) => Holds(p, n, Step(p, q, l[n]))
    PROVE  Holds(p, Len(l), Loop(p, s, l))
<1> DEFINE g == CHOOSE run :
                   run = [n \in 0..Len(l) |-> IF n = 0 THEN s ELSE Step(p, run[n - 1], l[n])]
<1>1. \E f : Steps(p, s, l, f, Len(l))
    BY StepsExist
<1>2. Steps(p, s, l, g, Len(l))
    BY <1>1 DEF Steps
<1>3. Loop(p, s, l) = g[Len(l)]
    BY DEF Loop
<1> HIDE DEF g
<1> DEFINE S == {n \in Nat : n <= Len(l) => Holds(p, n, g[n])}
<1>4. g[0] = s /\ \A n \in 1..Len(l) : g[n] = Step(p, g[n - 1], l[n])
    <2>1. 0 \in 0..Len(l) /\ \A n \in 1..Len(l) : n \in 0..Len(l) /\ n # 0
        OBVIOUS
    <2>2. \A n \in 0..Len(l) : g[n] = IF n = 0 THEN s ELSE Step(p, g[n - 1], l[n])
        BY <1>2, Zenon DEF Steps
    <2> QED
        BY <2>1, <2>2, Zenon
<1>5. 0 \in S
    BY <1>4
<1>6. ASSUME NEW n \in S PROVE n + 1 \in S
    <2>1. n \in Nat /\ n + 1 \in Nat
        BY <1>6
    <2>2. CASE n + 1 <= Len(l)
        <3>1. n + 1 \in 1..Len(l) /\ (n + 1) - 1 = n /\ Holds(p, n, g[n])
            BY <1>6, <2>1, <2>2
        <3>2. Holds(p, n + 1, Step(p, g[n], l[n + 1]))
            BY <3>1
        <3>3. g[n + 1] = Step(p, g[n], l[n + 1])
            BY <1>4, <3>1
        <3> QED
            BY <2>1, <3>2, <3>3
    <2> QED
        BY <2>1, <2>2
<1> HIDE DEF S
<1>7. \A n \in Nat : n \in S
    BY <1>5, <1>6, Induction DEF S
<1> QED
    BY <1>3, <1>7 DEF S

=============================================================================
