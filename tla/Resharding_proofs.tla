------------------------- MODULE Resharding_proofs -------------------------
(***************************************************************************)
(* Safety of moving a slot, for any number of masters, keys and clients,   *)
(* whichever of the two masters has the greater epoch, and however often   *)
(* MIGRATE fails.  The inductive invariant says, for every stage of        *)
(* redis-trib's move_slot, who can believe to own the slot, which flags    *)
(* are set at the two masters and which of them has the newest value of a  *)
(* key.                                                                    *)
(***************************************************************************)
EXTENDS Resharding, FiniteSetTheorems, WellFoundedInduction, TLAPS

Ends == {Source, Target}
Steps == {"importing", "migrating", "migrate", "node"}
TribState == [step : Steps, tell : SUBSET Node, exited : BOOLEAN, fix : BOOLEAN, again : SUBSET Key, errors : Nat]
ClientState == [busy : BOOLEAN, keys : SUBSET Key, write : BOOLEAN, at : Ends, asking : BOOLEAN]

Types ==
    /\ owner \in [Node -> Ends]
    /\ epoch \in [Node -> [Node -> Nat]]
    /\ current \in [Node -> Nat]
    /\ migrating \in [Node -> Ends \cup {NoOne}]
    /\ importing \in [Node -> Ends \cup {NoOne}]
    /\ data \in [Node -> [Key -> 0..MaxWrites]]
    /\ trib \in TribState
    /\ client \in [Client -> ClientState]
    /\ last \in [Key -> 0..MaxWrites]
    /\ mixed \subseteq Key

\* Who believes to own the slot, and which flags are set.
Ownership ==
    /\ trib.step # "node" => trib.tell = Node /\ owner = [n \in Node |-> Source]
    /\ owner[Target] = Target => trib.step = "node" /\ Target \notin trib.tell
    /\ \A n \in Node \ {Source} : migrating[n] = NoOne
    /\ \A n \in Node \ {Target} : importing[n] = NoOne
    /\ migrating[Source] # NoOne =>
        migrating[Source] = Target /\ trib.step \in {"migrate", "node"}
    /\ trib.step \in {"migrate", "node"} /\ owner[Source] = Source => migrating[Source] = Target
    /\ importing[Target] # NoOne => owner[Target] # Target
    /\ trib.step # "importing" /\ Target \in trib.tell => importing[Target] # NoOne

\* Only the target's epoch changes, nobody knows an epoch above its current
\* one, and the target, when it owns the slot, has a greater epoch than the
\* source.
Epochs ==
    /\ \A n \in Node : \A x \in Node \ {Target} : epoch[n][x] = x
    /\ \A n, x \in Node : epoch[n][x] <= current[n]
    /\ \A n, x \in Node : current[n] >= x
    /\ Target \in trib.tell => epoch[Target][Target] = Target
    /\ owner[Target] = Target => epoch[Target][Target] > Source

\* Where the keys are, and where their newest value is.
Newest(k) == IF data[Source][k] # 0 THEN data[Source][k] = last[k] ELSE data[Target][k] = last[k]

Keys ==
    /\ \A n \in Node \ Ends, k \in Key : data[n][k] = 0
    /\ trib.step \in {"importing", "migrating"} => \A k \in Key : data[Target][k] = 0
    /\ trib.step = "node" => \A k \in Key : data[Source][k] = 0
    /\ \A k \in Key \ mixed : Newest(k)

\* A client asks only the target, for keys of which one has left the source.
Clients ==
    \A c \in Client : client[c].asking =>
        /\ client[c].busy /\ client[c].at = Target
        /\ trib.step \in {"migrate", "node"}
        /\ \E k \in client[c].keys : data[Source][k] = 0

IInv == Types /\ Ownership /\ Epochs /\ Keys /\ Clients

-----------------------------------------------------------------------------
(* A finite set of numbers that is not empty has a greatest element, and   *)
(* Max is that element: a least subset without one would lose one element  *)
(* and still have none.                                                    *)
LEMMA MaxIsGreatest ==
    ASSUME NEW S \in SUBSET Nat, IsFiniteSet(S), S # {}
    PROVE  Max(S) \in S /\ \A y \in S : Max(S) >= y
<1> DEFINE HasGreatest(T) == \E x \in T : \A y \in T : x >= y
           Without == {T \in FiniteSubsetsOf(S) : T # {} /\ ~HasGreatest(T)}
<1>1. HasGreatest(S)
    <2>1. SUFFICES ASSUME ~HasGreatest(S) PROVE FALSE
        OBVIOUS
    <2>2. S \in Without
        BY <2>1 DEF FiniteSubsetsOf
    <2>3. PICK T \in Without : \A U \in Without : ~(<<U, T>> \in StrictSubsetOrdering(S))
        <3> HIDE DEF Without
        <3>1. IsWellFoundedOn(StrictSubsetOrdering(S), FiniteSubsetsOf(S))
            BY FS_StrictSubsetOrderingWellFounded
        <3>2. Without \subseteq FiniteSubsetsOf(S) /\ Without # {}
            BY <2>2 DEF Without
        <3> QED
            BY <3>1, <3>2, WFMin
    <2>4. PICK x \in T : TRUE
        BY <2>3
    <2>5. T \in SUBSET S /\ IsFiniteSet(T) /\ x \in Nat
        BY <2>3, <2>4 DEF FiniteSubsetsOf
    <2>6. T \ {x} \in FiniteSubsetsOf(S) /\ T \ {x} # T
        BY <2>4, <2>5, FS_RemoveElement DEF FiniteSubsetsOf
    <2>7. T \ {x} \notin Without
        BY <2>3, <2>4, <2>5, <2>6 DEF StrictSubsetOrdering
    <2>8. CASE T \ {x} = {}
        <3>1. \A y \in T : y = x
            BY <2>8
        <3> QED
            BY <2>3, <2>4, <2>5, <3>1
    <2>9. CASE T \ {x} # {}
        <3>1. PICK z \in T \ {x} : \A y \in T \ {x} : z >= y
            BY <2>6, <2>7, <2>9
        <3>2. z \in Nat
            BY <2>5, <3>1
        <3>3. IF z >= x THEN \A y \in T : z >= y ELSE \A y \in T : x >= y
            BY <2>5, <3>1, <3>2
        <3> QED
            BY <2>3, <2>4, <3>1, <3>3
    <2> QED
        BY <2>8, <2>9
<1> QED
    BY <1>1 DEF Max

(* The number of the next write is a number. *)
LEMMA WritesType == ASSUME Types PROVE Writes \in Nat \ {0}
<1> DEFINE S == {last[k] : k \in Key} \cup {1}
<1>1. S \in SUBSET Nat /\ 1 \in S /\ \A s \in S : s <= MaxWrites
    BY ReshardingAssumption DEF Types
<1>2. IsFiniteSet(S)
    BY <1>1, ReshardingAssumption, FS_BoundedSetOfNaturals
<1>3. Max(S) \in S /\ Max(S) >= 1
    BY <1>1, <1>2, MaxIsGreatest
<1> QED
    BY <1>1, <1>3 DEF Writes

(* The initial state satisfies the inductive invariant. *)
LEMMA InitInv == Init => IInv
<1> SUFFICES ASSUME Init PROVE IInv
    OBVIOUS
<1> USE ReshardingAssumption
<1>1. Max(Node) \in Node /\ \A x \in Node : Max(Node) >= x
    BY MaxIsGreatest
<1>2. PICK ks \in SUBSET Key :
        data = [n \in Node |-> [k \in Key |-> IF n = Source /\ k \in ks THEN 1 ELSE 0]]
    BY DEF Init
<1>3. data \in [Node -> [Key -> 0..MaxWrites]] /\ last = data[Source] /\ last \in [Key -> 0..MaxWrites]
    BY <1>2 DEF Init
<1>4. Types
    <2>1. client \in [Client -> ClientState]
        BY DEF Init, Idle, ClientState, Ends
    <2>2. epoch \in [Node -> [Node -> Nat]] /\ current \in [Node -> Nat]
        BY <1>1 DEF Init
    <2>3. trib \in TribState
        BY DEF Init, Steps, TribState
    <2> QED
        BY <1>3, <2>1, <2>2, <2>3 DEF Init, Types, Ends
<1>5. Ownership
    BY DEF Init, Ownership, NoOne
<1>6. Epochs
    BY <1>1 DEF Init, Epochs
<1>7. Keys
    BY <1>2, <1>3 DEF Init, Keys, Ends, Newest
<1>8. Clients
    BY DEF Init, Clients, Idle
<1> QED
    BY <1>4, <1>5, <1>6, <1>7, <1>8 DEF IInv

-----------------------------------------------------------------------------
(* A set of keys with two elements has more than one element. *)
LEMMA TwoKeys ==
    ASSUME NEW ks \in SUBSET Key, NEW j \in ks, NEW k \in ks, j # k
    PROVE  Cardinality(ks) > 1
<1>1. IsFiniteSet(ks) /\ Cardinality(ks) \in Nat
    BY ReshardingAssumption, FS_Subset, FS_CardinalityType
<1>2. IsFiniteSet(ks \ {j}) /\ Cardinality(ks \ {j}) = Cardinality(ks) - 1
    BY <1>1, FS_RemoveElement
<1>3. Cardinality(ks \ {j}) # 0
    BY <1>2, FS_EmptySet
<1> QED
    BY <1>1, <1>2, <1>3, FS_CardinalityType

(* Where getNodeByQuery sends a request: it asks the target only about a   *)
(* key that has left the source, and it lets a request be served only at   *)
(* the source while all keys are there, or at the target.                  *)
LEMMA Routing ==
    ASSUME IInv, NEW c \in Client, client[c].busy
    PROVE  LET q == client[c]
               r == getNodeByQuery(q.at, q.keys, q.asking)
           IN  /\ q.at \in Ends /\ r.node \in Ends
               /\ r.code \in {"ASK", "UNSTABLE", "NONE", "MOVED"}
               /\ r.code = "ASK" =>
                    /\ r.node = Target /\ trib.step \in {"migrate", "node"}
                    /\ \E k \in q.keys : data[Source][k] = 0
               /\ r.code = "UNSTABLE" => q.asking /\ r.node = q.at
               /\ r.code = "NONE" =>
                    \/ /\ q.at = Source /\ owner[Source] = Source /\ ~q.asking
                       /\ \/ trib.step \in {"importing", "migrating"}
                          \/ \A k \in q.keys : data[Source][k] # 0
                    \/ /\ q.at = Target /\ trib.step \in {"migrate", "node"}
                       /\ \A k \in q.keys :
                            \/ data[Source][k] = 0
                            \/ k \in copied /\ Cardinality(q.keys) > 1
<1> DEFINE q == client[c]
           r == getNodeByQuery(q.at, q.keys, q.asking)
<1> USE ReshardingAssumption
<1>1. /\ q.at \in Ends /\ q.keys \in SUBSET Key /\ q.asking \in BOOLEAN
      /\ owner \in [Node -> Ends] /\ Ends \subseteq Node
    BY DEF IInv, Types, ClientState, Ends
<1>2. q.asking => /\ q.at = Target /\ trib.step \in {"migrate", "node"}
                  /\ \E k \in q.keys : data[Source][k] = 0
    BY DEF IInv, Clients
<1>3. CASE q.at = Source
    <2>1. importing[Source] = NoOne /\ ~q.asking /\ Source \in Node
        BY <1>2, <1>3 DEF IInv, Ownership
    <2>2. migrating[Source] # NoOne => migrating[Source] = Target /\ trib.step \in {"migrate", "node"}
        BY DEF IInv, Ownership
    <2>3. owner[Source] = Source /\ migrating[Source] = NoOne => trib.step \in {"importing", "migrating"}
        BY DEF IInv, Ownership, Types, TribState, Steps, NoOne
    <2>4. owner[Source] \in Ends /\ Target \in Ends
        BY <1>1, <2>1 DEF Ends
    <2> QED
        BY <1>1, <1>3, <2>1, <2>2, <2>3, <2>4 DEF getNodeByQuery
<1>4. CASE q.at = Target
    <2>1. migrating[Target] = NoOne
        BY DEF IInv, Ownership
    <2>2. importing[Target] # NoOne => owner[Target] # Target
        BY DEF IInv, Ownership
    <2>3. owner[Target] = Target => trib.step = "node"
        BY DEF IInv, Ownership
    <2>4. trib.step = "node" => \A k \in q.keys : data[Source][k] = 0
        BY <1>1 DEF IInv, Keys
    <2>5. owner[Target] \in Ends /\ Target \in Ends
        BY <1>1 DEF Ends
    <2>6. ASSUME q.asking, ~(Cardinality(q.keys) > 1 /\ \E k \in q.keys : data[Target][k] = 0),
                 NEW k \in q.keys
          PROVE  data[Source][k] = 0 \/ (k \in copied /\ Cardinality(q.keys) > 1)
        <3>1. PICK j \in q.keys : data[Source][j] = 0
            BY <1>2, <2>6
        <3>2. CASE j # k
            <4>1. Cardinality(q.keys) > 1 /\ data[Target][k] # 0
                BY <1>1, <2>6, <3>1, <3>2, TwoKeys
            <4> QED
                BY <1>1, <2>6, <4>1 DEF copied
        <3> QED
            BY <3>1, <3>2
    <2>7. r = IF importing[Target] # NoOne /\ q.asking
              THEN IF Cardinality(q.keys) > 1 /\ \E k \in q.keys : data[Target][k] = 0
                   THEN [node |-> Target, code |-> "UNSTABLE"]
                   ELSE [node |-> Target, code |-> "NONE"]
              ELSE [node |-> owner[Target], code |-> IF owner[Target] = Target THEN "NONE" ELSE "MOVED"]
        BY <1>4, <2>1 DEF getNodeByQuery
    <2> QED
        BY <1>1, <1>2, <1>4, <2>2, <2>3, <2>4, <2>5, <2>6, <2>7
<1> QED
    BY <1>1, <1>3, <1>4 DEF Ends

-----------------------------------------------------------------------------
(* The invariant is kept by the steps of clients. *)

LEMMA RequestInv ==
    ASSUME IInv, NEW c \in Client, NEW ks \in SUBSET Key, NEW write \in BOOLEAN, Request(c, ks, write)
    PROVE  IInv'
<1>1. UNCHANGED <<owner, epoch, current, migrating, importing, data, trib, last, mixed>>
    BY DEF Request, cluster
<1>2. client' = [client EXCEPT ![c] = [client[c] EXCEPT !.busy = TRUE, !.keys = ks, !.write = write]]
    BY DEF Request
<1>3. ~client[c].asking /\ client \in [Client -> ClientState]
    BY DEF Request, IInv, Clients, Types
<1>4. client' \in [Client -> ClientState]
    BY <1>2, <1>3 DEF ClientState
<1>5. \A d \in Client : client'[d].asking => d # c /\ client'[d] = client[d]
    BY <1>2, <1>3 DEF ClientState
<1>6. Types' /\ Ownership' /\ Epochs' /\ Keys'
    BY <1>1, <1>4 DEF IInv, Types, Ownership, Epochs, Keys, Newest
<1>7. Clients'
    BY <1>1, <1>5 DEF IInv, Clients
<1> QED
    BY <1>6, <1>7 DEF IInv

LEMMA RedirectInv ==
    ASSUME IInv, NEW c \in Client, clusterRedirectClient(c)
    PROVE  IInv'
<1> DEFINE q == client[c]
           r == getNodeByQuery(q.at, q.keys, q.asking)
<1>1. UNCHANGED <<owner, epoch, current, migrating, importing, data, trib, last, mixed>>
    BY DEF clusterRedirectClient, cluster
<1>2. /\ q.busy /\ client \in [Client -> ClientState]
      /\ client' = [client EXCEPT ![c].at = r.node, ![c].asking = r.code \in {"ASK", "UNSTABLE"}]
    BY DEF clusterRedirectClient, IInv, Types
<1>3. /\ r.node \in Ends
      /\ r.code = "ASK" =>
            /\ r.node = Target /\ trib.step \in {"migrate", "node"}
            /\ \E k \in q.keys : data[Source][k] = 0
      /\ r.code = "UNSTABLE" => q.asking /\ r.node = q.at
    BY <1>2, Routing
<1> HIDE DEF r
<1>4. client' \in [Client -> ClientState]
    <2>1. ASSUME NEW b \in BOOLEAN
          PROVE  [client EXCEPT ![c].at = r.node, ![c].asking = b] \in [Client -> ClientState]
        BY <1>2, <1>3 DEF ClientState
    <2>2. (r.code \in {"ASK", "UNSTABLE"}) \in BOOLEAN
        OBVIOUS
    <2> QED
        BY <1>2, <2>1, <2>2
<1>5. /\ client'[c].at = r.node /\ client'[c].asking = (r.code \in {"ASK", "UNSTABLE"})
      /\ client'[c].busy /\ client'[c].keys = q.keys
      /\ \A d \in Client \ {c} : client'[d] = client[d]
    BY <1>2, <1>3 DEF ClientState
<1>6. Types' /\ Ownership' /\ Epochs' /\ Keys'
    BY <1>1, <1>4 DEF IInv, Types, Ownership, Epochs, Keys, Newest
<1>7. Clients'
    <2>1. ASSUME NEW d \in Client, client'[d].asking
          PROVE  /\ client'[d].busy /\ client'[d].at = Target
                 /\ trib.step \in {"migrate", "node"}
                 /\ \E k \in client'[d].keys : data[Source][k] = 0
        <3>1. CASE d # c
            BY <1>5, <2>1, <3>1 DEF IInv, Clients
        <3>2. CASE d = c /\ r.code = "ASK"
            BY <1>3, <1>5, <3>2
        <3>3. CASE d = c /\ r.code = "UNSTABLE"
            BY <1>3, <1>5, <3>3 DEF IInv, Clients
        <3> QED
            BY <1>5, <2>1, <3>1, <3>2, <3>3
    <2> QED
        BY <1>1, <2>1 DEF Clients
<1> QED
    BY <1>6, <1>7 DEF IInv

LEMMA ServeInv ==
    ASSUME IInv, NEW c \in Client, Serve(c)
    PROVE  IInv'
<1> DEFINE q == client[c]
           n == q.at
<1> USE ReshardingAssumption
<1>1. UNCHANGED <<owner, epoch, current, migrating, importing, trib>>
    BY DEF Serve, cluster
<1>2. /\ q.busy /\ client \in [Client -> ClientState]
      /\ getNodeByQuery(n, q.keys, q.asking).code = "NONE"
      /\ client' = [client EXCEPT ![c] = [Idle EXCEPT !.at = n]]
      /\ mixed' = IF n = Target THEN mixed \cup (q.keys \cap copied) ELSE mixed
    BY DEF Serve, IInv, Types
<1>3. \/ /\ n = Source
         /\ \/ trib.step \in {"importing", "migrating"}
            \/ \A k \in q.keys : data[Source][k] # 0
         /\ owner[Source] = Source
      \/ /\ n = Target /\ trib.step \in {"migrate", "node"}
         /\ \A k \in q.keys : data[Source][k] = 0 \/ k \in copied
    BY <1>2, Routing
<1>4. PICK w \in 1..MaxWrites :
        \/ UNCHANGED <<data, last>>
        \/ /\ data' = [data EXCEPT ![n] = [k \in Key |-> IF k \in q.keys THEN w ELSE @[k]]]
           /\ last' = [k \in Key |-> IF k \in q.keys THEN w ELSE last[k]]
    <2>1. Writes \in Nat \ {0}
        BY WritesType DEF IInv
    <2>2. CASE q.write /\ Writes < MaxWrites
        <3>1. Writes + 1 \in 1..MaxWrites
            BY <2>1, <2>2
        <3> QED
            BY <2>2, <3>1 DEF Serve
    <2>3. CASE ~(q.write /\ Writes < MaxWrites)
        <3>1. 1 \in 1..MaxWrites /\ UNCHANGED <<data, last>>
            BY <2>3 DEF Serve
        <3> QED
            BY <3>1
    <2> QED
        BY <2>2, <2>3
<1>5. q.keys \in SUBSET Key /\ n \in Ends /\ Ends \subseteq Node
    BY <1>2 DEF ClientState, Ends
<1>6. client' \in [Client -> ClientState]
    BY <1>2, <1>5 DEF ClientState, Idle, Ends
<1>7. \A d \in Client : client'[d].asking => d # c /\ client'[d] = client[d]
    BY <1>2 DEF ClientState, Idle
<1> HIDE DEF q
<1>8. /\ data \in [Node -> [Key -> 0..MaxWrites]] /\ last \in [Key -> 0..MaxWrites]
      /\ copied \subseteq Key /\ mixed \subseteq Key
    BY DEF IInv, Types, copied
<1>9. data' \in [Node -> [Key -> 0..MaxWrites]] /\ last' \in [Key -> 0..MaxWrites]
    BY <1>4, <1>5, <1>8
<1>10. \/ UNCHANGED <<data, last>>
       \/ /\ \A k \in q.keys : data'[n][k] = w /\ last'[k] = w
          /\ \A k \in Key \ q.keys : data'[n][k] = data[n][k] /\ last'[k] = last[k]
          /\ \A m \in Node \ {n} : data'[m] = data[m]
    <2>1. n \in Node /\ \A k \in q.keys : k \in Key
        BY <1>5
    <2>2. CASE /\ data' = [data EXCEPT ![n] = [k \in Key |-> IF k \in q.keys THEN w ELSE @[k]]]
               /\ last' = [k \in Key |-> IF k \in q.keys THEN w ELSE last[k]]
        <3>1. data'[n] = [k \in Key |-> IF k \in q.keys THEN w ELSE data[n][k]]
            BY <1>8, <2>1, <2>2
        <3>2. \A m \in Node \ {n} : data'[m] = data[m]
            BY <1>8, <2>1, <2>2
        <3> QED
            BY <2>1, <2>2, <3>1, <3>2
    <2> QED
        BY <1>4, <2>2
<1>11. Types'
    BY <1>1, <1>2, <1>6, <1>8, <1>9 DEF IInv, Types
<1>12. Ownership' /\ Epochs'
    BY <1>1 DEF IInv, Ownership, Epochs
<1>13. /\ Source \in Node /\ Target \in Node /\ Source # Target /\ w # 0
       /\ trib.step \in {"importing", "migrating"} => trib.step \notin {"migrate", "node"}
       /\ copied = {k \in Key : data[Source][k] # 0 /\ data[Target][k] # 0}
    BY DEF copied
<1>14. Keys'
    <2>1. (\A m \in Node \ Ends, k \in Key : data[m][k] = 0)'
        BY <1>1, <1>5, <1>10 DEF IInv, Keys
    <2>2. (trib.step \in {"importing", "migrating"} => \A k \in Key : data[Target][k] = 0)'
        BY <1>1, <1>3, <1>10, <1>13 DEF IInv, Keys
    <2>3. (trib.step = "node" => \A k \in Key : data[Source][k] = 0)'
        <3>1. CASE n = Source /\ trib.step = "node"
            <4>1. q.keys = {}
                BY <1>3, <1>5, <1>13, <3>1 DEF IInv, Keys
            <4> QED
                BY <1>1, <1>10, <1>13, <3>1, <4>1 DEF IInv, Keys
        <3> QED
            BY <1>1, <1>3, <1>10, <1>13, <3>1 DEF IInv, Keys
    <2>4. \A k \in Key : k \notin mixed' => Newest(k)'
        <3> TAKE k \in Key
        <3>1. k \notin mixed => Newest(k)
            BY DEF IInv, Keys
        <3>2. CASE n = Source
            <4>1. k \in q.keys => data[Source][k] # 0 \/ data[Target][k] = 0
                BY <1>3, <1>13, <3>2 DEF IInv, Keys
            <4> QED
                BY <1>2, <1>10, <1>13, <3>1, <3>2, <4>1 DEF Newest
        <3>3. CASE n = Target
            <4>1. k \in q.keys => data[Source][k] = 0 \/ k \in copied
                BY <1>3, <1>13, <3>3
            <4> QED
                BY <1>2, <1>10, <1>13, <3>1, <3>3, <4>1 DEF Newest
        <3> QED
            BY <1>5, <3>2, <3>3 DEF Ends
    <2> QED
        BY <1>1, <1>8, <2>1, <2>2, <2>3, <2>4 DEF Keys
<1>15. Clients'
    <2>1. ASSUME NEW k \in Key, data[Source][k] = 0, trib.step \in {"migrate", "node"}
          PROVE  data'[Source][k] = 0
        BY <1>3, <1>10, <1>13, <2>1
    <2>2. \A d \in Client : client[d].keys \in SUBSET Key
        BY <1>2 DEF ClientState
    <2> QED
        BY <1>1, <1>7, <2>1, <2>2 DEF IInv, Clients
<1> QED
    BY <1>11, <1>12, <1>14, <1>15 DEF IInv

-----------------------------------------------------------------------------
(* The invariant is kept by the steps of redis-trib. *)

LEMMA SetSlotFlagsInv ==
    ASSUME IInv, SetSlotImporting \/ SetSlotMigrating \/ NoKeysLeft
    PROVE  IInv'
<1> USE ReshardingAssumption DEF NoOne
<1>1. /\ trib \in TribState
      /\ importing \in [Node -> Ends \cup {NoOne}] /\ migrating \in [Node -> Ends \cup {NoOne}]
      /\ owner \in [Node -> Ends]
    BY DEF IInv, Types
<1>2. CASE SetSlotImporting
    <2>1. /\ UNCHANGED <<owner, epoch, current, migrating, data, client, last, mixed>>
          /\ importing' = [importing EXCEPT ![Target] = Source]
          /\ trib' = [trib EXCEPT !.step = "migrating"] /\ trib.step = "importing"
        BY <1>2 DEF SetSlotImporting
    <2>2. trib'.step = "migrating" /\ trib'.tell = trib.tell
        BY <1>1, <2>1
    <2>3. Types'
        BY <1>1, <2>1 DEF IInv, Types, TribState, Steps, Ends
    <2>4. Ownership'
        BY <1>1, <2>1, <2>2 DEF IInv, Ownership, Ends
    <2>5. Epochs'
        BY <2>1, <2>2 DEF IInv, Epochs
    <2>6. Keys'
        BY <2>1, <2>2 DEF IInv, Keys, Newest
    <2>7. Clients'
        BY <2>1, <2>2 DEF IInv, Clients
    <2> QED
        BY <2>3, <2>4, <2>5, <2>6, <2>7 DEF IInv
<1>3. CASE SetSlotMigrating
    <2>1. /\ UNCHANGED <<owner, epoch, current, importing, data, client, last, mixed>>
          /\ migrating' = [migrating EXCEPT ![Source] = Target]
          /\ trib' = [trib EXCEPT !.step = "migrate"] /\ trib.step = "migrating"
        BY <1>3 DEF SetSlotMigrating
    <2>2. trib'.step = "migrate" /\ trib'.tell = trib.tell
        BY <1>1, <2>1
    <2>3. Types'
        BY <1>1, <2>1 DEF IInv, Types, TribState, Steps, Ends
    <2>4. Ownership'
        BY <1>1, <2>1, <2>2 DEF IInv, Ownership, Ends
    <2>5. Epochs'
        BY <2>1, <2>2 DEF IInv, Epochs
    <2>6. Keys'
        BY <2>1, <2>2 DEF IInv, Keys, Newest
    <2>7. Clients'
        BY <2>1, <2>2 DEF IInv, Clients
    <2> QED
        BY <2>3, <2>4, <2>5, <2>6, <2>7 DEF IInv
<1>4. CASE NoKeysLeft
    <2>1. /\ UNCHANGED <<owner, epoch, current, migrating, importing, data, client, last, mixed>>
          /\ \A k \in Key : data[Source][k] = 0
          /\ trib' = [trib EXCEPT !.step = "node"] /\ trib.step = "migrate"
        BY <1>4 DEF NoKeysLeft, getKeysInSlot, cluster
    <2>2. trib'.step = "node" /\ trib'.tell = trib.tell
        BY <1>1, <2>1
    <2>3. Types'
        BY <1>1, <2>1 DEF IInv, Types, TribState, Steps, Ends
    <2>4. Ownership'
        BY <1>1, <2>1, <2>2 DEF IInv, Ownership, Ends
    <2>5. Epochs'
        BY <2>1, <2>2 DEF IInv, Epochs
    <2>6. Keys'
        BY <2>1, <2>2 DEF IInv, Keys, Newest
    <2>7. Clients'
        BY <2>1, <2>2 DEF IInv, Clients
    <2> QED
        BY <2>3, <2>4, <2>5, <2>6, <2>7 DEF IInv
<1> QED
    BY <1>2, <1>3, <1>4

(* One attempt to migrate keys that are at the source: a key is deleted    *)
(* there only when the target has its value, and the target only gets      *)
(* values that the source has.                                             *)
Attempted(d, e) ==
    /\ e \in [Node -> [Key -> 0..MaxWrites]]
    /\ \A n \in Node \ Ends : e[n] = d[n]
    /\ \A k \in Key :
        \/ e[Source][k] = d[Source][k] /\ e[Target][k] = d[Target][k]
        \/ d[Source][k] # 0 /\ e[Source][k] \in {0, d[Source][k]} /\ e[Target][k] = d[Source][k]

SameSource(d, e) == \A k \in Key : e[Source][k] = d[Source][k]

LEMMA AttemptKeeps ==
    ASSUME NEW d \in [Node -> [Key -> 0..MaxWrites]], NEW replace \in BOOLEAN,
           NEW reached \in SUBSET Key, NEW answered \in SUBSET Key,
           \A k \in reached : d[Source][k] # 0
    PROVE  /\ Attempted(d, MigrateOutcome(d, reached, answered, replace))
           /\ answered = {} => SameSource(d, MigrateOutcome(d, reached, answered, replace))
<1> DEFINE stored == {k \in reached : restoreCommand(d, k, replace)}
           t == [k \in Key |-> IF k \in stored THEN d[Source][k] ELSE d[Target][k]]
           s == [k \in Key |-> IF k \in stored \cap answered THEN 0 ELSE d[Source][k]]
           e == MigrateOutcome(d, reached, answered, replace)
<1> USE ReshardingAssumption
<1>1. e = [d EXCEPT ![Target] = t, ![Source] = s]
    BY DEF MigrateOutcome
<1>2. stored \subseteq reached
    OBVIOUS
<1> HIDE DEF stored, e
<1>3. t \in [Key -> 0..MaxWrites] /\ s \in [Key -> 0..MaxWrites]
    <2>1. d[Source] \in [Key -> 0..MaxWrites] /\ d[Target] \in [Key -> 0..MaxWrites]
        OBVIOUS
    <2>2. 0 \in 0..MaxWrites
        OBVIOUS
    <2> QED
        BY <2>1, <2>2
<1>4. /\ \A k \in Key : t[k] = IF k \in stored THEN d[Source][k] ELSE d[Target][k]
      /\ \A k \in Key : s[k] = IF k \in stored \cap answered THEN 0 ELSE d[Source][k]
    OBVIOUS
<1> HIDE DEF t, s
<1>5. /\ e[Target] = t /\ e[Source] = s /\ \A n \in Node \ Ends : e[n] = d[n]
      /\ e \in [Node -> [Key -> 0..MaxWrites]]
    BY <1>1, <1>3 DEF Ends
<1>6. ASSUME NEW k \in Key
      PROVE  \/ e[Source][k] = d[Source][k] /\ e[Target][k] = d[Target][k]
             \/ d[Source][k] # 0 /\ e[Source][k] \in {0, d[Source][k]} /\ e[Target][k] = d[Source][k]
    BY <1>2, <1>4, <1>5
<1>7. answered = {} => \A k \in Key : e[Source][k] = d[Source][k]
    BY <1>4, <1>5
<1> QED
    BY <1>5, <1>6, <1>7 DEF e, Attempted, SameSource

(* A MIGRATE keeps the invariant, whichever attempt fails and whatever     *)
(* redis-trib does about it.                                               *)
LEMMA MigrateInv ==
    ASSUME IInv, Migrate
    PROVE  IInv'
<1> USE ReshardingAssumption
<1>1. PICK ks \in SUBSET getKeysInSlot(Source) : \E first, reached \in SUBSET ks : \E answered \in SUBSET reached :
        migrateCommand(ks, first, reached, answered)
    BY DEF Migrate
<1>2. PICK first \in SUBSET ks, reached \in SUBSET ks : \E answered \in SUBSET reached :
        migrateCommand(ks, first, reached, answered)
    BY <1>1
<1>3. PICK answered \in SUBSET reached : migrateCommand(ks, first, reached, answered)
    BY <1>2
<1> DEFINE replace == trib.again # {}
           tried == MigrateOutcome(data, first, {}, replace)
           done == MigrateOutcome(tried, reached, answered, replace)
<1>4. UNCHANGED <<owner, epoch, current, migrating, importing, client, last, mixed>>
    BY <1>3 DEF migrateCommand, cluster
<1>5. ks \in SUBSET Key /\ \A k \in ks : data[Source][k] # 0
    BY DEF getKeysInSlot
<1>6. data \in [Node -> [Key -> 0..MaxWrites]] /\ trib \in TribState
    BY DEF IInv, Types
<1>7. trib.step = "migrate" /\ data' = done
    BY <1>3 DEF migrateCommand
<1>8. /\ trib' \in TribState
      /\ trib'.step = "migrate" /\ trib'.tell = trib.tell
    <2>1. PICK x \in BOOLEAN, ag \in SUBSET Key, er \in Nat :
            trib' = [trib EXCEPT !.exited = x, !.again = ag, !.errors = er]
        <3> DEFINE busykey == \E k \in answered : ~restoreCommand(tried, k, replace)
                   ioerr == answered # ks
                   again == busykey /\ trib.fix
                   x == (ioerr \/ busykey) /\ ~again
                   ag == IF again THEN ks ELSE {}
                   er == IF ioerr \/ first # {} THEN trib.errors + 1 ELSE trib.errors
        <3>1. trib' = [trib EXCEPT !.exited = x, !.again = ag, !.errors = er]
            BY <1>3 DEF migrateCommand
        <3>2. x \in BOOLEAN
            OBVIOUS
        <3>3. ag \in SUBSET Key
            BY <1>5
        <3>4. er \in Nat
            BY <1>6 DEF TribState
        <3> QED
            BY <3>1, <3>2, <3>3, <3>4
    <2> QED
        BY <1>6, <1>7, <2>1 DEF TribState
<1>9. replace \in BOOLEAN /\ first \in SUBSET Key /\ reached \in SUBSET Key /\ answered \in SUBSET Key
    BY <1>5
<1> HIDE DEF replace
<1>10. /\ tried \in [Node -> [Key -> 0..MaxWrites]]
       /\ \A n \in Node \ Ends : tried[n] = data[n]
       /\ \A k \in Key : tried[Source][k] = data[Source][k]
       /\ \A k \in Key : \/ tried[Target][k] = data[Target][k]
                         \/ data[Source][k] # 0
    <2>1. \A k \in first : data[Source][k] # 0
        BY <1>5
    <2> QED
        <3>1. {} \in SUBSET Key
            OBVIOUS
        <3>2. Attempted(data, tried) /\ SameSource(data, tried)
            BY <1>6, <1>9, <2>1, <3>1, AttemptKeeps
        <3> HIDE DEF tried
        <3> QED
            BY <3>2 DEF Attempted, SameSource
<1> HIDE DEF tried
<1>11. /\ done \in [Node -> [Key -> 0..MaxWrites]]
       /\ \A n \in Node \ Ends : done[n] = tried[n]
       /\ \A k \in Key :
            \/ done[Source][k] = tried[Source][k] /\ done[Target][k] = tried[Target][k]
            \/ tried[Source][k] # 0 /\ done[Source][k] \in {0, tried[Source][k]} /\ done[Target][k] = tried[Source][k]
    <2>1. \A k \in reached : tried[Source][k] # 0
        BY <1>5, <1>10
    <2> QED
        <3>1. Attempted(tried, done)
            BY <1>9, <1>10, <2>1, AttemptKeeps
        <3> HIDE DEF done
        <3> QED
            BY <3>1 DEF Attempted
<1> HIDE DEF done
<1>12. Types'
    BY <1>4, <1>7, <1>8, <1>11 DEF IInv, Types
<1>13. Ownership' /\ Epochs'
    BY <1>4, <1>7, <1>8 DEF IInv, Ownership, Epochs
<1>14. Keys'
    <2>1. (\A n \in Node \ Ends, k \in Key : data[n][k] = 0)'
        <3>1. \A n \in Node \ Ends : done[n] = data[n]
            BY <1>10, <1>11
        <3>2. \A n \in Node \ Ends, k \in Key : data[n][k] = 0
            BY DEF IInv, Keys
        <3>3. \A n \in Node \ Ends, k \in Key : data'[n][k] = 0
            BY <1>7, <3>1, <3>2
        <3> QED
            BY <3>3 DEF Ends
    <2>2. ASSUME NEW k \in Key, k \notin mixed PROVE Newest(k)'
        <3>1. Newest(k)
            BY <2>2 DEF IInv, Keys
        <3> QED
            BY <1>4, <1>7, <1>10, <1>11, <3>1 DEF Newest
    <2> QED
        BY <1>4, <1>8, <2>1, <2>2 DEF Keys
<1>15. Clients'
    <2>1. \A k \in Key : data[Source][k] = 0 => data'[Source][k] = 0
        BY <1>7, <1>10, <1>11
    <2>2. \A c \in Client : client[c].keys \in SUBSET Key
        BY DEF IInv, Types, ClientState
    <2> QED
        BY <1>4, <1>7, <1>8, <2>1, <2>2 DEF IInv, Clients
<1> QED
    BY <1>12, <1>13, <1>14, <1>15 DEF IInv

(* redis-trib fix changes only what redis-trib does next. *)
LEMMA FixInv == ASSUME IInv, fix_open_slot PROVE IInv'
<1>1. /\ UNCHANGED <<owner, epoch, current, migrating, importing, data, client, last, mixed>>
      /\ trib' = [trib EXCEPT !.exited = FALSE, !.fix = TRUE]
    BY DEF fix_open_slot, cluster
<1>2. trib' \in TribState /\ trib'.step = trib.step /\ trib'.tell = trib.tell
    BY <1>1 DEF IInv, Types, TribState
<1> QED
    BY <1>1, <1>2 DEF IInv, Types, Ownership, Epochs, Keys, Newest, Clients

(* Among numbers bounded by one of them, that one is the greatest. *)
LEMMA MaxIsBound ==
    ASSUME NEW S \in SUBSET Nat, NEW b \in S, \A y \in S : y <= b
    PROVE  Max(S) = b
<1>1. \E x \in S : \A y \in S : x >= y
    OBVIOUS
<1>2. Max(S) \in S /\ \A y \in S : Max(S) >= y
    BY <1>1 DEF Max
<1>3. Max(S) \in Nat /\ b \in Nat /\ Max(S) >= b /\ Max(S) <= b
    BY <1>2
<1> QED
    BY <1>3

(* The target ends with an epoch of its own that is greater than the       *)
(* source's, whether it has to take a new one or has the greatest already. *)
LEMMA SetSlotNodeInv ==
    ASSUME IInv, NEW n \in Node, SetSlotNode(n)
    PROVE  IInv'
<1> USE ReshardingAssumption
<1>1. UNCHANGED <<data, client, last, mixed>>
    BY DEF SetSlotNode
<1>2. /\ trib.step = "node" /\ n \in trib.tell
      /\ owner' = [owner EXCEPT ![n] = Target]
      /\ trib' = [trib EXCEPT !.tell = @ \ {n}]
      /\ migrating' = IF getKeysInSlot(n) = {} THEN [migrating EXCEPT ![n] = NoOne] ELSE migrating
    BY DEF SetSlotNode
<1>3. /\ owner \in [Node -> Ends] /\ migrating \in [Node -> Ends \cup {NoOne}]
      /\ importing \in [Node -> Ends \cup {NoOne}]
      /\ epoch \in [Node -> [Node -> Nat]] /\ current \in [Node -> Nat]
      /\ trib \in TribState
    BY DEF IInv, Types
<1>4. /\ trib'.step = "node" /\ trib'.tell = trib.tell \ {n}
      /\ trib' \in TribState
    BY <1>2, <1>3 DEF TribState
<1>5. /\ owner' \in [Node -> Ends] /\ migrating' \in [Node -> Ends \cup {NoOne}]
      /\ owner'[n] = Target /\ \A m \in Node \ {n} : owner'[m] = owner[m]
      /\ migrating'[n] \in {migrating[n], NoOne} /\ \A m \in Node \ {n} : migrating'[m] = migrating[m]
    BY <1>2, <1>3 DEF Ends
<1>6. CASE n = Target
    <2>1. importing[Target] # NoOne /\ epoch[Target][Target] = Target
        BY <1>2, <1>6 DEF IInv, Ownership, Epochs
    <2>2. importing' = [importing EXCEPT ![Target] = NoOne]
        BY <1>6, <2>1 DEF SetSlotNode
    <2>3. PICK e \in Nat :
            /\ e > Source /\ e >= Target
            /\ epoch' = [epoch EXCEPT ![Target][Target] = e]
            /\ current' = current \/ (current' = [current EXCEPT ![Target] = @ + 1] /\ e = current[Target] + 1)
            /\ e <= current'[Target]
        <3> DEFINE S == {epoch[Target][x] : x \in Node} \cup {current[Target]}
        <3>1. /\ S \in SUBSET Nat /\ current[Target] \in S /\ \A y \in S : y <= current[Target]
            <4>1. \A x \in Node : epoch[Target][x] <= current[Target]
                BY DEF IInv, Epochs
            <4>2. epoch[Target] \in [Node -> Nat] /\ current[Target] \in Nat
                BY <1>3
            <4>3. \A x \in Node : epoch[Target][x] \in Nat
                BY <4>2
            <4>4. ASSUME NEW y \in S PROVE y \in Nat /\ y <= current[Target]
                <5>1. CASE y = current[Target]
                    BY <4>2, <5>1
                <5>2. CASE \E x \in Node : y = epoch[Target][x]
                    BY <4>1, <4>3, <5>2
                <5> QED
                    BY <4>4, <5>1, <5>2, Zenon
            <4>5. current[Target] \in S
                OBVIOUS
            <4> HIDE DEF S
            <4> QED
                BY <4>4, <4>5, Zenon
        <3>0. /\ current[Target] \in Nat /\ Source \in Nat /\ Target \in Nat
              /\ current[Target] >= Source /\ current[Target] >= Target
            BY <1>3 DEF IInv, Epochs
        <3>2. Max(S) = current[Target]
            <4> HIDE DEF S
            <4> QED
                BY <3>1, MaxIsBound
        <3>3. CASE Bumped(Target)
            <4>1. /\ current' = [current EXCEPT ![Target] = @ + 1]
                  /\ epoch' = [epoch EXCEPT ![Target][Target] = current[Target] + 1]
                BY <1>6, <2>1, <3>3 DEF SetSlotNode
            <4>2. current'[Target] = current[Target] + 1
                BY <1>3, <4>1
            <4>3. /\ current[Target] + 1 \in Nat /\ current[Target] + 1 > Source
                  /\ current[Target] + 1 >= Target /\ current[Target] + 1 <= current'[Target]
                BY <3>0, <4>2
            <4> QED
                BY <4>1, <4>3
        <3>4. CASE ~Bumped(Target)
            <4>1. UNCHANGED <<current, epoch>>
                BY <1>6, <2>1, <3>4 DEF SetSlotNode
            <4>2. Target = current[Target]
                BY <2>1, <3>2, <3>4 DEF Bumped
            <4>3. epoch' = [epoch EXCEPT ![Target][Target] = Target]
                BY <1>3, <2>1, <4>1
            <4>4. Target > Source /\ Target >= Target /\ Target <= current'[Target]
                BY <3>0, <4>1, <4>2
            <4> QED
                BY <3>0, <4>1, <4>3, <4>4
        <3> QED
            BY <3>3, <3>4
    <2>4. /\ current' \in [Node -> Nat] /\ \A m \in Node : current'[m] >= current[m]
          /\ epoch' \in [Node -> [Node -> Nat]] /\ epoch'[Target][Target] = e
          /\ \A m, x \in Node : m # Target \/ x # Target => epoch'[m][x] = epoch[m][x]
        <3>1. current' \in [Node -> Nat] /\ \A m \in Node : current'[m] >= current[m]
            BY <1>3, <2>3
        <3>2. epoch' \in [Node -> [Node -> Nat]] /\ epoch'[Target][Target] = e
            BY <1>3, <2>3
        <3>3. \A m, x \in Node : m # Target \/ x # Target => epoch'[m][x] = epoch[m][x]
            BY <1>3, <2>3
        <3> QED
            BY <3>1, <3>2, <3>3
    <2>5. importing' \in [Node -> Ends \cup {NoOne}] /\ importing'[Target] = NoOne
          /\ \A m \in Node \ {Target} : importing'[m] = importing[m]
        BY <1>3, <2>2 DEF NoOne
    <2>6. Types'
        BY <1>1, <1>4, <1>5, <2>4, <2>5 DEF IInv, Types
    <2>7. Ownership'
        BY <1>2, <1>4, <1>5, <1>6, <2>5 DEF IInv, Ownership
    <2>8. Epochs'
        <3>1. (\A m \in Node : \A x \in Node \ {Target} : epoch[m][x] = x)'
            BY <2>4 DEF IInv, Epochs
        <3>2. ASSUME NEW m \in Node, NEW x \in Node
              PROVE  epoch'[m][x] <= current'[m] /\ current'[m] >= x
            <4>1. /\ epoch[m][x] <= current[m] /\ current[m] >= x /\ current'[m] >= current[m]
                  /\ epoch[m][x] \in Nat /\ current[m] \in Nat /\ current'[m] \in Nat /\ x \in Nat
                BY <1>3, <2>4 DEF IInv, Epochs
            <4> QED
                BY <2>3, <2>4, <4>1
        <3>3. Target \notin trib'.tell /\ epoch'[Target][Target] > Source
            BY <1>4, <1>6, <2>3, <2>4
        <3> QED
            BY <3>1, <3>2, <3>3 DEF Epochs
    <2>9. Keys' /\ Clients'
        BY <1>1, <1>2, <1>4 DEF IInv, Keys, Newest, Clients
    <2> QED
        BY <2>6, <2>7, <2>8, <2>9 DEF IInv
<1>7. CASE n # Target
    <2>1. UNCHANGED <<importing, current, epoch>>
        BY <1>7 DEF SetSlotNode
    <2>2. Types'
        BY <1>1, <1>3, <1>4, <1>5, <2>1 DEF IInv, Types
    <2>3. Ownership'
        <3>1. owner'[Source] = Source => n # Source /\ migrating'[Source] = migrating[Source]
            BY <1>5, <1>7
        <3>2. migrating'[Source] \in {migrating[Source], NoOne}
            BY <1>5
        <3>3. \A m \in Node \ {Source} : migrating'[m] = NoOne
            BY <1>5 DEF IInv, Ownership
        <3>4. owner'[Target] = owner[Target]
            BY <1>5, <1>7
        <3> QED
            BY <1>2, <1>4, <1>5, <1>7, <2>1, <3>1, <3>2, <3>3, <3>4 DEF IInv, Ownership
    <2>4. Epochs'
        BY <1>4, <1>5, <1>7, <2>1 DEF IInv, Epochs
    <2>5. Keys' /\ Clients'
        BY <1>1, <1>2, <1>4 DEF IInv, Keys, Newest, Clients
    <2> QED
        BY <2>2, <2>3, <2>4, <2>5 DEF IInv
<1> QED
    BY <1>6, <1>7

-----------------------------------------------------------------------------
(* The target never gives the slot away: the claim of the source comes    *)
(* with an older epoch.                                                    *)
LEMMA ClaimOnTargetRefused ==
    ASSUME IInv, NEW m \in Node, NEW n \in Node, m # n,
           owner[m] = m, owner[n] # m, ClaimAccepted(m, n)
    PROVE  n # Target
<1> SUFFICES ASSUME n = Target PROVE FALSE
    OBVIOUS
<1> USE ReshardingAssumption
<1>1. owner \in [Node -> Ends] /\ epoch \in [Node -> [Node -> Nat]]
    BY DEF IInv, Types
<1>2. m = Source /\ epoch[Target][owner[Target]] < epoch[Source][Source]
    BY <1>1 DEF ClaimAccepted, Ends
<1>3. owner[Target] = Target
    BY <1>1, <1>2 DEF Ends
<1>4. epoch[Target][Target] > Source /\ epoch[Source][Source] = Source
    BY <1>2, <1>3 DEF IInv, Epochs
<1>5. epoch[Target][Target] \in Nat /\ Source \in Nat
    BY <1>1
<1> QED
    BY <1>2, <1>3, <1>4, <1>5

(* The invariant is kept by pings: a claim of the source never takes the   *)
(* slot back from the target, and a claim of the target takes it from the  *)
(* source only when no key is left there.                                  *)
LEMMA PingInv ==
    ASSUME IInv, NEW m \in Node, NEW n \in Node, Ping(m, n)
    PROVE  IInv'
<1> DEFINE taken == owner[m] = m /\ owner[n] # m /\ ClaimAccepted(m, n)
<1> USE ReshardingAssumption
<1>1. UNCHANGED <<migrating, importing, trib, client, last, mixed>> /\ m # n
    BY DEF Ping
<1>2. /\ current' = [current EXCEPT ![n] = Max({current[n], current[m]})]
      /\ epoch' = [epoch EXCEPT ![n] = [epoch[n] EXCEPT ![m] = Max({epoch[n][m], epoch[m][m]})]]
      /\ owner' = IF taken THEN [owner EXCEPT ![n] = m] ELSE owner
      /\ data' = IF taken /\ owner[n] = n THEN [data EXCEPT ![n] = [k \in Key |-> 0]] ELSE data
    BY DEF Ping
<1>3. /\ owner \in [Node -> Ends] /\ data \in [Node -> [Key -> 0..MaxWrites]]
      /\ epoch \in [Node -> [Node -> Nat]] /\ current \in [Node -> Nat]
    BY DEF IInv, Types
<1>4. /\ \A x \in Node \ {Target} : epoch[m][x] = x /\ epoch[n][x] = x
      /\ \A x \in Node : epoch[n][x] <= current[n] /\ epoch[m][x] <= current[m]
      /\ \A x \in Node : current[n] >= x
    BY DEF IInv, Epochs
<1>5. ASSUME NEW i \in Nat, NEW j \in Nat
      PROVE  Max({i, j}) \in Nat /\ Max({i, j}) >= i /\ Max({i, j}) >= j /\ Max({i, j}) \in {i, j}
    <2>1. CASE i >= j
        BY <2>1, MaxIsBound
    <2>2. CASE j >= i
        BY <2>2, MaxIsBound
    <2> QED
        BY <2>1, <2>2
<1>6. PICK cur \in Nat : /\ current' = [current EXCEPT ![n] = cur]
                         /\ cur >= current[n] /\ cur >= current[m]
    BY <1>2, <1>3, <1>5
<1>7. PICK e \in Nat : /\ epoch' = [epoch EXCEPT ![n] = [epoch[n] EXCEPT ![m] = e]]
                       /\ e \in {epoch[n][m], epoch[m][m]}
    <2>1. epoch[n][m] \in Nat /\ epoch[m][m] \in Nat
        BY <1>3
    <2> QED
        BY <1>2, <1>5, <2>1
<1>8. /\ current' \in [Node -> Nat] /\ \A x \in Node : current'[x] >= current[x]
      /\ current'[n] >= current[m]
    BY <1>3, <1>6
<1>9. /\ epoch' \in [Node -> [Node -> Nat]] /\ epoch'[n][m] = e
      /\ \A i, x \in Node : i # n \/ x # m => epoch'[i][x] = epoch[i][x]
    BY <1>3, <1>7
<1>10. taken => m \in Ends /\ importing[n] = NoOne
    BY <1>3 DEF ClaimAccepted
<1>11. ~(taken /\ n = Target)
    BY <1>1, ClaimOnTargetRefused
<1>12. taken => /\ trib.step = "node"
                /\ n = Source => m = Target
    <2>1. taken => trib.step = "node"
        BY <1>1 DEF IInv, Ownership
    <2>2. taken /\ n = Source => m = Target
        BY <1>1, <1>10 DEF Ends
    <2> QED
        BY <2>1, <2>2
<1>13. data' = data
    <2>1. CASE taken /\ owner[n] = n
        <3>1. n = Source
            BY <1>3, <1>11, <2>1 DEF Ends
        <3>2. data[n] = [k \in Key |-> 0]
            BY <1>3, <1>12, <2>1, <3>1 DEF IInv, Keys
        <3> QED
            BY <1>2, <1>3, <2>1, <3>2
    <2> QED
        BY <1>2, <2>1
<1>14. /\ owner' \in [Node -> Ends] /\ owner'[Target] = owner[Target]
       /\ trib.step # "node" => owner' = owner
       /\ owner'[Source] = Source => owner[Source] = Source
    <2>1. CASE taken
        <3>1. owner' = [owner EXCEPT ![n] = m] /\ m \in Ends /\ n # Target
            BY <1>2, <1>10, <1>11, <2>1
        <3> QED
            BY <1>3, <1>12, <2>1, <3>1
    <2> QED
        BY <1>2, <1>3, <2>1
<1>15. Types'
    BY <1>1, <1>8, <1>9, <1>13, <1>14 DEF IInv, Types
<1>16. Ownership'
    BY <1>1, <1>14 DEF IInv, Ownership
<1>17. Epochs'
    <2>1. (\A i \in Node : \A x \in Node \ {Target} : epoch[i][x] = x)'
        BY <1>4, <1>7, <1>9 DEF IInv, Epochs
    <2>2. ASSUME NEW i \in Node, NEW x \in Node
          PROVE  epoch'[i][x] <= current'[i] /\ current'[i] >= x
        <3>1. /\ epoch[i][x] <= current[i] /\ current[i] >= x /\ current'[i] >= current[i]
              /\ epoch[i][x] \in Nat /\ current[i] \in Nat /\ current'[i] \in Nat /\ x \in Nat
              /\ epoch[m][m] <= current[m] /\ epoch[m][m] \in Nat /\ current[m] \in Nat
            BY <1>3, <1>8 DEF IInv, Epochs
        <3> QED
            BY <1>7, <1>8, <1>9, <3>1
    <2>3. epoch'[Target][Target] = epoch[Target][Target]
        BY <1>1, <1>9
    <2> QED
        BY <1>1, <1>14, <2>1, <2>2, <2>3 DEF IInv, Epochs
<1>18. Keys' /\ Clients'
    BY <1>1, <1>13 DEF IInv, Keys, Newest, Clients
<1> QED
    BY <1>15, <1>16, <1>17, <1>18 DEF IInv

-----------------------------------------------------------------------------
(* Every step keeps the invariant. *)
LEMMA NextInv == IInv /\ [Next]_vars => IInv'
<1> SUFFICES ASSUME IInv, [Next]_vars PROVE IInv'
    OBVIOUS
<1>1. CASE Next
    BY <1>1, RequestInv, RedirectInv, ServeInv, SetSlotFlagsInv, MigrateInv, FixInv, SetSlotNodeInv, PingInv DEF Next
<1>2. CASE UNCHANGED vars
    BY <1>2 DEF vars, IInv, Types, Ownership, Epochs, Keys, Newest, Clients
<1> QED
    BY <1>1, <1>2

THEOREM Invariance == Spec => []IInv
BY InitInv, NextInv, PTL DEF Spec

(* The states have their types, and no node knows of an epoch above its    *)
(* own current epoch.                                                      *)
THEOREM TypeCorrect == Spec => []TypeOK
<1>1. IInv => TypeOK
    BY ReshardingAssumption DEF IInv, Types, Epochs, TypeOK, Ends, ClientState, TribState, Steps
<1> QED
    BY <1>1, Invariance, PTL

(* Wherever getNodeByQuery lets a request be served, its keys have the     *)
(* value of the last write, for any number of masters, clients and keys.   *)
THEOREM ServedFromNewestHolds == Spec => []ServedFromNewest
<1>1. ASSUME IInv PROVE ServedFromNewest
    <2>1. SUFFICES ASSUME NEW c \in Client, client[c].busy,
                          getNodeByQuery(client[c].at, client[c].keys, client[c].asking).code = "NONE",
                          NEW k \in client[c].keys \ mixed
                   PROVE  \/ data[client[c].at][k] = last[k]
                          \/ k \in copied /\ Cardinality(client[c].keys) > 1
        BY DEF ServedFromNewest
    <2>2. k \in Key /\ Newest(k)
        BY <1>1, <2>1 DEF IInv, Types, ClientState, Keys
    <2>3. CASE client[c].at = Source
        <3>1. data[Source][k] # 0 \/ data[Target][k] = 0
            BY <1>1, <2>1, <2>2, <2>3, Routing, ReshardingAssumption DEF IInv, Keys
        <3> QED
            BY <2>2, <2>3, <3>1 DEF Newest
    <2>4. CASE client[c].at = Target
        <3>1. data[Source][k] = 0 \/ (k \in copied /\ Cardinality(client[c].keys) > 1)
            BY <1>1, <2>1, <2>4, Routing, ReshardingAssumption
        <3> QED
            BY <2>2, <2>4, <3>1 DEF Newest
    <2> QED
        BY <1>1, <2>1, <2>3, <2>4, Routing DEF Ends
<1> QED
    BY <1>1, Invariance, PTL

(* No key that was written is lost in the move: the source deletes it only *)
(* when the target has answered, and loses the slot only when it is empty. *)
THEOREM NoKeyLostHolds == Spec => []NoKeyLost
<1>1. IInv => NoKeyLost
    BY ReshardingAssumption DEF IInv, Keys, Newest, NoKeyLost
<1> QED
    BY <1>1, Invariance, PTL

(* Once the target has the slot it keeps it, although clusterBumpConfig-   *)
(* EpochWithoutConsensus gives it a new epoch without asking anybody and    *)
(* the source goes on claiming the slot until it hears of that.            *)
THEOREM TargetKeepsSlot == Spec => [][owner[Target] = Target => owner'[Target] = Target]_vars
<1>1. ASSUME IInv, Next, owner[Target] = Target PROVE owner'[Target] = Target
    <2> USE ReshardingAssumption
    <2>1. owner \in [Node -> Ends]
        BY <1>1 DEF IInv, Types
    <2>2. ASSUME NEW n \in Node, SetSlotNode(n) PROVE owner'[Target] = Target
        BY <1>1, <2>1, <2>2 DEF SetSlotNode
    <2>3. ASSUME NEW m \in Node, NEW n \in Node, Ping(m, n) PROVE owner'[Target] = Target
        <3>1. m # n /\ owner' = IF owner[m] = m /\ owner[n] # m /\ ClaimAccepted(m, n)
                                THEN [owner EXCEPT ![n] = m] ELSE owner
            BY <2>3 DEF Ping
        <3> QED
            BY <1>1, <2>1, <3>1, ClaimOnTargetRefused
    <2>4. CASE UNCHANGED owner
        BY <1>1, <2>4
    <2> QED
        BY <1>1, <2>2, <2>3, <2>4
        DEF Next, Request, clusterRedirectClient, Serve, SetSlotImporting, SetSlotMigrating,
            NoKeysLeft, Migrate, migrateCommand, fix_open_slot, cluster
<1>2. IInv /\ [Next]_vars => [owner[Target] = Target => owner'[Target] = Target]_vars
    BY <1>1 DEF vars
<1> QED
    BY <1>2, Invariance, PTL DEF Spec
=============================================================================
