---------------------------- MODULE Clients_proofs ----------------------------
(* The tables of the server agree with its clients, nobody misses a list,    *)
(* answers come in order, transactions are isolated and the replica agrees,  *)
(* for any clients, keys, channels, commands and workloads.                  *)
EXTENDS Clients, SequenceTheorems, FiniteSetTheorems, TLAPS

-----------------------------------------------------------------------------
(* Types. *)

Value == [t : {"none", "list", "string"}, v : Seq(Nat)]
FlagNames == {"BLOCKED", "UNBLOCKED", "PENDING_WRITE", "CLOSE_ASAP", "CLOSE_AFTER_REPLY",
              "MULTI", "DIRTY_CAS", "DIRTY_EXEC", "PUBSUB", "REPLY_OFF", "REPLY_SKIP",
              "REPLY_SKIP_NEXT"}
Sent == WriteCommands \cup OtherCommands
Commands == [op : Sent \cup {"none", "lpush", "rpop", "rpoplpush"}, k : Keys \cup {NULL},
             ks : Seq(Keys), timeout : BOOLEAN, v : Nat, arg : Arguments]
Queued == {cmd \in Requests :
              cmd.op \notin {"exec", "discard", "multi", "watch", "quit", "unknown"}}
Bpop == [keys : SUBSET Keys, target : Keys \cup {NULL}, timeout : BOOLEAN]
Client ==
    [state : {"new", "open", "freed"}, querybuf : Seq(Requests), flags : SUBSET FlagNames,
     mstate : Seq(Queued), watched_keys : Seq(Keys), bpop : Bpop, lastcmd : Sent \cup {"none"},
     channels : SUBSET Channels, patterns : Seq(Patterns), pending : Nat, handler : BOOLEAN,
     n : Nat, answers : Seq(Nat), muted : BOOLEAN, stale : SUBSET Keys, refused : BOOLEAN,
     broken : BOOLEAN]
Server ==
    [cl : [Clients -> Client], clients : Seq(Clients), db : [Keys -> Value],
     replica : [Keys -> Value], blocking_keys : [Keys -> Seq(Clients)],
     watched_keys : [Keys -> Seq(Clients)], ready_keys : Seq(Keys), overwritten : SUBSET Keys,
     pubsub_channels : [Channels -> Seq(Clients)], pubsub_patterns : Seq(Clients \X Patterns),
     unblocked_clients : Seq(Clients), twice : SUBSET Clients, clients_pending_write : Seq(Clients),
     clients_to_close : Seq(Clients), clients_paused : BOOLEAN, pause_over : BOOLEAN,
     slave : BOOLEAN, executing : BOOLEAN, dirty : BOOLEAN, argv : Commands]

-----------------------------------------------------------------------------
(* The inductive invariant: the tables, one by one. *)

Open(s) == {c \in Clients : s.cl[c].state = "open"}
Flags(s, f) == {c \in Open(s) : f \in s.cl[c].flags}
Waiting(s, k) == {c \in Open(s) : k \in s.cl[c].bpop.keys}
Watching(s, k) == {c \in Open(s) : Contains(s.cl[c].watched_keys, k)}
Subscribed(s, ch) == {c \in Open(s) : ch \in s.cl[c].channels}
Subscriptions(s) == {e \in Open(s) \X Patterns : Contains(s.cl[e[1]].patterns, e[2])}

ClientsTable(s) == Lists(s.clients, Open(s))
BlockingTable(s) == \A k \in Keys : Lists(s.blocking_keys[k], Waiting(s, k))
WatchTable(s) == \A k \in Keys : Lists(s.watched_keys[k], Watching(s, k))
ChannelTable(s) == \A ch \in Channels : Lists(s.pubsub_channels[ch], Subscribed(s, ch))
PatternTable(s) == Lists(s.pubsub_patterns, Subscriptions(s))
WriteTable(s) == Lists(s.clients_pending_write, Flags(s, "PENDING_WRITE"))
CloseTable(s) == Lists(s.clients_to_close, Flags(s, "CLOSE_ASAP"))
UnblockedTable(s) == ListsBut(s.unblocked_clients, Flags(s, "UNBLOCKED"), s.twice)

(* A client is flagged as blocked while it waits for keys; the one with a   *)
(* destination has sent BRPOPLPUSH.                                         *)
BlockedClient(r) ==
    /\ "BLOCKED" \in r.flags <=> r.bpop.keys # {}
    /\ r.bpop.target # NULL => r.bpop.keys # {} /\ r.lastcmd # "blpop"
BlockedClients(s) == \A c \in Open(s) : BlockedClient(s.cl[c])

(* Nothing is left to execute of a client that is not connected.            *)
Unread(s) == \A c \in Clients \ Open(s) : s.cl[c].querybuf = <<>>

Sound(s) ==
    /\ s \in Server
    /\ ClientsTable(s) /\ BlockingTable(s) /\ WatchTable(s) /\ ChannelTable(s)
    /\ PatternTable(s) /\ WriteTable(s) /\ CloseTable(s) /\ UnblockedTable(s)
    /\ BlockedClients(s) /\ Unread(s)

(* A list that somebody waits for is in the ready list, but for those that  *)
(* were stored over another value; R are keys being served.                 *)
Noticed(s, R) ==
    \A k \in Keys \ R : s.db[k].t = "list" /\ s.blocking_keys[k] # <<>>
                            => k \in s.overwritten \/ k \in ToSet(s.ready_keys)

(* Who watched a key that has changed is told, K being the keys that have   *)
(* changed without a signal so far; those who watch a ready key are told    *)
(* already, as serving will change it again without a signal.               *)
Dirtied(r) == "DIRTY_CAS" \in r.flags
ToldClient(r, K) ==
    /\ r.stale \ K # {} => Dirtied(r)
    /\ r.refused => "DIRTY_EXEC" \in r.flags
    /\ ~r.broken
Told(s, K, R) ==
    /\ \A c \in Clients : ToldClient(s.cl[c], K)
    /\ \A c \in Clients : \A k \in s.cl[c].stale : c \in ToSet(s.watched_keys[k])
    /\ \A k \in Keys \ K :
          k \in ToSet(s.ready_keys) \cup R =>
              \A c \in Clients : c \in ToSet(s.watched_keys[k]) => Dirtied(s.cl[c])

Safe(s, K, R) == Sound(s) /\ Noticed(s, R) /\ Told(s, K, R)

(* The answers of a client that waits for one, and of one that does not.    *)
Ordered(r) == \A i, j \in 1..Len(r.answers) : i < j => r.answers[i] < r.answers[j]
Silent(r) == r.muted \/ r.state # "open" \/ "CLOSE_AFTER_REPLY" \in r.flags
Replies(r) == r.flags \cap {"REPLY_OFF", "REPLY_SKIP", "REPLY_SKIP_NEXT"} # {} => r.muted
Unanswered(r) ==
    /\ Ordered(r) /\ Replies(r)
    /\ \A i \in 1..Len(r.answers) : r.answers[i] < r.n
    /\ Silent(r) \/ Len(r.answers) + 1 = r.n
Answered(r) ==
    /\ Ordered(r) /\ Replies(r)
    /\ \A i \in 1..Len(r.answers) : r.answers[i] <= r.n
    /\ Silent(r) \/ Len(r.answers) = r.n
InTurn(r) == IF "BLOCKED" \in r.flags THEN Unanswered(r) ELSE Answered(r)

(* Lists are never empty, and nothing else has elements.                    *)
Proper(db) == \A k \in Keys : db[k].t = "list" <=> db[k].v # <<>>
Settled(s) == ~s.dirty /\ s.replica = s.db /\ Proper(s.db)

IInv ==
    /\ Safe(server, {}, {})
    /\ \A c \in Clients : InTurn(server.cl[c])
    /\ Settled(server) /\ ~server.executing
    /\ phase \in {"events", "unblock", "write"}
    /\ current \in Open(server) \cup {NULL}
    /\ server.ready_keys # <<>> => current # NULL
    /\ phase = "write" => current = NULL
    /\ \E w \in DOMAIN Workloads : load = Workloads[w]
    /\ sent \in Nat

-----------------------------------------------------------------------------
(* The loops of the model, each with what holds after n turns of it. *)

\* Filtered: what is kept of the first n elements.
DropStep(p, q, x) == IF x \in p.S THEN q ELSE Append(q, x)
DropHolds(p, n, q) == q \in Seq(p.T) /\ Lists(q, {p.l[i] : i \in 1..n} \ p.S)
Dropping == INSTANCE Loops WITH Step <- DropStep, Holds <- DropHolds

-----------------------------------------------------------------------------
(* Lists of distinct elements. *)

LEMMA ToSetFacts ==
    ASSUME NEW T, NEW l \in Seq(T)
    PROVE  /\ ToSet(l) \subseteq T
           /\ \A x : x \in ToSet(l) <=> \E i \in 1..Len(l) : l[i] = x
           /\ \A x : Contains(l, x) <=> x \in ToSet(l)
           /\ l = <<>> <=> ToSet(l) = {}
<1>1. DOMAIN l = 1..Len(l) /\ Len(l) \in Nat /\ \A i \in 1..Len(l) : l[i] \in T
    BY LenProperties, ElementOfSeq
<1>2. l = <<>> => ToSet(l) = {}
    BY DEF ToSet
<1>3. l # <<>> => l[1] \in ToSet(l)
    BY <1>1, EmptySeq DEF ToSet
<1> QED
    BY <1>1, <1>2, <1>3 DEF ToSet, Contains

\* A list of a set with one more element at the end.
LEMMA ListsAppend ==
    ASSUME NEW T, NEW l \in Seq(T), NEW S, Lists(l, S), NEW x \in T, x \notin S
    PROVE  Lists(Append(l, x), S \cup {x}) /\ Append(l, x) \in Seq(T)
<1> DEFINE m == Append(l, x)
<1>1. m \in Seq(T) /\ Len(m) = Len(l) + 1 /\ Len(l) \in Nat
      /\ (\A i \in 1..Len(l) : m[i] = l[i]) /\ m[Len(l) + 1] = x
    BY AppendProperties, LenProperties
<1>2. DOMAIN m = 1..(Len(l) + 1) /\ DOMAIN l = 1..Len(l)
    BY <1>1, LenProperties
<1>3. \A i \in 1..Len(l) : l[i] \in S
    BY <1>2 DEF Lists, ToSet
<1> HIDE DEF m
<1>4. IsInjective(m)
    BY <1>1, <1>2, <1>3 DEF IsInjective, Lists
<1>5. ToSet(m) = S \cup {x}
    <2>1. \A y \in ToSet(m) : y \in S \cup {x}
        BY <1>1, <1>2, <1>3 DEF ToSet
    <2>2. \A y \in S : y \in ToSet(m)
        <3> SUFFICES ASSUME NEW y \in S PROVE y \in ToSet(m)
            OBVIOUS
        <3>1. PICK i \in 1..Len(l) : l[i] = y
            BY <1>2 DEF Lists, ToSet
        <3>2. i \in DOMAIN m /\ m[i] = y
            BY <1>1, <1>2, <3>1
        <3> QED
            BY <3>2 DEF ToSet
    <2>3. x \in ToSet(m)
        <3>1. Len(l) + 1 \in DOMAIN m
            BY <1>1, <1>2
        <3> QED
            BY <1>1, <3>1 DEF ToSet
    <2> QED
        BY <2>1, <2>2, <2>3
<1> QED
    BY <1>1, <1>4, <1>5 DEF m, Lists

\* A list of a set with one more element at the head.
LEMMA ListsPrepend ==
    ASSUME NEW T, NEW l \in Seq(T), NEW S, Lists(l, S), NEW x \in T, x \notin S
    PROVE  Lists(<<x>> \o l, S \cup {x}) /\ <<x>> \o l \in Seq(T)
<1> DEFINE m == <<x>> \o l
<1>1. <<x>> \in Seq(T) /\ Len(<<x>>) = 1 /\ <<x>>[1] = x
    OBVIOUS
<1>2. m \in Seq(T) /\ Len(m) = Len(l) + 1 /\ Len(l) \in Nat
    BY <1>1, ConcatProperties, LenProperties
<1>3. \A i \in 1..(Len(l) + 1) : m[i] = IF i = 1 THEN x ELSE l[i - 1]
    <2>1. \A i \in 1..(1 + Len(l)) : m[i] = IF i <= 1 THEN <<x>>[i] ELSE l[i - 1]
        BY <1>1, ConcatProperties
    <2> HIDE DEF m
    <2> QED
        BY <1>1, <1>2, <2>1
<1>4. DOMAIN m = 1..(Len(l) + 1) /\ DOMAIN l = 1..Len(l)
    BY <1>2, LenProperties
<1>5. \A i \in 1..Len(l) : l[i] \in S
    BY <1>4 DEF Lists, ToSet
<1> HIDE DEF m
<1>6. IsInjective(m)
    <2> SUFFICES ASSUME NEW i \in 1..(Len(l) + 1), NEW j \in 1..(Len(l) + 1), m[i] = m[j]
                 PROVE  i = j
        BY <1>4 DEF IsInjective
    <2>1. CASE i = 1 \/ j = 1
        BY <1>2, <1>3, <1>5, <2>1, SMTT(30)
    <2>2. CASE i # 1 /\ j # 1
        <3>1. i - 1 \in 1..Len(l) /\ j - 1 \in 1..Len(l) /\ l[i - 1] = l[j - 1]
            BY <1>2, <1>3, <2>2
        <3>2. i - 1 = j - 1
            BY <1>4, <3>1 DEF Lists, IsInjective
        <3> QED
            BY <3>2
    <2> QED
        BY <2>1, <2>2
<1>7. ToSet(m) = S \cup {x}
    <2>1. \A y \in ToSet(m) : y \in S \cup {x}
        <3> SUFFICES ASSUME NEW i \in 1..(Len(l) + 1) PROVE m[i] \in S \cup {x}
            BY <1>4 DEF ToSet
        <3>1. i # 1 => i - 1 \in 1..Len(l)
            BY <1>2
        <3> QED
            BY <1>3, <1>5, <3>1
    <2>2. \A y \in S : y \in ToSet(m)
        <3> SUFFICES ASSUME NEW y \in S PROVE y \in ToSet(m)
            OBVIOUS
        <3>1. PICK i \in 1..Len(l) : l[i] = y
            BY <1>4 DEF Lists, ToSet
        <3>2. i + 1 \in 1..(Len(l) + 1) /\ i + 1 # 1 /\ (i + 1) - 1 = i
            BY <1>2, <3>1
        <3>3. m[i + 1] = y
            BY <1>3, <3>1, <3>2
        <3> QED
            BY <1>4, <3>2, <3>3 DEF ToSet
    <2>3. x \in ToSet(m)
        <3>1. 1 \in DOMAIN m /\ m[1] = x
            BY <1>2, <1>3, <1>4
        <3> QED
            BY <3>1 DEF ToSet
    <2> QED
        BY <2>1, <2>2, <2>3
<1> QED
    BY <1>2, <1>6, <1>7 DEF m, Lists

\* Without(l, x), when x is there, is l with one position taken out.
LEMMA WithoutFacts ==
    ASSUME NEW T, NEW l \in Seq(T), NEW x
    PROVE  /\ ~Contains(l, x) => Without(l, x) = l
           /\ Contains(l, x) =>
                \E p \in 1..Len(l) :
                   /\ l[p] = x
                   /\ Without(l, x) \in Seq(T) /\ Len(Without(l, x)) = Len(l) - 1
                   /\ \A i \in 1..(Len(l) - 1) :
                         Without(l, x)[i] = IF i < p THEN l[i] ELSE l[i + 1]
<1>1. ~Contains(l, x) => Without(l, x) = l
    BY DEF Without
<1>2. ASSUME Contains(l, x)
      PROVE  \E p \in 1..Len(l) :
                   /\ l[p] = x
                   /\ Without(l, x) \in Seq(T) /\ Len(Without(l, x)) = Len(l) - 1
                   /\ \A i \in 1..(Len(l) - 1) :
                         Without(l, x)[i] = IF i < p THEN l[i] ELSE l[i + 1]
    <2> DEFINE First(i) == l[i] = x /\ \A j \in 1..(i - 1) : l[j] # x
               p == CHOOSE i \in 1..Len(l) : First(i)
    <2>1. Len(l) \in Nat /\ \A i \in 1..Len(l) : l[i] \in T
        BY LenProperties, ElementOfSeq
    <2>2. \E i \in 1..Len(l) : First(i)
        <3> DEFINE M == {i \in 1..Len(l) : l[i] = x}
        <3>1. M # {} /\ M \in SUBSET Nat
            BY <1>2 DEF Contains
        <3>2. PICK i \in M : \A j \in M : i <= j
            BY <3>1, Dropping!Smallest
        <3>3. i \in 1..Len(l) /\ l[i] = x
            BY <3>2
        <3>4. \A j \in 1..(i - 1) : l[j] # x
            BY <2>1, <3>2, <3>3
        <3> QED
            BY <3>3, <3>4
    <2>3. p \in 1..Len(l) /\ First(p)
        BY <2>2
    <2>4. Without(l, x) = RemoveAt(l, p)
        BY <1>2 DEF Without
    <2> HIDE DEF p
    <2>5. p \in Int /\ p - 1 \in Int /\ 1 \in Int /\ p + 1 \in Int /\ Len(l) \in Int
        BY <2>1, <2>3
    <2> DEFINE a == SubSeq(l, 1, p - 1)
               b == SubSeq(l, p + 1, Len(l))
    <2>6. a \in Seq(T) /\ Len(a) = p - 1 /\ \A i \in 1..(p - 1) : a[i] = l[i]
        <3>1. \A i \in 1..(p - 1) : l[i] \in T
            BY <2>1, <2>3
        <3>2. /\ a \in Seq(T) /\ Len(a) = IF 1 <= p - 1 THEN (p - 1) - 1 + 1 ELSE 0
              /\ \A i \in 1..((p - 1) - 1 + 1) : a[i] = l[1 + i - 1]
            BY <2>5, <3>1, SubSeqProperties
        <3> HIDE DEF a
        <3> QED
            BY <2>3, <2>5, <3>2
    <2>7. b \in Seq(T) /\ Len(b) = Len(l) - p /\ \A i \in 1..(Len(l) - p) : b[i] = l[p + i]
        <3>1. \A i \in (p + 1)..Len(l) : l[i] \in T
            BY <2>1, <2>3
        <3>2. /\ b \in Seq(T) /\ Len(b) = IF p + 1 <= Len(l) THEN Len(l) - (p + 1) + 1 ELSE 0
              /\ \A i \in 1..(Len(l) - (p + 1) + 1) : b[i] = l[(p + 1) + i - 1]
            BY <2>5, <3>1, SubSeqProperties
        <3> HIDE DEF b
        <3> QED
            BY <2>1, <2>3, <2>5, <3>2
    <2>8. Without(l, x) = a \o b
        BY <2>4 DEF RemoveAt
    <2> HIDE DEF a, b
    <2>9. /\ a \o b \in Seq(T) /\ Len(a \o b) = Len(a) + Len(b)
          /\ \A i \in 1..(Len(a) + Len(b)) : (a \o b)[i] = IF i <= Len(a) THEN a[i] ELSE b[i - Len(a)]
        BY <2>6, <2>7, ConcatProperties
    <2>10. Len(a) + Len(b) = Len(l) - 1
        BY <2>1, <2>3, <2>6, <2>7
    <2>11. ASSUME NEW i \in 1..(Len(l) - 1)
           PROVE  Without(l, x)[i] = IF i < p THEN l[i] ELSE l[i + 1]
        <3>1. Without(l, x)[i] = IF i <= p - 1 THEN a[i] ELSE b[i - (p - 1)]
            BY <2>6, <2>8, <2>9, <2>10
        <3>2. CASE i < p
            BY <2>3, <2>5, <2>6, <3>1, <3>2
        <3>3. CASE ~(i < p)
            <4>1. i - (p - 1) \in 1..(Len(l) - p) /\ p + (i - (p - 1)) = i + 1 /\ ~(i <= p - 1)
                BY <2>1, <2>3, <3>3
            <4> QED
                BY <2>7, <3>1, <3>3, <4>1
        <3> QED
            BY <3>2, <3>3
    <2> QED
        BY <2>3, <2>8, <2>9, <2>10, <2>11
<1> QED
    BY <1>1, <1>2

\* What listDelNode leaves of a list.
LEMMA WithoutLists ==
    ASSUME NEW T, NEW l \in Seq(T), NEW x
    PROVE  /\ Without(l, x) \in Seq(T)
           /\ ToSet(Without(l, x)) \subseteq ToSet(l)
           /\ ToSet(l) \ {x} \subseteq ToSet(Without(l, x))
           /\ \A S : Lists(l, S) => Lists(Without(l, x), S \ {x})
<1>1. CASE ~Contains(l, x)
    <2>1. Without(l, x) = l
        BY <1>1, WithoutFacts
    <2>2. x \notin ToSet(l)
        BY <1>1, ToSetFacts
    <2> QED
        BY <2>1, <2>2 DEF Lists
<1>2. CASE Contains(l, x)
    <2> DEFINE m == Without(l, x)
    <2>1. PICK p \in 1..Len(l) :
                   /\ l[p] = x
                   /\ m \in Seq(T) /\ Len(m) = Len(l) - 1
                   /\ \A i \in 1..(Len(l) - 1) : m[i] = IF i < p THEN l[i] ELSE l[i + 1]
        BY <1>2, WithoutFacts
    <2> HIDE DEF m
    <2>2. Len(l) \in Nat /\ p \in Nat
        BY <2>1, LenProperties
    <2>3. DOMAIN m = 1..(Len(l) - 1) /\ DOMAIN l = 1..Len(l)
        BY <2>1, LenProperties
    <2>4. ToSet(m) \subseteq ToSet(l)
        <3> SUFFICES ASSUME NEW i \in 1..(Len(l) - 1) PROVE \E j \in 1..Len(l) : l[j] = m[i]
            BY <2>3 DEF ToSet
        <3>1. i \in 1..Len(l) /\ i + 1 \in 1..Len(l)
            BY <2>2
        <3> QED
            BY <2>1, <3>1
    <2>5. ToSet(l) \ {x} \subseteq ToSet(m)
        <3> SUFFICES ASSUME NEW j \in 1..Len(l), l[j] # x PROVE \E i \in 1..(Len(l) - 1) : m[i] = l[j]
            BY <2>3 DEF ToSet
        <3>1. CASE j < p
            <4>1. j \in 1..(Len(l) - 1)
                BY <2>1, <2>2, <3>1
            <4> QED
                BY <2>1, <3>1, <4>1
        <3>2. CASE ~(j < p)
            <4>1. j - 1 \in 1..(Len(l) - 1) /\ ~(j - 1 < p) /\ (j - 1) + 1 = j
                BY <2>1, <2>2, <3>2
            <4> QED
                BY <2>1, <4>1
        <3> QED
            BY <3>1, <3>2
    <2>6. ASSUME IsInjective(l) PROVE IsInjective(m) /\ x \notin ToSet(m)
        <3>1. ASSUME NEW i \in 1..(Len(l) - 1), NEW j \in 1..(Len(l) - 1), m[i] = m[j] PROVE i = j
            <4> DEFINE ii == IF i < p THEN i ELSE i + 1
                       jj == IF j < p THEN j ELSE j + 1
            <4>1. ii \in 1..Len(l) /\ jj \in 1..Len(l) /\ m[i] = l[ii] /\ m[j] = l[jj]
                BY <2>1, <2>2
            <4>2. ii = jj
                BY <2>3, <2>6, <3>1, <4>1 DEF IsInjective
            <4> QED
                BY <2>2, <4>2
        <3>2. ASSUME NEW i \in 1..(Len(l) - 1) PROVE m[i] # x
            <4> DEFINE ii == IF i < p THEN i ELSE i + 1
            <4>1. ii \in 1..Len(l) /\ m[i] = l[ii] /\ ii # p
                BY <2>1, <2>2
            <4> QED
                BY <2>1, <2>3, <2>6, <4>1 DEF IsInjective
        <3> QED
            BY <2>3, <3>1, <3>2 DEF IsInjective, ToSet
    <2> QED
        BY <2>1, <2>4, <2>5, <2>6 DEF Lists, m
<1> QED
    BY <1>1, <1>2

\* The first of a list, and the rest.
LEMMA TailLists ==
    ASSUME NEW T, NEW l \in Seq(T), l # <<>>
    PROVE  /\ Head(l) \in T /\ Head(l) \in ToSet(l) /\ Tail(l) \in Seq(T)
           /\ ToSet(l) = ToSet(Tail(l)) \cup {Head(l)}
           /\ \A S : Lists(l, S) => Lists(Tail(l), S \ {Head(l)})
<1> DEFINE m == Tail(l)
<1>1. /\ m \in Seq(T) /\ Len(m) = Len(l) - 1 /\ \A i \in 1..Len(m) : m[i] = l[i + 1]
      /\ Head(l) \in T
    BY HeadTailProperties
<1>2. Head(l) = l[1] /\ Len(l) \in Nat \ {0}
    BY EmptySeq
<1> HIDE DEF m
<1>3. DOMAIN m = 1..(Len(l) - 1) /\ DOMAIN l = 1..Len(l)
    BY <1>1, LenProperties
<1>4. ToSet(m) \subseteq ToSet(l)
    <2> SUFFICES ASSUME NEW i \in 1..(Len(l) - 1) PROVE \E j \in 1..Len(l) : l[j] = m[i]
        BY <1>3 DEF ToSet
    <2>1. i + 1 \in 1..Len(l) /\ i \in 1..Len(m)
        BY <1>1, <1>2
    <2> QED
        BY <1>1, <2>1
<1>5. ToSet(l) \subseteq ToSet(m) \cup {Head(l)}
    <2> SUFFICES ASSUME NEW j \in 1..Len(l), j # 1 PROVE \E i \in 1..(Len(l) - 1) : m[i] = l[j]
        BY <1>2, <1>3, ZenonT(40) DEF ToSet
    <2>1. j - 1 \in 1..(Len(l) - 1) /\ (j - 1) + 1 = j
        BY <1>2
    <2> QED
        BY <1>1, <2>1
<1>6. Head(l) \in ToSet(l)
    <2>1. 1 \in 1..Len(l)
        BY <1>2
    <2> QED
        BY <1>2, <1>3, <2>1 DEF ToSet
<1>7. ASSUME IsInjective(l) PROVE IsInjective(m) /\ Head(l) \notin ToSet(m)
    <2>1. ASSUME NEW i \in 1..(Len(l) - 1), NEW j \in 1..(Len(l) - 1), m[i] = m[j] PROVE i = j
        <3>1. i + 1 \in 1..Len(l) /\ j + 1 \in 1..Len(l) /\ l[i + 1] = l[j + 1]
            BY <1>1, <1>2, <2>1
        <3>2. i + 1 = j + 1
            BY <1>3, <1>7, <3>1 DEF IsInjective
        <3> QED
            BY <3>2
    <2>2. ASSUME NEW i \in 1..(Len(l) - 1) PROVE m[i] # Head(l)
        <3>1. i + 1 \in 1..Len(l) /\ 1 \in 1..Len(l) /\ i + 1 # 1 /\ m[i] = l[i + 1]
            BY <1>1, <1>2
        <3> QED
            BY <1>2, <1>3, <1>7, <3>1 DEF IsInjective
    <2> QED
        BY <1>3, <2>1, <2>2 DEF IsInjective, ToSet
<1> QED
    BY <1>1, <1>4, <1>5, <1>6, <1>7 DEF Lists, m

\* A list with exceptions, and one more element at the end.
LEMMA ListsButAppend ==
    ASSUME NEW T, NEW l \in Seq(T), NEW S, NEW X, ListsBut(l, S, X), NEW x \in T,
           x \notin S \/ x \in X
    PROVE  ListsBut(Append(l, x), S \cup {x}, X) /\ Append(l, x) \in Seq(T)
<1> DEFINE m == Append(l, x)
<1>1. m \in Seq(T) /\ Len(m) = Len(l) + 1 /\ Len(l) \in Nat
      /\ (\A i \in 1..Len(l) : m[i] = l[i]) /\ m[Len(l) + 1] = x
    BY AppendProperties, LenProperties
<1>2. DOMAIN m = 1..(Len(l) + 1) /\ DOMAIN l = 1..Len(l)
    BY <1>1, LenProperties
<1>3. \A i \in 1..Len(l) : l[i] \in S \cup X
    BY <1>2 DEF ListsBut, ToSet
<1> HIDE DEF m
<1>4. \A i \in 1..(Len(l) + 1) : i \in 1..Len(l) \/ i = Len(l) + 1
    BY <1>1
<1>5. \A i \in 1..Len(l) : i \in 1..(Len(l) + 1)
    BY <1>1
<1>6. Len(l) + 1 \in 1..(Len(l) + 1)
    BY <1>1
<1>7. \A i, j \in 1..(Len(l) + 1) : m[i] = m[j] => i = j \/ m[i] \in X
    <2>1. \A i, j \in 1..Len(l) : m[i] = m[j] => i = j \/ m[i] \in X
        BY <1>1, <1>2 DEF ListsBut
    <2>2. \A i \in 1..Len(l) : m[i] = x => x \in X
        BY <1>1, <1>3
    <2> QED
        BY <1>1, <1>4, <2>1, <2>2
<1>8. ToSet(m) \subseteq (S \cup {x}) \cup X
    <2> SUFFICES ASSUME NEW i \in 1..(Len(l) + 1) PROVE m[i] \in (S \cup {x}) \cup X
        BY <1>2 DEF ToSet
    <2> QED
        BY <1>1, <1>3, <1>4
<1>9. S \cup {x} \subseteq ToSet(m)
    <2>1. \A y \in S : \E i \in 1..Len(l) : l[i] = y
        BY <1>2 DEF ListsBut, ToSet
    <2> SUFFICES \A y \in S \cup {x} : \E i \in 1..(Len(l) + 1) : m[i] = y
        BY <1>2 DEF ToSet
    <2> QED
        BY <1>1, <1>5, <1>6, <2>1
<1> QED
    BY <1>1, <1>2, <1>7, <1>8, <1>9 DEF m, ListsBut

\* Part m of the list l, in which x is missing where it was at place p.
LEMMA ListsButPart ==
    ASSUME NEW T, NEW l \in Seq(T), NEW m \in Seq(T), NEW S, NEW X, ListsBut(l, S, X),
           NEW p \in 1..Len(l), Len(m) = Len(l) - 1,
           \A i \in 1..(Len(l) - 1) : m[i] = IF i < p THEN l[i] ELSE l[i + 1]
    PROVE  ListsBut(m, S \ {l[p]}, X)
<1> DEFINE at(i) == IF i < p THEN i ELSE i + 1
<1>1. Len(l) \in Nat /\ p \in Nat
    BY LenProperties
<1>2. DOMAIN m = 1..(Len(l) - 1) /\ DOMAIN l = 1..Len(l)
    BY LenProperties
<1>3. \A i \in 1..(Len(l) - 1) : at(i) \in 1..Len(l) /\ at(i) # p /\ m[i] = l[at(i)]
    BY <1>1
<1>4. \A i, j \in 1..(Len(l) - 1) : at(i) = at(j) => i = j
    BY <1>1
<1>5. \A j \in 1..Len(l) : j # p => \E i \in 1..(Len(l) - 1) : at(i) = j
    <2> SUFFICES ASSUME NEW j \in 1..Len(l), j # p
                 PROVE  \E i \in 1..(Len(l) - 1) : at(i) = j
        OBVIOUS
    <2>1. CASE j < p
        BY <1>1, <2>1
    <2>2. CASE ~(j < p)
        <3>1. j - 1 \in 1..(Len(l) - 1) /\ at(j - 1) = j
            BY <1>1, <2>2
        <3> QED
            BY <3>1
    <2> QED
        BY <2>1, <2>2
<1> HIDE DEF at
<1>6. \A i, j \in 1..Len(l) : l[i] = l[j] => i = j \/ l[i] \in X
    BY <1>2 DEF ListsBut
<1>7. \A i, j \in 1..(Len(l) - 1) : m[i] = m[j] => i = j \/ m[i] \in X
    BY <1>3, <1>4, <1>6
<1>8. \A i \in 1..(Len(l) - 1) : m[i] \in (S \ {l[p]}) \cup X
    <2>1. \A i \in 1..Len(l) : l[i] \in S \cup X
        BY <1>2 DEF ListsBut, ToSet
    <2>2. \A i \in 1..Len(l) : i # p /\ l[i] = l[p] => l[i] \in X
        BY <1>6
    <2> QED
        BY <1>3, <2>1, <2>2
<1>9. \A y \in S \ {l[p]} : \E i \in 1..(Len(l) - 1) : m[i] = y
    <2> SUFFICES ASSUME NEW y \in S, y # l[p] PROVE \E i \in 1..(Len(l) - 1) : m[i] = y
        OBVIOUS
    <2>1. PICK j \in 1..Len(l) : l[j] = y
        BY <1>2 DEF ListsBut, ToSet
    <2>2. PICK i \in 1..(Len(l) - 1) : at(i) = j
        BY <1>5, <2>1
    <2> QED
        BY <1>3, <2>1, <2>2
<1> QED
    BY <1>2, <1>7, <1>8, <1>9 DEF ListsBut, ToSet

\* What listDelNode and the removal of the first leave of such a list.
LEMMA ListsButLess ==
    ASSUME NEW T, NEW l \in Seq(T), NEW S, NEW X, ListsBut(l, S, X)
    PROVE  /\ \A x \in S : ListsBut(Without(l, x), S \ {x}, X)
           /\ l # <<>> => ListsBut(Tail(l), S \ {Head(l)}, X)
<1>1. ASSUME NEW x \in S PROVE ListsBut(Without(l, x), S \ {x}, X)
    <2> DEFINE m == Without(l, x)
    <2>1. Contains(l, x)
        BY ToSetFacts DEF ListsBut
    <2>2. PICK p \in 1..Len(l) :
                   /\ l[p] = x
                   /\ m \in Seq(T) /\ Len(m) = Len(l) - 1
                   /\ \A i \in 1..(Len(l) - 1) : m[i] = IF i < p THEN l[i] ELSE l[i + 1]
        BY <2>1, WithoutFacts
    <2> HIDE DEF m
    <2>3. ListsBut(m, S \ {l[p]}, X)
        BY <2>2, ListsButPart
    <2> QED
        BY <2>2, <2>3 DEF m
<1>2. ASSUME l # <<>> PROVE ListsBut(Tail(l), S \ {Head(l)}, X)
    <2> DEFINE m == Tail(l)
    <2>1. /\ m \in Seq(T) /\ Len(m) = Len(l) - 1 /\ \A i \in 1..Len(m) : m[i] = l[i + 1]
        BY <1>2, HeadTailProperties
    <2>2. Head(l) = l[1] /\ Len(l) \in Nat \ {0}
        BY <1>2, EmptySeq
    <2> HIDE DEF m
    <2>3. 1 \in 1..Len(l) /\ \A i \in 1..(Len(l) - 1) : m[i] = IF i < 1 THEN l[i] ELSE l[i + 1]
        BY <2>1, <2>2
    <2>4. ListsBut(m, S \ {l[1]}, X)
        BY <2>1, <2>3, ListsButPart
    <2> QED
        BY <2>2, <2>4 DEF m
<1> QED
    BY <1>1, <1>2

\* What is left of a list of M without the elements of S.
LEMMA FilteredLists ==
    ASSUME NEW T, NEW l \in Seq(T), NEW M, Lists(l, M), NEW S
    PROVE  Filtered(l, S) \in Seq(T) /\ Lists(Filtered(l, S), M \ S)
<1> DEFINE p == [S |-> S, l |-> l, T |-> T]
           Part(n) == {l[i] : i \in 1..n} \ S
<1>1. Len(l) \in Nat /\ DOMAIN l = 1..Len(l) /\ \A i \in 1..Len(l) : l[i] \in T
    BY LenProperties, ElementOfSeq
<1>2. Filtered(l, S) = Dropping!Loop(p, <<>>, l)
    BY DEF Filtered, Dropping!Loop, DropStep
<1>3. DropHolds(p, 0, <<>>)
    <2>1. Part(0) = {}
        OBVIOUS
    <2>2. <<>> \in Seq(T) /\ Lists(<<>>, {})
        BY DEF Lists, IsInjective, ToSet
    <2> QED
        BY <2>1, <2>2 DEF DropHolds
<1>4. ASSUME NEW n \in 1..Len(l), NEW q, DropHolds(p, n - 1, q)
      PROVE  DropHolds(p, n, DropStep(p, q, l[n]))
    <2>1. q \in Seq(T) /\ Lists(q, Part(n - 1))
        BY <1>4 DEF DropHolds
    <2>2. {l[i] : i \in 1..n} = {l[i] : i \in 1..(n - 1)} \cup {l[n]}
        BY <1>1
    <2>3. CASE l[n] \in S
        <3>1. Part(n) = Part(n - 1)
            BY <2>2, <2>3
        <3> QED
            BY <2>1, <2>3, <3>1 DEF DropHolds, DropStep
    <2>4. CASE l[n] \notin S
        <3>1. Part(n) = Part(n - 1) \cup {l[n]}
            BY <2>2, <2>4
        <3>2. l[n] \notin Part(n - 1)
            BY <1>1 DEF Lists, IsInjective
        <3>3. Lists(Append(q, l[n]), Part(n - 1) \cup {l[n]}) /\ Append(q, l[n]) \in Seq(T)
            BY <1>1, <2>1, <3>2, ListsAppend
        <3> QED
            BY <2>4, <3>1, <3>3 DEF DropHolds, DropStep
    <2> QED
        BY <2>3, <2>4
<1> HIDE DEF p
<1>5. DropHolds(p, Len(l), Dropping!Loop(p, <<>>, l))
    BY <1>1, <1>3, <1>4, Dropping!LoopHolds
<1>6. {l[i] : i \in 1..Len(l)} = M
    BY <1>1 DEF Lists, ToSet
<1> QED
    BY <1>2, <1>5, <1>6 DEF DropHolds, p

\* A list the other way round has the same elements.
LEMMA ReverseLists ==
    ASSUME NEW T, NEW l \in Seq(T), NEW S, Lists(l, S)
    PROVE  Reverse(l) \in Seq(T) /\ Len(Reverse(l)) = Len(l) /\ Lists(Reverse(l), S)
<1> DEFINE m == Reverse(l)
           f(i) == l[(Len(l) - i) + 1]
<1>1. Len(l) \in Nat /\ DOMAIN l = 1..Len(l) /\ \A i \in 1..Len(l) : l[i] \in T
    BY LenProperties, ElementOfSeq
<1>2. \A i \in 1..Len(l) : (Len(l) - i) + 1 \in 1..Len(l) /\ (Len(l) - ((Len(l) - i) + 1)) + 1 = i
    BY <1>1
<1>3. m = [i \in 1..Len(l) |-> f(i)]
    BY DEF Reverse
<1>4. \A i \in 1..Len(l) : f(i) \in T
    BY <1>1, <1>2
<1>5. m \in [1..Len(l) -> T]
    BY <1>3, <1>4
<1>6. m \in Seq(T) /\ Len(m) = Len(l) /\ DOMAIN m = 1..Len(l)
    BY <1>1, <1>5
<1>7. \A i \in 1..Len(l) : m[i] = l[(Len(l) - i) + 1]
    BY <1>3
<1> HIDE DEF m
<1>8. IsInjective(m)
    <2> SUFFICES ASSUME NEW i \in 1..Len(l), NEW j \in 1..Len(l), m[i] = m[j] PROVE i = j
        BY <1>6 DEF IsInjective
    <2>1. (Len(l) - i) + 1 = (Len(l) - j) + 1
        BY <1>1, <1>2, <1>7 DEF Lists, IsInjective
    <2> QED
        BY <1>1, <2>1
<1>9. ToSet(m) = ToSet(l)
    <2>1. \A x \in ToSet(m) : x \in ToSet(l)
        BY <1>1, <1>2, <1>6, <1>7 DEF ToSet
    <2>2. ASSUME NEW i \in 1..Len(l) PROVE l[i] \in ToSet(m)
        <3>1. m[(Len(l) - i) + 1] = l[i]
            BY <1>2, <1>7
        <3> QED
            BY <1>2, <1>6, <3>1 DEF ToSet
    <2> QED
        BY <1>1, <2>1, <2>2 DEF ToSet
<1> QED
    BY <1>6, <1>8, <1>9 DEF Lists, m

\* The clients connected at the start, in some order.
LEMMA SetToSeqLists ==
    ASSUME NEW S, IsFiniteSet(S)
    PROVE  SetToSeq(S) \in Seq(S) /\ Lists(SetToSeq(S), S)
<1> DEFINE n == Cardinality(S)
           f == SetToSeq(S)
<1>1. n \in Nat /\ \E g \in Bijection(1..n, S) : TRUE
    BY FS_CardinalityType DEF ExistsBijection
<1>2. \E g \in [1..n -> S] : IsInjective(g)
    BY <1>1 DEF Bijection, Injection
<1>3. f \in [1..n -> S] /\ IsInjective(f)
    BY <1>2 DEF SetToSeq
<1> HIDE DEF f
<1>4. f \in Injection(1..n, S)
    BY <1>3 DEF Injection
<1>5. Cardinality(1..n) = n
    BY <1>1, FS_Interval
<1>6. f \in Surjection(1..n, S)
    BY <1>4, <1>5, FS_Injection
<1>7. f \in Seq(S) /\ DOMAIN f = 1..n
    BY <1>1, <1>3
<1>8. ToSet(f) = S
    BY <1>3, <1>6, <1>7 DEF ToSet, Surjection
<1> QED
    BY <1>3, <1>7, <1>8 DEF Lists, f

-----------------------------------------------------------------------------
(* What an operation leaves alone. *)

ServerFields ==
    {"cl", "clients", "db", "replica", "blocking_keys", "watched_keys", "ready_keys",
     "overwritten", "pubsub_channels", "pubsub_patterns", "unblocked_clients", "twice",
     "clients_pending_write", "clients_to_close", "clients_paused", "pause_over", "slave",
     "executing", "dirty", "argv"}
ClientFields ==
    {"state", "querybuf", "flags", "mstate", "watched_keys", "bpop", "lastcmd", "channels",
     "patterns", "pending", "handler", "n", "answers", "muted", "stale", "refused", "broken"}

(* A client differs at most in the fields F and the flags G; the server at  *)
(* most in the fields S, its clients at most in F and G.                    *)
Alike(r, u, F, G) ==
    /\ \A g \in ClientFields \ (F \cup {"flags"}) : u[g] = r[g]
    /\ \A f : f \notin G => (f \in u.flags <=> f \in r.flags)
Same(s, q, S) == \A g \in ServerFields \ (S \cup {"cl"}) : q[g] = s[g]
Change(s, q, S, F, G) ==
    /\ q \in Server
    /\ Same(s, q, S)
    /\ \A x \in Clients : Alike(s.cl[x], q.cl[x], F, G)
Others(s, q, c) == \A x \in Clients \ {c} : q.cl[x] = s.cl[x]

(* One client, c, is replaced by u.                                         *)
Put(s, c, u) == [s EXCEPT !.cl = [s.cl EXCEPT ![c] = u]]

\* The record of a client is one.
LEMMA ClientOf ==
    ASSUME NEW s \in Server, NEW c \in Clients
    PROVE  s.cl[c] \in Client
BY DEF Server

\* A record is like itself.
LEMMA AlikeRefl ==
    ASSUME NEW r, NEW F, NEW G
    PROVE  Alike(r, r, F, G)
BY DEF Alike

\* Nothing changed is no more than any change.
LEMMA ChangeRefl ==
    ASSUME NEW s \in Server
    PROVE  (\A S, F, G : Change(s, s, S, F, G)) /\ \A c : Others(s, s, c)
BY AlikeRefl DEF Change, Same, Others

\* Two changes, one after the other.
LEMMA ChangeTrans ==
    ASSUME NEW s, NEW q, NEW r, NEW S, NEW F, NEW G, NEW S2, NEW F2, NEW G2,
           Change(s, q, S, F, G), Change(q, r, S2, F2, G2)
    PROVE  Change(s, r, S \cup S2, F \cup F2, G \cup G2)
<1>1. r \in Server
    BY DEF Change
<1>2. Same(s, r, S \cup S2)
    BY DEF Change, Same
<1>3. ASSUME NEW x \in Clients PROVE Alike(s.cl[x], r.cl[x], F \cup F2, G \cup G2)
    BY DEF Change, Alike
<1> QED
    BY <1>1, <1>2, <1>3 DEF Change

\* A change is also one that may touch more.
LEMMA ChangeMore ==
    ASSUME NEW s, NEW q, NEW S, NEW F, NEW G, NEW S2, NEW F2, NEW G2,
           Change(s, q, S, F, G), S \subseteq S2, F \subseteq F2, G \subseteq G2
    PROVE  Change(s, q, S2, F2, G2)
<1>1. Same(s, q, S2)
    BY DEF Change, Same
<1>2. ASSUME NEW x \in Clients PROVE Alike(s.cl[x], q.cl[x], F2, G2)
    BY DEF Change, Alike
<1> QED
    BY <1>1, <1>2 DEF Change

\* A change of the record of one client and of the server's own fields.
LEMMA OneClient ==
    ASSUME NEW s, NEW q \in Server, NEW c \in Clients, NEW S, NEW F, NEW G,
           Same(s, q, S), Others(s, q, c), Alike(s.cl[c], q.cl[c], F, G)
    PROVE  Change(s, q, S, F, G)
<1>1. \A x \in Clients : Alike(s.cl[x], q.cl[x], F, G)
    BY AlikeRefl DEF Others
<1> QED
    BY <1>1 DEF Change

\* A table is kept by whatever changes neither it nor what it lists.
LEMMA Frame ==
    ASSUME NEW s, NEW q, NEW S, NEW F, NEW G, Change(s, q, S, F, G), "state" \notin F
    PROVE  /\ Open(q) = Open(s)
           /\ "clients" \notin S /\ ClientsTable(s) => ClientsTable(q)
           /\ "blocking_keys" \notin S /\ "bpop" \notin F /\ BlockingTable(s) => BlockingTable(q)
           /\ "watched_keys" \notin S /\ "watched_keys" \notin F /\ WatchTable(s) => WatchTable(q)
           /\ "pubsub_channels" \notin S /\ "channels" \notin F /\ ChannelTable(s)
                => ChannelTable(q)
           /\ "pubsub_patterns" \notin S /\ "patterns" \notin F /\ PatternTable(s)
                => PatternTable(q)
           /\ "clients_pending_write" \notin S /\ "PENDING_WRITE" \notin G /\ WriteTable(s)
                => WriteTable(q)
           /\ "clients_to_close" \notin S /\ "CLOSE_ASAP" \notin G /\ CloseTable(s)
                => CloseTable(q)
           /\ "unblocked_clients" \notin S /\ "twice" \notin S /\ "UNBLOCKED" \notin G
              /\ UnblockedTable(s) => UnblockedTable(q)
           /\ "bpop" \notin F /\ "lastcmd" \notin F /\ "BLOCKED" \notin G /\ BlockedClients(s)
                => BlockedClients(q)
           /\ "querybuf" \notin F /\ Unread(s) => Unread(q)
<1> DEFINE Eq(g) == \A x \in Clients : q.cl[x][g] = s.cl[x][g]
           Fl(f) == \A x \in Clients : f \in q.cl[x].flags <=> f \in s.cl[x].flags
<1>1. \A g \in ServerFields : g # "cl" /\ g \notin S => q[g] = s[g]
    BY DEF Change, Same
<1>2. \A g \in ClientFields : g # "flags" /\ g \notin F => Eq(g)
    BY DEF Change, Alike
<1>3. \A f : f \notin G => Fl(f)
    BY DEF Change, Alike
<1>4. Open(q) = Open(s)
    <2>1. Eq("state")
        BY <1>2 DEF ClientFields
    <2> QED
        BY <2>1 DEF Open
<1>5. "clients" \notin S /\ ClientsTable(s) => ClientsTable(q)
    BY <1>1, <1>4 DEF ServerFields, ClientsTable
<1>6. "blocking_keys" \notin S /\ "bpop" \notin F /\ BlockingTable(s) => BlockingTable(q)
    <2>1. "bpop" \notin F => Eq("bpop")
        BY <1>2 DEF ClientFields
    <2>2. "bpop" \notin F => \A k : Waiting(q, k) = Waiting(s, k)
        BY <1>4, <2>1 DEF Waiting, Open
    <2> QED
        BY <1>1, <2>2 DEF ServerFields, BlockingTable
<1>7. "watched_keys" \notin S /\ "watched_keys" \notin F /\ WatchTable(s) => WatchTable(q)
    <2>1. "watched_keys" \notin F => Eq("watched_keys")
        BY <1>2 DEF ClientFields
    <2>2. "watched_keys" \notin F => \A k : Watching(q, k) = Watching(s, k)
        BY <1>4, <2>1 DEF Watching, Open
    <2> QED
        BY <1>1, <2>2 DEF ServerFields, WatchTable
<1>8. "pubsub_channels" \notin S /\ "channels" \notin F /\ ChannelTable(s) => ChannelTable(q)
    <2>1. "channels" \notin F => Eq("channels")
        BY <1>2 DEF ClientFields
    <2>2. "channels" \notin F => \A k : Subscribed(q, k) = Subscribed(s, k)
        BY <1>4, <2>1 DEF Subscribed, Open
    <2> QED
        BY <1>1, <2>2 DEF ServerFields, ChannelTable
<1>9. "pubsub_patterns" \notin S /\ "patterns" \notin F /\ PatternTable(s) => PatternTable(q)
    <2>1. "patterns" \notin F => Eq("patterns")
        BY <1>2 DEF ClientFields
    <2>2. "patterns" \notin F =>
            \A e \in Open(s) \X Patterns : q.cl[e[1]].patterns = s.cl[e[1]].patterns
        BY <2>1 DEF Open
    <2>3. "patterns" \notin F => Subscriptions(q) = Subscriptions(s)
        BY <1>4, <2>2 DEF Subscriptions
    <2> QED
        BY <1>1, <2>3 DEF ServerFields, PatternTable
<1>10. \A f : f \notin G => Flags(q, f) = Flags(s, f)
    BY <1>3, <1>4 DEF Flags, Open
<1>11. "clients_pending_write" \notin S /\ "PENDING_WRITE" \notin G /\ WriteTable(s)
        => WriteTable(q)
    BY <1>1, <1>10 DEF ServerFields, WriteTable
<1>12. "clients_to_close" \notin S /\ "CLOSE_ASAP" \notin G /\ CloseTable(s) => CloseTable(q)
    BY <1>1, <1>10 DEF ServerFields, CloseTable
<1>13. "unblocked_clients" \notin S /\ "twice" \notin S /\ "UNBLOCKED" \notin G
        /\ UnblockedTable(s) => UnblockedTable(q)
    BY <1>1, <1>10 DEF ServerFields, UnblockedTable
<1>14. "bpop" \notin F /\ "lastcmd" \notin F /\ "BLOCKED" \notin G /\ BlockedClients(s)
        => BlockedClients(q)
    <2>1. "bpop" \notin F => Eq("bpop")
        BY <1>2 DEF ClientFields
    <2>2. "lastcmd" \notin F => Eq("lastcmd")
        BY <1>2 DEF ClientFields
    <2> QED
        BY <1>3, <1>4, <2>1, <2>2 DEF BlockedClients, BlockedClient, Open
<1>15. "querybuf" \notin F /\ Unread(s) => Unread(q)
    <2>1. "querybuf" \notin F => Eq("querybuf")
        BY <1>2 DEF ClientFields
    <2> QED
        BY <1>4, <2>1 DEF Unread
<1> QED
    BY <1>4, <1>5, <1>6, <1>7, <1>8, <1>9, <1>11, <1>12, <1>13, <1>14, <1>15

\* Who waits is noticed as long as data, waiting and ready keys stay.
LEMMA NoticedFrame ==
    ASSUME NEW s, NEW q, NEW S, NEW F, NEW G, Change(s, q, S, F, G), NEW R, Noticed(s, R),
           S \cap {"db", "blocking_keys", "overwritten", "ready_keys"} = {}
    PROVE  Noticed(q, R)
<1>1. /\ q.db = s.db /\ q.blocking_keys = s.blocking_keys /\ q.overwritten = s.overwritten
      /\ q.ready_keys = s.ready_keys
    BY DEF Change, Same, ServerFields
<1> QED
    BY <1>1 DEF Noticed

\* Who watches is told as long as watching, ready keys and the marks stay.
LEMMA ToldFrame ==
    ASSUME NEW s, NEW q, NEW S, NEW F, NEW G, Change(s, q, S, F, G), NEW K, NEW R, Told(s, K, R),
           S \cap {"watched_keys", "ready_keys"} = {},
           F \cap {"stale", "refused", "broken"} = {}, G \cap {"DIRTY_CAS", "DIRTY_EXEC"} = {}
    PROVE  Told(q, K, R)
<1>1. q.watched_keys = s.watched_keys /\ q.ready_keys = s.ready_keys
    BY DEF Change, Same, ServerFields
<1>2. ASSUME NEW x \in Clients
      PROVE  /\ q.cl[x].stale = s.cl[x].stale /\ q.cl[x].refused = s.cl[x].refused
             /\ q.cl[x].broken = s.cl[x].broken
             /\ "DIRTY_CAS" \in q.cl[x].flags <=> "DIRTY_CAS" \in s.cl[x].flags
             /\ "DIRTY_EXEC" \in q.cl[x].flags <=> "DIRTY_EXEC" \in s.cl[x].flags
    BY DEF Change, Alike, ClientFields
<1>3. \A c \in Clients : ToldClient(q.cl[c], K)
    BY <1>2 DEF Told, ToldClient, Dirtied
<1>4. \A c \in Clients : \A k \in q.cl[c].stale : c \in ToSet(q.watched_keys[k])
    BY <1>1, <1>2 DEF Told
<1>5. \A k \in Keys \ K : k \in ToSet(q.ready_keys) \cup R =>
          \A c \in Clients : c \in ToSet(q.watched_keys[k]) => Dirtied(q.cl[c])
    BY <1>1, <1>2 DEF Told, Dirtied
<1> QED
    BY <1>3, <1>4, <1>5 DEF Told

\* The answers due are kept by what does not touch them.
VoiceFields == {"state", "answers", "n", "muted"}
VoiceFlags == {"BLOCKED", "CLOSE_AFTER_REPLY", "REPLY_OFF", "REPLY_SKIP", "REPLY_SKIP_NEXT"}
\* The answers of a client do not depend on its other fields.
LEMMA VoiceFrame ==
    ASSUME NEW r, NEW u, NEW F, NEW G, Alike(r, u, F, G),
           F \cap VoiceFields = {}, G \cap VoiceFlags = {}
    PROVE  /\ InTurn(u) <=> InTurn(r)
           /\ Unanswered(u) <=> Unanswered(r)
           /\ Answered(u) <=> Answered(r)
<1>1. u.state = r.state /\ u.answers = r.answers /\ u.n = r.n /\ u.muted = r.muted
    BY DEF Alike, ClientFields, VoiceFields
<1>2. \A f \in VoiceFlags : f \in u.flags <=> f \in r.flags
    BY DEF Alike
<1>3. (Silent(u) <=> Silent(r)) /\ (Replies(u) <=> Replies(r)) /\ (Ordered(u) <=> Ordered(r))
    BY <1>1, <1>2 DEF Silent, Replies, Ordered, VoiceFlags
<1> QED
    BY <1>1, <1>2, <1>3 DEF InTurn, Unanswered, Answered, VoiceFlags

(* One field, g, of a client is replaced by v.                              *)
With(r, g, v) == [r EXCEPT ![g] = v]
FieldOk(g, v) ==
    \/ g = "querybuf" /\ v \in Seq(Requests)
    \/ g = "mstate" /\ v \in Seq(Queued)
    \/ g = "watched_keys" /\ v \in Seq(Keys)
    \/ g = "bpop" /\ v \in Bpop
    \/ g = "lastcmd" /\ v \in Sent \cup {"none"}
    \/ g = "channels" /\ v \in SUBSET Channels
    \/ g = "patterns" /\ v \in Seq(Patterns)
    \/ g \in {"pending", "n"} /\ v \in Nat
    \/ g \in {"handler", "muted", "refused", "broken"} /\ v \in BOOLEAN
    \/ g = "answers" /\ v \in Seq(Nat)
    \/ g = "stale" /\ v \in SUBSET Keys
WithFlags(r, X) == [r EXCEPT !.flags = X]

\* One field of a client set to a value of its type.
LEMMA WithField ==
    ASSUME NEW r \in Client, NEW g, NEW v, FieldOk(g, v)
    PROVE  With(r, g, v) \in Client /\ Alike(r, With(r, g, v), {g}, {})
<1> DEFINE u == With(r, g, v)
<1>1. u \in Client
    <2>1. CASE g = "querybuf" /\ v \in Seq(Requests)
        BY <2>1 DEF With, Client
    <2>2. CASE g = "mstate" /\ v \in Seq(Queued)
        BY <2>2 DEF With, Client
    <2>3. CASE g = "watched_keys" /\ v \in Seq(Keys)
        BY <2>3 DEF With, Client
    <2>4. CASE g = "bpop" /\ v \in Bpop
        BY <2>4 DEF With, Client
    <2>5. CASE g = "lastcmd" /\ v \in Sent \cup {"none"}
        BY <2>5 DEF With, Client
    <2>6. CASE g = "channels" /\ v \in SUBSET Channels
        BY <2>6 DEF With, Client
    <2>7. CASE g = "patterns" /\ v \in Seq(Patterns)
        BY <2>7 DEF With, Client
    <2>8. CASE g \in {"pending", "n"} /\ v \in Nat
        BY <2>8 DEF With, Client
    <2>9. CASE g \in {"handler", "muted", "refused", "broken"} /\ v \in BOOLEAN
        BY <2>9 DEF With, Client
    <2>10. CASE g = "answers" /\ v \in Seq(Nat)
        BY <2>10 DEF With, Client
    <2>11. CASE g = "stale" /\ v \in SUBSET Keys
        BY <2>11 DEF With, Client
    <2> QED
        BY <2>1, <2>2, <2>3, <2>4, <2>5, <2>6, <2>7, <2>8, <2>9, <2>10, <2>11 DEF FieldOk
<1>2. DOMAIN r = ClientFields
    BY DEF Client, ClientFields
<1>3. \A x \in ClientFields \ {g} : u[x] = r[x]
    BY <1>2 DEF With
<1>4. g \in ClientFields \ {"flags"}
    BY DEF FieldOk, ClientFields
<1>5. u.flags = r.flags
    BY <1>3, <1>4 DEF ClientFields
<1> HIDE DEF u
<1>6. Alike(r, u, {g}, {})
    BY <1>3, <1>5 DEF Alike
<1> QED
    BY <1>1, <1>6 DEF u

(* One field, g, of the server is replaced by v.                            *)
PutS(s, g, v) == [s EXCEPT ![g] = v]
ServerOk(g, v) ==
    \/ g \in {"clients", "unblocked_clients", "clients_pending_write", "clients_to_close"}
       /\ v \in Seq(Clients)
    \/ g \in {"db", "replica"} /\ v \in [Keys -> Value]
    \/ g \in {"blocking_keys", "watched_keys"} /\ v \in [Keys -> Seq(Clients)]
    \/ g = "ready_keys" /\ v \in Seq(Keys)
    \/ g = "overwritten" /\ v \in SUBSET Keys
    \/ g = "twice" /\ v \in SUBSET Clients
    \/ g = "pubsub_channels" /\ v \in [Channels -> Seq(Clients)]
    \/ g = "pubsub_patterns" /\ v \in Seq(Clients \X Patterns)
    \/ g \in {"clients_paused", "pause_over", "slave", "executing", "dirty"} /\ v \in BOOLEAN
    \/ g = "argv" /\ v \in Commands
\* One field of the server set to a value of its type.
LEMMA PutServer ==
    ASSUME NEW s \in Server, NEW g, NEW v, ServerOk(g, v)
    PROVE  /\ Change(s, PutS(s, g, v), {g}, {}, {}) /\ PutS(s, g, v).cl = s.cl
           /\ \A c : Others(s, PutS(s, g, v), c)
<1> DEFINE q == PutS(s, g, v)
<1>1. q \in Server
    <2>1. CASE g \in {"clients", "unblocked_clients", "clients_pending_write", "clients_to_close"}
               /\ v \in Seq(Clients)
        BY <2>1 DEF PutS, Server
    <2>2. CASE g \in {"db", "replica"} /\ v \in [Keys -> Value]
        BY <2>2 DEF PutS, Server
    <2>3. CASE g \in {"blocking_keys", "watched_keys"} /\ v \in [Keys -> Seq(Clients)]
        BY <2>3 DEF PutS, Server
    <2>4. CASE g = "ready_keys" /\ v \in Seq(Keys)
        BY <2>4 DEF PutS, Server
    <2>5. CASE g = "overwritten" /\ v \in SUBSET Keys
        BY <2>5 DEF PutS, Server
    <2>6. CASE g = "pubsub_channels" /\ v \in [Channels -> Seq(Clients)]
        BY <2>6 DEF PutS, Server
    <2>7. CASE g = "pubsub_patterns" /\ v \in Seq(Clients \X Patterns)
        BY <2>7 DEF PutS, Server
    <2>8. CASE g \in {"clients_paused", "pause_over", "slave", "executing", "dirty"} /\ v \in BOOLEAN
        BY <2>8, ZenonT(40) DEF PutS, Server
    <2>9. CASE g = "argv" /\ v \in Commands
        BY <2>9 DEF PutS, Server
    <2>10. CASE g = "twice" /\ v \in SUBSET Clients
        BY <2>10 DEF PutS, Server
    <2> QED
        BY <2>1, <2>2, <2>3, <2>4, <2>5, <2>6, <2>7, <2>8, <2>9, <2>10 DEF ServerOk
<1>2. DOMAIN s = ServerFields
    BY DEF Server, ServerFields
<1>3. \A x \in ServerFields \ {g} : q[x] = s[x]
    BY <1>2 DEF PutS
<1>4. g \in ServerFields \ {"cl"}
    BY DEF ServerOk, ServerFields
<1>5. q.cl = s.cl
    BY <1>3, <1>4 DEF ServerFields
<1>6. Same(s, q, {g})
    BY <1>3 DEF Same
<1> HIDE DEF q
<1>7. \A c : Others(s, q, c)
    BY <1>5 DEF Others
<1>8. \A x \in Clients : Alike(s.cl[x], q.cl[x], {}, {})
    BY <1>5, AlikeRefl
<1>9. Change(s, q, {g}, {}, {})
    BY <1>1, <1>6, <1>8 DEF Change
<1> QED
    BY <1>5, <1>7, <1>9 DEF q

\* A function with other values at some arguments.
LEMMA OverlayFacts ==
    ASSUME NEW A, NEW B, NEW f \in [A -> B], NEW g, DOMAIN g \subseteq A,
           \A x \in DOMAIN g : g[x] \in B
    PROVE  /\ Overlay(f, g) \in [A -> B]
           /\ \A x \in A : Overlay(f, g)[x] = IF x \in DOMAIN g THEN g[x] ELSE f[x]
<1>1. Overlay(f, g) = [x \in A |-> IF x \in DOMAIN g THEN g[x] ELSE f[x]]
    BY DEF Overlay
<1> QED
    BY <1>1

-----------------------------------------------------------------------------
(* Flags, and what is private to a client. *)

LEMMA PutClient ==
    ASSUME NEW s \in Server, NEW c \in Clients, NEW u \in Client, NEW F, NEW G,
           Alike(s.cl[c], u, F, G)
    PROVE  /\ Change(s, Put(s, c, u), {}, F, G) /\ Others(s, Put(s, c, u), c)
           /\ Put(s, c, u).cl[c] = u
<1> DEFINE q == Put(s, c, u)
           h == [s.cl EXCEPT ![c] = u]
<1>1. s.cl \in [Clients -> Client]
    BY DEF Server
<1>2. h \in [Clients -> Client] /\ h[c] = u /\ \A x \in Clients \ {c} : h[x] = s.cl[x]
    BY <1>1
<1>3. q = [s EXCEPT !.cl = h]
    BY DEF Put
<1> HIDE DEF h
<1>4. q \in Server /\ q.cl = h /\ Same(s, q, {})
    BY <1>2, <1>3 DEF Server, Same, ServerFields
<1> HIDE DEF q
<1>5. Others(s, q, c) /\ q.cl[c] = u
    BY <1>2, <1>4 DEF Others
<1>6. Alike(s.cl[c], q.cl[c], F, G)
    BY <1>5
<1>7. Change(s, q, {}, F, G)
    BY <1>4, <1>5, <1>6, OneClient
<1> QED
    BY <1>5, <1>7 DEF q

PutC(s, c, g, v) == Put(s, c, With(s.cl[c], g, v))
\* One field of one client set to a value of its type.
LEMMA PutField ==
    ASSUME NEW s \in Server, NEW c \in Clients, NEW g, NEW v, FieldOk(g, v)
    PROVE  /\ Change(s, PutC(s, c, g, v), {}, {g}, {}) /\ Others(s, PutC(s, c, g, v), c)
           /\ PutC(s, c, g, v).cl[c] = With(s.cl[c], g, v)
<1> DEFINE u == With(s.cl[c], g, v)
<1>1. s.cl[c] \in Client
    BY ClientOf
<1>2. u \in Client /\ Alike(s.cl[c], u, {g}, {})
    BY <1>1, WithField
<1> HIDE DEF u
<1>3. Change(s, Put(s, c, u), {}, {g}, {}) /\ Others(s, Put(s, c, u), c) /\ Put(s, c, u).cl[c] = u
    BY <1>2, PutClient
<1>4. PutC(s, c, g, v) = Put(s, c, u)
    BY DEF PutC, u
<1> QED
    BY <1>3, <1>4 DEF u

\* The flags of one client.
LEMMA PutFlags ==
    ASSUME NEW s \in Server, NEW c \in Clients, NEW X \in SUBSET FlagNames, NEW G,
           \A f : f \notin G => (f \in X <=> f \in s.cl[c].flags)
    PROVE  LET q == Put(s, c, WithFlags(s.cl[c], X))
           IN  Change(s, q, {}, {}, G) /\ Others(s, q, c) /\ q.cl[c].flags = X
<1> DEFINE u == WithFlags(s.cl[c], X)
<1>1. s.cl[c] \in Client
    BY ClientOf
<1>2. u \in Client /\ u.flags = X
    BY <1>1 DEF Client, WithFlags
<1>3. \A x \in ClientFields \ {"flags"} : u[x] = s.cl[c][x]
    BY <1>1 DEF Client, ClientFields, WithFlags
<1> HIDE DEF u
<1>4. Alike(s.cl[c], u, {}, G)
    BY <1>2, <1>3 DEF Alike
<1>5. Change(s, Put(s, c, u), {}, {}, G) /\ Others(s, Put(s, c, u), c) /\ Put(s, c, u).cl[c] = u
    BY <1>2, <1>4, PutClient
<1>6. Put(s, c, u).cl[c].flags = X
    BY <1>2, <1>5
<1> QED
    BY <1>5, <1>6, Zenon DEF u

\* One flag of one client set.
LEMMA SetChange ==
    ASSUME NEW s \in Server, NEW c \in Clients, NEW f \in FlagNames
    PROVE  /\ Change(s, Set(s, c, f), {}, {}, {f}) /\ Others(s, Set(s, c, f), c)
           /\ Set(s, c, f).cl[c].flags = s.cl[c].flags \cup {f}
<1> DEFINE X == s.cl[c].flags \cup {f}
<1>1. s.cl[c] \in Client
    BY ClientOf
<1>2. s.cl[c].flags \in SUBSET FlagNames
    BY <1>1 DEF Client
<1>3. X \in SUBSET FlagNames /\ \A g : g \notin {f} => (g \in X <=> g \in s.cl[c].flags)
    BY <1>2
<1>4. Set(s, c, f) = Put(s, c, WithFlags(s.cl[c], X))
    BY DEF Set, Server, Put, WithFlags
<1> HIDE DEF X
<1>5. LET q == Put(s, c, WithFlags(s.cl[c], X))
      IN  Change(s, q, {}, {}, {f}) /\ Others(s, q, c) /\ q.cl[c].flags = X
    BY <1>3, PutFlags
<1> QED
    BY <1>4, <1>5 DEF X

\* Flags of one client cleared.
LEMMA ClearChange ==
    ASSUME NEW s \in Server, NEW c \in Clients, NEW fs
    PROVE  /\ Change(s, Clear(s, c, fs), {}, {}, fs) /\ Others(s, Clear(s, c, fs), c)
           /\ Clear(s, c, fs).cl[c].flags = s.cl[c].flags \ fs
<1> DEFINE X == s.cl[c].flags \ fs
<1>1. s.cl[c] \in Client
    BY ClientOf
<1>2. s.cl[c].flags \in SUBSET FlagNames
    BY <1>1 DEF Client
<1>3. X \in SUBSET FlagNames /\ \A g : g \notin fs => (g \in X <=> g \in s.cl[c].flags)
    BY <1>2
<1>4. Clear(s, c, fs) = Put(s, c, WithFlags(s.cl[c], X))
    BY DEF Clear, Server, Put, WithFlags
<1> HIDE DEF X
<1>5. LET q == Put(s, c, WithFlags(s.cl[c], X))
      IN  Change(s, q, {}, {}, fs) /\ Others(s, q, c) /\ q.cl[c].flags = X
    BY <1>3, PutFlags
<1> QED
    BY <1>4, <1>5 DEF X

\* The flags and fields that no table looks at.
TableFlags == {"PENDING_WRITE", "CLOSE_ASAP", "UNBLOCKED", "BLOCKED", "DIRTY_CAS", "DIRTY_EXEC"}
TableFields == {"state", "querybuf", "watched_keys", "bpop", "lastcmd", "channels", "patterns",
                "stale", "refused", "broken"}
PlainFields == {"replica", "clients_paused", "pause_over", "slave", "executing", "dirty", "argv"}
\* Fields and flags that no table is about may change.
LEMMA PrivateSafe ==
    ASSUME NEW s, NEW q, NEW S, NEW F, NEW G, NEW K, NEW R, Safe(s, K, R),
           Change(s, q, S, F, G), S \subseteq PlainFields, F \cap TableFields = {},
           G \cap TableFlags = {}
    PROVE  Safe(q, K, R)
<1>1. Noticed(q, R)
    BY NoticedFrame DEF Safe, PlainFields
<1>2. Told(q, K, R)
    <2>1. S \cap {"watched_keys", "ready_keys"} = {}
        BY DEF PlainFields
    <2>2. F \cap {"stale", "refused", "broken"} = {} /\ G \cap {"DIRTY_CAS", "DIRTY_EXEC"} = {}
        BY DEF TableFields, TableFlags
    <2> QED
        BY <2>1, <2>2, ToldFrame DEF Safe
<1>3. /\ ClientsTable(q) /\ BlockingTable(q) /\ WatchTable(q) /\ ChannelTable(q)
      /\ PatternTable(q) /\ WriteTable(q) /\ CloseTable(q) /\ UnblockedTable(q)
      /\ BlockedClients(q) /\ Unread(q)
    <2>1. \A g \in TableFields : g \notin F
        OBVIOUS
    <2>2. \A f \in TableFlags : f \notin G
        OBVIOUS
    <2>3. "state" \notin F
        BY <2>1 DEF TableFields
    <2> QED
        BY <2>1, <2>2, <2>3, Frame DEF Safe, Sound, PlainFields, TableFields, TableFlags
<1>4. q \in Server
    BY DEF Change
<1> QED
    BY <1>1, <1>2, <1>3, <1>4 DEF Safe, Sound

-----------------------------------------------------------------------------
(* Replies. *)

LEMMA freeClientAsyncSafe ==
    ASSUME NEW K, NEW R, NEW s, Safe(s, K, R), NEW c \in Open(s)
    PROVE  LET q == freeClientAsync(s, c)
           IN  /\ Safe(q, K, R) /\ Others(s, q, c)
               /\ Change(s, q, {"clients_to_close"}, {}, {"CLOSE_ASAP"})
<1> DEFINE q == freeClientAsync(s, c)
           d == Set(s, c, "CLOSE_ASAP")
<1>1. s \in Server /\ c \in Clients /\ s.clients_to_close \in Seq(Clients)
    BY DEF Safe, Sound, Open, Server
<1>2. CASE Has(s, c, "CLOSE_ASAP")
    <2>1. q = s
        BY <1>2 DEF freeClientAsync
    <2>2. Change(s, s, {"clients_to_close"}, {}, {"CLOSE_ASAP"}) /\ Others(s, s, c)
        BY <1>1, ChangeRefl
    <2> QED
        BY <2>1, <2>2
<1>3. CASE ~Has(s, c, "CLOSE_ASAP")
    <2>1. /\ Change(s, d, {}, {}, {"CLOSE_ASAP"}) /\ Others(s, d, c)
          /\ d.cl[c].flags = s.cl[c].flags \cup {"CLOSE_ASAP"}
        BY <1>1, SetChange DEF FlagNames
    <2>2. d.clients_to_close = s.clients_to_close /\ d \in Server
        BY <2>1 DEF Change, Same, ServerFields
    <2>3. q = [d EXCEPT !.clients_to_close = Append(s.clients_to_close, c)]
        BY <1>3, <2>2 DEF freeClientAsync
    <2> HIDE DEF q, d
    <2>4. Append(s.clients_to_close, c) \in Seq(Clients)
        BY <1>1, AppendProperties
    <2>5. /\ q \in Server /\ q.cl = d.cl /\ q.clients_to_close = Append(s.clients_to_close, c)
          /\ Same(d, q, {"clients_to_close"})
        BY <2>2, <2>3, <2>4 DEF Server, Same, ServerFields
    <2>6. Change(s, q, {"clients_to_close"}, {}, {"CLOSE_ASAP"}) /\ Others(s, q, c)
        BY <2>1, <2>5 DEF Change, Same, Others
    <2>7. Flags(q, "CLOSE_ASAP") = Flags(s, "CLOSE_ASAP") \cup {c}
        <3>1. Open(q) = Open(s)
            BY <2>6, Frame
        <3> QED
            BY <1>1, <2>1, <2>5, <2>6, <3>1 DEF Flags, Others, Open
    <2>8. c \notin Flags(s, "CLOSE_ASAP")
        BY <1>3 DEF Flags, Has
    <2>9. CloseTable(q)
        BY <1>1, <2>5, <2>7, <2>8, ListsAppend DEF CloseTable, Safe, Sound
    <2>10. /\ ClientsTable(q) /\ BlockingTable(q) /\ WatchTable(q) /\ ChannelTable(q)
           /\ PatternTable(q) /\ WriteTable(q) /\ UnblockedTable(q) /\ BlockedClients(q) /\ Unread(q)
        BY <2>6, Frame DEF Safe, Sound
    <2>11. Noticed(q, R) /\ Told(q, K, R)
        BY <2>6, NoticedFrame, ToldFrame DEF Safe
    <2> QED
        BY <2>5, <2>6, <2>9, <2>10, <2>11 DEF Safe, Sound, q
<1> QED
    BY <1>2, <1>3

\* prepareClientToWrite: the client is in the list if it is flagged.
LEMMA prepareClientToWriteSafe ==
    ASSUME NEW K, NEW R, NEW s, Safe(s, K, R), NEW c \in Open(s)
    PROVE  LET q == prepareClientToWrite(s, c)
           IN  /\ Safe(q, K, R) /\ Others(s, q, c)
               /\ Change(s, q, {"clients_pending_write"}, {}, {"PENDING_WRITE"})
<1> DEFINE q == prepareClientToWrite(s, c)
           d == Set(s, c, "PENDING_WRITE")
           skip == ~(s.cl[c].pending = 0 /\ ~Has(s, c, "PENDING_WRITE"))
<1>1. s \in Server /\ c \in Clients /\ s.clients_pending_write \in Seq(Clients)
    BY DEF Safe, Sound, Open, Server
<1>2. CASE skip
    <2>1. q = s
        BY <1>2 DEF prepareClientToWrite
    <2>2. Change(s, s, {"clients_pending_write"}, {}, {"PENDING_WRITE"}) /\ Others(s, s, c)
        BY <1>1, ChangeRefl
    <2> QED
        BY <2>1, <2>2
<1>3. CASE ~skip
    <2>1. /\ Change(s, d, {}, {}, {"PENDING_WRITE"}) /\ Others(s, d, c)
          /\ d.cl[c].flags = s.cl[c].flags \cup {"PENDING_WRITE"}
        BY <1>1, SetChange DEF FlagNames
    <2>2. d.clients_pending_write = s.clients_pending_write /\ d \in Server
        BY <2>1 DEF Change, Same, ServerFields
    <2> DEFINE m == <<c>> \o s.clients_pending_write
    <2>3. q = [d EXCEPT !.clients_pending_write = m]
        BY <1>3, <2>2 DEF prepareClientToWrite
    <2>4. c \notin Flags(s, "PENDING_WRITE")
        BY <1>3 DEF Flags, Has
    <2>5. Lists(m, Flags(s, "PENDING_WRITE") \cup {c}) /\ m \in Seq(Clients)
        BY <1>1, <2>4, ListsPrepend DEF WriteTable, Safe, Sound
    <2> HIDE DEF q, d, m
    <2>6. /\ q \in Server /\ q.cl = d.cl /\ q.clients_pending_write = m
          /\ Same(d, q, {"clients_pending_write"})
        BY <2>2, <2>3, <2>5 DEF Server, Same, ServerFields
    <2>7. Change(s, q, {"clients_pending_write"}, {}, {"PENDING_WRITE"}) /\ Others(s, q, c)
        BY <2>1, <2>6 DEF Change, Same, Others
    <2>8. Flags(q, "PENDING_WRITE") = Flags(s, "PENDING_WRITE") \cup {c}
        <3>1. Open(q) = Open(s)
            BY <2>7, Frame
        <3> QED
            BY <1>1, <2>1, <2>6, <2>7, <3>1 DEF Flags, Others, Open
    <2>9. WriteTable(q)
        BY <2>5, <2>6, <2>8 DEF WriteTable
    <2>10. /\ ClientsTable(q) /\ BlockingTable(q) /\ WatchTable(q) /\ ChannelTable(q)
           /\ PatternTable(q) /\ CloseTable(q) /\ UnblockedTable(q) /\ BlockedClients(q) /\ Unread(q)
        BY <2>7, Frame DEF Safe, Sound
    <2>11. Noticed(q, R) /\ Told(q, K, R)
        BY <2>7, NoticedFrame, ToldFrame DEF Safe
    <2> QED
        BY <2>6, <2>7, <2>9, <2>10, <2>11 DEF Safe, Sound, q
<1> QED
    BY <1>2, <1>3

\* What replies change.
ReplyLists == {"clients_pending_write", "clients_to_close"}
ReplyFlags == {"PENDING_WRITE", "CLOSE_ASAP"}
Replied(s, q, c, F) == Change(s, q, ReplyLists, F, ReplyFlags) /\ Others(s, q, c)

\* addReply, with the output limit and the asynchronous close.
LEMMA addReplySafe ==
    ASSUME NEW K, NEW R, NEW s, Safe(s, K, R), NEW c \in Open(s)
    PROVE  Safe(addReply(s, c), K, R) /\ Replied(s, addReply(s, c), c, {"pending"})
<1> DEFINE q == prepareClientToWrite(s, c)
           d == PutC(q, c, "pending", q.cl[c].pending + 1)
           e == freeClientAsync(d, c)
<1>1. s \in Server /\ c \in Clients
    BY DEF Safe, Sound, Open
<1>2. /\ Safe(q, K, R) /\ Others(s, q, c)
      /\ Change(s, q, {"clients_pending_write"}, {}, {"PENDING_WRITE"})
    BY prepareClientToWriteSafe
<1> HIDE DEF q
<1>3. q \in Server /\ c \in Open(q) /\ q.cl[c] \in Client
    BY <1>1, <1>2, Frame, ClientOf DEF Safe, Sound
<1>4. FieldOk("pending", q.cl[c].pending + 1)
    <2>1. q.cl[c].pending \in Nat
        BY <1>3 DEF Client
    <2> QED
        BY <2>1 DEF FieldOk
<1>5. d = [q EXCEPT !.cl[c].pending = @ + 1]
    BY <1>3 DEF Server, PutC, Put, With
<1>6. Change(q, d, {}, {"pending"}, {}) /\ Others(q, d, c)
    BY <1>1, <1>3, <1>4, PutField
<1> HIDE DEF d
<1>7. Safe(d, K, R) /\ c \in Open(d)
    BY <1>2, <1>3, <1>6, PrivateSafe, Frame DEF PlainFields, TableFields, TableFlags
<1>8. /\ Safe(e, K, R) /\ Others(d, e, c)
      /\ Change(d, e, {"clients_to_close"}, {}, {"CLOSE_ASAP"})
    BY <1>7, freeClientAsyncSafe
<1> HIDE DEF e
<1>9. Replied(s, s, c, {"pending"})
    BY <1>1, ChangeRefl DEF Replied
<1>10. Replied(s, q, c, {"pending"})
    BY <1>2, ChangeMore DEF Replied, ReplyLists, ReplyFlags
<1>11. Replied(s, d, c, {"pending"})
    <2>1. Change(q, d, ReplyLists, {"pending"}, ReplyFlags)
        BY <1>6, ChangeMore
    <2>2. Change(s, d, ReplyLists \cup ReplyLists, {"pending"} \cup {"pending"},
                 ReplyFlags \cup ReplyFlags)
        BY <1>10, <2>1, ChangeTrans DEF Replied
    <2> QED
        BY <1>2, <1>6, <2>2 DEF Replied, Others
<1>12. Replied(s, e, c, {"pending"})
    <2>1. Change(d, e, ReplyLists, {"pending"}, ReplyFlags)
        BY <1>8, ChangeMore DEF ReplyLists, ReplyFlags
    <2>2. Change(s, e, ReplyLists \cup ReplyLists, {"pending"} \cup {"pending"},
                 ReplyFlags \cup ReplyFlags)
        BY <1>11, <2>1, ChangeTrans DEF Replied
    <2> QED
        BY <1>8, <1>11, <2>2 DEF Replied, Others
<1>13. addReply(s, c) \in {s, q, d, e}
    BY <1>5 DEF addReply, asyncCloseClientOnOutputBufferLimitReached, q, e
<1> QED
    BY <1>2, <1>7, <1>8, <1>9, <1>10, <1>11, <1>12, <1>13

\* The answer to the command a client waits for, and the silence of one that
\* wants none.
LEMMA NowAnswered ==
    ASSUME NEW r \in Client, NEW u, NEW F, NEW G, Unanswered(r), Alike(r, u, F, G),
           F \cap {"state", "n", "muted"} = {}, G \cap VoiceFlags = {},
           \/ u.answers = Append(r.answers, r.n)
           \/ u.answers = r.answers /\ Silent(r)
    PROVE  Answered(u)
<1>1. u.state = r.state /\ u.n = r.n /\ u.muted = r.muted
    BY DEF Alike, ClientFields
<1>2. \A f \in VoiceFlags : f \in u.flags <=> f \in r.flags
    BY DEF Alike
<1>3. (Silent(u) <=> Silent(r)) /\ (Replies(u) <=> Replies(r))
    BY <1>1, <1>2 DEF Silent, Replies, VoiceFlags
<1>4. r.answers \in Seq(Nat) /\ r.n \in Nat
    BY DEF Client
<1>5. Len(r.answers) \in Nat /\ \A i \in 1..Len(r.answers) : r.answers[i] \in Nat
    BY <1>4, LenProperties, ElementOfSeq
<1>6. /\ Ordered(r) /\ Replies(r) /\ \A i \in 1..Len(r.answers) : r.answers[i] < r.n
      /\ Silent(r) \/ Len(r.answers) + 1 = r.n
    BY DEF Unanswered
<1>7. CASE u.answers = Append(r.answers, r.n)
    <2>1. /\ Len(u.answers) = Len(r.answers) + 1 /\ u.answers[Len(r.answers) + 1] = r.n
          /\ \A i \in 1..Len(r.answers) : u.answers[i] = r.answers[i]
        BY <1>4, <1>7, AppendProperties
    <2>2. \A i \in 1..(Len(r.answers) + 1) : i \in 1..Len(r.answers) \/ i = Len(r.answers) + 1
        BY <1>5
    <2>3. \A i \in 1..Len(u.answers) : u.answers[i] <= u.n
        BY <1>1, <1>4, <1>5, <1>6, <2>1, <2>2
    <2>4. Ordered(u)
        <3> SUFFICES ASSUME NEW i \in 1..Len(u.answers), NEW j \in 1..Len(u.answers), i < j
                     PROVE  u.answers[i] < u.answers[j]
            BY DEF Ordered
        <3>1. i \in 1..Len(r.answers)
            BY <1>5, <2>1
        <3>2. CASE j \in 1..Len(r.answers)
            BY <1>6, <2>1, <3>1, <3>2 DEF Ordered
        <3>3. CASE j = Len(r.answers) + 1
            BY <1>6, <2>1, <3>1, <3>3
        <3> QED
            BY <2>1, <2>2, <3>2, <3>3
    <2> QED
        BY <1>1, <1>3, <1>6, <2>1, <2>3, <2>4 DEF Answered
<1>8. CASE u.answers = r.answers /\ Silent(r)
    <2>1. \A i \in 1..Len(u.answers) : u.answers[i] <= u.n
        BY <1>1, <1>4, <1>5, <1>6, <1>8
    <2>2. Ordered(u)
        BY <1>6, <1>8 DEF Ordered
    <2> QED
        BY <1>3, <1>6, <1>8, <2>1, <2>2 DEF Answered
<1> QED
    BY <1>7, <1>8

\* A reply to the command in execution: the client is answered.
LEMMA AnswerSafe ==
    ASSUME NEW K, NEW R, NEW s, Safe(s, K, R), NEW c \in Open(s)
    PROVE  /\ Safe(Answer(s, c), K, R) /\ Replied(s, Answer(s, c), c, {"pending", "answers"})
           /\ s.executing => Answer(s, c).cl[c].answers = s.cl[c].answers
           /\ ~s.executing /\ Unanswered(s.cl[c]) => Answered(Answer(s, c).cl[c])
<1> DEFINE d == addReply(s, c)
           m == Append(d.cl[c].answers, s.cl[c].n)
           e == PutC(d, c, "answers", m)
           plain == s.executing \/ Muted(s, c) \/ Has(s, c, "CLOSE_AFTER_REPLY")
<1>1. s \in Server /\ c \in Clients /\ s.cl[c] \in Client
    BY ClientOf DEF Safe, Sound, Open
<1>2. Safe(d, K, R) /\ Replied(s, d, c, {"pending"})
    BY addReplySafe
<1>3. Answer(s, c) = IF plain THEN d ELSE [d EXCEPT !.cl[c].answers = Append(@, s.cl[c].n)]
    BY DEF Answer
<1> HIDE DEF d
<1>4. d \in Server /\ d.cl[c] \in Client
    BY <1>1, <1>2, ClientOf DEF Safe, Sound
<1>5. FieldOk("answers", m)
    <2>1. d.cl[c].answers \in Seq(Nat) /\ s.cl[c].n \in Nat
        BY <1>1, <1>4 DEF Client
    <2> QED
        BY <2>1, AppendProperties DEF FieldOk
<1> HIDE DEF m
<1>6. e = [d EXCEPT !.cl[c].answers = m]
    BY <1>4 DEF Server, PutC, Put, With
<1>7. /\ Change(d, e, {}, {"answers"}, {}) /\ Others(d, e, c)
      /\ e.cl[c].answers = m
    <2>1. /\ Change(d, e, {}, {"answers"}, {}) /\ Others(d, e, c)
          /\ e.cl[c] = With(d.cl[c], "answers", m)
        BY <1>1, <1>4, <1>5, PutField
    <2>2. With(d.cl[c], "answers", m).answers = m
        BY <1>4 DEF With, Client
    <2> QED
        BY <2>1, <2>2
<1> HIDE DEF e
<1>8. Safe(e, K, R)
    BY <1>2, <1>7, PrivateSafe DEF PlainFields, TableFields, TableFlags
<1>9. Replied(s, d, c, {"pending", "answers"})
    BY <1>2, ChangeMore DEF Replied
<1>10. Replied(s, e, c, {"pending", "answers"})
    <2>1. Change(d, e, ReplyLists, {"pending", "answers"}, ReplyFlags)
        BY <1>7, ChangeMore
    <2>2. Change(s, e, ReplyLists \cup ReplyLists, {"pending", "answers"} \cup {"pending", "answers"},
                 ReplyFlags \cup ReplyFlags)
        BY <1>9, <2>1, ChangeTrans DEF Replied
    <2> QED
        BY <1>7, <1>9, <2>2 DEF Replied, Others
<1>11. d.cl[c].answers = s.cl[c].answers
    BY <1>1, <1>2 DEF Replied, Change, Alike, ClientFields
<1>12. CASE plain
    <2>1. Answer(s, c) = d
        BY <1>3, <1>12
    <2>2. ASSUME ~s.executing, Unanswered(s.cl[c]) PROVE Answered(d.cl[c])
        <3>1. Silent(s.cl[c])
            BY <1>12, <2>2 DEF Muted, Has, Silent, Unanswered, Replies
        <3>2. Alike(s.cl[c], d.cl[c], {"pending"}, ReplyFlags)
            BY <1>1, <1>2 DEF Replied, Change
        <3> QED
            BY <1>1, <1>11, <2>2, <3>1, <3>2, NowAnswered DEF ReplyFlags, VoiceFlags
    <2> QED
        BY <1>2, <1>9, <1>11, <2>1, <2>2
<1>13. CASE ~plain
    <2>1. Answer(s, c) = e
        BY <1>3, <1>6, <1>13 DEF m
    <2>2. ASSUME Unanswered(s.cl[c]) PROVE Answered(e.cl[c])
        <3>1. Alike(s.cl[c], e.cl[c], {"pending", "answers"}, ReplyFlags)
            BY <1>1, <1>10 DEF Replied, Change
        <3>2. e.cl[c].answers = Append(s.cl[c].answers, s.cl[c].n)
            BY <1>7, <1>11 DEF m
        <3>3. {"pending", "answers"} \cap {"state", "n", "muted"} = {} /\ ReplyFlags \cap VoiceFlags = {}
            BY DEF ReplyFlags, VoiceFlags
        <3> QED
            BY <1>1, <2>2, <3>1, <3>2, <3>3, NowAnswered
    <2> QED
        BY <1>8, <1>10, <1>13, <2>1, <2>2
<1> QED
    BY <1>12, <1>13

-----------------------------------------------------------------------------
(* Watched keys. *)

LEMMA SetAllChange ==
    ASSUME NEW s \in Server, NEW C \in SUBSET Clients, NEW f \in FlagNames
    PROVE  /\ Change(s, SetAll(s, C, f), {}, {}, {f})
           /\ \A x \in Clients : f \in SetAll(s, C, f).cl[x].flags <=> x \in C \/ f \in s.cl[x].flags
<1> DEFINE q == SetAll(s, C, f)
           g == [c \in C |-> WithFlags(s.cl[c], s.cl[c].flags \cup {f})]
           h == Overlay(s.cl, g)
<1>1. s.cl \in [Clients -> Client] /\ \A c \in Clients : s.cl[c] \in Client
    BY DEF Server
<1>2. ASSUME NEW c \in Clients
      PROVE  LET u == WithFlags(s.cl[c], s.cl[c].flags \cup {f})
             IN  u \in Client /\ u.flags = s.cl[c].flags \cup {f} /\ Alike(s.cl[c], u, {}, {f})
    <2> DEFINE r == s.cl[c]
               X == r.flags \cup {f}
               u == WithFlags(r, X)
    <2>1. r \in Client
        BY <1>1
    <2> HIDE DEF r
    <2>2. r.flags \in SUBSET FlagNames
        BY <2>1 DEF Client
    <2>3. X \in SUBSET FlagNames /\ \A y : y \notin {f} => (y \in X <=> y \in r.flags)
        BY <2>2
    <2> HIDE DEF X
    <2>4. u \in Client /\ u.flags = X
        BY <2>1, <2>3 DEF Client, WithFlags
    <2>5. \A y \in ClientFields \ {"flags"} : u[y] = r[y]
        BY <2>1 DEF Client, ClientFields, WithFlags
    <2>6. Alike(r, u, {}, {f})
        BY <2>3, <2>4, <2>5 DEF Alike
    <2> QED
        BY <2>4, <2>6 DEF r, X
<1>3. \A c \in C : g[c] \in Client
    BY <1>2
<1>4. h \in [Clients -> Client] /\ \A x \in Clients : h[x] = IF x \in C THEN g[x] ELSE s.cl[x]
    <2>1. DOMAIN g = C
        OBVIOUS
    <2> HIDE DEF g
    <2> QED
        BY <1>1, <1>3, <2>1, OverlayFacts
<1>5. q = [s EXCEPT !.cl = h]
    BY DEF SetAll, WithFlags
<1>6. \A c \in C : g[c] = WithFlags(s.cl[c], s.cl[c].flags \cup {f})
    OBVIOUS
<1> HIDE DEF h, g
<1>7. q \in Server /\ Same(s, q, {}) /\ q.cl = h
    BY <1>4, <1>5 DEF Server, Same, ServerFields
<1> HIDE DEF q
<1>8. ASSUME NEW x \in Clients
      PROVE  /\ Alike(s.cl[x], q.cl[x], {}, {f})
             /\ f \in q.cl[x].flags <=> x \in C \/ f \in s.cl[x].flags
    <2>1. CASE x \in C
        <3>1. q.cl[x] = WithFlags(s.cl[x], s.cl[x].flags \cup {f})
            BY <1>4, <1>6, <1>7, <2>1
        <3> QED
            BY <1>2, <2>1, <3>1
    <2>2. CASE x \notin C
        <3>1. q.cl[x] = s.cl[x]
            BY <1>4, <1>7, <2>2
        <3> QED
            BY <2>2, <3>1, AlikeRefl
    <2> QED
        BY <2>1, <2>2
<1> QED
    BY <1>7, <1>8 DEF Change, q

\* Whoever watches k is told, and nothing is left unsignalled of it.
LEMMA touchWatchedKeySafe ==
    ASSUME NEW K, NEW R, NEW s, Safe(s, K, R), NEW k \in Keys
    PROVE  /\ Safe(touchWatchedKey(s, k), K \ {k}, R)
           /\ Change(s, touchWatchedKey(s, k), {}, {}, {"DIRTY_CAS"})
           /\ \A c \in Clients : c \in ToSet(s.watched_keys[k]) => Dirtied(touchWatchedKey(s, k).cl[c])
<1> DEFINE q == touchWatchedKey(s, k)
           C == ToSet(s.watched_keys[k])
<1>1. s \in Server
    BY DEF Safe, Sound
<1>2. C \in SUBSET Clients
    BY DEF Safe, Sound, WatchTable, Lists, Watching, Open
<1>3. /\ Change(s, q, {}, {}, {"DIRTY_CAS"})
      /\ \A x \in Clients : Dirtied(q.cl[x]) <=> x \in C \/ Dirtied(s.cl[x])
    BY <1>1, <1>2, SetAllChange DEF touchWatchedKey, FlagNames, Dirtied
<1> HIDE DEF q
<1>4. /\ ClientsTable(q) /\ BlockingTable(q) /\ WatchTable(q) /\ ChannelTable(q) /\ PatternTable(q)
      /\ WriteTable(q) /\ CloseTable(q) /\ UnblockedTable(q) /\ BlockedClients(q) /\ Unread(q)
    BY <1>3, Frame DEF Safe, Sound
<1>5. Noticed(q, R)
    BY <1>3, NoticedFrame DEF Safe
<1>6. Told(q, K \ {k}, R)
    <2>1. q.watched_keys = s.watched_keys /\ q.ready_keys = s.ready_keys
        BY <1>3 DEF Change, Same, ServerFields
    <2>2. ASSUME NEW x \in Clients
          PROVE  /\ q.cl[x].stale = s.cl[x].stale /\ q.cl[x].refused = s.cl[x].refused
                 /\ q.cl[x].broken = s.cl[x].broken
                 /\ "DIRTY_EXEC" \in q.cl[x].flags <=> "DIRTY_EXEC" \in s.cl[x].flags
        BY <1>3 DEF Change, Alike, ClientFields
    <2>3. ASSUME NEW x \in Clients PROVE ToldClient(q.cl[x], K \ {k})
        <3>1. ToldClient(s.cl[x], K) /\ (k \in s.cl[x].stale => x \in C)
            BY DEF Safe, Told
        <3> QED
            BY <1>3, <2>2, <3>1 DEF ToldClient
    <2>4. \A c \in Clients : \A j \in q.cl[c].stale : c \in ToSet(q.watched_keys[j])
        BY <2>1, <2>2 DEF Safe, Told
    <2>5. \A j \in Keys \ (K \ {k}) : j \in ToSet(q.ready_keys) \cup R =>
            \A c \in Clients : c \in ToSet(q.watched_keys[j]) => Dirtied(q.cl[c])
        BY <1>3, <2>1 DEF Safe, Told
    <2> QED
        BY <2>3, <2>4, <2>5 DEF Told
<1>7. q \in Server
    BY <1>3 DEF Change
<1>8. Safe(q, K \ {k}, R)
    BY <1>4, <1>5, <1>6, <1>7 DEF Safe, Sound
<1> QED
    BY <1>3, <1>8 DEF q

\* WATCH of one more key, while no key is ready.
LEMMA watchForKeySafe ==
    ASSUME NEW K, NEW s, Safe(s, K, {}), NEW c \in Open(s), NEW k \in Keys, s.ready_keys = <<>>
    PROVE  LET q == watchForKey(s, c, k)
           IN  /\ Safe(q, K, {}) /\ Others(s, q, c)
               /\ Change(s, q, {"watched_keys"}, {"watched_keys"}, {})
<1> DEFINE q == watchForKey(s, c, k)
           r == s.cl[c]
           l == s.watched_keys[k]
           m == Append(r.watched_keys, k)
           w == Append(l, c)
           W == [s.watched_keys EXCEPT ![k] = w]
           d == PutC(s, c, "watched_keys", m)
<1>1. s \in Server /\ c \in Clients /\ r \in Client /\ s.watched_keys \in [Keys -> Seq(Clients)]
    BY ClientOf DEF Safe, Sound, Open, Server
<1>2. CASE Contains(r.watched_keys, k)
    <2>1. q = s
        BY <1>2 DEF watchForKey
    <2>2. Change(s, s, {"watched_keys"}, {"watched_keys"}, {}) /\ Others(s, s, c)
        BY <1>1, ChangeRefl
    <2> QED
        BY <2>1, <2>2
<1>3. CASE ~Contains(r.watched_keys, k)
    <2>1. r.watched_keys \in Seq(Keys)
        BY <1>1 DEF Client
    <2>2. m \in Seq(Keys) /\ FieldOk("watched_keys", m)
        BY <2>1, AppendProperties DEF FieldOk
    <2>3. \A j : Contains(m, j) <=> j = k \/ Contains(r.watched_keys, j)
        <3>1. /\ Len(m) = Len(r.watched_keys) + 1 /\ m[Len(r.watched_keys) + 1] = k
              /\ Len(r.watched_keys) \in Nat
              /\ \A i \in 1..Len(r.watched_keys) : m[i] = r.watched_keys[i]
            BY <2>1, AppendProperties, LenProperties
        <3> HIDE DEF m, r
        <3>2. \A i \in 1..Len(m) : i \in 1..Len(r.watched_keys) \/ i = Len(r.watched_keys) + 1
            BY <3>1
        <3>3. Len(r.watched_keys) + 1 \in 1..Len(m) /\ \A i \in 1..Len(r.watched_keys) : i \in 1..Len(m)
            BY <3>1
        <3> QED
            BY <3>1, <3>2, <3>3 DEF Contains
    <2>4. Lists(l, Watching(s, k)) /\ c \notin Watching(s, k) /\ l \in Seq(Clients)
        BY <1>1, <1>3 DEF Safe, Sound, WatchTable, Watching
    <2>5. Lists(w, Watching(s, k) \cup {c}) /\ w \in Seq(Clients)
        BY <1>1, <2>4, ListsAppend
    <2>6. q = [s EXCEPT !.watched_keys[k] = w, !.cl[c].watched_keys = m]
        BY <1>3 DEF watchForKey
    <2> HIDE DEF m, w
    <2>7. /\ W \in [Keys -> Seq(Clients)] /\ W[k] = w
          /\ \A j \in Keys \ {k} : W[j] = s.watched_keys[j]
        BY <1>1, <2>5
    <2>8. q = PutS(d, "watched_keys", W)
        BY <1>1, <2>6 DEF Server, PutC, Put, PutS, With
    <2>9. Change(s, d, {}, {"watched_keys"}, {}) /\ Others(s, d, c) /\ d.cl[c].watched_keys = m
        <3>1. /\ Change(s, d, {}, {"watched_keys"}, {}) /\ Others(s, d, c)
              /\ d.cl[c] = With(r, "watched_keys", m)
            <4> HIDE DEF d, q, W, l
            <4>1. s \in Server /\ c \in Clients /\ FieldOk("watched_keys", m)
                BY <1>1, <2>2
            <4>2. /\ Change(s, PutC(s, c, "watched_keys", m), {}, {"watched_keys"}, {})
                  /\ Others(s, PutC(s, c, "watched_keys", m), c)
                  /\ PutC(s, c, "watched_keys", m).cl[c] = With(s.cl[c], "watched_keys", m)
                BY ONLY <4>1, PutField
            <4> QED
                BY <4>2 DEF d
        <3>2. With(r, "watched_keys", m).watched_keys = m
            BY <1>1 DEF With, Client
        <3> QED
            BY <3>1, <3>2
    <2> HIDE DEF W, d, q
    <2>10. d \in Server /\ ServerOk("watched_keys", W)
        BY <2>7, <2>9 DEF Change, ServerOk
    <2>11. Change(d, q, {"watched_keys"}, {}, {}) /\ q.cl = d.cl
        BY <2>8, <2>10, PutServer
    <2>12. q.watched_keys = W
        BY <2>8, <2>10 DEF PutS, Server
    <2>13. Others(s, q, c) /\ q.cl[c].watched_keys = m
        BY <2>9, <2>11 DEF Others
    <2>14. Change(s, q, {"watched_keys"}, {"watched_keys"}, {})
        <3>1. Change(s, q, {} \cup {"watched_keys"}, {"watched_keys"} \cup {}, {} \cup {})
            BY <2>9, <2>11, ChangeTrans
        <3> QED
            BY <3>1
    <2>15. /\ ClientsTable(q) /\ BlockingTable(q) /\ ChannelTable(q) /\ PatternTable(q)
           /\ WriteTable(q) /\ CloseTable(q) /\ UnblockedTable(q) /\ BlockedClients(q) /\ Unread(q)
           /\ Open(q) = Open(s)
        BY <2>14, Frame DEF Safe, Sound
    <2>16. WatchTable(q)
        <3>1. ASSUME NEW j \in Keys PROVE Lists(q.watched_keys[j], Watching(q, j))
            <4>1. Watching(q, j) = IF j = k THEN Watching(s, j) \cup {c} ELSE Watching(s, j)
                BY <1>1, <2>3, <2>13, <2>15 DEF Watching, Others, Open
            <4> QED
                BY <2>5, <2>7, <2>12, <4>1 DEF Safe, Sound, WatchTable
        <3> QED
            BY <3>1 DEF WatchTable
    <2>17. Noticed(q, {})
        BY <2>14, NoticedFrame DEF Safe
    <2>18. Told(q, K, {})
        <3>1. ASSUME NEW x \in Clients
              PROVE  /\ q.cl[x].stale = s.cl[x].stale /\ q.cl[x].refused = s.cl[x].refused
                     /\ q.cl[x].broken = s.cl[x].broken
                     /\ \A f : f \in q.cl[x].flags <=> f \in s.cl[x].flags
            BY <2>14 DEF Change, Alike, ClientFields
        <3>2. \A x \in Clients : ToldClient(q.cl[x], K)
            BY <3>1 DEF Safe, Told, ToldClient, Dirtied
        <3>3. ASSUME NEW x \in Clients, NEW j \in q.cl[x].stale
              PROVE  x \in ToSet(q.watched_keys[j])
            <4>1. j \in Keys
                BY <2>14, <3>3, ClientOf DEF Change, Client
            <4>2. x \in ToSet(s.watched_keys[j])
                BY <3>1, <3>3 DEF Safe, Told
            <4> QED
                BY <1>1, <2>4, <2>5, <2>7, <2>12, <4>1, <4>2 DEF Lists
        <3>4. q.ready_keys = <<>>
            BY <2>14 DEF Change, Same, ServerFields
        <3>5. ToSet(q.ready_keys) = {}
            BY <3>4 DEF ToSet
        <3> QED
            BY <3>2, <3>3, <3>5 DEF Told
    <2>19. q \in Server
        BY <2>14 DEF Change
    <2>20. Safe(q, K, {})
        BY <2>15, <2>16, <2>17, <2>18, <2>19 DEF Safe, Sound
    <2> QED
        BY <2>13, <2>14, <2>20 DEF q
<1> QED
    BY <1>2, <1>3

\* A client and a field of the server change together.
PutB(s, c, u, g, v) == PutS(Put(s, c, u), g, v)
\* The record of one client and one field of the server.
LEMMA PutBoth ==
    ASSUME NEW s \in Server, NEW c \in Clients, NEW u \in Client, NEW F, NEW G,
           Alike(s.cl[c], u, F, G), NEW g, NEW v, ServerOk(g, v)
    PROVE  /\ Change(s, PutB(s, c, u, g, v), {g}, F, G) /\ Others(s, PutB(s, c, u, g, v), c)
           /\ PutB(s, c, u, g, v).cl[c] = u
<1> DEFINE d == Put(s, c, u)
           q == PutS(d, g, v)
<1>1. Change(s, d, {}, F, G) /\ Others(s, d, c) /\ d.cl[c] = u
    BY PutClient
<1>2. PutB(s, c, u, g, v) = q
    BY DEF PutB
<1> HIDE DEF d
<1>3. d \in Server
    BY <1>1 DEF Change
<1>4. Change(d, q, {g}, {}, {}) /\ q.cl = d.cl
    BY <1>3, PutServer
<1> HIDE DEF q
<1>5. Change(s, q, {} \cup {g}, F \cup {}, G \cup {})
    BY <1>1, <1>4, ChangeTrans
<1>6. Others(s, q, c) /\ q.cl[c] = u
    BY <1>1, <1>4 DEF Others
<1>7. {} \cup {g} = {g} /\ F \cup {} = F /\ G \cup {} = G
    OBVIOUS
<1> QED
    BY <1>2, <1>5, <1>6, <1>7

\* The client c is removed from the lists of the arguments in D.
Removed(f, D, c) == Overlay(f, [x \in D |-> Without(f[x], c)])
Table(f, T) == f \in [T -> Seq(Clients)] /\ \A x \in T : IsInjective(f[x])
Removable(f, T, D, c) ==
    Table(f, T) /\ D \in SUBSET T /\ \A x \in T \ D : c \notin ToSet(f[x])
IsWithout(g, f, T, c) == Table(g, T) /\ \A x \in T : ToSet(g[x]) = ToSet(f[x]) \ {c}
\* A client taken out of the lists of some keys.
LEMMA RemovedLists ==
    ASSUME NEW T, NEW f, NEW D, NEW c, Removable(f, T, D, c)
    PROVE  IsWithout(Removed(f, D, c), f, T, c)
<1> USE DEF Table, Removable, IsWithout
<1> DEFINE g == [x \in D |-> Without(f[x], c)]
           h == Overlay(f, g)
<1>1. ASSUME NEW x \in D
      PROVE  g[x] \in Seq(Clients) /\ IsInjective(g[x]) /\ ToSet(g[x]) = ToSet(f[x]) \ {c}
    <2>1. f[x] \in Seq(Clients) /\ Lists(f[x], ToSet(f[x]))
        BY DEF Lists
    <2>2. Without(f[x], c) \in Seq(Clients) /\ Lists(Without(f[x], c), ToSet(f[x]) \ {c})
        BY <2>1, WithoutLists
    <2> QED
        BY <2>2 DEF Lists
<1>2. DOMAIN g = D
    OBVIOUS
<1>3. h \in [T -> Seq(Clients)] /\ \A x \in T : h[x] = IF x \in D THEN g[x] ELSE f[x]
    <2> HIDE DEF g
    <2>1. h = [x \in T |-> IF x \in D THEN g[x] ELSE f[x]]
        BY <1>2 DEF Overlay
    <2> QED
        BY <1>1, <2>1
<1> HIDE DEF g
<1> HIDE DEF h
<1>4. ASSUME NEW x \in T PROVE IsInjective(h[x]) /\ ToSet(h[x]) = ToSet(f[x]) \ {c}
    <2>1. CASE x \in D
        BY <1>1, <1>3, <2>1
    <2>2. CASE x \notin D
        BY <1>3, <2>2
    <2> QED
        BY <2>1, <2>2
<1> QED
    BY <1>3, <1>4 DEF h, g, Removed

\* A client that is about to forget what it watches need not be told.
AlmostSafe(s, K, R, c) ==
    /\ Sound(s) /\ Noticed(s, R)
    /\ \A x \in Clients : x = c \/ ToldClient(s.cl[x], K)
    /\ s.cl[c].refused => "DIRTY_EXEC" \in s.cl[c].flags
    /\ ~s.cl[c].broken
    /\ \A x \in Clients : \A k \in s.cl[x].stale : x \in ToSet(s.watched_keys[k])
    /\ \A k \in Keys \ K : k \in ToSet(s.ready_keys) \cup R =>
          \A x \in Clients : x \in ToSet(s.watched_keys[k]) => x = c \/ Dirtied(s.cl[x])
\* unwatchAllKeys, also of a client whose flags were cleared just before.
LEMMA unwatchAllKeysAlmost ==
    ASSUME NEW K, NEW R, NEW s, NEW c \in Open(s), AlmostSafe(s, K, R, c)
    PROVE  LET q == unwatchAllKeys(s, c)
           IN  /\ Safe(q, K, R) /\ Others(s, q, c)
               /\ Change(s, q, {"watched_keys"}, {"watched_keys", "stale"}, {})
               /\ q.cl[c].watched_keys = <<>> /\ q.cl[c].stale = {}
<1> DEFINE q == unwatchAllKeys(s, c)
           r == s.cl[c]
           u == [r EXCEPT !.watched_keys = <<>>, !.stale = {}]
           W == Removed(s.watched_keys, ToSet(r.watched_keys), c)
<1>1. s \in Server /\ c \in Clients /\ r \in Client /\ s.watched_keys \in [Keys -> Seq(Clients)]
    BY ClientOf DEF AlmostSafe, Sound, Open, Server
<1>2. r.watched_keys \in Seq(Keys)
    BY <1>1 DEF Client
<1>3. /\ ToSet(r.watched_keys) \in SUBSET Keys
      /\ \A k : Contains(r.watched_keys, k) <=> k \in ToSet(r.watched_keys)
    BY <1>2, ToSetFacts
<1>4. \A k \in Keys : IsInjective(s.watched_keys[k]) /\ ToSet(s.watched_keys[k]) = Watching(s, k)
    BY DEF AlmostSafe, Sound, WatchTable, Lists
<1>5. /\ W \in [Keys -> Seq(Clients)]
      /\ \A k \in Keys : IsInjective(W[k]) /\ ToSet(W[k]) = ToSet(s.watched_keys[k]) \ {c}
    <2>1. Removable(s.watched_keys, Keys, ToSet(r.watched_keys), c)
        BY <1>1, <1>3, <1>4 DEF Watching, Removable, Table
    <2>2. IsWithout(W, s.watched_keys, Keys, c)
        BY <2>1, RemovedLists
    <2> QED
        BY <2>2 DEF IsWithout, Table
<1>6. q = [s EXCEPT !.watched_keys = W, !.cl = [s.cl EXCEPT ![c] = u]]
    BY <1>1 DEF unwatchAllKeys, Removed, Server
<1> HIDE DEF W
<1>7. u \in Client /\ u.watched_keys = <<>> /\ u.stale = {}
    <2>1. <<>> \in Seq(Keys)
        OBVIOUS
    <2> HIDE DEF r
    <2>2. {} \in SUBSET Keys
        OBVIOUS
    <2> QED
        BY ONLY <1>1, <2>1, <2>2 DEF Client
<1>8. Alike(r, u, {"watched_keys", "stale"}, {})
    BY <1>1 DEF Client, Alike, ClientFields
<1>9. q = PutB(s, c, u, "watched_keys", W)
    BY <1>1, <1>6 DEF PutB, PutS, Put, Server
<1>10. q.watched_keys = W
    BY <1>1, <1>6 DEF Server
<1> HIDE DEF q, u, r
<1>11. ServerOk("watched_keys", W)
    BY <1>5 DEF ServerOk
<1>12. /\ Change(s, q, {"watched_keys"}, {"watched_keys", "stale"}, {}) /\ Others(s, q, c)
       /\ q.cl[c] = u
    <2>1. s \in Server /\ c \in Clients /\ u \in Client
        BY <1>1, <1>7
    <2>2. Alike(s.cl[c], u, {"watched_keys", "stale"}, {})
        BY <1>8 DEF r
    <2> QED
        BY ONLY <2>1, <2>2, <1>9, <1>11, PutBoth
<1>13. /\ ClientsTable(q) /\ BlockingTable(q) /\ ChannelTable(q) /\ PatternTable(q)
       /\ WriteTable(q) /\ CloseTable(q) /\ UnblockedTable(q) /\ BlockedClients(q) /\ Unread(q)
       /\ Open(q) = Open(s)
    BY <1>12, Frame DEF AlmostSafe, Sound
<1>14. WatchTable(q)
    <2>1. \A k : ~Contains(u.watched_keys, k)
        BY <1>7 DEF Contains
    <2>2. \A k \in Keys : Watching(q, k) = Watching(s, k) \ {c}
        BY <1>1, <1>12, <1>13, <2>1 DEF Watching, Others, Open
    <2> QED
        BY <1>4, <1>5, <1>10, <2>2 DEF WatchTable, Lists
<1>15. Noticed(q, R)
    BY <1>12, NoticedFrame DEF AlmostSafe
<1>16. Told(q, K, R)
    <2>1. ASSUME NEW x \in Clients
          PROVE  /\ q.cl[x].stale = s.cl[x].stale \/ (x = c /\ q.cl[x].stale = {})
                 /\ q.cl[x].refused = s.cl[x].refused /\ q.cl[x].broken = s.cl[x].broken
                 /\ \A f : f \in q.cl[x].flags <=> f \in s.cl[x].flags
        <3>1. /\ q.cl[x].refused = s.cl[x].refused /\ q.cl[x].broken = s.cl[x].broken
              /\ \A f : f \in q.cl[x].flags <=> f \in s.cl[x].flags
            BY <1>12 DEF Change, Alike, ClientFields
        <3> QED
            BY <1>7, <1>12, <3>1 DEF Others
    <2>2. ASSUME NEW x \in Clients PROVE ToldClient(q.cl[x], K)
        <3>1. CASE x = c
            <4>1. q.cl[x].stale \ K = {}
                BY <1>7, <1>12, <3>1
            <4> QED
                BY <2>1, <3>1, <4>1 DEF AlmostSafe, ToldClient
        <3>2. CASE x # c
            BY <2>1, <3>2 DEF AlmostSafe, ToldClient, Dirtied
        <3> QED
            BY <3>1, <3>2
    <2>3. ASSUME NEW x \in Clients, NEW j \in q.cl[x].stale
          PROVE  x \in ToSet(q.watched_keys[j])
        <3>1. j \in Keys
            BY <1>12, <2>3, ClientOf DEF Change, Client
        <3>2. x # c
            BY <1>7, <1>12, <2>3
        <3>3. x \in ToSet(s.watched_keys[j])
            BY <2>1, <2>3, <3>2 DEF AlmostSafe
        <3> QED
            BY <1>5, <1>10, <3>1, <3>2, <3>3
    <2>4. q.ready_keys = s.ready_keys
        BY <1>12 DEF Change, Same, ServerFields
    <2>5. ASSUME NEW j \in Keys \ K, j \in ToSet(q.ready_keys) \cup R, NEW x \in Clients,
                 x \in ToSet(q.watched_keys[j])
          PROVE  Dirtied(q.cl[x])
        BY <1>5, <1>10, <2>1, <2>4, <2>5 DEF AlmostSafe, Dirtied
    <2> QED
        BY <2>2, <2>3, <2>5 DEF Told
<1>17. q \in Server
    BY <1>12 DEF Change
<1>18. Safe(q, K, R)
    BY <1>13, <1>14, <1>15, <1>16, <1>17 DEF Safe, Sound
<1> QED
    BY <1>7, <1>12, <1>18 DEF q

\* unwatchAllKeys: nobody's list has the client any more.
LEMMA unwatchAllKeysSafe ==
    ASSUME NEW K, NEW R, NEW s, Safe(s, K, R), NEW c \in Open(s)
    PROVE  LET q == unwatchAllKeys(s, c)
           IN  /\ Safe(q, K, R) /\ Others(s, q, c)
               /\ Change(s, q, {"watched_keys"}, {"watched_keys", "stale"}, {})
               /\ q.cl[c].watched_keys = <<>> /\ q.cl[c].stale = {}
<1>1. c \in Clients
    BY DEF Open
<1>2. AlmostSafe(s, K, R, c)
    BY <1>1 DEF AlmostSafe, Safe, Told, ToldClient
<1> QED
    BY <1>2, unwatchAllKeysAlmost

\* discardTransaction: flags, queue and watched keys go together.
LEMMA discardTransactionSafe ==
    ASSUME NEW K, NEW R, NEW s, Safe(s, K, R), NEW c \in Open(s)
    PROVE  LET q == discardTransaction(s, c)
           IN  /\ Safe(q, K, R) /\ Others(s, q, c)
               /\ Change(s, q, {"watched_keys"}, {"watched_keys", "stale", "mstate", "refused"},
                         {"MULTI", "DIRTY_CAS", "DIRTY_EXEC"})
<1> DEFINE r == s.cl[c]
           G == {"MULTI", "DIRTY_CAS", "DIRTY_EXEC"}
           u == [r EXCEPT !.flags = r.flags \ G, !.mstate = <<>>, !.refused = FALSE]
           d == Put(s, c, u)
           q == unwatchAllKeys(d, c)
<1>1. s \in Server /\ c \in Clients /\ r \in Client
    BY ClientOf DEF Safe, Sound, Open
<1>2. discardTransaction(s, c) = q
    BY <1>1 DEF discardTransaction, Clear, Put, Server
<1>3. u \in Client /\ u.flags = r.flags \ G /\ u.refused = FALSE
    <2>1. <<>> \in Seq(Queued)
        OBVIOUS
    <2>2. r.flags \ G \in SUBSET FlagNames
        BY <1>1 DEF Client
    <2> HIDE DEF r, G
    <2> QED
        BY ONLY <1>1, <2>1, <2>2 DEF Client
<1>4. Alike(r, u, {"mstate", "refused"}, G)
    <2>1. \A x \in ClientFields \ {"flags", "mstate", "refused"} : u[x] = r[x]
        BY <1>1 DEF Client, ClientFields
    <2> HIDE DEF u
    <2> QED
        BY <1>3, <2>1 DEF Alike
<1> HIDE DEF u
<1>5. Change(s, d, {}, {"mstate", "refused"}, G) /\ Others(s, d, c) /\ d.cl[c] = u
    <2> HIDE DEF G, d
    <2> QED
        BY <1>1, <1>3, <1>4, PutClient DEF d
<1> HIDE DEF d
<1>6. /\ ClientsTable(d) /\ BlockingTable(d) /\ WatchTable(d) /\ ChannelTable(d) /\ PatternTable(d)
      /\ WriteTable(d) /\ CloseTable(d) /\ UnblockedTable(d) /\ BlockedClients(d) /\ Unread(d)
      /\ Open(d) = Open(s)
    BY <1>5, Frame DEF Safe, Sound
<1>7. Noticed(d, R)
    BY <1>5, NoticedFrame DEF Safe
<1>8. AlmostSafe(d, K, R, c)
    <2>1. d.watched_keys = s.watched_keys /\ d.ready_keys = s.ready_keys /\ d \in Server
        BY <1>5 DEF Change, Same, ServerFields
    <2>2. \A x \in Clients : d.cl[x].stale = s.cl[x].stale /\ d.cl[x].broken = s.cl[x].broken
        BY <1>5 DEF Change, Alike, ClientFields
    <2>3. ~s.cl[c].broken
        BY <1>1 DEF Safe, Told, ToldClient
    <2>4. \A x \in Clients : x = c \/ d.cl[x] = s.cl[x]
        BY <1>5 DEF Others
    <2> QED
        BY <1>1, <1>3, <1>5, <1>6, <1>7, <2>1, <2>2, <2>3, <2>4 DEF AlmostSafe, Sound, Safe, Told
<1>9. /\ Safe(q, K, R) /\ Others(d, q, c)
      /\ Change(d, q, {"watched_keys"}, {"watched_keys", "stale"}, {})
    BY <1>6, <1>8, unwatchAllKeysAlmost
<1> HIDE DEF q
<1>10. Change(s, q, {"watched_keys"}, {"watched_keys", "stale", "mstate", "refused"}, G)
    <2>1. Change(s, q, {} \cup {"watched_keys"}, {"mstate", "refused"} \cup {"watched_keys", "stale"},
                 G \cup {})
        BY <1>5, <1>9, ChangeTrans
    <2> QED
        BY <2>1, ChangeMore
<1>11. Others(s, q, c)
    BY <1>5, <1>9 DEF Others
<1> QED
    BY <1>2, <1>9, <1>10, <1>11

\* A client that watches nothing has nothing to be told.
LEMMA UntoldSafe ==
    ASSUME NEW K, NEW R, NEW s, Safe(s, K, R), NEW c \in Open(s), s.cl[c].watched_keys = <<>>
    PROVE  /\ Safe(Clear(s, c, {"DIRTY_CAS"}), K, R)
           /\ Change(s, Clear(s, c, {"DIRTY_CAS"}), {}, {}, {"DIRTY_CAS"})
           /\ Others(s, Clear(s, c, {"DIRTY_CAS"}), c)
<1> DEFINE q == Clear(s, c, {"DIRTY_CAS"})
<1>1. s \in Server /\ c \in Clients
    BY DEF Safe, Sound, Open
<1>2. Change(s, q, {}, {}, {"DIRTY_CAS"}) /\ Others(s, q, c)
    BY <1>1, ClearChange
<1> HIDE DEF q
<1>3. /\ ClientsTable(q) /\ BlockingTable(q) /\ WatchTable(q) /\ ChannelTable(q) /\ PatternTable(q)
      /\ WriteTable(q) /\ CloseTable(q) /\ UnblockedTable(q) /\ BlockedClients(q) /\ Unread(q)
    BY <1>2, Frame DEF Safe, Sound
<1>4. Noticed(q, R)
    BY <1>2, NoticedFrame DEF Safe
<1>5. \A k \in Keys : c \notin ToSet(s.watched_keys[k])
    <2>1. \A k : ~Contains(s.cl[c].watched_keys, k)
        BY DEF Contains
    <2> QED
        BY <2>1 DEF Safe, Sound, WatchTable, Lists, Watching
<1>6. s.cl[c].stale = {}
    <2>1. s.cl[c].stale \in SUBSET Keys
        BY <1>1, ClientOf DEF Client
    <2> QED
        BY <1>1, <1>5, <2>1 DEF Safe, Told
<1>7. Told(q, K, R)
    <2>1. q.watched_keys = s.watched_keys /\ q.ready_keys = s.ready_keys
        BY <1>2 DEF Change, Same, ServerFields
    <2>2. ASSUME NEW x \in Clients
          PROVE  /\ q.cl[x].stale = s.cl[x].stale /\ q.cl[x].refused = s.cl[x].refused
                 /\ q.cl[x].broken = s.cl[x].broken
                 /\ "DIRTY_EXEC" \in q.cl[x].flags <=> "DIRTY_EXEC" \in s.cl[x].flags
        BY <1>2 DEF Change, Alike, ClientFields
    <2>3. \A x \in Clients : x = c \/ q.cl[x] = s.cl[x]
        BY <1>2 DEF Others
    <2>4. ASSUME NEW x \in Clients PROVE ToldClient(q.cl[x], K)
        <3>1. ToldClient(s.cl[x], K)
            BY DEF Safe, Told
        <3> QED
            BY <1>6, <2>2, <2>3, <3>1 DEF ToldClient
    <2> QED
        BY <1>5, <2>1, <2>2, <2>3, <2>4 DEF Safe, Told
<1>8. q \in Server
    BY <1>2 DEF Change
<1>9. Safe(q, K, R)
    BY <1>3, <1>4, <1>7, <1>8 DEF Safe, Sound
<1> QED
    BY <1>2, <1>9 DEF q

-----------------------------------------------------------------------------
(* Blocked clients. *)

LEMMA unblockClientSafe ==
    ASSUME NEW K, NEW R, NEW s, Safe(s, K, R), NEW c \in Open(s)
    PROVE  LET q == unblockClient(s, c)
           IN  /\ Safe(q, K, R) /\ Others(s, q, c)
               /\ Change(s, q, {"blocking_keys", "unblocked_clients"}, {"bpop"},
                         {"BLOCKED", "UNBLOCKED"})
               /\ "BLOCKED" \notin q.cl[c].flags
               /\ \A k \in Keys : ToSet(q.blocking_keys[k]) = ToSet(s.blocking_keys[k]) \ {c}
<1> DEFINE q == unblockClient(s, c)
           r == s.cl[c]
           X == (r.flags \ {"BLOCKED"}) \cup {"UNBLOCKED"}
           b == createClient.bpop
           u == [r EXCEPT !.bpop = b, !.flags = X]
           W == Removed(s.blocking_keys, r.bpop.keys, c)
           L == IF Has(s, c, "UNBLOCKED") THEN s.unblocked_clients
                ELSE Append(s.unblocked_clients, c)
           d == PutB(s, c, u, "blocking_keys", W)
<1>1. /\ s \in Server /\ c \in Clients /\ r \in Client /\ s.blocking_keys \in [Keys -> Seq(Clients)]
      /\ s.unblocked_clients \in Seq(Clients)
    BY ClientOf DEF Safe, Sound, Open, Server
<1>2. r.bpop \in Bpop /\ r.bpop.keys \in SUBSET Keys /\ r.flags \in SUBSET FlagNames
    BY <1>1 DEF Client, Bpop
<1>3. b \in Bpop /\ b.keys = {} /\ b.target = NULL
    BY DEF createClient, Bpop
<1>4. X \in SUBSET FlagNames /\ "BLOCKED" \notin X /\ "UNBLOCKED" \in X
    BY <1>2 DEF FlagNames
<1>5. L \in Seq(Clients) /\ ListsBut(L, Flags(s, "UNBLOCKED") \cup {c}, s.twice)
    <2>1. ListsBut(s.unblocked_clients, Flags(s, "UNBLOCKED"), s.twice)
        BY DEF Safe, Sound, UnblockedTable
    <2>2. CASE Has(s, c, "UNBLOCKED")
        <3>1. Flags(s, "UNBLOCKED") \cup {c} = Flags(s, "UNBLOCKED")
            BY <2>2 DEF Has, Flags
        <3> QED
            BY <1>1, <2>1, <2>2, <3>1
    <2>3. CASE ~Has(s, c, "UNBLOCKED")
        <3>1. c \notin Flags(s, "UNBLOCKED")
            BY <2>3 DEF Has, Flags
        <3> QED
            BY <1>1, <2>1, <2>3, <3>1, ListsButAppend
    <2> QED
        BY <2>2, <2>3
<1>6. \A k \in Keys : IsInjective(s.blocking_keys[k]) /\ ToSet(s.blocking_keys[k]) = Waiting(s, k)
    BY DEF Safe, Sound, BlockingTable, Lists
<1>7. /\ W \in [Keys -> Seq(Clients)]
      /\ \A k \in Keys : IsInjective(W[k]) /\ ToSet(W[k]) = ToSet(s.blocking_keys[k]) \ {c}
    <2>1. Removable(s.blocking_keys, Keys, r.bpop.keys, c)
        BY <1>1, <1>2, <1>6 DEF Waiting, Removable, Table
    <2>2. IsWithout(W, s.blocking_keys, Keys, c)
        BY <2>1, RemovedLists
    <2> QED
        BY <2>2 DEF IsWithout, Table
<1>8. u \in Client /\ u.bpop = b /\ u.flags = X
    <2> HIDE DEF r, X, b
    <2> QED
        BY ONLY <1>1, <1>3, <1>4 DEF Client
<1>9. Alike(r, u, {"bpop"}, {"BLOCKED", "UNBLOCKED"})
    <2>1. \A x \in ClientFields \ {"flags", "bpop"} : u[x] = r[x]
        BY <1>1 DEF Client, ClientFields
    <2> HIDE DEF u
    <2> QED
        BY <1>8, <2>1 DEF Alike
<1>10. q = [s EXCEPT !.cl = [s.cl EXCEPT ![c] = u], !.blocking_keys = W, !.unblocked_clients = L]
    <2> DEFINE u0 == [r EXCEPT !.bpop = b]
               u1 == [r EXCEPT !.bpop = b, !.flags = r.flags \ {"BLOCKED"}]
               At(v, l) == [s EXCEPT !.cl = [s.cl EXCEPT ![c] = v], !.blocking_keys = W,
                                     !.unblocked_clients = l]
               old == s.unblocked_clients
    <2>1. unblockClientWaitingData(s, c) = At(u0, old)
        BY <1>1 DEF unblockClientWaitingData, Removed, Server
    <2> HIDE DEF W, b
    <2>2. u0 \in Client /\ u0.flags = r.flags
        <3> HIDE DEF r
        <3> QED
            BY ONLY <1>1, <1>3 DEF Client
    <2>3. u1 = [u0 EXCEPT !.flags = @ \ {"BLOCKED"}]
        <3> HIDE DEF r
        <3> QED
            BY ONLY <1>1 DEF Client
    <2>4. \A v, l : At(v, l).cl[c] = v /\ At(v, l).unblocked_clients = l
        BY <1>1 DEF Server
    <2>5. \A v, w, l : [At(v, l) EXCEPT !.cl[c] = w] = At(w, l)
        BY <1>1, ZenonT(40) DEF Server
    <2>6. Clear(At(u0, old), c, {"BLOCKED"}) = At(u1, old)
        <3>1. Clear(At(u0, old), c, {"BLOCKED"}) =
                [At(u0, old) EXCEPT !.cl[c] = [At(u0, old).cl[c] EXCEPT !.flags = @ \ {"BLOCKED"}]]
            <4> HIDE DEF At, u0
            <4> QED
                BY DEF Clear
        <3>2. At(u0, old).cl[c] = u0 /\ [At(u0, old) EXCEPT !.cl[c] = u1] = At(u1, old)
            <4> HIDE DEF At, u0, u1
            <4> QED
                BY <2>4, <2>5
        <3>3. u1 = [At(u0, old).cl[c] EXCEPT !.flags = @ \ {"BLOCKED"}]
            <4> HIDE DEF At, u0, u1
            <4> QED
                BY <2>3, <3>2
        <3> HIDE DEF At, u0, u1
        <3> QED
            BY <3>1, <3>2, <3>3
    <2>7. CASE Has(s, c, "UNBLOCKED")
        <3>1. X = r.flags \ {"BLOCKED"}
            BY <2>7 DEF Has
        <3>2. L = s.unblocked_clients
            BY <2>7
        <3>3. q = At(u1, old)
            <4> HIDE DEF At, u1, u0
            <4> QED
                BY <2>1, <2>6, <2>7 DEF unblockClient
        <3> QED
            BY <3>1, <3>2, <3>3
    <2>8. CASE ~Has(s, c, "UNBLOCKED")
        <3>1. L = Append(s.unblocked_clients, c)
            BY <2>8
        <3>2. u = [u1 EXCEPT !.flags = @ \cup {"UNBLOCKED"}]
            <4> HIDE DEF r
            <4> QED
                BY ONLY <1>1 DEF Client
        <3> HIDE DEF L, X
        <3>3. Set(At(u1, old), c, "UNBLOCKED") = At(u, old)
            <4>1. Set(At(u1, old), c, "UNBLOCKED") =
                    [At(u1, old) EXCEPT !.cl[c] = [At(u1, old).cl[c] EXCEPT !.flags = @ \cup {"UNBLOCKED"}]]
                <5> HIDE DEF At, u1
                <5> QED
                    BY DEF Set
            <4>2. At(u1, old).cl[c] = u1 /\ [At(u1, old) EXCEPT !.cl[c] = u] = At(u, old)
                <5> HIDE DEF At, u, u1
                <5> QED
                    BY <2>4, <2>5
            <4>3. u = [At(u1, old).cl[c] EXCEPT !.flags = @ \cup {"UNBLOCKED"}]
                <5> HIDE DEF At, u, u1
                <5> QED
                    BY <3>2, <4>2
            <4> HIDE DEF At, u, u1
            <4> QED
                BY <4>1, <4>2, <4>3
        <3>4. q = [At(u, old) EXCEPT !.unblocked_clients = Append(@, c)]
            <4> HIDE DEF At, u, u1, u0
            <4> QED
                BY <2>1, <2>6, <2>8, <3>3 DEF unblockClient
        <3>5. [At(u, old) EXCEPT !.unblocked_clients = Append(@, c)] = At(u, L)
            <4> HIDE DEF u
            <4> QED
                BY <1>1, <3>1 DEF Server
        <3> QED
            BY <3>4, <3>5
    <2> QED
        BY <2>7, <2>8
<1> HIDE DEF W, L, X, b
<1>11. q = PutS(d, "unblocked_clients", L)
    BY <1>1, <1>10 DEF PutB, PutS, Put, Server
<1>12. q.blocking_keys = W /\ q.unblocked_clients = L
    BY <1>1, <1>10 DEF Server
<1> HIDE DEF q, u, r
<1>13. ServerOk("blocking_keys", W) /\ ServerOk("unblocked_clients", L)
    BY <1>5, <1>7 DEF ServerOk
<1>14. /\ Change(s, d, {"blocking_keys"}, {"bpop"}, {"BLOCKED", "UNBLOCKED"}) /\ Others(s, d, c)
       /\ d.cl[c] = u
    <2>1. s \in Server /\ c \in Clients /\ u \in Client
        BY <1>1, <1>8
    <2>2. Alike(s.cl[c], u, {"bpop"}, {"BLOCKED", "UNBLOCKED"})
        BY <1>9 DEF r
    <2> QED
        BY ONLY <2>1, <2>2, <1>13, PutBoth
<1> HIDE DEF d
<1>15. d \in Server
    BY <1>14 DEF Change
<1>16. Change(d, q, {"unblocked_clients"}, {}, {}) /\ q.cl = d.cl
    BY <1>11, <1>13, <1>15, PutServer
<1>17. Change(s, q, {"blocking_keys", "unblocked_clients"}, {"bpop"}, {"BLOCKED", "UNBLOCKED"})
    <2>1. Change(s, q, {"blocking_keys"} \cup {"unblocked_clients"}, {"bpop"} \cup {},
                 {"BLOCKED", "UNBLOCKED"} \cup {})
        BY <1>14, <1>16, ChangeTrans
    <2> QED
        BY <2>1, ChangeMore
<1>18. Others(s, q, c) /\ q.cl[c] = u
    BY <1>14, <1>16 DEF Others
<1>19. /\ ClientsTable(q) /\ WatchTable(q) /\ ChannelTable(q) /\ PatternTable(q)
       /\ WriteTable(q) /\ CloseTable(q) /\ Unread(q) /\ Open(q) = Open(s)
    BY <1>17, Frame DEF Safe, Sound
<1>20. BlockingTable(q)
    <2>1. \A k \in Keys : Waiting(q, k) = Waiting(s, k) \ {c}
        BY <1>1, <1>3, <1>8, <1>18, <1>19 DEF Waiting, Others, Open
    <2> QED
        BY <1>6, <1>7, <1>12, <2>1 DEF BlockingTable, Lists
<1>21. UnblockedTable(q)
    <2>1. Flags(q, "UNBLOCKED") = Flags(s, "UNBLOCKED") \cup {c}
        BY <1>4, <1>8, <1>18, <1>19 DEF Flags, Others, Open
    <2>2. q.twice = s.twice
        BY <1>17 DEF Change, Same, ServerFields
    <2> QED
        BY <1>5, <1>12, <2>1, <2>2 DEF UnblockedTable
<1>22. BlockedClients(q)
    <2>1. BlockedClient(u)
        BY <1>3, <1>4, <1>8 DEF BlockedClient
    <2>2. \A x \in Open(q) : x = c \/ q.cl[x] = s.cl[x]
        BY <1>18 DEF Others, Open
    <2> QED
        BY <1>18, <1>19, <2>1, <2>2 DEF BlockedClients, Safe, Sound
<1>23. Noticed(q, R)
    <2>1. /\ q.db = s.db /\ q.overwritten = s.overwritten /\ q.ready_keys = s.ready_keys
        BY <1>17 DEF Change, Same, ServerFields
    <2>2. ASSUME NEW k \in Keys, q.blocking_keys[k] # <<>> PROVE s.blocking_keys[k] # <<>>
        <3>1. q.blocking_keys[k] \in Seq(Clients) /\ s.blocking_keys[k] \in Seq(Clients)
            BY <1>1, <1>7, <1>12
        <3>2. ToSet(q.blocking_keys[k]) # {}
            BY <2>2, <3>1, ToSetFacts
        <3>3. ToSet(s.blocking_keys[k]) # {}
            BY <1>7, <1>12, <3>2
        <3> QED
            BY <3>1, <3>3, ToSetFacts
    <2> QED
        BY <2>1, <2>2 DEF Noticed, Safe
<1>24. Told(q, K, R)
    BY <1>17, ToldFrame DEF Safe
<1>25. q \in Server
    BY <1>17 DEF Change
<1>26. Safe(q, K, R)
    BY <1>19, <1>20, <1>21, <1>22, <1>23, <1>24, <1>25 DEF Safe, Sound
<1> QED
    BY <1>4, <1>7, <1>8, <1>12, <1>17, <1>18, <1>26 DEF q

\* The client c is added to the lists of the arguments in D.
Added(f, D, c) == Overlay(f, [x \in D |-> Append(f[x], c)])
Addable(f, T, D, c) ==
    Table(f, T) /\ D \in SUBSET T /\ c \in Clients /\ \A x \in D : c \notin ToSet(f[x])
IsAlso(g, f, T, D, c) ==
    /\ Table(g, T)
    /\ \A x \in T : ToSet(g[x]) = IF x \in D THEN ToSet(f[x]) \cup {c} ELSE ToSet(f[x])
\* A client added to the lists of some keys.
LEMMA AddedLists ==
    ASSUME NEW T, NEW f, NEW D, NEW c, Addable(f, T, D, c)
    PROVE  IsAlso(Added(f, D, c), f, T, D, c)
<1> USE DEF Table, Addable, IsAlso
<1> DEFINE g == [x \in D |-> Append(f[x], c)]
           h == Overlay(f, g)
<1>1. ASSUME NEW x \in D
      PROVE  g[x] \in Seq(Clients) /\ IsInjective(g[x]) /\ ToSet(g[x]) = ToSet(f[x]) \cup {c}
    <2>1. f[x] \in Seq(Clients) /\ Lists(f[x], ToSet(f[x])) /\ c \notin ToSet(f[x]) /\ c \in Clients
        BY DEF Lists
    <2>2. Append(f[x], c) \in Seq(Clients) /\ Lists(Append(f[x], c), ToSet(f[x]) \cup {c})
        BY <2>1, ListsAppend
    <2> QED
        BY <2>2 DEF Lists
<1>2. DOMAIN g = D
    OBVIOUS
<1>3. h \in [T -> Seq(Clients)] /\ \A x \in T : h[x] = IF x \in D THEN g[x] ELSE f[x]
    <2> HIDE DEF g
    <2>1. h = [x \in T |-> IF x \in D THEN g[x] ELSE f[x]]
        BY <1>2 DEF Overlay
    <2> QED
        BY <1>1, <2>1
<1> HIDE DEF g, h
<1>4. ASSUME NEW x \in T
      PROVE  /\ IsInjective(h[x])
             /\ ToSet(h[x]) = IF x \in D THEN ToSet(f[x]) \cup {c} ELSE ToSet(f[x])
    <2>1. CASE x \in D
        BY <1>1, <1>3, <2>1
    <2>2. CASE x \notin D
        BY <1>3, <2>2
    <2> QED
        BY <2>1, <2>2
<1> QED
    BY <1>3, <1>4 DEF h, g, Added

\* blockForKeys, for keys that hold no list.
LEMMA blockForKeysSafe ==
    ASSUME NEW K, NEW s, Safe(s, K, {}), NEW c \in Open(s), "BLOCKED" \notin s.cl[c].flags,
           NEW ks \in Seq(Keys), ks # <<>>, \A k \in ToSet(ks) : s.db[k].t # "list",
           NEW target \in Keys \cup {NULL}, target # NULL => s.cl[c].lastcmd # "blpop",
           NEW timeout \in BOOLEAN
    PROVE  LET q == blockForKeys(s, c, ks, target, timeout)
           IN  /\ Safe(q, K, {}) /\ Others(s, q, c)
               /\ Change(s, q, {"blocking_keys"}, {"bpop"}, {"BLOCKED"})
               /\ "BLOCKED" \in q.cl[c].flags
<1> DEFINE q == blockForKeys(s, c, ks, target, timeout)
           r == s.cl[c]
           D == ToSet(ks)
           b == [keys |-> D, target |-> target, timeout |-> timeout]
           W == Added(s.blocking_keys, D, c)
           d == PutB(s, c, With(r, "bpop", b), "blocking_keys", W)
<1>1. /\ s \in Server /\ c \in Clients /\ r \in Client /\ s.blocking_keys \in [Keys -> Seq(Clients)]
    BY ClientOf DEF Safe, Sound, Open, Server
<1>2. r.bpop \in Bpop /\ r.bpop.keys = {}
    BY <1>1 DEF Client, Safe, Sound, BlockedClients, BlockedClient
<1>3. D \in SUBSET Keys /\ D # {}
    BY ToSetFacts
<1>4. \A k \in Keys : IsInjective(s.blocking_keys[k]) /\ ToSet(s.blocking_keys[k]) = Waiting(s, k)
    BY DEF Safe, Sound, BlockingTable, Lists
<1>5. /\ W \in [Keys -> Seq(Clients)]
      /\ \A k \in Keys : /\ IsInjective(W[k])
                         /\ ToSet(W[k]) = IF k \in D THEN Waiting(s, k) \cup {c} ELSE Waiting(s, k)
    <2>1. \A k \in D : c \notin ToSet(s.blocking_keys[k])
        BY <1>2, <1>3, <1>4 DEF Waiting
    <2>2. Addable(s.blocking_keys, Keys, D, c)
        BY <1>1, <1>3, <1>4, <2>1 DEF Addable, Table
    <2>3. IsAlso(W, s.blocking_keys, Keys, D, c)
        BY <2>2, AddedLists
    <2> QED
        BY <1>4, <2>3 DEF IsAlso, Table
<1>6. D \ r.bpop.keys = D /\ r.bpop.keys \cup D = D
    BY <1>2
<1>7. [s EXCEPT !.blocking_keys = Overlay(@, [k \in D |-> Append(s.blocking_keys[k], c)]),
                !.cl[c].bpop = [keys |-> @.keys \cup D, target |-> target, timeout |-> timeout]]
      = [s EXCEPT !.cl = [s.cl EXCEPT ![c] = With(r, "bpop", b)], !.blocking_keys = W]
    BY <1>1, <1>6 DEF Server, With, Added
<1>8. q = Set([s EXCEPT !.cl = [s.cl EXCEPT ![c] = With(r, "bpop", b)], !.blocking_keys = W], c, "BLOCKED")
    <2> HIDE DEF D, W, b
    <2> QED
        BY <1>6, <1>7 DEF blockForKeys, blockClient, D
<1> HIDE DEF W
<1>9. b \in Bpop /\ b.keys = D /\ b.target = target
    BY <1>3 DEF Bpop
<1> HIDE DEF b, D
<1>10. d = [s EXCEPT !.cl = [s.cl EXCEPT ![c] = With(r, "bpop", b)], !.blocking_keys = W]
    BY <1>1 DEF PutB, PutS, Put, Server
<1>11. With(r, "bpop", b).bpop = b
    BY <1>1 DEF With, Client
<1>12. FieldOk("bpop", b) /\ ServerOk("blocking_keys", W)
    BY <1>5, <1>9 DEF FieldOk, ServerOk
<1>13. With(r, "bpop", b) \in Client /\ Alike(r, With(r, "bpop", b), {"bpop"}, {})
    BY ONLY <1>1, <1>12, WithField
<1>14. /\ Change(s, d, {"blocking_keys"}, {"bpop"}, {}) /\ Others(s, d, c)
       /\ d.cl[c] = With(r, "bpop", b)
    <2> DEFINE u == With(r, "bpop", b)
    <2>1. s \in Server /\ c \in Clients /\ u \in Client /\ Alike(s.cl[c], u, {"bpop"}, {})
        BY <1>1, <1>13
    <2> HIDE DEF u
    <2>2. /\ Change(s, PutB(s, c, u, "blocking_keys", W), {"blocking_keys"}, {"bpop"}, {})
          /\ Others(s, PutB(s, c, u, "blocking_keys", W), c)
          /\ PutB(s, c, u, "blocking_keys", W).cl[c] = u
        BY ONLY <2>1, <1>12, PutBoth
    <2> QED
        BY <2>2 DEF u
<1>15. d.blocking_keys = W
    BY <1>1, <1>10 DEF Server
<1>16. q = Set(d, c, "BLOCKED")
    BY <1>8, <1>10
<1> HIDE DEF d, q, r
<1>17. d \in Server
    BY <1>14 DEF Change
<1>18. /\ Change(d, q, {}, {}, {"BLOCKED"}) /\ Others(d, q, c)
       /\ q.cl[c].flags = d.cl[c].flags \cup {"BLOCKED"}
    BY <1>1, <1>16, <1>17, SetChange DEF FlagNames
<1>19. Change(s, q, {"blocking_keys"}, {"bpop"}, {"BLOCKED"})
    <2>1. Change(s, q, {"blocking_keys"} \cup {}, {"bpop"} \cup {}, {} \cup {"BLOCKED"})
        BY <1>14, <1>18, ChangeTrans
    <2> QED
        BY <2>1, ChangeMore
<1>20. Others(s, q, c) /\ "BLOCKED" \in q.cl[c].flags
    BY <1>14, <1>18 DEF Others
<1>21. q.cl[c].bpop = b /\ q.cl[c].lastcmd = s.cl[c].lastcmd /\ q.blocking_keys = W
    <2>1. q.cl[c].bpop = d.cl[c].bpop /\ q.blocking_keys = d.blocking_keys
        BY <1>1, <1>18 DEF Change, Same, ServerFields, Alike, ClientFields
    <2>2. q.cl[c].lastcmd = s.cl[c].lastcmd
        BY <1>1, <1>19 DEF Change, Alike, ClientFields
    <2> QED
        BY <1>11, <1>14, <1>15, <2>1, <2>2
<1>22. /\ ClientsTable(q) /\ WatchTable(q) /\ ChannelTable(q) /\ PatternTable(q) /\ WriteTable(q)
       /\ CloseTable(q) /\ UnblockedTable(q) /\ Unread(q) /\ Open(q) = Open(s)
    BY <1>19, Frame DEF Safe, Sound
<1>23. BlockingTable(q)
    <2>1. \A k \in Keys : Waiting(q, k) = IF k \in D THEN Waiting(s, k) \cup {c} ELSE Waiting(s, k)
        <3>1. \A x \in Open(s) \ {c} : q.cl[x] = s.cl[x]
            BY <1>20 DEF Others, Open
        <3>2. \A k \in Keys : c \in Waiting(q, k) <=> k \in D
            BY <1>9, <1>21, <1>22 DEF Waiting
        <3>3. \A k \in Keys : c \notin Waiting(s, k)
            BY <1>2 DEF Waiting, r
        <3> QED
            BY <1>22, <3>1, <3>2, <3>3 DEF Waiting
    <2> QED
        BY <1>5, <1>21, <2>1 DEF BlockingTable, Lists
<1>24. BlockedClients(q)
    <2>1. BlockedClient(q.cl[c])
        BY <1>3, <1>9, <1>20, <1>21 DEF BlockedClient
    <2>2. \A x \in Open(q) : x = c \/ q.cl[x] = s.cl[x]
        BY <1>20 DEF Others, Open
    <2> QED
        BY <1>22, <2>1, <2>2 DEF BlockedClients, Safe, Sound
<1>25. Noticed(q, {})
    <2>1. /\ q.db = s.db /\ q.overwritten = s.overwritten /\ q.ready_keys = s.ready_keys
        BY <1>19 DEF Change, Same, ServerFields
    <2>2. ASSUME NEW k \in Keys \ D, q.blocking_keys[k] # <<>> PROVE s.blocking_keys[k] # <<>>
        <3>1. q.blocking_keys[k] \in Seq(Clients) /\ s.blocking_keys[k] \in Seq(Clients)
            BY <1>1, <1>5, <1>21
        <3>2. ToSet(q.blocking_keys[k]) # {}
            <4> DEFINE l == q.blocking_keys[k]
            <4>1. l \in Seq(Clients) /\ l # <<>>
                BY <2>2, <3>1
            <4> HIDE DEF l
            <4>2. ToSet(l) # {}
                BY ONLY <4>1, ToSetFacts
            <4> QED
                BY <4>2 DEF l
        <3>3. ToSet(s.blocking_keys[k]) # {}
            <4>1. ToSet(W[k]) = Waiting(s, k) /\ ToSet(s.blocking_keys[k]) = Waiting(s, k)
                BY <1>4, <1>5
            <4> QED
                BY <1>21, <3>2, <4>1
        <3> QED
            BY <3>1, <3>3, ToSetFacts
    <2> QED
        BY <2>1, <2>2 DEF Noticed, Safe, D
<1>26. Told(q, K, {})
    BY <1>19, ToldFrame DEF Safe
<1>27. q \in Server
    BY <1>19 DEF Change
<1>28. Safe(q, K, {})
    BY <1>22, <1>23, <1>24, <1>25, <1>26, <1>27 DEF Safe, Sound
<1> QED
    BY <1>19, <1>20, <1>28 DEF q

-----------------------------------------------------------------------------
(* The data set. *)

\* All clients change at once.
PutCl(s, h) == [s EXCEPT !.cl = h]
AllAlike(s, h, F, G) ==
    h \in [Clients -> Client] /\ \A x \in Clients : Alike(s.cl[x], h[x], F, G)
\* The records of several clients at once.
LEMMA PutClients ==
    ASSUME NEW s \in Server, NEW h, NEW F, NEW G, AllAlike(s, h, F, G)
    PROVE  Change(s, PutCl(s, h), {}, F, G) /\ PutCl(s, h).cl = h
<1> DEFINE q == PutCl(s, h)
<1>1. h \in [Clients -> Client]
    BY DEF AllAlike
<1>2. q \in Server /\ q.cl = h /\ Same(s, q, {})
    BY <1>1 DEF Server, Same, ServerFields, PutCl
<1> HIDE DEF q
<1>3. Change(s, q, {}, F, G)
    BY <1>2 DEF Change, AllAlike
<1> QED
    BY <1>2, <1>3 DEF q

\* More keys may be unsignalled or being served.
LEMMA SafeMore ==
    ASSUME NEW K, NEW R, NEW s, Safe(s, K, R), NEW K2, NEW R2, K \subseteq K2, R \subseteq R2,
           R2 \subseteq R \cup K2
    PROVE  Safe(s, K2, R2)
<1>1. Noticed(s, R2)
    BY DEF Safe, Noticed
<1>2. \A c \in Clients : ToldClient(s.cl[c], K2)
    BY DEF Safe, Told, ToldClient
<1>3. \A k \in Keys \ K2 : k \in ToSet(s.ready_keys) \cup R2 =>
          \A c \in Clients : c \in ToSet(s.watched_keys[k]) => Dirtied(s.cl[c])
    BY DEF Safe, Told
<1> QED
    BY <1>1, <1>2, <1>3 DEF Safe, Told

\* Who watched the key since before it changes.
Since(s, k, val) == IF val = s.db[k] THEN {} ELSE ToSet(s.watched_keys[k])
\* What a write to the data set changes, the stale marks included.
LEMMA WriteChange ==
    ASSUME NEW s \in Server, NEW k \in Keys, NEW val \in Value
    PROVE  LET q == Write(s, k, val)
           IN  /\ Change(s, q, {"db", "overwritten"}, {"stale"}, {})
               /\ q.db = [s.db EXCEPT ![k] = val]
               /\ q.overwritten = IF val = None THEN s.overwritten \ {k} ELSE s.overwritten
               /\ \A x \in Clients : q.cl[x].stale = IF x \in Since(s, k, val)
                                                     THEN s.cl[x].stale \cup {k} ELSE s.cl[x].stale
<1> DEFINE C == Since(s, k, val)
           g == [x \in C |-> With(s.cl[x], "stale", s.cl[x].stale \cup {k})]
           h == Overlay(s.cl, g)
           D == [s.db EXCEPT ![k] = val]
           O == IF val = None THEN s.overwritten \ {k} ELSE s.overwritten
           a == PutCl(s, h)
           d == PutS(a, "db", D)
           q == PutS(d, "overwritten", O)
<1>1. /\ s.cl \in [Clients -> Client] /\ s.db \in [Keys -> Value] /\ s.overwritten \in SUBSET Keys
      /\ s.watched_keys[k] \in Seq(Clients)
    BY DEF Server
<1>2. C \in SUBSET Clients
    BY <1>1, ToSetFacts DEF Since
<1>3. D \in [Keys -> Value] /\ O \in SUBSET Keys
    BY <1>1
<1>4. ServerOk("db", D) /\ ServerOk("overwritten", O)
    BY <1>3 DEF ServerOk
<1>5. ASSUME NEW x \in Clients
      PROVE  LET u == With(s.cl[x], "stale", s.cl[x].stale \cup {k})
             IN  u \in Client /\ u.stale = s.cl[x].stale \cup {k} /\ Alike(s.cl[x], u, {"stale"}, {})
    <2> DEFINE r == s.cl[x]
               X == r.stale \cup {k}
    <2>1. r \in Client
        BY <1>1
    <2>2. X \in SUBSET Keys
        BY <2>1 DEF Client
    <2> HIDE DEF r, X
    <2>3. FieldOk("stale", X)
        BY <2>2 DEF FieldOk
    <2>4. With(r, "stale", X) \in Client /\ Alike(r, With(r, "stale", X), {"stale"}, {})
        BY ONLY <2>1, <2>3, WithField
    <2>5. With(r, "stale", X).stale = X
        BY <2>1 DEF With, Client
    <2> QED
        BY <2>4, <2>5 DEF r, X
<1>6. \A x \in C : g[x] = With(s.cl[x], "stale", s.cl[x].stale \cup {k})
    OBVIOUS
<1>7. DOMAIN g = C
    OBVIOUS
<1>8. Write(s, k, val) = [s EXCEPT !.cl = h, !.db[k] = val, !.overwritten = O]
    BY DEF Write, Since, With
<1> HIDE DEF C, g
<1>9. h = [x \in Clients |-> IF x \in C THEN g[x] ELSE s.cl[x]]
    BY <1>1, <1>7 DEF Overlay
<1>10. Write(s, k, val) = [s EXCEPT !.cl = h, !.db = D, !.overwritten = O]
    <2> HIDE DEF h, O
    <2> QED
        BY <1>8 DEF Server
<1> HIDE DEF h, D, O
<1>11. Write(s, k, val) = q
    BY <1>10 DEF PutCl, PutS, Server
<1>12. ASSUME NEW x \in Clients
       PROVE  /\ h[x] \in Client /\ Alike(s.cl[x], h[x], {"stale"}, {})
              /\ h[x].stale = IF x \in C THEN s.cl[x].stale \cup {k} ELSE s.cl[x].stale
    <2>1. CASE x \in C
        <3>1. h[x] = With(s.cl[x], "stale", s.cl[x].stale \cup {k})
            BY <1>6, <1>9, <2>1
        <3> QED
            BY <1>5, <2>1, <3>1
    <2>2. CASE x \notin C
        <3>1. h[x] = s.cl[x]
            BY <1>9, <2>2
        <3> QED
            BY <1>1, <2>2, <3>1, AlikeRefl
    <2> QED
        BY <2>1, <2>2
<1>13. AllAlike(s, h, {"stale"}, {})
    BY <1>9, <1>12 DEF AllAlike
<1>14. Change(s, a, {}, {"stale"}, {}) /\ a.cl = h
    BY <1>13, PutClients
<1> HIDE DEF a
<1>15. Change(a, d, {"db"}, {}, {}) /\ d.cl = a.cl /\ a \in Server
    BY <1>4, <1>14, PutServer DEF Change
<1>16. d.db = D
    BY <1>15 DEF PutS, Server
<1> HIDE DEF d
<1>17. Change(d, q, {"overwritten"}, {}, {}) /\ q.cl = d.cl /\ d \in Server
    BY <1>4, <1>15, PutServer DEF Change
<1>18. q.overwritten = O
    BY <1>17 DEF PutS, Server
<1> HIDE DEF q
<1>19. q.db = D
    BY <1>16, <1>17 DEF Change, Same, ServerFields
<1>20. Change(s, q, {"db", "overwritten"}, {"stale"}, {})
    <2>1. Change(s, d, {} \cup {"db"}, {"stale"} \cup {}, {} \cup {})
        BY <1>14, <1>15, ChangeTrans
    <2>2. Change(s, d, {"db"}, {"stale"}, {})
        BY <2>1, ChangeMore
    <2>3. Change(s, q, {"db"} \cup {"overwritten"}, {"stale"} \cup {}, {} \cup {})
        BY <1>17, <2>2, ChangeTrans
    <2> QED
        BY <2>3, ChangeMore
<1>21. \A x \in Clients : q.cl[x].stale = IF x \in C THEN s.cl[x].stale \cup {k} ELSE s.cl[x].stale
    BY <1>12, <1>14, <1>15, <1>17
<1> QED
    BY <1>11, <1>18, <1>19, <1>20, <1>21 DEF C, D, O

\* A key may change when its watchers will be or have been told, and become a
\* list when those who wait for it will be or have been noticed.
MayChange(s, k, K) ==
    k \in K \/ \A x \in Clients : x \in ToSet(s.watched_keys[k]) => Dirtied(s.cl[x])
MayBecome(s, k, val, R) ==
    val.t # "list" \/ s.db[k].t = "list" \/ k \in R \/ k \in ToSet(s.ready_keys)
\* A write to a key whose watchers are told, or in K, and that nobody waits for.
LEMMA WriteSafe ==
    ASSUME NEW K, NEW R, NEW s, Safe(s, K, R), NEW k \in Keys, NEW val \in Value,
           MayChange(s, k, K), MayBecome(s, k, val, R)
    PROVE  /\ Safe(Write(s, k, val), K, R)
           /\ Change(s, Write(s, k, val), {"db", "overwritten"}, {"stale"}, {})
           /\ Write(s, k, val).db = [s.db EXCEPT ![k] = val]
<1> DEFINE q == Write(s, k, val)
<1>1. s \in Server
    BY DEF Safe, Sound
<1>2. /\ Change(s, q, {"db", "overwritten"}, {"stale"}, {})
      /\ q.db = [s.db EXCEPT ![k] = val]
      /\ q.overwritten = IF val = None THEN s.overwritten \ {k} ELSE s.overwritten
      /\ \A x \in Clients : q.cl[x].stale = IF x \in Since(s, k, val)
                                            THEN s.cl[x].stale \cup {k} ELSE s.cl[x].stale
    <2>1. k \in Keys /\ val \in Value
        OBVIOUS
    <2> QED
        BY ONLY <1>1, <2>1, WriteChange
<1> HIDE DEF q
<1>3. /\ ClientsTable(q) /\ BlockingTable(q) /\ WatchTable(q) /\ ChannelTable(q) /\ PatternTable(q)
      /\ WriteTable(q) /\ CloseTable(q) /\ UnblockedTable(q) /\ BlockedClients(q) /\ Unread(q)
    BY <1>2, Frame DEF Safe, Sound
<1>4. /\ q.watched_keys = s.watched_keys /\ q.ready_keys = s.ready_keys
      /\ q.blocking_keys = s.blocking_keys /\ q \in Server
    BY <1>2 DEF Change, Same, ServerFields
<1>5. Noticed(q, R)
    <2>1. s.db \in [Keys -> Value]
        BY <1>1 DEF Server
    <2>2. q.db[k] = val /\ \A j \in Keys \ {k} : q.db[j] = s.db[j]
        BY <1>2, <2>1
    <2>3. val.t = "list" => val # None
        BY DEF None
    <2>4. ASSUME NEW j \in Keys \ R, q.db[j].t = "list", q.blocking_keys[j] # <<>>
          PROVE  j \in q.overwritten \/ j \in ToSet(q.ready_keys)
        <3>1. CASE j = k
            <4>1. val.t = "list" /\ q.overwritten = s.overwritten
                BY <1>2, <2>2, <2>3, <2>4, <3>1
            <4>2. CASE s.db[k].t = "list"
                BY <1>4, <2>4, <3>1, <4>1, <4>2 DEF Safe, Noticed
            <4>3. CASE s.db[k].t # "list"
                BY <1>4, <2>4, <3>1, <4>1, <4>3 DEF MayBecome
            <4> QED
                BY <4>2, <4>3
        <3>2. CASE j # k
            <4>1. j \in s.overwritten \/ j \in ToSet(s.ready_keys)
                BY <1>4, <2>2, <2>4, <3>2 DEF Safe, Noticed
            <4> QED
                BY <1>2, <1>4, <3>2, <4>1
        <3> QED
            BY <3>1, <3>2
    <2> QED
        BY <2>4 DEF Noticed
<1>6. Told(q, K, R)
    <2>1. ASSUME NEW x \in Clients
          PROVE  /\ q.cl[x].refused = s.cl[x].refused /\ q.cl[x].broken = s.cl[x].broken
                 /\ \A f : f \in q.cl[x].flags <=> f \in s.cl[x].flags
        BY <1>2 DEF Change, Alike, ClientFields
    <2>2. \A x \in Since(s, k, val) : x \in ToSet(s.watched_keys[k])
        BY DEF Since
    <2>3. ASSUME NEW x \in Clients PROVE ToldClient(q.cl[x], K)
        <3>1. ToldClient(s.cl[x], K)
            BY DEF Safe, Told
        <3>2. CASE x \in Since(s, k, val)
            <4>1. k \in K \/ Dirtied(s.cl[x])
                BY <2>2, <3>2 DEF MayChange
            <4>2. q.cl[x].stale = s.cl[x].stale \cup {k}
                BY <1>2, <3>2
            <4> QED
                BY <2>1, <3>1, <4>1, <4>2 DEF ToldClient, Dirtied
        <3>3. CASE x \notin Since(s, k, val)
            <4>1. q.cl[x].stale = s.cl[x].stale
                BY <1>2, <3>3
            <4> QED
                BY <2>1, <3>1, <4>1 DEF ToldClient, Dirtied
        <3> QED
            BY <3>2, <3>3
    <2>4. ASSUME NEW x \in Clients, NEW j \in q.cl[x].stale PROVE x \in ToSet(q.watched_keys[j])
        <3>1. j \in s.cl[x].stale \/ (j = k /\ x \in Since(s, k, val))
            BY <1>2, <2>4
        <3> QED
            BY <1>4, <2>2, <3>1 DEF Safe, Told
    <2>5. \A j \in Keys \ K : j \in ToSet(q.ready_keys) \cup R =>
            \A x \in Clients : x \in ToSet(q.watched_keys[j]) => Dirtied(q.cl[x])
        BY <1>4, <2>1 DEF Safe, Told, Dirtied
    <2> QED
        BY <2>3, <2>4, <2>5 DEF Told
<1>7. Safe(q, K, R)
    BY <1>3, <1>4, <1>5, <1>6 DEF Safe, Sound
<1> QED
    BY <1>2, <1>7 DEF q

\* signalListAsReady: the key is in the ready list if somebody waits.
LEMMA signalListAsReadySafe ==
    ASSUME NEW K, NEW R, NEW s, NEW k \in Keys, Safe(s, K, R \cup {k}), k \in K
    PROVE  /\ Safe(signalListAsReady(s, k), K, R)
           /\ Change(s, signalListAsReady(s, k), {"ready_keys"}, {}, {})
<1> DEFINE q == signalListAsReady(s, k)
           l == Append(s.ready_keys, k)
<1>1. s \in Server /\ s.ready_keys \in Seq(Keys)
    BY DEF Safe, Sound, Server
<1>2. \A j : Contains(s.ready_keys, j) <=> j \in ToSet(s.ready_keys)
    BY <1>1, ToSetFacts
<1>3. CASE s.blocking_keys[k] = <<>> \/ Contains(s.ready_keys, k)
    <2>1. q = s
        BY <1>3 DEF signalListAsReady
    <2>2. Change(s, s, {"ready_keys"}, {}, {})
        BY <1>1, ChangeRefl
    <2>3. Noticed(s, R)
        BY <1>2, <1>3 DEF Safe, Noticed
    <2>4. Told(s, K, R)
        BY DEF Safe, Told
    <2> QED
        BY <2>1, <2>2, <2>3, <2>4 DEF Safe
<1>4. CASE ~(s.blocking_keys[k] = <<>> \/ Contains(s.ready_keys, k))
    <2>1. q = PutS(s, "ready_keys", l)
        BY <1>1, <1>4 DEF signalListAsReady, PutS, Server
    <2>2. l \in Seq(Keys) /\ ToSet(l) = ToSet(s.ready_keys) \cup {k}
        <3>1. l \in Seq(Keys)
            BY <1>1, AppendProperties
        <3>2. /\ Len(l) = Len(s.ready_keys) + 1 /\ l[Len(s.ready_keys) + 1] = k
              /\ Len(s.ready_keys) \in Nat
              /\ \A i \in 1..Len(s.ready_keys) : l[i] = s.ready_keys[i]
            BY <1>1, AppendProperties, LenProperties
        <3> HIDE DEF l
        <3>3. \A i \in 1..Len(l) : i \in 1..Len(s.ready_keys) \/ i = Len(s.ready_keys) + 1
            BY <3>2
        <3>4. Len(s.ready_keys) + 1 \in 1..Len(l) /\ \A i \in 1..Len(s.ready_keys) : i \in 1..Len(l)
            BY <3>2
        <3>5. /\ \A x : x \in ToSet(l) <=> \E i \in 1..Len(l) : l[i] = x
              /\ \A x : x \in ToSet(s.ready_keys) <=> \E i \in 1..Len(s.ready_keys) : s.ready_keys[i] = x
            BY <1>1, <3>1, ToSetFacts
        <3>6. \A x : x \in ToSet(l) <=> x \in ToSet(s.ready_keys) \/ x = k
            BY <3>2, <3>3, <3>4, <3>5
        <3> QED
            BY <3>1, <3>6
    <2> HIDE DEF l, q
    <2>3. ServerOk("ready_keys", l)
        BY <2>2 DEF ServerOk
    <2>4. Change(s, q, {"ready_keys"}, {}, {}) /\ q.cl = s.cl
        BY <1>1, <2>1, <2>3, PutServer
    <2>5. q.ready_keys = l
        BY <1>1, <2>1 DEF PutS, Server
    <2>6. /\ ClientsTable(q) /\ BlockingTable(q) /\ WatchTable(q) /\ ChannelTable(q) /\ PatternTable(q)
          /\ WriteTable(q) /\ CloseTable(q) /\ UnblockedTable(q) /\ BlockedClients(q) /\ Unread(q)
        BY <2>4, Frame DEF Safe, Sound
    <2>7. /\ q.watched_keys = s.watched_keys /\ q.blocking_keys = s.blocking_keys /\ q.db = s.db
          /\ q.overwritten = s.overwritten /\ q \in Server
        BY <2>4 DEF Change, Same, ServerFields
    <2>8. Noticed(q, R)
        BY <2>2, <2>5, <2>7 DEF Safe, Noticed
    <2>9. Told(q, K, R)
        BY <2>2, <2>4, <2>5, <2>7 DEF Safe, Told
    <2> QED
        BY <2>4, <2>6, <2>7, <2>8, <2>9 DEF Safe, Sound, q
<1> QED
    BY <1>3, <1>4

\* dbAdd: a list added to the data set is signalled to those who wait.
LEMMA dbAddSafe ==
    ASSUME NEW K, NEW R, NEW s, Safe(s, K, R), NEW k \in Keys, k \in K, NEW val \in Value
    PROVE  /\ Safe(dbAdd(s, k, val), K, R)
           /\ Change(s, dbAdd(s, k, val), {"db", "overwritten", "ready_keys"}, {"stale"}, {})
           /\ dbAdd(s, k, val).db = [s.db EXCEPT ![k] = val]
<1> DEFINE q == Write(s, k, val)
           e == signalListAsReady(q, k)
<1>1. CASE val.t = "list"
    <2>1. Safe(s, K, R \cup {k})
        BY SafeMore
    <2>2. MayChange(s, k, K) /\ MayBecome(s, k, val, R \cup {k})
        BY DEF MayChange, MayBecome
    <2>3. /\ Safe(q, K, R \cup {k}) /\ Change(s, q, {"db", "overwritten"}, {"stale"}, {})
          /\ q.db = [s.db EXCEPT ![k] = val]
        BY <2>1, <2>2, WriteSafe
    <2>4. dbAdd(s, k, val) = e
        BY <1>1 DEF dbAdd
    <2> HIDE DEF q
    <2>5. Safe(e, K, R) /\ Change(q, e, {"ready_keys"}, {}, {})
        BY <2>3, signalListAsReadySafe
    <2> HIDE DEF e
    <2>6. e.db = q.db
        BY <2>5 DEF Change, Same, ServerFields
    <2>7. Change(s, e, {"db", "overwritten"} \cup {"ready_keys"}, {"stale"} \cup {}, {} \cup {})
        BY <2>3, <2>5, ChangeTrans
    <2>8. Change(s, e, {"db", "overwritten", "ready_keys"}, {"stale"}, {})
        BY <2>7, ChangeMore
    <2> QED
        BY <2>3, <2>4, <2>5, <2>6, <2>8
<1>2. CASE val.t # "list"
    <2>1. MayChange(s, k, K) /\ MayBecome(s, k, val, R)
        BY <1>2 DEF MayChange, MayBecome
    <2>2. /\ Safe(q, K, R) /\ Change(s, q, {"db", "overwritten"}, {"stale"}, {})
          /\ q.db = [s.db EXCEPT ![k] = val]
        BY <2>1, WriteSafe
    <2>3. dbAdd(s, k, val) = q
        BY <1>2 DEF dbAdd
    <2> HIDE DEF q
    <2>4. Change(s, q, {"db", "overwritten", "ready_keys"}, {"stale"}, {})
        BY <2>2, ChangeMore
    <2> QED
        BY <2>2, <2>3, <2>4
<1> QED
    BY <1>1, <1>2

\* The values of a key are values.
LEMMA ConstantValues ==
    /\ None \in Value /\ Str \in Value /\ None.t = "none" /\ None.v = <<>>
    /\ Str.t = "string" /\ Str.v = <<>>
    /\ \A v \in Seq(Nat) : List(v) \in Value /\ List(v).t = "list" /\ List(v).v = v
BY DEF None, Str, List, Value

DataSet == {"db", "overwritten", "ready_keys"}
\* setKey: dbAdd or dbOverwrite, and those who watch are told.
LEMMA setKeySafe ==
    ASSUME NEW s, Safe(s, {}, {}), NEW k \in Keys, NEW val \in Value
    PROVE  /\ Safe(setKey(s, k, val), {}, {})
           /\ Change(s, setKey(s, k, val), DataSet, {"stale"}, {"DIRTY_CAS"})
           /\ setKey(s, k, val).db = [s.db EXCEPT ![k] = val]
<1> DEFINE w == Write(s, k, val)
           O == IF val.t = "list" THEN w.overwritten \cup {k} ELSE w.overwritten \ {k}
           d == PutS(w, "overwritten", O)
           a == dbAdd(s, k, val)
           e == IF s.db[k] = None THEN a ELSE d
           q == touchWatchedKey(e, k)
<1>1. Safe(s, {k}, {}) /\ Safe(s, {k}, {k})
    BY SafeMore
<1>2. MayChange(s, k, {k}) /\ MayBecome(s, k, val, {k})
    BY DEF MayChange, MayBecome
<1>3. /\ Safe(w, {k}, {k}) /\ Change(s, w, {"db", "overwritten"}, {"stale"}, {})
      /\ w.db = [s.db EXCEPT ![k] = val]
    BY <1>1, <1>2, WriteSafe
<1>4. setKey(s, k, val) = q
    <2>1. w \in Server
        BY <1>3 DEF Change
    <2>2. d = [Write(s, k, val) EXCEPT !.overwritten = IF val.t = "list" THEN @ \cup {k} ELSE @ \ {k}]
        BY <2>1 DEF PutS, Server
    <2> HIDE DEF d, a
    <2> QED
        BY <2>2 DEF setKey, signalModifiedKey, a
<1> HIDE DEF w
<1>5. w \in Server /\ w.overwritten \in SUBSET Keys /\ s.db \in [Keys -> Value]
    BY <1>3 DEF Change, Server, Safe, Sound
<1>6. O \in SUBSET Keys
    BY <1>5
<1>7. \A j \in Keys : j \in O <=> IF j = k THEN val.t = "list" ELSE j \in w.overwritten
    OBVIOUS
<1> HIDE DEF O
<1>8. ServerOk("overwritten", O)
    BY <1>6 DEF ServerOk
<1>9. Change(w, d, {"overwritten"}, {}, {}) /\ d.cl = w.cl
    BY <1>5, <1>8, PutServer
<1>10. d.overwritten = O
    BY <1>5 DEF PutS, Server
<1> HIDE DEF d
<1>11. Safe(d, {k}, {})
    <2>1. /\ ClientsTable(d) /\ BlockingTable(d) /\ WatchTable(d) /\ ChannelTable(d) /\ PatternTable(d)
          /\ WriteTable(d) /\ CloseTable(d) /\ UnblockedTable(d) /\ BlockedClients(d) /\ Unread(d)
        BY <1>3, <1>9, Frame DEF Safe, Sound
    <2>2. d \in Server /\ d.db = w.db /\ d.ready_keys = w.ready_keys /\ d.blocking_keys = w.blocking_keys
        BY <1>9 DEF Change, Same, ServerFields
    <2>3. w.db[k] = val
        BY <1>3, <1>5
    <2>4. Noticed(d, {})
        BY <1>3, <1>7, <1>10, <2>2, <2>3 DEF Safe, Noticed
    <2>5. Told(d, {k}, {k})
        BY <1>3, <1>9, ToldFrame DEF Safe
    <2>6. Told(d, {k}, {})
        BY <2>5 DEF Told
    <2> QED
        BY <2>1, <2>2, <2>4, <2>6 DEF Safe, Sound
<1>12. /\ Safe(a, {k}, {}) /\ Change(s, a, {"db", "overwritten", "ready_keys"}, {"stale"}, {})
       /\ a.db = [s.db EXCEPT ![k] = val]
    BY <1>1, dbAddSafe
<1>13. Change(s, d, {"db", "overwritten", "ready_keys"}, {"stale"}, {}) /\ d.db = w.db
    <2>1. Change(s, d, {"db", "overwritten"} \cup {"overwritten"}, {"stale"} \cup {}, {} \cup {})
        BY <1>3, <1>9, ChangeTrans
    <2>2. Change(s, d, {"db", "overwritten", "ready_keys"}, {"stale"}, {})
        BY <2>1, ChangeMore
    <2>3. d.db = w.db
        BY <1>9 DEF Change, Same, ServerFields
    <2> QED
        BY <2>2, <2>3
<1> HIDE DEF a
<1>14. /\ Safe(e, {k}, {}) /\ Change(s, e, {"db", "overwritten", "ready_keys"}, {"stale"}, {})
       /\ e.db = [s.db EXCEPT ![k] = val]
    BY <1>3, <1>11, <1>12, <1>13
<1> HIDE DEF e
<1>15. Safe(q, {k} \ {k}, {}) /\ Change(e, q, {}, {}, {"DIRTY_CAS"})
    BY <1>14, touchWatchedKeySafe
<1> HIDE DEF q
<1>16. Safe(q, {}, {}) /\ q.db = e.db
    BY <1>15 DEF Change, Same, ServerFields
<1>17. Change(s, q, {"db", "overwritten", "ready_keys"} \cup {}, {"stale"} \cup {}, {} \cup {"DIRTY_CAS"})
    BY <1>14, <1>15, ChangeTrans
<1>18. Change(s, q, DataSet, {"stale"}, {"DIRTY_CAS"})
    BY <1>17, ChangeMore DEF DataSet
<1> QED
    BY <1>4, <1>14, <1>16, <1>18

\* More clients are told than need to be.
LEMMA TellSafe ==
    ASSUME NEW K, NEW R, NEW s, Safe(s, K, R), NEW C \in SUBSET Clients
    PROVE  /\ Safe(SetAll(s, C, "DIRTY_CAS"), K, R)
           /\ Change(s, SetAll(s, C, "DIRTY_CAS"), {}, {}, {"DIRTY_CAS"})
           /\ \A x \in C : Dirtied(SetAll(s, C, "DIRTY_CAS").cl[x])
<1> DEFINE q == SetAll(s, C, "DIRTY_CAS")
<1>1. s \in Server
    BY DEF Safe, Sound
<1>2. /\ Change(s, q, {}, {}, {"DIRTY_CAS"})
      /\ \A x \in Clients : Dirtied(q.cl[x]) <=> x \in C \/ Dirtied(s.cl[x])
    BY <1>1, SetAllChange DEF FlagNames, Dirtied
<1> HIDE DEF q
<1>3. /\ ClientsTable(q) /\ BlockingTable(q) /\ WatchTable(q) /\ ChannelTable(q) /\ PatternTable(q)
      /\ WriteTable(q) /\ CloseTable(q) /\ UnblockedTable(q) /\ BlockedClients(q) /\ Unread(q)
    BY <1>2, Frame DEF Safe, Sound
<1>4. Noticed(q, R)
    BY <1>2, NoticedFrame DEF Safe
<1>5. Told(q, K, R)
    <2>1. q.watched_keys = s.watched_keys /\ q.ready_keys = s.ready_keys
        BY <1>2 DEF Change, Same, ServerFields
    <2>2. ASSUME NEW x \in Clients
          PROVE  /\ q.cl[x].stale = s.cl[x].stale /\ q.cl[x].refused = s.cl[x].refused
                 /\ q.cl[x].broken = s.cl[x].broken
                 /\ "DIRTY_EXEC" \in q.cl[x].flags <=> "DIRTY_EXEC" \in s.cl[x].flags
        BY <1>2 DEF Change, Alike, ClientFields
    <2>3. ASSUME NEW x \in Clients PROVE ToldClient(q.cl[x], K)
        <3>1. ToldClient(s.cl[x], K)
            BY DEF Safe, Told
        <3> QED
            BY <1>2, <2>2, <3>1 DEF ToldClient
    <2> QED
        BY <1>2, <2>1, <2>2, <2>3 DEF Safe, Told
<1>6. q \in Server
    BY <1>2 DEF Change
<1>7. Safe(q, K, R)
    BY <1>3, <1>4, <1>5, <1>6 DEF Safe, Sound
<1> QED
    BY <1>2, <1>7 DEF q

\* FLUSHALL: those who watch a key that exists are told before it goes.
LEMMA FlushSafe ==
    ASSUME NEW s, Safe(s, {}, {})
    PROVE  LET q == emptyDb(touchWatchedKeysOnFlush(s))
           IN  /\ Safe(q, {}, {}) /\ Change(s, q, DataSet, {"stale"}, {"DIRTY_CAS"})
               /\ q.db = [k \in Keys |-> None]
<1> DEFINE C == {c \in ToSet(s.clients) : \E k \in ToSet(s.cl[c].watched_keys) : s.db[k] # None}
           t == touchWatchedKeysOnFlush(s)
           Y(x) == t.cl[x].stale \cup {k \in Keys : t.db[k] # None /\ x \in ToSet(t.watched_keys[k])}
           h == [x \in Clients |-> With(t.cl[x], "stale", Y(x))]
           D == [k \in Keys |-> None]
           a == PutCl(t, h)
           b == PutS(a, "db", D)
           q == PutS(b, "overwritten", {})
<1>1. s \in Server /\ ToSet(s.clients) = Open(s) /\ s.cl \in [Clients -> Client]
    BY DEF Safe, Sound, ClientsTable, Lists, Server
<1>2. C \in SUBSET Clients
    BY <1>1 DEF Open
<1>3. t = SetAll(s, C, "DIRTY_CAS")
    BY DEF touchWatchedKeysOnFlush
<1> HIDE DEF C
<1>4. Safe(t, {}, {}) /\ Change(s, t, {}, {}, {"DIRTY_CAS"}) /\ \A x \in C : Dirtied(t.cl[x])
    BY <1>2, <1>3, TellSafe
<1>5. emptyDb(t) = [t EXCEPT !.cl = h, !.db = D, !.overwritten = {}]
    BY DEF emptyDb, With
<1> HIDE DEF t
<1>6. t \in Server /\ t.db = s.db /\ t.watched_keys = s.watched_keys /\ t.cl \in [Clients -> Client]
    BY <1>4 DEF Change, Same, ServerFields, Server
<1>7. ASSUME NEW x \in Clients
      PROVE  /\ h[x] \in Client /\ h[x].stale = Y(x) /\ Alike(t.cl[x], h[x], {"stale"}, {})
    <2> DEFINE r == t.cl[x]
               X == Y(x)
    <2>1. r \in Client
        BY <1>6
    <2>2. X \in SUBSET Keys
        BY <2>1 DEF Client
    <2>3. h[x] = With(r, "stale", X)
        OBVIOUS
    <2> HIDE DEF r, X, h
    <2>4. FieldOk("stale", X)
        BY <2>2 DEF FieldOk
    <2>5. With(r, "stale", X) \in Client /\ Alike(r, With(r, "stale", X), {"stale"}, {})
        BY ONLY <2>1, <2>4, WithField
    <2>6. With(r, "stale", X).stale = X
        BY <2>1 DEF With, Client
    <2> QED
        BY <2>3, <2>5, <2>6 DEF r, X
<1>8. AllAlike(t, h, {"stale"}, {})
    BY <1>7 DEF AllAlike
<1>9. D \in [Keys -> Value] /\ \A k \in Keys : D[k] = None
    BY ConstantValues
<1> HIDE DEF h, D
<1>10. ServerOk("db", D) /\ ServerOk("overwritten", {})
    BY <1>9 DEF ServerOk
<1>11. emptyDb(t) = q
    BY <1>5, <1>6 DEF PutCl, PutS, Server
<1>12. Change(t, a, {}, {"stale"}, {}) /\ a.cl = h
    BY <1>6, <1>8, PutClients
<1> HIDE DEF a
<1>13. Change(a, b, {"db"}, {}, {}) /\ b.cl = a.cl /\ a \in Server
    BY <1>10, <1>12, PutServer DEF Change
<1>14. b.db = D
    BY <1>13 DEF PutS, Server
<1> HIDE DEF b
<1>15. Change(b, q, {"overwritten"}, {}, {}) /\ q.cl = b.cl /\ b \in Server
    BY <1>10, <1>13, PutServer DEF Change
<1> HIDE DEF q
<1>16. q.db = D
    BY <1>14, <1>15 DEF Change, Same, ServerFields
<1>17. Change(t, q, {"db", "overwritten"}, {"stale"}, {})
    <2>1. Change(t, b, {} \cup {"db"}, {"stale"} \cup {}, {} \cup {})
        BY <1>12, <1>13, ChangeTrans
    <2>2. Change(t, b, {"db"}, {"stale"}, {})
        BY <2>1, ChangeMore
    <2>3. Change(t, q, {"db"} \cup {"overwritten"}, {"stale"} \cup {}, {} \cup {})
        BY <1>15, <2>2, ChangeTrans
    <2> QED
        BY <2>3, ChangeMore
<1>18. Change(s, q, DataSet, {"stale"}, {"DIRTY_CAS"})
    <2>1. Change(s, q, {} \cup {"db", "overwritten"}, {} \cup {"stale"}, {"DIRTY_CAS"} \cup {})
        BY <1>4, <1>17, ChangeTrans
    <2> QED
        BY <2>1, ChangeMore DEF DataSet
<1>19. /\ ClientsTable(q) /\ BlockingTable(q) /\ WatchTable(q) /\ ChannelTable(q) /\ PatternTable(q)
       /\ WriteTable(q) /\ CloseTable(q) /\ UnblockedTable(q) /\ BlockedClients(q) /\ Unread(q)
    BY <1>4, <1>17, Frame DEF Safe, Sound
<1>20. q \in Server /\ q.ready_keys = t.ready_keys /\ q.watched_keys = t.watched_keys
    BY <1>17 DEF Change, Same, ServerFields
<1>21. Noticed(q, {})
    BY <1>9, <1>16 DEF Noticed, None
<1>22. Told(q, {}, {})
    <2>1. ASSUME NEW x \in Clients
          PROVE  /\ q.cl[x].refused = t.cl[x].refused /\ q.cl[x].broken = t.cl[x].broken
                 /\ \A f : f \in q.cl[x].flags <=> f \in t.cl[x].flags
        BY <1>17 DEF Change, Alike, ClientFields
    <2>2. ASSUME NEW x \in Clients PROVE q.cl[x].stale = Y(x)
        BY <1>7, <1>12, <1>13, <1>15
    <2>3. ASSUME NEW x \in Clients, NEW k \in Keys, t.db[k] # None, x \in ToSet(t.watched_keys[k])
          PROVE  Dirtied(t.cl[x])
        <3>1. x \in Open(s) /\ Contains(s.cl[x].watched_keys, k)
            BY <1>6, <2>3 DEF Safe, Sound, WatchTable, Lists, Watching
        <3>2. s.cl[x].watched_keys \in Seq(Keys)
            BY <1>1 DEF Client
        <3>3. k \in ToSet(s.cl[x].watched_keys)
            BY <3>1, <3>2, ToSetFacts
        <3>4. x \in C
            BY <1>1, <1>6, <2>3, <3>1, <3>3 DEF C
        <3> QED
            BY <1>4, <3>4
    <2>4. ASSUME NEW x \in Clients PROVE ToldClient(q.cl[x], {})
        <3>1. ToldClient(t.cl[x], {})
            BY <1>4 DEF Safe, Told
        <3>2. q.cl[x].stale # {} => Dirtied(t.cl[x])
            BY <2>2, <2>3, <3>1 DEF ToldClient
        <3> QED
            BY <2>1, <3>1, <3>2 DEF ToldClient, Dirtied
    <2>5. ASSUME NEW x \in Clients, NEW k \in q.cl[x].stale PROVE x \in ToSet(q.watched_keys[k])
        <3>1. k \in Y(x)
            BY <2>2, <2>5
        <3> QED
            BY <1>4, <1>20, <3>1 DEF Safe, Told
    <2> QED
        BY <1>4, <1>20, <2>1, <2>4, <2>5 DEF Safe, Told, Dirtied
<1>23. Safe(q, {}, {})
    BY <1>19, <1>20, <1>21, <1>22 DEF Safe, Sound
<1> QED
    BY <1>11, <1>16, <1>18, <1>23 DEF t, D

-----------------------------------------------------------------------------
(* Subscriptions. *)

\* A field of a client and a field of the server change together.
PutF(s, c, f, x, g, v) == PutB(s, c, With(s.cl[c], f, x), g, v)
\* One field of one client and one of the server.
LEMMA PutFields ==
    ASSUME NEW s \in Server, NEW c \in Clients, NEW f, NEW x, FieldOk(f, x),
           NEW g, NEW v, ServerOk(g, v)
    PROVE  /\ Change(s, PutF(s, c, f, x, g, v), {g}, {f}, {}) /\ Others(s, PutF(s, c, f, x, g, v), c)
           /\ PutF(s, c, f, x, g, v).cl[c] = With(s.cl[c], f, x)
<1> DEFINE u == With(s.cl[c], f, x)
<1>1. s.cl[c] \in Client
    BY ClientOf
<1>2. u \in Client /\ Alike(s.cl[c], u, {f}, {})
    BY ONLY <1>1, WithField, FieldOk(f, x)
<1> HIDE DEF u
<1>3. /\ Change(s, PutB(s, c, u, g, v), {g}, {f}, {}) /\ Others(s, PutB(s, c, u, g, v), c)
      /\ PutB(s, c, u, g, v).cl[c] = u
    BY <1>2, PutBoth
<1>4. PutF(s, c, f, x, g, v) = PutB(s, c, u, g, v)
    BY DEF PutF, u
<1> QED
    BY <1>3, <1>4 DEF u

\* SUBSCRIBE: the client and the table of the channel agree.
LEMMA pubsubSubscribeChannelSafe ==
    ASSUME NEW K, NEW R, NEW s, Safe(s, K, R), NEW c \in Open(s), NEW ch \in Channels
    PROVE  LET q == pubsubSubscribeChannel(s, c, ch)
           IN  /\ Safe(q, K, R) /\ Others(s, q, c)
               /\ Change(s, q, {"pubsub_channels"}, {"channels"}, {})
<1> DEFINE q == pubsubSubscribeChannel(s, c, ch)
           r == s.cl[c]
           l == s.pubsub_channels[ch]
           m == r.channels \cup {ch}
           w == Append(l, c)
           W == [s.pubsub_channels EXCEPT ![ch] = w]
<1>1. /\ s \in Server /\ c \in Clients /\ r \in Client
      /\ s.pubsub_channels \in [Channels -> Seq(Clients)]
    BY ClientOf DEF Safe, Sound, Open, Server
<1>2. CASE ch \in r.channels
    <2>1. q = s
        BY <1>2 DEF pubsubSubscribeChannel
    <2>2. Change(s, s, {"pubsub_channels"}, {"channels"}, {}) /\ Others(s, s, c)
        BY <1>1, ChangeRefl
    <2> QED
        BY <2>1, <2>2
<1>3. CASE ch \notin r.channels
    <2>1. m \in SUBSET Channels
        BY <1>1 DEF Client
    <2>2. FieldOk("channels", m)
        BY <2>1 DEF FieldOk
    <2>3. Lists(l, Subscribed(s, ch)) /\ c \notin Subscribed(s, ch) /\ l \in Seq(Clients)
        BY <1>1, <1>3 DEF Safe, Sound, ChannelTable, Subscribed
    <2>4. Lists(w, Subscribed(s, ch) \cup {c}) /\ w \in Seq(Clients)
        BY <1>1, <2>3, ListsAppend
    <2>5. q = [s EXCEPT !.cl[c].channels = m, !.pubsub_channels[ch] = w]
        BY <1>3 DEF pubsubSubscribeChannel
    <2>6. \A x : x \in m <=> x \in r.channels \/ x = ch
        OBVIOUS
    <2> HIDE DEF m, w
    <2>7. /\ W \in [Channels -> Seq(Clients)] /\ W[ch] = w
          /\ \A x \in Channels \ {ch} : W[x] = s.pubsub_channels[x]
        BY <1>1, <2>4
    <2>8. q = PutF(s, c, "channels", m, "pubsub_channels", W)
        BY <1>1, <2>5 DEF Server, PutF, PutB, Put, PutS, With
    <2> HIDE DEF W, q, l
    <2>9. ServerOk("pubsub_channels", W)
        BY <2>7 DEF ServerOk
    <2>10. /\ Change(s, q, {"pubsub_channels"}, {"channels"}, {}) /\ Others(s, q, c)
           /\ q.cl[c] = With(r, "channels", m)
        <3>1. s \in Server /\ c \in Clients
            BY <1>1
        <3> QED
            BY ONLY <3>1, <2>2, <2>8, <2>9, PutFields
    <2>11. q.cl[c].channels = m
        BY <1>1, <2>10 DEF With, Client
    <2>12. q.pubsub_channels = W
        BY <1>1, <2>8 DEF PutF, PutB, Put, PutS, Server
    <2>13. /\ ClientsTable(q) /\ BlockingTable(q) /\ WatchTable(q) /\ PatternTable(q)
           /\ WriteTable(q) /\ CloseTable(q) /\ UnblockedTable(q) /\ BlockedClients(q) /\ Unread(q)
           /\ Open(q) = Open(s)
        BY <2>10, Frame DEF Safe, Sound
    <2>14. ChannelTable(q)
        <3>1. ASSUME NEW x \in Channels PROVE Lists(q.pubsub_channels[x], Subscribed(q, x))
            <4>1. Subscribed(q, x) = IF x = ch THEN Subscribed(s, x) \cup {c} ELSE Subscribed(s, x)
                BY <1>1, <2>6, <2>10, <2>11, <2>13 DEF Subscribed, Others, Open
            <4> QED
                BY <2>4, <2>7, <2>12, <4>1 DEF Safe, Sound, ChannelTable
        <3> QED
            BY <3>1 DEF ChannelTable
    <2>15. Noticed(q, R) /\ Told(q, K, R)
        BY <2>10, NoticedFrame, ToldFrame DEF Safe
    <2>16. q \in Server
        BY <2>10 DEF Change
    <2>17. Safe(q, K, R)
        BY <2>13, <2>14, <2>15, <2>16 DEF Safe, Sound
    <2> QED
        BY <2>10, <2>17 DEF q
<1> QED
    BY <1>2, <1>3

\* UNSUBSCRIBE of all channels.
LEMMA pubsubUnsubscribeAllChannelsSafe ==
    ASSUME NEW K, NEW R, NEW s, Safe(s, K, R), NEW c \in Open(s)
    PROVE  LET q == pubsubUnsubscribeAllChannels(s, c)
           IN  /\ Safe(q, K, R) /\ Others(s, q, c)
               /\ Change(s, q, {"pubsub_channels"}, {"channels"}, {}) /\ q.cl[c].channels = {}
<1> DEFINE q == pubsubUnsubscribeAllChannels(s, c)
           r == s.cl[c]
           W == Removed(s.pubsub_channels, r.channels, c)
<1>1. /\ s \in Server /\ c \in Clients /\ r \in Client
      /\ s.pubsub_channels \in [Channels -> Seq(Clients)]
    BY ClientOf DEF Safe, Sound, Open, Server
<1>2. r.channels \in SUBSET Channels
    BY <1>1 DEF Client
<1>3. \A x \in Channels : /\ IsInjective(s.pubsub_channels[x])
                          /\ ToSet(s.pubsub_channels[x]) = Subscribed(s, x)
    BY DEF Safe, Sound, ChannelTable, Lists
<1>4. /\ W \in [Channels -> Seq(Clients)]
      /\ \A x \in Channels : IsInjective(W[x]) /\ ToSet(W[x]) = Subscribed(s, x) \ {c}
    <2>1. Removable(s.pubsub_channels, Channels, r.channels, c)
        BY <1>1, <1>2, <1>3 DEF Subscribed, Removable, Table
    <2>2. IsWithout(W, s.pubsub_channels, Channels, c)
        BY <2>1, RemovedLists
    <2> QED
        BY <1>3, <2>2 DEF IsWithout, Table
<1>5. q = [s EXCEPT !.pubsub_channels = W, !.cl[c].channels = {}]
    BY DEF pubsubUnsubscribeAllChannels, Removed
<1> HIDE DEF W
<1>6. q = PutF(s, c, "channels", {}, "pubsub_channels", W)
    BY <1>1, <1>5 DEF Server, PutF, PutB, Put, PutS, With
<1> HIDE DEF q
<1>7. FieldOk("channels", {}) /\ ServerOk("pubsub_channels", W)
    BY <1>4 DEF FieldOk, ServerOk
<1>8. /\ Change(s, q, {"pubsub_channels"}, {"channels"}, {}) /\ Others(s, q, c)
      /\ q.cl[c] = With(r, "channels", {})
    <2>1. s \in Server /\ c \in Clients
        BY <1>1
    <2> QED
        BY ONLY <2>1, <1>6, <1>7, PutFields
<1>9. q.cl[c].channels = {}
    BY <1>1, <1>8 DEF With, Client
<1>10. q.pubsub_channels = W
    BY <1>1, <1>6 DEF PutF, PutB, Put, PutS, Server
<1>11. /\ ClientsTable(q) /\ BlockingTable(q) /\ WatchTable(q) /\ PatternTable(q)
       /\ WriteTable(q) /\ CloseTable(q) /\ UnblockedTable(q) /\ BlockedClients(q) /\ Unread(q)
       /\ Open(q) = Open(s)
    BY <1>8, Frame DEF Safe, Sound
<1>12. ChannelTable(q)
    <2>1. \A x \in Channels : Subscribed(q, x) = Subscribed(s, x) \ {c}
        BY <1>1, <1>8, <1>9, <1>11 DEF Subscribed, Others, Open
    <2> QED
        BY <1>4, <1>10, <2>1 DEF ChannelTable, Lists
<1>13. Noticed(q, R) /\ Told(q, K, R)
    BY <1>8, NoticedFrame, ToldFrame DEF Safe
<1>14. q \in Server
    BY <1>8 DEF Change
<1>15. Safe(q, K, R)
    BY <1>11, <1>12, <1>13, <1>14 DEF Safe, Sound
<1> QED
    BY <1>8, <1>9, <1>15 DEF q

\* PSUBSCRIBE: the client and the list of patterns agree.
LEMMA pubsubSubscribePatternSafe ==
    ASSUME NEW K, NEW R, NEW s, Safe(s, K, R), NEW c \in Open(s), NEW p \in Patterns
    PROVE  LET q == pubsubSubscribePattern(s, c, p)
           IN  /\ Safe(q, K, R) /\ Others(s, q, c)
               /\ Change(s, q, {"pubsub_patterns"}, {"patterns"}, {})
<1> DEFINE q == pubsubSubscribePattern(s, c, p)
           r == s.cl[c]
           m == Append(r.patterns, p)
           w == Append(s.pubsub_patterns, <<c, p>>)
<1>1. /\ s \in Server /\ c \in Clients /\ r \in Client
      /\ s.pubsub_patterns \in Seq(Clients \X Patterns)
    BY ClientOf DEF Safe, Sound, Open, Server
<1>2. CASE Contains(r.patterns, p)
    <2>1. q = s
        BY <1>2 DEF pubsubSubscribePattern
    <2>2. Change(s, s, {"pubsub_patterns"}, {"patterns"}, {}) /\ Others(s, s, c)
        BY <1>1, ChangeRefl
    <2> QED
        BY <2>1, <2>2
<1>3. CASE ~Contains(r.patterns, p)
    <2>1. r.patterns \in Seq(Patterns)
        BY <1>1 DEF Client
    <2>2. m \in Seq(Patterns)
        BY <2>1, AppendProperties
    <2>3. \A j : Contains(m, j) <=> j = p \/ Contains(r.patterns, j)
        <3>1. /\ Len(m) = Len(r.patterns) + 1 /\ m[Len(r.patterns) + 1] = p
              /\ Len(r.patterns) \in Nat
              /\ \A i \in 1..Len(r.patterns) : m[i] = r.patterns[i]
            BY <2>1, AppendProperties, LenProperties
        <3> HIDE DEF m, r
        <3>2. \A i \in 1..Len(m) : i \in 1..Len(r.patterns) \/ i = Len(r.patterns) + 1
            BY <3>1
        <3>3. Len(r.patterns) + 1 \in 1..Len(m) /\ \A i \in 1..Len(r.patterns) : i \in 1..Len(m)
            BY <3>1
        <3> QED
            BY <3>1, <3>2, <3>3 DEF Contains
    <2>4. Lists(s.pubsub_patterns, Subscriptions(s)) /\ <<c, p>> \notin Subscriptions(s)
        BY <1>3 DEF Safe, Sound, PatternTable, Subscriptions
    <2>5. Lists(w, Subscriptions(s) \cup {<<c, p>>}) /\ w \in Seq(Clients \X Patterns)
        <3>1. <<c, p>> \in Clients \X Patterns
            BY <1>1
        <3> DEFINE T == Clients \X Patterns
                   e == <<c, p>>
                   S == Subscriptions(s)
                   l == s.pubsub_patterns
        <3>2. l \in Seq(T) /\ Lists(l, S) /\ e \in T /\ e \notin S
            BY <1>1, <2>4, <3>1
        <3> HIDE DEF T, e, S, l
        <3>3. Lists(Append(l, e), S \cup {e}) /\ Append(l, e) \in Seq(T)
            BY ONLY <3>2, ListsAppend
        <3> QED
            BY <3>3 DEF T, e, S, l
    <2>6. q = [s EXCEPT !.cl[c].patterns = m, !.pubsub_patterns = w]
        BY <1>3 DEF pubsubSubscribePattern
    <2> HIDE DEF m, w
    <2>7. q = PutF(s, c, "patterns", m, "pubsub_patterns", w)
        BY <1>1, <2>6 DEF Server, PutF, PutB, Put, PutS, With
    <2> HIDE DEF q
    <2>8. FieldOk("patterns", m) /\ ServerOk("pubsub_patterns", w)
        BY <2>2, <2>5 DEF FieldOk, ServerOk
    <2>9. /\ Change(s, q, {"pubsub_patterns"}, {"patterns"}, {}) /\ Others(s, q, c)
          /\ q.cl[c] = With(r, "patterns", m)
        <3>1. s \in Server /\ c \in Clients
            BY <1>1
        <3> QED
            BY ONLY <3>1, <2>7, <2>8, PutFields
    <2>10. q.cl[c].patterns = m
        BY <1>1, <2>9 DEF With, Client
    <2>11. q.pubsub_patterns = w
        BY <1>1, <2>7 DEF PutF, PutB, Put, PutS, Server
    <2>12. /\ ClientsTable(q) /\ BlockingTable(q) /\ WatchTable(q) /\ ChannelTable(q)
           /\ WriteTable(q) /\ CloseTable(q) /\ UnblockedTable(q) /\ BlockedClients(q) /\ Unread(q)
           /\ Open(q) = Open(s)
        BY <2>9, Frame DEF Safe, Sound
    <2>13. Subscriptions(q) = Subscriptions(s) \cup {<<c, p>>}
        <3>1. ASSUME NEW x \in Open(s), NEW y \in Patterns
              PROVE  <<x, y>> \in Subscriptions(q) <=> <<x, y>> \in Subscriptions(s) \/ <<x, y>> = <<c, p>>
            <4>1. CASE x = c
                BY <2>3, <2>10, <2>12, <4>1 DEF Subscriptions
            <4>2. CASE x # c
                <5>1. q.cl[x] = s.cl[x]
                    BY <2>9, <4>2 DEF Others, Open
                <5> QED
                    BY <2>12, <4>2, <5>1 DEF Subscriptions
            <4> QED
                BY <4>1, <4>2
        <3>2. \A e \in Subscriptions(q) : \E x \in Open(s), y \in Patterns : e = <<x, y>>
            BY <2>12 DEF Subscriptions
        <3>3. \A e \in Subscriptions(s) : \E x \in Open(s), y \in Patterns : e = <<x, y>>
            BY DEF Subscriptions
        <3> QED
            BY <3>1, <3>2, <3>3
    <2>14. PatternTable(q)
        BY <2>5, <2>11, <2>13 DEF PatternTable
    <2>15. Noticed(q, R) /\ Told(q, K, R)
        BY <2>9, NoticedFrame, ToldFrame DEF Safe
    <2>16. q \in Server
        BY <2>9 DEF Change
    <2>17. Safe(q, K, R)
        BY <2>12, <2>14, <2>15, <2>16 DEF Safe, Sound
    <2> QED
        BY <2>9, <2>17 DEF q
<1> QED
    BY <1>2, <1>3

\* PUNSUBSCRIBE of all patterns.
LEMMA pubsubUnsubscribeAllPatternsSafe ==
    ASSUME NEW K, NEW R, NEW s, Safe(s, K, R), NEW c \in Open(s)
    PROVE  LET q == pubsubUnsubscribeAllPatterns(s, c)
           IN  /\ Safe(q, K, R) /\ Others(s, q, c)
               /\ Change(s, q, {"pubsub_patterns"}, {"patterns"}, {}) /\ q.cl[c].patterns = <<>>
<1> DEFINE q == pubsubUnsubscribeAllPatterns(s, c)
           r == s.cl[c]
           X == {<<c, p>> : p \in ToSet(r.patterns)}
           w == Filtered(s.pubsub_patterns, X)
           M == Subscriptions(s)
<1>1. /\ s \in Server /\ c \in Clients /\ r \in Client
      /\ s.pubsub_patterns \in Seq(Clients \X Patterns)
    BY ClientOf DEF Safe, Sound, Open, Server
<1>2. r.patterns \in Seq(Patterns)
    BY <1>1 DEF Client
<1>3. \A p : Contains(r.patterns, p) <=> p \in ToSet(r.patterns)
    BY <1>2, ToSetFacts
<1>4. w \in Seq(Clients \X Patterns) /\ Lists(w, M \ X)
    <2> DEFINE T == Clients \X Patterns
               l == s.pubsub_patterns
    <2>1. l \in Seq(T) /\ Lists(l, M)
        BY <1>1 DEF Safe, Sound, PatternTable
    <2> HIDE DEF T, l, M, X
    <2>2. Filtered(l, X) \in Seq(T) /\ Lists(Filtered(l, X), M \ X)
        BY ONLY <2>1, FilteredLists
    <2> QED
        BY <2>2 DEF l, T
<1>5. q = [s EXCEPT !.cl[c].patterns = <<>>, !.pubsub_patterns = w]
    BY DEF pubsubUnsubscribeAllPatterns
<1> HIDE DEF w
<1>6. q = PutF(s, c, "patterns", <<>>, "pubsub_patterns", w)
    BY <1>1, <1>5 DEF Server, PutF, PutB, Put, PutS, With
<1> HIDE DEF q
<1>7. FieldOk("patterns", <<>>) /\ ServerOk("pubsub_patterns", w)
    BY <1>4 DEF FieldOk, ServerOk
<1>8. /\ Change(s, q, {"pubsub_patterns"}, {"patterns"}, {}) /\ Others(s, q, c)
      /\ q.cl[c] = With(r, "patterns", <<>>)
    <2>1. s \in Server /\ c \in Clients
        BY <1>1
    <2> QED
        BY ONLY <2>1, <1>6, <1>7, PutFields
<1>9. q.cl[c].patterns = <<>>
    BY <1>1, <1>8 DEF With, Client
<1>10. q.pubsub_patterns = w
    BY <1>1, <1>6 DEF PutF, PutB, Put, PutS, Server
<1>11. /\ ClientsTable(q) /\ BlockingTable(q) /\ WatchTable(q) /\ ChannelTable(q)
       /\ WriteTable(q) /\ CloseTable(q) /\ UnblockedTable(q) /\ BlockedClients(q) /\ Unread(q)
       /\ Open(q) = Open(s)
    BY <1>8, Frame DEF Safe, Sound
<1>12. Subscriptions(q) = M \ X
    <2>1. ASSUME NEW x \in Open(s), NEW y \in Patterns
          PROVE  <<x, y>> \in Subscriptions(q) <=> <<x, y>> \in M /\ <<x, y>> \notin X
        <3>1. CASE x = c
            <4>1. ~Contains(q.cl[c].patterns, y)
                BY <1>9 DEF Contains
            <4> QED
                BY <1>3, <3>1, <4>1 DEF Subscriptions
        <3>2. CASE x # c
            <4>1. q.cl[x] = s.cl[x]
                BY <1>8, <3>2 DEF Others, Open
            <4> QED
                BY <1>11, <3>2, <4>1 DEF Subscriptions
        <3> QED
            BY <3>1, <3>2
    <2>2. \A e \in Subscriptions(q) : \E x \in Open(s), y \in Patterns : e = <<x, y>>
        BY <1>11 DEF Subscriptions
    <2>3. \A e \in M : \E x \in Open(s), y \in Patterns : e = <<x, y>>
        BY DEF Subscriptions
    <2> HIDE DEF X, M
    <2> QED
        BY <2>1, <2>2, <2>3
<1>13. PatternTable(q)
    BY <1>4, <1>10, <1>12 DEF PatternTable
<1>14. Noticed(q, R) /\ Told(q, K, R)
    BY <1>8, NoticedFrame, ToldFrame DEF Safe
<1>15. q \in Server
    BY <1>8 DEF Change
<1>16. Safe(q, K, R)
    BY <1>11, <1>13, <1>14, <1>15 DEF Safe, Sound
<1> QED
    BY <1>8, <1>9, <1>16 DEF q

-----------------------------------------------------------------------------
(* Closing a client. *)

LEMMA ReleasedClient ==
    ASSUME NEW r \in Client
    PROVE  /\ Released(r) \in Client /\ Released(r).state = "freed" /\ Released(r).flags = {}
           /\ Released(r).stale = {} /\ Released(r).refused = FALSE /\ Released(r).broken = r.broken
           /\ Released(r).querybuf = <<>> /\ Released(r).answers = r.answers /\ Released(r).n = r.n
<1>1. createClient \in Client
    BY DEF createClient, Client, Bpop
<1>2. r.broken \in BOOLEAN /\ r.n \in Nat /\ r.answers \in Seq(Nat)
    BY DEF Client
<1>3. /\ createClient.flags = {} /\ createClient.stale = {} /\ createClient.refused = FALSE
      /\ createClient.querybuf = <<>>
    BY DEF createClient
<1> QED
    BY <1>1, <1>2, <1>3 DEF Released, Client

\* What is left of a freed client keeps its answers.
LEMMA ReleasedInTurn ==
    ASSUME NEW r \in Client, InTurn(r)
    PROVE  InTurn(Released(r))
<1>1. /\ Released(r).state = "freed" /\ Released(r).flags = {} /\ Released(r).answers = r.answers
      /\ Released(r).n = r.n
    BY ReleasedClient
<1>2. r.n \in Nat /\ Len(r.answers) \in Nat /\ \A i \in 1..Len(r.answers) : r.answers[i] \in Nat
    BY LenProperties, ElementOfSeq DEF Client
<1>3. Ordered(r) /\ \A i \in 1..Len(r.answers) : r.answers[i] <= r.n
    BY <1>2 DEF InTurn, Answered, Unanswered
<1> HIDE DEF Released
<1>4. Ordered(Released(r)) /\ Replies(Released(r)) /\ Silent(Released(r))
    BY <1>1, <1>3 DEF Ordered, Replies, Silent
<1> QED
    BY <1>1, <1>3, <1>4 DEF InTurn, Answered

ClientTables == {"clients", "blocking_keys", "watched_keys", "pubsub_channels", "pubsub_patterns",
                 "unblocked_clients", "clients_pending_write", "clients_to_close"}

\* The last part of freeClient: the client is in none of the other tables.
Forgotten(r) == r.bpop.keys = {} /\ r.watched_keys = <<>> /\ r.channels = {} /\ r.patterns = <<>>
IfFlagged(s, c, f, l) == IF Has(s, c, f) THEN Without(l, c) ELSE l
Unlinked(s, c) ==
    [s EXCEPT !.cl = [s.cl EXCEPT ![c] = Released(s.cl[c])], !.clients = Without(s.clients, c),
              !.clients_pending_write = IfFlagged(s, c, "PENDING_WRITE", s.clients_pending_write),
              !.unblocked_clients = IfFlagged(s, c, "UNBLOCKED", s.unblocked_clients),
              !.clients_to_close = IfFlagged(s, c, "CLOSE_ASAP", s.clients_to_close)]
\* A client that waits for, watches and subscribes to nothing leaves the rest.
LEMMA UnlinkedSafe ==
    ASSUME NEW K, NEW R, NEW s, Safe(s, K, R), NEW c \in Open(s), Forgotten(s.cl[c])
    PROVE  LET q == Unlinked(s, c)
           IN  /\ Safe(q, K, R) /\ Others(s, q, c) /\ Same(s, q, ClientTables)
               /\ Open(q) = Open(s) \ {c} /\ q.cl[c] = Released(s.cl[c])
<1> DEFINE q == Unlinked(s, c)
           r == s.cl[c]
           u == Released(r)
           h == [s.cl EXCEPT ![c] = u]
           l1 == Without(s.clients, c)
           l2 == IfFlagged(s, c, "PENDING_WRITE", s.clients_pending_write)
           l3 == IfFlagged(s, c, "UNBLOCKED", s.unblocked_clients)
           l4 == IfFlagged(s, c, "CLOSE_ASAP", s.clients_to_close)
<1>1. /\ s \in Server /\ c \in Clients /\ r \in Client /\ s.cl \in [Clients -> Client]
      /\ s.clients \in Seq(Clients) /\ s.clients_pending_write \in Seq(Clients)
      /\ s.unblocked_clients \in Seq(Clients) /\ s.clients_to_close \in Seq(Clients)
    BY ClientOf DEF Safe, Sound, Open, Server
<1>2. /\ u \in Client /\ u.state = "freed" /\ u.flags = {} /\ u.stale = {} /\ u.refused = FALSE
      /\ u.broken = r.broken /\ u.querybuf = <<>>
    BY <1>1, ReleasedClient
<1> HIDE DEF u
<1>3. h \in [Clients -> Client] /\ h[c] = u /\ \A x \in Clients \ {c} : h[x] = s.cl[x]
    BY <1>1, <1>2
<1>4. l1 \in Seq(Clients) /\ Lists(l1, Open(s) \ {c})
    BY <1>1, WithoutLists DEF Safe, Sound, ClientsTable
<1>5. l2 \in Seq(Clients) /\ Lists(l2, Flags(s, "PENDING_WRITE") \ {c})
    <2>1. Lists(s.clients_pending_write, Flags(s, "PENDING_WRITE"))
        BY DEF Safe, Sound, WriteTable
    <2>2. CASE Has(s, c, "PENDING_WRITE")
        BY <1>1, <2>1, <2>2, WithoutLists DEF IfFlagged
    <2>3. CASE ~Has(s, c, "PENDING_WRITE")
        <3>1. Flags(s, "PENDING_WRITE") \ {c} = Flags(s, "PENDING_WRITE")
            BY <2>3 DEF Has, Flags
        <3> QED
            BY <1>1, <2>1, <2>3, <3>1 DEF IfFlagged
    <2> QED
        BY <2>2, <2>3
<1>6. l3 \in Seq(Clients) /\ ListsBut(l3, Flags(s, "UNBLOCKED") \ {c}, s.twice)
    <2>1. ListsBut(s.unblocked_clients, Flags(s, "UNBLOCKED"), s.twice)
        BY DEF Safe, Sound, UnblockedTable
    <2>2. CASE Has(s, c, "UNBLOCKED")
        <3>1. c \in Flags(s, "UNBLOCKED")
            BY <2>2 DEF Has, Flags
        <3>2. /\ Without(s.unblocked_clients, c) \in Seq(Clients)
              /\ ListsBut(Without(s.unblocked_clients, c), Flags(s, "UNBLOCKED") \ {c}, s.twice)
            BY <1>1, <2>1, <3>1, WithoutLists, ListsButLess
        <3> QED
            BY <2>2, <3>2 DEF IfFlagged
    <2>3. CASE ~Has(s, c, "UNBLOCKED")
        <3>1. Flags(s, "UNBLOCKED") \ {c} = Flags(s, "UNBLOCKED")
            BY <2>3 DEF Has, Flags
        <3> QED
            BY <1>1, <2>1, <2>3, <3>1 DEF IfFlagged
    <2> QED
        BY <2>2, <2>3
<1>7. l4 \in Seq(Clients) /\ Lists(l4, Flags(s, "CLOSE_ASAP") \ {c})
    <2>1. Lists(s.clients_to_close, Flags(s, "CLOSE_ASAP"))
        BY DEF Safe, Sound, CloseTable
    <2>2. CASE Has(s, c, "CLOSE_ASAP")
        BY <1>1, <2>1, <2>2, WithoutLists DEF IfFlagged
    <2>3. CASE ~Has(s, c, "CLOSE_ASAP")
        <3>1. Flags(s, "CLOSE_ASAP") \ {c} = Flags(s, "CLOSE_ASAP")
            BY <2>3 DEF Has, Flags
        <3> QED
            BY <1>1, <2>1, <2>3, <3>1 DEF IfFlagged
    <2> QED
        BY <2>2, <2>3
<1>8. q = [s EXCEPT !.cl = h, !.clients = l1, !.clients_pending_write = l2,
                    !.unblocked_clients = l3, !.clients_to_close = l4]
    BY DEF Unlinked, u
<1> HIDE DEF h, l1, l2, l3, l4, q
<1>9. /\ q \in Server /\ q.cl = h /\ q.clients = l1 /\ q.clients_pending_write = l2
      /\ q.unblocked_clients = l3 /\ q.clients_to_close = l4 /\ q.twice = s.twice
      /\ q.blocking_keys = s.blocking_keys /\ q.watched_keys = s.watched_keys
      /\ q.pubsub_channels = s.pubsub_channels /\ q.pubsub_patterns = s.pubsub_patterns
      /\ q.ready_keys = s.ready_keys /\ q.db = s.db /\ q.overwritten = s.overwritten
    BY <1>1, <1>3, <1>4, <1>5, <1>6, <1>7, <1>8 DEF Server
<1>10. Same(s, q, ClientTables)
    BY <1>1, <1>8 DEF Server, Same, ServerFields, ClientTables
<1>11. Others(s, q, c) /\ q.cl[c] = u
    BY <1>3, <1>9 DEF Others
<1>12. Open(q) = Open(s) \ {c}
    BY <1>1, <1>2, <1>11 DEF Open, Others
<1>13. \A x \in Open(q) : x \in Open(s) /\ q.cl[x] = s.cl[x]
    BY <1>11, <1>12 DEF Others, Open
<1>14. \A f : Flags(q, f) = Flags(s, f) \ {c}
    BY <1>12, <1>13 DEF Flags
<1>15. ClientsTable(q) /\ WriteTable(q) /\ CloseTable(q) /\ UnblockedTable(q)
    BY <1>4, <1>5, <1>6, <1>7, <1>9, <1>12, <1>14 DEF ClientsTable, WriteTable, CloseTable, UnblockedTable
<1>16. BlockingTable(q)
    <2>1. \A k \in Keys : Waiting(q, k) = Waiting(s, k)
        BY <1>12, <1>13 DEF Waiting, Forgotten
    <2> QED
        BY <1>9, <2>1 DEF Safe, Sound, BlockingTable
<1>17. WatchTable(q) /\ \A k \in Keys : c \notin ToSet(s.watched_keys[k])
    <2>1. \A k : ~Contains(r.watched_keys, k)
        BY DEF Forgotten, Contains
    <2>2. \A k \in Keys : Watching(q, k) = Watching(s, k) /\ c \notin Watching(s, k)
        BY <1>12, <1>13, <2>1 DEF Watching
    <2> QED
        BY <1>9, <2>2 DEF Safe, Sound, WatchTable, Lists
<1>18. ChannelTable(q)
    <2>1. \A k \in Channels : Subscribed(q, k) = Subscribed(s, k)
        BY <1>12, <1>13 DEF Subscribed, Forgotten
    <2> QED
        BY <1>9, <2>1 DEF Safe, Sound, ChannelTable
<1>19. PatternTable(q)
    <2>1. \A k : ~Contains(r.patterns, k)
        BY DEF Forgotten, Contains
    <2>2. Subscriptions(q) = Subscriptions(s)
        <3>1. ASSUME NEW e \in Subscriptions(q) PROVE e \in Subscriptions(s)
            <4>1. e \in Open(q) \X Patterns /\ Contains(q.cl[e[1]].patterns, e[2]) /\ e[1] \in Open(q)
                BY DEF Subscriptions
            <4>2. e \in Open(s) \X Patterns /\ q.cl[e[1]] = s.cl[e[1]]
                BY <1>12, <1>13, <4>1
            <4> QED
                BY <4>1, <4>2 DEF Subscriptions
        <3>2. ASSUME NEW e \in Subscriptions(s) PROVE e \in Subscriptions(q)
            <4>1. e \in Open(s) \X Patterns /\ Contains(s.cl[e[1]].patterns, e[2]) /\ e[1] \in Open(s)
                BY DEF Subscriptions
            <4>2. e[1] # c
                BY <2>1, <4>1
            <4>3. e \in Open(q) \X Patterns /\ q.cl[e[1]] = s.cl[e[1]]
                BY <1>12, <1>13, <4>1, <4>2
            <4> QED
                BY <4>1, <4>3 DEF Subscriptions
        <3> QED
            BY <3>1, <3>2
    <2> QED
        BY <1>9, <2>2 DEF Safe, Sound, PatternTable
<1>20. BlockedClients(q)
    BY <1>13 DEF Safe, Sound, BlockedClients
<1>21. Unread(q)
    BY <1>2, <1>11, <1>12 DEF Safe, Sound, Unread, Others
<1>22. Noticed(q, R)
    BY <1>9 DEF Safe, Noticed
<1>23. Told(q, K, R)
    <2>1. \A x \in Clients : x = c \/ q.cl[x] = s.cl[x]
        BY <1>11 DEF Others
    <2>2. ~r.broken
        BY <1>1 DEF Safe, Told, ToldClient
    <2>3. ToldClient(u, K)
        BY <1>2, <2>2 DEF ToldClient
    <2> QED
        BY <1>2, <1>9, <1>11, <1>17, <2>1, <2>3 DEF Safe, Told
<1>24. Safe(q, K, R)
    BY <1>9, <1>15, <1>16, <1>17, <1>18, <1>19, <1>20, <1>21, <1>22, <1>23 DEF Safe, Sound
<1> QED
    BY <1>10, <1>11, <1>12, <1>24 DEF q, u

\* The end of freeClient is Unlinked.
LEMMA FreeIsUnlinked ==
    ASSUME NEW s \in Server, NEW c \in Clients
    PROVE  LET e == unlinkClient(s, c)
               f == IF Has(e, c, "CLOSE_ASAP")
                    THEN [e EXCEPT !.clients_to_close = Without(@, c)] ELSE e
           IN  [f EXCEPT !.cl[c] = Released(@)] = Unlinked(s, c)
<1> DEFINE r == s.cl[c]
           X == r.flags \ {"PENDING_WRITE", "UNBLOCKED"}
           v == WithFlags(r, X)
           l1 == Without(s.clients, c)
           l2 == IfFlagged(s, c, "PENDING_WRITE", s.clients_pending_write)
           l3 == IfFlagged(s, c, "UNBLOCKED", s.unblocked_clients)
           l4 == IfFlagged(s, c, "CLOSE_ASAP", s.clients_to_close)
           At(u, l) == [s EXCEPT !.cl = [s.cl EXCEPT ![c] = u], !.clients = l1,
                                 !.clients_pending_write = l2, !.unblocked_clients = l3,
                                 !.clients_to_close = l]
           e == unlinkClient(s, c)
           f == IF Has(e, c, "CLOSE_ASAP")
                THEN [e EXCEPT !.clients_to_close = Without(@, c)] ELSE e
<1>1. r \in Client /\ s.cl \in [Clients -> Client]
    BY ClientOf DEF Server
<1>2. e = At(v, s.clients_to_close)
    <2>1. Clear(s, c, {"PENDING_WRITE", "UNBLOCKED"}) = [s EXCEPT !.cl = [s.cl EXCEPT ![c] = v]]
        BY <1>1 DEF Clear, WithFlags, Server
    <2> HIDE DEF v
    <2> QED
        BY <2>1 DEF unlinkClient, IfFlagged, Server
<1>3. v.flags = X /\ Released(v) = Released(r)
    BY <1>1 DEF WithFlags, Client, Released
<1> HIDE DEF v, l1, l2, l3
<1>4. \A u, l : At(u, l).cl[c] = u /\ At(u, l).clients_to_close = l
    BY <1>1 DEF Server
<1>5. ASSUME NEW u, NEW l, NEW w PROVE [At(u, l) EXCEPT !.cl[c] = w] = At(w, l)
    <2> DEFINE At2(x) == [s EXCEPT !.cl = x, !.clients = l1, !.clients_pending_write = l2,
                                   !.unblocked_clients = l3, !.clients_to_close = l]
               g == [s.cl EXCEPT ![c] = u]
               h == [s.cl EXCEPT ![c] = w]
    <2>1. At(u, l) = At2(g) /\ At(w, l) = At2(h)
        OBVIOUS
    <2>2. [g EXCEPT ![c] = w] = h
        BY <1>1
    <2> HIDE DEF g, h, At, l4
    <2>3. At2(g).cl = g
        BY DEF Server
    <2>4. [At2(g) EXCEPT !.cl = h] = At2(h)
        BY DEF Server
    <2> HIDE DEF At2
    <2>5. [At2(g) EXCEPT !.cl[c] = w] = [At2(g) EXCEPT !.cl = [At2(g).cl EXCEPT ![c] = w]]
        OBVIOUS
    <2> QED
        BY <2>1, <2>2, <2>3, <2>4, <2>5
<1>6. \A u, l, w : [At(u, l) EXCEPT !.clients_to_close = w] = At(u, w)
    BY ZenonT(40) DEF Server
<1>7. Has(e, c, "CLOSE_ASAP") <=> Has(s, c, "CLOSE_ASAP")
    <2>1. e.cl[c] = v
        <3> HIDE DEF At, e
        <3> QED
            BY <1>2, <1>4
    <2> QED
        BY <1>3, <2>1 DEF Has
<1>8. f = At(v, l4)
    <2>1. e.clients_to_close = s.clients_to_close
        <3> HIDE DEF At, e
        <3> QED
            BY <1>2, <1>4
    <2>2. CASE Has(s, c, "CLOSE_ASAP")
        <3>1. l4 = Without(s.clients_to_close, c)
            BY <2>2 DEF IfFlagged
        <3>2. f = [e EXCEPT !.clients_to_close = l4]
            <4> HIDE DEF e, l4
            <4> QED
                BY <1>7, <2>1, <2>2, <3>1
        <3> HIDE DEF At, e, l4, f
        <3> QED
            BY <1>2, <1>6, <3>2
    <2>3. CASE ~Has(s, c, "CLOSE_ASAP")
        <3>1. l4 = s.clients_to_close
            BY <2>3 DEF IfFlagged
        <3> HIDE DEF At, e, l4
        <3> QED
            BY <1>2, <1>7, <2>3, <3>1
    <2> QED
        BY <2>2, <2>3
<1>9. Unlinked(s, c) = At(Released(r), l4)
    BY DEF Unlinked, l1, l2, l3
<1> HIDE DEF At, e, f, l4
<1>10. f.cl[c] = v
    BY <1>4, <1>8
<1>11. [f EXCEPT !.cl[c] = Released(r)] = At(Released(r), l4)
    BY <1>5, <1>8
<1>12. [f EXCEPT !.cl[c] = Released(@)] = [f EXCEPT !.cl[c] = Released(f.cl[c])]
    OBVIOUS
<1>13. [f EXCEPT !.cl[c] = Released(@)] = Unlinked(s, c)
    BY <1>3, <1>9, <1>10, <1>11, <1>12
<1> QED
    BY <1>13 DEF f, e

\* freeClient: no table has the client any more.
LEMMA freeClientSafe ==
    ASSUME NEW K, NEW R, NEW s, Safe(s, K, R), NEW c \in Open(s)
    PROVE  LET q == freeClient(s, c)
           IN  /\ Safe(q, K, R) /\ Others(s, q, c) /\ Same(s, q, ClientTables)
               /\ Open(q) = Open(s) \ {c} /\ (InTurn(s.cl[c]) => InTurn(q.cl[c]))
<1> DEFINE a == IF Has(s, c, "BLOCKED") THEN unblockClient(s, c) ELSE s
           b == unwatchAllKeys(a, c)
           d == pubsubUnsubscribeAllChannels(b, c)
           e == pubsubUnsubscribeAllPatterns(d, c)
           q == Unlinked(e, c)
<1>1. s \in Server /\ c \in Clients
    BY DEF Safe, Sound, Open
<1>2. /\ Safe(a, K, R) /\ Others(s, a, c) /\ "BLOCKED" \notin a.cl[c].flags
      /\ Change(s, a, {"blocking_keys", "unblocked_clients"}, {"bpop"}, {"BLOCKED", "UNBLOCKED"})
    <2>1. CASE Has(s, c, "BLOCKED")
        <3> DEFINE w == unblockClient(s, c)
        <3>1. /\ Safe(w, K, R) /\ Others(s, w, c) /\ "BLOCKED" \notin w.cl[c].flags
              /\ Change(s, w, {"blocking_keys", "unblocked_clients"}, {"bpop"}, {"BLOCKED", "UNBLOCKED"})
            BY unblockClientSafe
        <3>2. a = w
            BY <2>1
        <3> HIDE DEF w, a
        <3> QED
            BY <3>1, <3>2
    <2>2. CASE ~Has(s, c, "BLOCKED")
        <3>1. a = s
            BY <2>2
        <3>2. /\ Change(s, s, {"blocking_keys", "unblocked_clients"}, {"bpop"}, {"BLOCKED", "UNBLOCKED"})
              /\ Others(s, s, c)
            BY <1>1, ChangeRefl
        <3> HIDE DEF a
        <3> QED
            BY <2>2, <3>1, <3>2 DEF Has
    <2> QED
        BY <2>1, <2>2
<1> HIDE DEF a
<1>3. c \in Open(a)
    BY <1>2, Frame
<1>4. /\ Safe(b, K, R) /\ Others(a, b, c) /\ b.cl[c].watched_keys = <<>>
      /\ Change(a, b, {"watched_keys"}, {"watched_keys", "stale"}, {})
    BY <1>2, <1>3, unwatchAllKeysSafe
<1> HIDE DEF b
<1>5. c \in Open(b)
    BY <1>3, <1>4, Frame
<1>6. /\ Safe(d, K, R) /\ Others(b, d, c) /\ d.cl[c].channels = {}
      /\ Change(b, d, {"pubsub_channels"}, {"channels"}, {})
    BY <1>4, <1>5, pubsubUnsubscribeAllChannelsSafe
<1> HIDE DEF d
<1>7. c \in Open(d)
    BY <1>5, <1>6, Frame
<1>8. /\ Safe(e, K, R) /\ Others(d, e, c) /\ e.cl[c].patterns = <<>>
      /\ Change(d, e, {"pubsub_patterns"}, {"patterns"}, {})
    BY <1>6, <1>7, pubsubUnsubscribeAllPatternsSafe
<1>9. freeClient(s, c) = q
    <2>1. e \in Server
        BY <1>8 DEF Change
    <2> HIDE DEF e
    <2>2. freeClient(s, c) = LET x == unlinkClient(e, c)
                                 f == IF Has(x, c, "CLOSE_ASAP")
                                      THEN [x EXCEPT !.clients_to_close = Without(@, c)] ELSE x
                             IN  [f EXCEPT !.cl[c] = Released(@)]
        BY DEF freeClient, a, b, d, e
    <2> QED
        BY <1>1, <2>1, <2>2, FreeIsUnlinked
<1> HIDE DEF e
<1>10. c \in Open(e)
    BY <1>7, <1>8, Frame
<1>11. Change(s, e, ClientTables, {"bpop", "watched_keys", "stale", "channels", "patterns"},
              {"BLOCKED", "UNBLOCKED"})
    <2>1. Change(s, b, {"blocking_keys", "unblocked_clients"} \cup {"watched_keys"},
                 {"bpop"} \cup {"watched_keys", "stale"}, {"BLOCKED", "UNBLOCKED"} \cup {})
        BY <1>2, <1>4, ChangeTrans
    <2>2. Change(b, e, {"pubsub_channels"} \cup {"pubsub_patterns"}, {"channels"} \cup {"patterns"}, {} \cup {})
        BY <1>6, <1>8, ChangeTrans
    <2> DEFINE S1 == {"blocking_keys", "unblocked_clients"} \cup {"watched_keys"}
               S2 == {"pubsub_channels"} \cup {"pubsub_patterns"}
               F1 == {"bpop"} \cup {"watched_keys", "stale"}
               F2 == {"channels"} \cup {"patterns"}
               G1 == {"BLOCKED", "UNBLOCKED"} \cup {}
               G2 == {} \cup {}
    <2>3. Change(s, b, S1, F1, G1) /\ Change(b, e, S2, F2, G2)
        BY <2>1, <2>2
    <2>4. /\ S1 \cup S2 \subseteq ClientTables /\ G1 \cup G2 \subseteq {"BLOCKED", "UNBLOCKED"}
          /\ F1 \cup F2 \subseteq {"bpop", "watched_keys", "stale", "channels", "patterns"}
        BY DEF ClientTables
    <2> HIDE DEF S1, S2, F1, F2, G1, G2
    <2>5. Change(s, e, S1 \cup S2, F1 \cup F2, G1 \cup G2)
        BY <2>3, ChangeTrans
    <2> QED
        BY <2>4, <2>5, ChangeMore
<1>12. Others(s, e, c)
    BY <1>2, <1>4, <1>6, <1>8 DEF Others
<1>13. Forgotten(e.cl[c])
    <2>1. /\ e.cl[c].watched_keys = b.cl[c].watched_keys /\ e.cl[c].channels = d.cl[c].channels
        <3>1. d.cl[c].watched_keys = b.cl[c].watched_keys
            BY <1>1, <1>6 DEF Change, Alike, ClientFields
        <3>2. e.cl[c].watched_keys = d.cl[c].watched_keys /\ e.cl[c].channels = d.cl[c].channels
            BY <1>1, <1>8 DEF Change, Alike, ClientFields
        <3> QED
            BY <3>1, <3>2
    <2>2. "BLOCKED" \notin e.cl[c].flags
        <3>1. "BLOCKED" \notin b.cl[c].flags
            BY <1>1, <1>2, <1>4 DEF Change, Alike
        <3>2. "BLOCKED" \notin d.cl[c].flags
            BY <1>1, <1>6, <3>1 DEF Change, Alike
        <3> QED
            BY <1>1, <1>8, <3>2 DEF Change, Alike
    <2>3. e.cl[c].bpop.keys = {}
        BY <1>8, <1>10, <2>2 DEF Safe, Sound, BlockedClients, BlockedClient
    <2> QED
        BY <1>4, <1>6, <1>8, <2>1, <2>3 DEF Forgotten
<1>14. /\ Safe(q, K, R) /\ Others(e, q, c) /\ Same(e, q, ClientTables)
       /\ Open(q) = Open(e) \ {c} /\ q.cl[c] = Released(e.cl[c])
    BY <1>8, <1>10, <1>13, UnlinkedSafe
<1> HIDE DEF q
<1>15. Others(s, q, c)
    BY <1>12, <1>14 DEF Others
<1>16. Same(s, q, ClientTables)
    BY <1>11, <1>14 DEF Change, Same
<1>17. Open(q) = Open(s) \ {c}
    BY <1>11, <1>14, Frame
<1>18. ASSUME InTurn(s.cl[c]) PROVE InTurn(q.cl[c])
    <2>1. Released(e.cl[c]) = Released(s.cl[c])
        <3>1. e.cl[c].broken = s.cl[c].broken /\ e.cl[c].n = s.cl[c].n /\ e.cl[c].answers = s.cl[c].answers
            BY <1>1, <1>11 DEF Change, Alike, ClientFields
        <3> QED
            BY <3>1 DEF Released
    <2>2. s.cl[c] \in Client
        BY <1>1, ClientOf
    <2> QED
        BY <1>14, <1>18, <2>1, <2>2, ReleasedInTurn
<1> QED
    BY <1>9, <1>14, <1>15, <1>16, <1>17, <1>18

-----------------------------------------------------------------------------
(* Commands: the client c is to be answered (Turn), or has been (Spoken).     *)

Heard(s, c) == \A x \in Clients : x = c \/ InTurn(s.cl[x])
Turn(s, c, K, R) ==
    /\ Safe(s, K, R) /\ c \in Open(s) /\ Heard(s, c) /\ "BLOCKED" \notin s.cl[c].flags
    /\ IF s.executing THEN "MULTI" \in s.cl[c].flags /\ Answered(s.cl[c]) ELSE Unanswered(s.cl[c])
Spoken(s, c, K, R) ==
    /\ Safe(s, K, R) /\ c \in Open(s) /\ Heard(s, c) /\ "BLOCKED" \notin s.cl[c].flags
    /\ s.executing => "MULTI" \in s.cl[c].flags
    /\ Answered(s.cl[c])
Calm(s, q) ==
    q.db = s.db /\ q.replica = s.replica /\ q.dirty = s.dirty /\ q.executing = s.executing
Loud == {"db", "replica", "dirty", "executing"}

\* Data set, replica and transaction stay if only other fields change.
LEMMA CalmFrame ==
    ASSUME NEW s, NEW q, NEW S, Same(s, q, S), S \cap Loud = {}
    PROVE  Calm(s, q)
BY DEF Same, Calm, Loud, ServerFields

\* It stays a client's turn as long as its answers are left alone.
LEMMA TurnFrame ==
    ASSUME NEW s, NEW q, NEW S, NEW F, NEW G, NEW K, NEW R, NEW K2, NEW R2, NEW c,
           Change(s, q, S, F, G), Safe(q, K2, R2), "executing" \notin S,
           F \cap VoiceFields = {}, G \cap VoiceFlags = {}, "MULTI" \notin G \/ ~s.executing
    PROVE  /\ Turn(s, c, K, R) => Turn(q, c, K2, R2)
           /\ Spoken(s, c, K, R) => Spoken(q, c, K2, R2)
           /\ (\A x \in Clients : InTurn(s.cl[x])) => \A x \in Clients : InTurn(q.cl[x])
<1>1. q.executing = s.executing
    BY DEF Change, Same, ServerFields
<1>2. "state" \notin F
    BY DEF VoiceFields
<1>3. Open(q) = Open(s)
    BY <1>2, Frame
<1>4. ASSUME NEW x \in Clients
      PROVE  /\ InTurn(q.cl[x]) <=> InTurn(s.cl[x])
             /\ Unanswered(q.cl[x]) <=> Unanswered(s.cl[x])
             /\ Answered(q.cl[x]) <=> Answered(s.cl[x])
             /\ s.executing => ("MULTI" \in q.cl[x].flags <=> "MULTI" \in s.cl[x].flags)
             /\ "BLOCKED" \in q.cl[x].flags <=> "BLOCKED" \in s.cl[x].flags
    <2>1. Alike(s.cl[x], q.cl[x], F, G)
        BY DEF Change
    <2>2. "BLOCKED" \notin G
        BY DEF VoiceFlags
    <2>3. /\ s.executing => ("MULTI" \in q.cl[x].flags <=> "MULTI" \in s.cl[x].flags)
          /\ "BLOCKED" \in q.cl[x].flags <=> "BLOCKED" \in s.cl[x].flags
        BY <2>1, <2>2 DEF Alike
    <2> QED
        BY <2>1, <2>3, VoiceFrame
<1>5. c \in Open(s) => c \in Clients
    BY DEF Open
<1> QED
    BY <1>1, <1>3, <1>4, <1>5 DEF Turn, Spoken, Heard

\* The client whose turn it is gets its answer.
LEMMA AnswerSpoken ==
    ASSUME NEW s, NEW c, NEW K, NEW R, Turn(s, c, K, R)
    PROVE  /\ Spoken(Answer(s, c), c, K, R)
           /\ Replied(s, Answer(s, c), c, {"pending", "answers"})
           /\ Calm(s, Answer(s, c))
           /\ Same(s, Answer(s, c), ReplyLists)
<1> DEFINE q == Answer(s, c)
<1>1. c \in Open(s) /\ Safe(s, K, R) /\ c \in Clients
    BY DEF Turn, Open
<1>2. /\ Safe(q, K, R) /\ Replied(s, q, c, {"pending", "answers"})
      /\ s.executing => q.cl[c].answers = s.cl[c].answers
      /\ ~s.executing /\ Unanswered(s.cl[c]) => Answered(q.cl[c])
    BY <1>1, AnswerSafe
<1> HIDE DEF q
<1>3. Change(s, q, ReplyLists, {"pending", "answers"}, ReplyFlags) /\ Others(s, q, c)
    BY <1>2 DEF Replied
<1>4. Same(s, q, ReplyLists)
    BY <1>3 DEF Change
<1>5. Calm(s, q)
    BY <1>4, CalmFrame DEF ReplyLists, Loud
<1>6. c \in Open(q)
    BY <1>1, <1>3, Frame
<1>7. Heard(q, c)
    BY <1>3 DEF Heard, Others, Turn
<1>8. /\ "BLOCKED" \notin q.cl[c].flags
      /\ "MULTI" \in q.cl[c].flags <=> "MULTI" \in s.cl[c].flags
    BY <1>1, <1>3 DEF Change, Alike, ReplyFlags, Turn
<1>9. Answered(q.cl[c])
    <2>1. CASE s.executing
        <3>1. Answered(s.cl[c]) /\ q.cl[c].answers = s.cl[c].answers
            BY <1>2, <2>1 DEF Turn
        <3>2. Alike(s.cl[c], q.cl[c], {"pending", "answers"}, ReplyFlags)
            BY <1>1, <1>3 DEF Change
        <3>3. Alike(s.cl[c], q.cl[c], {"pending"}, ReplyFlags)
            BY <3>1, <3>2 DEF Alike, ClientFields
        <3>4. {"pending"} \cap VoiceFields = {} /\ ReplyFlags \cap VoiceFlags = {}
            BY DEF VoiceFields, VoiceFlags, ReplyFlags
        <3> QED
            BY <3>1, <3>3, <3>4, VoiceFrame
    <2>2. CASE ~s.executing
        BY <1>2, <2>2 DEF Turn
    <2> QED
        BY <2>1, <2>2
<1>10. Spoken(q, c, K, R)
    BY <1>2, <1>5, <1>6, <1>7, <1>8, <1>9 DEF Spoken, Turn, Calm
<1> QED
    BY <1>2, <1>4, <1>5, <1>10 DEF q

\* What a command leaves: the client is answered or waits, and the data set is
\* what the command vector it left makes of the one before.
Logged(s, q) ==
    IF q.dirty THEN q.db = Replay(s.db, q.argv) /\ Proper(q.db) ELSE q.db = s.db
Over(s, q, c) ==
    /\ Safe(q, {}, {}) /\ c \in Open(q) /\ Heard(q, c)
    /\ IF q.executing
       THEN "MULTI" \in q.cl[c].flags /\ Answered(q.cl[c]) /\ "BLOCKED" \notin q.cl[c].flags
       ELSE InTurn(q.cl[c])
    /\ q.executing = s.executing /\ q.replica = s.replica
    /\ Logged(s, q)
\* A command that answered and left the data set alone is over.
LEMMA CalmOver ==
    ASSUME NEW s, NEW q, NEW c, Spoken(q, c, {}, {}), Calm(s, q), ~s.dirty
    PROVE  Over(s, q, c)
<1>1. InTurn(q.cl[c])
    BY DEF Spoken, InTurn
<1>2. ~q.dirty
    BY DEF Calm
<1> QED
    BY <1>1, <1>2 DEF Spoken, Calm, Over, Logged

\* So is one whose answer comes last.
LEMMA TurnOver ==
    ASSUME NEW s, NEW q, NEW c, Turn(q, c, {}, {}), Calm(s, q), ~s.dirty
    PROVE  Over(s, Answer(q, c), c)
<1>1. Spoken(Answer(q, c), c, {}, {}) /\ Calm(q, Answer(q, c))
    BY AnswerSpoken
<1>2. Calm(s, Answer(q, c))
    BY <1>1 DEF Calm
<1> QED
    BY <1>1, <1>2, CalmOver

\* Nothing of what the answer depends on changes, nor the data set.
Quiet(s, S, F, G) ==
    /\ S \cap Loud = {} /\ F \cap VoiceFields = {} /\ G \cap VoiceFlags = {}
    /\ "MULTI" \notin G \/ ~s.executing
\* A step that neither answers nor writes.
LEMMA QuietTurn ==
    ASSUME NEW s, NEW q, NEW c, NEW S, NEW F, NEW G, Change(s, q, S, F, G), Quiet(s, S, F, G),
           Safe(q, {}, {})
    PROVE  /\ Turn(s, c, {}, {}) => Turn(q, c, {}, {})
           /\ Spoken(s, c, {}, {}) => Spoken(q, c, {}, {})
           /\ Calm(s, q)
<1>1. "executing" \notin S
    BY DEF Quiet, Loud
<1>2. Same(s, q, S)
    BY DEF Change
<1>3. Calm(s, q)
    BY <1>2, CalmFrame DEF Quiet
<1> QED
    BY <1>1, <1>3, TurnFrame DEF Quiet

\* What a command finds.
LEMMA TurnFacts ==
    ASSUME NEW s, NEW c, Turn(s, c, {}, {})
    PROVE  Safe(s, {}, {}) /\ s \in Server /\ c \in Open(s) /\ c \in Clients
BY DEF Turn, Safe, Sound, Open

\* What an answered command leaves.
LEMMA SpokenFacts ==
    ASSUME NEW s, NEW c, Spoken(s, c, {}, {})
    PROVE  Safe(s, {}, {}) /\ s \in Server /\ c \in Open(s) /\ c \in Clients
BY DEF Spoken, Safe, Sound, Open

\* MULTI.
LEMMA multiOver ==
    ASSUME NEW s, NEW c, Turn(s, c, {}, {}), ~s.dirty, ~s.executing
    PROVE  Over(s, multiCommand(s, c), c)
<1> DEFINE d == Set(s, c, "MULTI")
           q == IF Has(s, c, "MULTI") THEN s ELSE d
<1>1. Safe(s, {}, {}) /\ s \in Server /\ c \in Clients
    BY TurnFacts
<1>2. Change(s, d, {}, {}, {"MULTI"})
    BY <1>1, SetChange DEF FlagNames
<1> HIDE DEF d
<1>3. Safe(d, {}, {})
    BY <1>1, <1>2, PrivateSafe DEF TableFlags
<1>4. Quiet(s, {}, {}, {"MULTI"})
    BY DEF Quiet, VoiceFlags
<1>5. Turn(d, c, {}, {}) /\ Calm(s, d)
    BY <1>2, <1>3, <1>4, QuietTurn
<1>6. Calm(s, s)
    BY DEF Calm
<1>7. Turn(q, c, {}, {}) /\ Calm(s, q)
    BY <1>5, <1>6
<1>8. multiCommand(s, c) = Answer(q, c)
    BY DEF multiCommand, d
<1> HIDE DEF q
<1> QED
    BY <1>7, <1>8, TurnOver

\* DISCARD.
LEMMA discardOver ==
    ASSUME NEW s, NEW c, Turn(s, c, {}, {}), ~s.dirty, ~s.executing
    PROVE  Over(s, discardCommand(s, c), c)
<1> DEFINE d == discardTransaction(s, c)
           q == IF Has(s, c, "MULTI") THEN d ELSE s
           F == {"watched_keys", "stale", "mstate", "refused"}
           G == {"MULTI", "DIRTY_CAS", "DIRTY_EXEC"}
<1>1. Safe(s, {}, {}) /\ s \in Server /\ c \in Open(s)
    BY TurnFacts
<1>2. Safe(d, {}, {}) /\ Change(s, d, {"watched_keys"}, F, G)
    BY <1>1, discardTransactionSafe
<1> HIDE DEF d
<1>3. Quiet(s, {"watched_keys"}, F, G)
    BY DEF Quiet, VoiceFlags, VoiceFields, Loud
<1> HIDE DEF F, G
<1>4. Turn(d, c, {}, {}) /\ Calm(s, d)
    BY <1>2, <1>3, QuietTurn
<1>5. Calm(s, s)
    BY DEF Calm
<1>6. Turn(q, c, {}, {}) /\ Calm(s, q)
    BY <1>4, <1>5
<1>7. discardCommand(s, c) = Answer(q, c)
    BY DEF discardCommand, d
<1> HIDE DEF q
<1> QED
    BY <1>6, <1>7, TurnOver

\* WATCH.
LEMMA watchOver ==
    ASSUME NEW s, NEW c, Turn(s, c, {}, {}), ~s.dirty, s.ready_keys = <<>>, NEW k \in Keys
    PROVE  Over(s, watchCommand(s, c, k), c)
<1> DEFINE d == watchForKey(s, c, k)
           q == IF Has(s, c, "MULTI") THEN s ELSE d
<1>1. Safe(s, {}, {}) /\ s \in Server /\ c \in Open(s)
    BY TurnFacts
<1>2. Safe(d, {}, {}) /\ Change(s, d, {"watched_keys"}, {"watched_keys"}, {})
    BY <1>1, watchForKeySafe
<1> HIDE DEF d
<1>3. Quiet(s, {"watched_keys"}, {"watched_keys"}, {})
    BY DEF Quiet, VoiceFields, Loud
<1>4. Turn(d, c, {}, {}) /\ Calm(s, d)
    BY <1>2, <1>3, QuietTurn
<1>5. Calm(s, s)
    BY DEF Calm
<1>6. Turn(q, c, {}, {}) /\ Calm(s, q)
    BY <1>4, <1>5
<1>7. watchCommand(s, c, k) = Answer(q, c)
    BY DEF watchCommand, d
<1> HIDE DEF q
<1> QED
    BY <1>6, <1>7, TurnOver

\* UNWATCH.
LEMMA unwatchOver ==
    ASSUME NEW s, NEW c, Turn(s, c, {}, {}), ~s.dirty
    PROVE  Over(s, unwatchCommand(s, c), c)
<1> DEFINE d == unwatchAllKeys(s, c)
           q == Clear(d, c, {"DIRTY_CAS"})
<1>1. Safe(s, {}, {}) /\ s \in Server /\ c \in Open(s)
    BY TurnFacts
<1>2. /\ Safe(d, {}, {}) /\ Change(s, d, {"watched_keys"}, {"watched_keys", "stale"}, {})
      /\ d.cl[c].watched_keys = <<>>
    BY <1>1, unwatchAllKeysSafe
<1>3. unwatchCommand(s, c) = Answer(q, c)
    BY DEF unwatchCommand
<1> HIDE DEF d
<1>4. Quiet(s, {"watched_keys"}, {"watched_keys", "stale"}, {})
    BY DEF Quiet, VoiceFields, Loud
<1>5. Turn(d, c, {}, {}) /\ Calm(s, d)
    BY <1>2, <1>4, QuietTurn
<1>6. c \in Open(d)
    BY <1>5, TurnFacts
<1>7. Safe(q, {}, {}) /\ Change(d, q, {}, {}, {"DIRTY_CAS"})
    BY <1>2, <1>6, UntoldSafe
<1> HIDE DEF q
<1>8. Quiet(d, {}, {}, {"DIRTY_CAS"})
    BY DEF Quiet, VoiceFlags
<1>9. Turn(q, c, {}, {}) /\ Calm(d, q)
    BY <1>5, <1>7, <1>8, QuietTurn
<1>10. Calm(s, q)
    BY <1>5, <1>9 DEF Calm
<1> QED
    BY <1>3, <1>9, <1>10, TurnOver

\* The mode of a client that subscribes, set or left after the answer.
LEMMA ModeOver ==
    ASSUME NEW s, NEW q, NEW c, Turn(q, c, {}, {}), Calm(s, q), ~s.dirty
    PROVE  /\ Over(s, Set(Answer(q, c), c, "PUBSUB"), c)
           /\ Over(s, LeaveMode(Answer(q, c), c), c)
<1> DEFINE d == Answer(q, c)
           a == Set(d, c, "PUBSUB")
           b == Clear(d, c, {"PUBSUB"})
<1>1. Spoken(d, c, {}, {}) /\ Calm(q, d)
    BY AnswerSpoken
<1> HIDE DEF d
<1>2. d \in Server /\ c \in Clients /\ Safe(d, {}, {}) /\ Calm(s, d)
    BY <1>1, SpokenFacts DEF Calm
<1>3. Change(d, a, {}, {}, {"PUBSUB"}) /\ Change(d, b, {}, {}, {"PUBSUB"})
    BY <1>2, SetChange, ClearChange DEF FlagNames
<1>4. LeaveMode(d, c) \in {d, b}
    BY DEF LeaveMode
<1> HIDE DEF a, b
<1>5. Safe(a, {}, {}) /\ Safe(b, {}, {})
    BY <1>2, <1>3, PrivateSafe DEF TableFlags
<1>6. Quiet(d, {}, {}, {"PUBSUB"})
    BY DEF Quiet, VoiceFlags
<1>7. Spoken(a, c, {}, {}) /\ Calm(d, a)
    BY <1>1, <1>3, <1>5, <1>6, QuietTurn
<1>8. Spoken(b, c, {}, {}) /\ Calm(d, b)
    BY <1>1, <1>3, <1>5, <1>6, QuietTurn
<1>9. Calm(s, a) /\ Calm(s, b)
    BY <1>2, <1>7, <1>8 DEF Calm
<1>10. Over(s, a, c) /\ Over(s, b, c) /\ Over(s, d, c)
    BY <1>1, <1>2, <1>7, <1>8, <1>9, CalmOver
<1> QED
    BY <1>4, <1>10 DEF a, d

\* SUBSCRIBE, PSUBSCRIBE, UNSUBSCRIBE and PUNSUBSCRIBE.
LEMMA subscribeOver ==
    ASSUME NEW s, NEW c, Turn(s, c, {}, {}), ~s.dirty
    PROVE  /\ \A ch \in Channels : Over(s, subscribeCommand(s, c, ch), c)
           /\ \A p \in Patterns : Over(s, psubscribeCommand(s, c, p), c)
           /\ Over(s, unsubscribeCommand(s, c), c) /\ Over(s, punsubscribeCommand(s, c), c)
<1>1. Safe(s, {}, {}) /\ s \in Server /\ c \in Open(s)
    BY TurnFacts
<1>2. /\ Quiet(s, {"pubsub_channels"}, {"channels"}, {})
      /\ Quiet(s, {"pubsub_patterns"}, {"patterns"}, {})
    BY DEF Quiet, VoiceFields, Loud
<1>3. ASSUME NEW ch \in Channels PROVE Over(s, subscribeCommand(s, c, ch), c)
    <2> DEFINE q == pubsubSubscribeChannel(s, c, ch)
    <2>1. Safe(q, {}, {}) /\ Change(s, q, {"pubsub_channels"}, {"channels"}, {})
        BY <1>1, pubsubSubscribeChannelSafe
    <2>2. subscribeCommand(s, c, ch) = Set(Answer(q, c), c, "PUBSUB")
        BY DEF subscribeCommand
    <2> HIDE DEF q
    <2>3. Turn(q, c, {}, {}) /\ Calm(s, q)
        BY <1>2, <2>1, QuietTurn
    <2> QED
        BY <2>2, <2>3, ModeOver
<1>4. ASSUME NEW p \in Patterns PROVE Over(s, psubscribeCommand(s, c, p), c)
    <2> DEFINE q == pubsubSubscribePattern(s, c, p)
    <2>1. Safe(q, {}, {}) /\ Change(s, q, {"pubsub_patterns"}, {"patterns"}, {})
        BY <1>1, pubsubSubscribePatternSafe
    <2>2. psubscribeCommand(s, c, p) = Set(Answer(q, c), c, "PUBSUB")
        BY DEF psubscribeCommand
    <2> HIDE DEF q
    <2>3. Turn(q, c, {}, {}) /\ Calm(s, q)
        BY <1>2, <2>1, QuietTurn
    <2> QED
        BY <2>2, <2>3, ModeOver
<1>5. Over(s, unsubscribeCommand(s, c), c)
    <2> DEFINE q == pubsubUnsubscribeAllChannels(s, c)
    <2>1. Safe(q, {}, {}) /\ Change(s, q, {"pubsub_channels"}, {"channels"}, {})
        BY <1>1, pubsubUnsubscribeAllChannelsSafe
    <2>2. unsubscribeCommand(s, c) = LeaveMode(Answer(q, c), c)
        BY DEF unsubscribeCommand
    <2> HIDE DEF q
    <2>3. Turn(q, c, {}, {}) /\ Calm(s, q)
        BY <1>2, <2>1, QuietTurn
    <2> QED
        BY <2>2, <2>3, ModeOver
<1>6. Over(s, punsubscribeCommand(s, c), c)
    <2> DEFINE q == pubsubUnsubscribeAllPatterns(s, c)
    <2>1. Safe(q, {}, {}) /\ Change(s, q, {"pubsub_patterns"}, {"patterns"}, {})
        BY <1>1, pubsubUnsubscribeAllPatternsSafe
    <2>2. punsubscribeCommand(s, c) = LeaveMode(Answer(q, c), c)
        BY DEF punsubscribeCommand
    <2> HIDE DEF q
    <2>3. Turn(q, c, {}, {}) /\ Calm(s, q)
        BY <1>2, <2>1, QuietTurn
    <2> QED
        BY <2>2, <2>3, ModeOver
<1> QED
    BY <1>3, <1>4, <1>5, <1>6

\* A message that is published, in the output of whoever hears the channel.
Published(p, n, q) == Turn(q, p.c, {}, {}) /\ Calm(p.s, q) /\ Open(q) = Open(p.s)
TellStep(p, q, x) == addReply(q, x)
MatchStep(p, q, e) == IfMatching(q, e, p.ch)
Telling == INSTANCE Loops WITH Step <- TellStep, Holds <- Published
Matching == INSTANCE Loops WITH Step <- MatchStep, Holds <- Published

\* One message more of a publication.
LEMMA addReplyPublished ==
    ASSUME NEW p, NEW n, NEW m, NEW q, Published(p, n, q), NEW x \in Open(p.s)
    PROVE  Published(p, m, addReply(q, x)) /\ Published(p, m, q)
<1> DEFINE d == addReply(q, x)
           c == p.c
<1>1. Turn(q, c, {}, {}) /\ Calm(p.s, q) /\ Open(q) = Open(p.s)
    BY DEF Published
<1>2. Safe(q, {}, {}) /\ x \in Open(q)
    BY <1>1, TurnFacts
<1>3. Safe(d, {}, {}) /\ Replied(q, d, x, {"pending"})
    BY <1>2, addReplySafe
<1> HIDE DEF d, c
<1>4. Change(q, d, ReplyLists, {"pending"}, ReplyFlags)
    BY <1>3 DEF Replied
<1>5. Quiet(q, ReplyLists, {"pending"}, ReplyFlags)
    BY DEF Quiet, ReplyLists, ReplyFlags, VoiceFields, VoiceFlags, Loud
<1>6. Turn(d, c, {}, {}) /\ Calm(q, d)
    BY <1>1, <1>3, <1>4, <1>5, QuietTurn
<1>7. Calm(p.s, d)
    BY <1>1, <1>6 DEF Calm
<1>8. Open(d) = Open(q)
    BY <1>4, Frame
<1> QED
    BY <1>1, <1>6, <1>7, <1>8 DEF Published, c, d

\* PUBLISH, to those who have the channel and those with a pattern.
LEMMA publishOver ==
    ASSUME NEW s, NEW c, Turn(s, c, {}, {}), ~s.dirty, NEW ch \in Channels
    PROVE  Over(s, publishCommand(s, c, ch), c)
<1> DEFINE p == [s |-> s, c |-> c, ch |-> ch]
           l == s.pubsub_channels[ch]
           m == s.pubsub_patterns
           d == Telling!Loop(p, s, l)
           q == Matching!Loop(p, d, m)
<1>1. Safe(s, {}, {}) /\ s \in Server
    BY TurnFacts
<1>2. l \in Seq(Clients) /\ m \in Seq(Clients \X Patterns)
    BY <1>1 DEF Server
<1>3. Len(l) \in Nat /\ Len(m) \in Nat
    BY <1>2, LenProperties
<1>4. \A n \in 1..Len(l) : l[n] \in Open(s)
    <2>1. \A n \in 1..Len(l) : l[n] \in ToSet(l)
        BY <1>2, ToSetFacts
    <2>2. ToSet(l) = Subscribed(s, ch)
        BY <1>1 DEF Safe, Sound, ChannelTable, Lists
    <2> HIDE DEF l
    <2> QED
        BY <2>1, <2>2 DEF Subscribed
<1>5. \A n \in 1..Len(m) : m[n][1] \in Open(s)
    <2>1. \A n \in 1..Len(m) : m[n] \in ToSet(m)
        BY <1>2, ToSetFacts
    <2>2. ToSet(m) = Subscriptions(s)
        BY <1>1 DEF Safe, Sound, PatternTable, Lists
    <2> HIDE DEF m
    <2> QED
        BY <2>1, <2>2 DEF Subscriptions
<1>6. Direct(s, ch) = d
    BY DEF Direct, Telling!Loop, TellStep
<1>7. pubsubPublishMessage(s, ch) = q
    BY <1>6 DEF pubsubPublishMessage, Matching!Loop, MatchStep
<1>8. p.s = s /\ p.c = c
    OBVIOUS
<1> HIDE DEF p, l, m, d, q
<1>9. Published(p, 0, s)
    BY <1>8 DEF Published, Calm
<1>10. ASSUME NEW n \in 1..Len(l), NEW r, Published(p, n - 1, r)
       PROVE  Published(p, n, TellStep(p, r, l[n]))
    BY <1>4, <1>8, <1>10, addReplyPublished DEF TellStep
<1>11. Published(p, Len(l), d)
    BY <1>3, <1>9, <1>10, Telling!LoopHolds DEF d
<1>12. Published(p, 0, d)
    BY <1>11 DEF Published
<1>13. ASSUME NEW n \in 1..Len(m), NEW r, Published(p, n - 1, r)
       PROVE  Published(p, n, MatchStep(p, r, m[n]))
    BY <1>5, <1>8, <1>13, addReplyPublished DEF MatchStep, IfMatching
<1>14. Published(p, Len(m), q)
    BY <1>3, <1>12, <1>13, Matching!LoopHolds DEF q
<1>15. Turn(q, c, {}, {}) /\ Calm(s, q)
    BY <1>8, <1>14 DEF Published
<1>16. publishCommand(s, c, ch) = Answer(q, c)
    BY <1>7 DEF publishCommand
<1> QED
    BY <1>15, <1>16, TurnOver

\* What a client that falls silent is owed, and one that speaks again.
LEMMA Silenced ==
    ASSUME NEW r \in Client, NEW u, NEW F, NEW G, Alike(r, u, F, G),
           F \cap {"state", "answers", "n"} = {}, Silent(u), Replies(u)
    PROVE  /\ Answered(r) \/ Unanswered(r) => Answered(u)
           /\ Unanswered(r) => Unanswered(u)
<1>1. u.answers = r.answers /\ u.n = r.n
    BY DEF Alike, ClientFields
<1>2. r.answers \in Seq(Nat) /\ r.n \in Nat
    BY DEF Client
<1>3. Len(r.answers) \in Nat /\ \A i \in 1..Len(r.answers) : r.answers[i] \in Nat
    BY <1>2, LenProperties, ElementOfSeq
<1>4. Ordered(u) <=> Ordered(r)
    BY <1>1 DEF Ordered
<1> QED
    BY <1>1, <1>2, <1>3, <1>4 DEF Answered, Unanswered

\* A client that is not silenced stays in turn.
LEMMA VoiceKept ==
    ASSUME NEW r, NEW u, NEW F, NEW G, Alike(r, u, F, G), F \cap VoiceFields = {},
           G \cap {"BLOCKED", "CLOSE_AFTER_REPLY"} = {}, Replies(r) => Replies(u)
    PROVE  /\ Answered(r) => Answered(u)
           /\ Unanswered(r) => Unanswered(u)
           /\ InTurn(r) => InTurn(u)
<1>1. u.state = r.state /\ u.answers = r.answers /\ u.n = r.n /\ u.muted = r.muted
    BY DEF Alike, ClientFields, VoiceFields
<1>2. \A f \in {"BLOCKED", "CLOSE_AFTER_REPLY"} : f \in u.flags <=> f \in r.flags
    BY DEF Alike
<1>3. (Silent(u) <=> Silent(r)) /\ (Ordered(u) <=> Ordered(r))
    BY <1>1, <1>2 DEF Silent, Ordered
<1> QED
    BY <1>1, <1>2, <1>3 DEF InTurn, Unanswered, Answered

\* The client whose turn it is changes alone.
LEMMA OwnTurn ==
    ASSUME NEW s, NEW q, NEW c, NEW S, NEW F, NEW G, Change(s, q, S, F, G), Others(s, q, c),
           Safe(q, {}, {}), S \cap Loud = {}, "state" \notin F, {"BLOCKED", "MULTI"} \cap G = {}
    PROVE  /\ Calm(s, q)
           /\ /\ Turn(s, c, {}, {}) /\ (Unanswered(s.cl[c]) => Unanswered(q.cl[c]))
              /\ (Answered(s.cl[c]) => Answered(q.cl[c]))
              => Turn(q, c, {}, {})
           /\ /\ Turn(s, c, {}, {}) \/ Spoken(s, c, {}, {})
              /\ (Answered(s.cl[c]) \/ Unanswered(s.cl[c]) => Answered(q.cl[c]))
              => Spoken(q, c, {}, {})
<1>1. Same(s, q, S)
    BY DEF Change
<1>2. Calm(s, q)
    BY <1>1, CalmFrame
<1>3. Open(q) = Open(s)
    BY Frame
<1>4. Heard(s, c) => Heard(q, c)
    BY DEF Heard, Others
<1>5. c \in Clients => /\ "MULTI" \in q.cl[c].flags <=> "MULTI" \in s.cl[c].flags
                       /\ "BLOCKED" \in q.cl[c].flags <=> "BLOCKED" \in s.cl[c].flags
    BY DEF Change, Alike
<1>6. c \in Open(s) => c \in Clients
    BY DEF Open
<1> QED
    BY <1>2, <1>3, <1>4, <1>5, <1>6 DEF Calm, Turn, Spoken

\* A client that is to be closed after its reply has its answer.
LEMMA CloseAfterReply ==
    ASSUME NEW s, NEW c, Spoken(s, c, {}, {})
    PROVE  /\ Spoken(Set(s, c, "CLOSE_AFTER_REPLY"), c, {}, {})
           /\ Calm(s, Set(s, c, "CLOSE_AFTER_REPLY"))
<1> DEFINE q == Set(s, c, "CLOSE_AFTER_REPLY")
<1>1. Safe(s, {}, {}) /\ s \in Server /\ c \in Open(s) /\ c \in Clients
    BY SpokenFacts
<1>2. s.cl[c] \in Client
    BY <1>1, ClientOf
<1>3. /\ Change(s, q, {}, {}, {"CLOSE_AFTER_REPLY"}) /\ Others(s, q, c)
      /\ q.cl[c].flags = s.cl[c].flags \cup {"CLOSE_AFTER_REPLY"}
    BY <1>1, SetChange DEF FlagNames
<1> HIDE DEF q
<1>4. Safe(q, {}, {})
    BY <1>1, <1>3, PrivateSafe DEF TableFlags
<1>5. Alike(s.cl[c], q.cl[c], {}, {"CLOSE_AFTER_REPLY"})
    BY <1>1, <1>3 DEF Change
<1>6. Silent(q.cl[c])
    BY <1>3 DEF Silent
<1>7. Replies(q.cl[c])
    <2>1. Replies(s.cl[c])
        BY DEF Spoken, Answered
    <2>2. q.cl[c].muted = s.cl[c].muted
        BY <1>5 DEF Alike, ClientFields
    <2> QED
        BY <1>3, <2>1, <2>2 DEF Replies
<1>8. Answered(s.cl[c]) \/ Unanswered(s.cl[c]) => Answered(q.cl[c])
    BY <1>2, <1>5, <1>6, <1>7, Silenced
<1>9. {} \cap Loud = {} /\ {"BLOCKED", "MULTI"} \cap {"CLOSE_AFTER_REPLY"} = {}
    OBVIOUS
<1> QED
    BY <1>3, <1>4, <1>8, <1>9, OwnTurn DEF q

\* CLIENT KILL, of another client and of the client itself.
LEMMA killOver ==
    ASSUME NEW s, NEW c, Turn(s, c, {}, {}), ~s.dirty, NEW target \in Clients
    PROVE  Over(s, clientKill(s, c, target), c)
<1>1. Safe(s, {}, {}) /\ s \in Server /\ c \in Open(s) /\ c \in Clients /\ Calm(s, s)
    BY TurnFacts DEF Calm
<1>2. CASE s.cl[target].state # "open"
    <2>1. clientKill(s, c, target) = Answer(s, c)
        BY <1>2 DEF clientKill
    <2> QED
        BY <1>1, <2>1, TurnOver
<1>3. CASE s.cl[target].state = "open" /\ target = c
    <2> DEFINE d == Answer(s, c)
               q == Set(d, c, "CLOSE_AFTER_REPLY")
    <2>1. clientKill(s, c, target) = q
        BY <1>3 DEF clientKill
    <2>2. Spoken(d, c, {}, {}) /\ Calm(s, d)
        BY AnswerSpoken
    <2> HIDE DEF d
    <2>3. Spoken(q, c, {}, {}) /\ Calm(d, q)
        BY <2>2, CloseAfterReply
    <2> HIDE DEF q
    <2>4. Calm(s, q)
        BY <2>2, <2>3 DEF Calm
    <2> QED
        BY <2>1, <2>3, <2>4, CalmOver
<1>4. CASE s.cl[target].state = "open" /\ target # c
    <2> DEFINE q == freeClient(s, target)
    <2>1. clientKill(s, c, target) = Answer(q, c)
        BY <1>4 DEF clientKill
    <2>2. target \in Open(s)
        BY <1>4 DEF Open
    <2>3. /\ Safe(q, {}, {}) /\ Others(s, q, target) /\ Same(s, q, ClientTables)
          /\ Open(q) = Open(s) \ {target} /\ (InTurn(s.cl[target]) => InTurn(q.cl[target]))
        BY <1>1, <2>2, freeClientSafe
    <2> HIDE DEF q
    <2>4. Calm(s, q)
        BY <2>3, CalmFrame DEF ClientTables, Loud
    <2>5. q.cl[c] = s.cl[c]
        BY <1>1, <1>4, <2>3 DEF Others
    <2>6. Heard(q, c)
        BY <1>4, <2>3 DEF Heard, Others, Turn
    <2>7. Turn(q, c, {}, {})
        BY <1>1, <1>4, <2>3, <2>4, <2>5, <2>6 DEF Turn, Calm
    <2> QED
        BY <2>1, <2>4, <2>7, TurnOver
<1> QED
    BY <1>2, <1>3, <1>4

\* Replies are wanted again, or not any more.
LEMMA MutedSpoken ==
    ASSUME NEW s, NEW d, NEW c, Turn(s, c, {}, {}), Safe(d, {}, {}), Others(s, d, c),
           Change(s, d, {}, {}, {"REPLY_OFF", "REPLY_SKIP_NEXT"})
    PROVE  LET q == [d EXCEPT !.cl[c].muted = TRUE]
           IN  Spoken(q, c, {}, {}) /\ Calm(s, q)
<1> DEFINE b == TRUE
           q == PutC(d, c, "muted", b)
           G == {"REPLY_OFF", "REPLY_SKIP_NEXT"}
<1>1. s \in Server /\ c \in Clients /\ d \in Server
    BY TurnFacts DEF Change
<1>2. s.cl[c] \in Client /\ d.cl[c] \in Client
    BY <1>1, ClientOf
<1>3. [d EXCEPT !.cl[c].muted = TRUE] = q
    BY <1>1 DEF PutC, Put, With, Server
<1>4. FieldOk("muted", b)
    BY DEF FieldOk
<1> HIDE DEF b
<1>5. /\ Change(d, q, {}, {"muted"}, {}) /\ Others(d, q, c)
      /\ q.cl[c] = With(d.cl[c], "muted", b)
    BY <1>1, <1>4, PutField
<1>6. q.cl[c].muted = b
    BY <1>2, <1>5 DEF With, Client
<1> HIDE DEF q
<1>7. Safe(q, {}, {})
    BY <1>5, PrivateSafe DEF TableFields
<1>8. Change(s, q, {}, {"muted"}, G)
    <2>1. Change(s, q, {} \cup {}, {} \cup {"muted"}, G \cup {})
        BY <1>5, ChangeTrans
    <2> QED
        BY <2>1, ChangeMore
<1>9. Others(s, q, c)
    BY <1>5 DEF Others
<1>10. Silent(q.cl[c]) /\ Replies(q.cl[c])
    BY <1>6 DEF Silent, Replies, b
<1>11. Alike(s.cl[c], q.cl[c], {"muted"}, G)
    BY <1>1, <1>8 DEF Change
<1>12. {"BLOCKED", "MULTI"} \cap G = {} /\ {} \cap Loud = {} /\ "state" \notin {"muted"}
    OBVIOUS
<1> HIDE DEF G
<1>13. Answered(s.cl[c]) \/ Unanswered(s.cl[c]) => Answered(q.cl[c])
    BY <1>2, <1>10, <1>11, Silenced
<1> QED
    BY <1>3, <1>7, <1>8, <1>9, <1>12, <1>13, OwnTurn

\* CLIENT REPLY ON, OFF and SKIP.
LEMMA replyOver ==
    ASSUME NEW s, NEW c, Turn(s, c, {}, {}), ~s.dirty, NEW mode \in {"on", "off", "skip"}
    PROVE  Over(s, clientReply(s, c, mode), c)
<1>1. Safe(s, {}, {}) /\ s \in Server /\ c \in Open(s) /\ c \in Clients
    BY TurnFacts
<1>2. CASE mode = "on"
    <2> DEFINE G == {"REPLY_SKIP", "REPLY_OFF"}
               q == Clear(s, c, G)
    <2>1. clientReply(s, c, mode) = Answer(q, c)
        BY <1>2 DEF clientReply
    <2>2. /\ Change(s, q, {}, {}, G) /\ Others(s, q, c) /\ q.cl[c].flags = s.cl[c].flags \ G
        BY <1>1, ClearChange
    <2> HIDE DEF q
    <2>3. Safe(q, {}, {})
        BY <1>1, <2>2, PrivateSafe DEF TableFlags
    <2>4. Alike(s.cl[c], q.cl[c], {}, G)
        BY <1>1, <2>2 DEF Change
    <2>5. Replies(s.cl[c]) => Replies(q.cl[c])
        <3>1. q.cl[c].muted = s.cl[c].muted
            BY <2>4 DEF Alike, ClientFields
        <3> QED
            BY <2>2, <3>1 DEF Replies
    <2>6. /\ G \cap {"BLOCKED", "CLOSE_AFTER_REPLY"} = {} /\ {"BLOCKED", "MULTI"} \cap G = {}
          /\ {} \cap Loud = {}
        OBVIOUS
    <2> HIDE DEF G
    <2>7. /\ Answered(s.cl[c]) => Answered(q.cl[c])
          /\ Unanswered(s.cl[c]) => Unanswered(q.cl[c])
        BY <2>4, <2>5, <2>6, VoiceKept
    <2>8. Turn(q, c, {}, {}) /\ Calm(s, q)
        BY <2>2, <2>3, <2>6, <2>7, OwnTurn
    <2> QED
        BY <2>1, <2>8, TurnOver
<1>3. CASE mode # "on"
    <2> DEFINE f == IF mode = "off" THEN "REPLY_OFF" ELSE "REPLY_SKIP_NEXT"
               d == IF mode # "off" /\ Has(s, c, "REPLY_OFF") THEN s ELSE Set(s, c, f)
               q == [d EXCEPT !.cl[c].muted = TRUE]
    <2>1. clientReply(s, c, mode) = q
        BY <1>3 DEF clientReply
    <2>2. f \in FlagNames /\ f \in {"REPLY_OFF", "REPLY_SKIP_NEXT"}
        BY DEF FlagNames
    <2> HIDE DEF f
    <2>3. Change(s, Set(s, c, f), {}, {}, {f}) /\ Others(s, Set(s, c, f), c)
        BY <1>1, <2>2, SetChange
    <2>4. Change(s, Set(s, c, f), {}, {}, {"REPLY_OFF", "REPLY_SKIP_NEXT"})
        BY <2>2, <2>3, ChangeMore
    <2>5. Change(s, s, {}, {}, {"REPLY_OFF", "REPLY_SKIP_NEXT"}) /\ Others(s, s, c)
        BY <1>1, ChangeRefl
    <2>6. Change(s, d, {}, {}, {"REPLY_OFF", "REPLY_SKIP_NEXT"}) /\ Others(s, d, c)
        BY <2>3, <2>4, <2>5
    <2> HIDE DEF d
    <2>7. Safe(d, {}, {})
        BY <1>1, <2>6, PrivateSafe DEF TableFlags
    <2>8. Spoken(q, c, {}, {}) /\ Calm(s, q)
        BY <2>6, <2>7, MutedSpoken
    <2> HIDE DEF q
    <2> QED
        BY <2>1, <2>8, CalmOver
<1> QED
    BY <1>2, <1>3

\* CLIENT PAUSE.
LEMMA pauseOver ==
    ASSUME NEW s, NEW c, Turn(s, c, {}, {}), ~s.dirty, NEW over \in BOOLEAN
    PROVE  Over(s, clientPause(s, c, over), c)
<1> DEFINE o == IF s.clients_paused THEN s.pause_over /\ over ELSE over
           d == PutS(s, "clients_paused", TRUE)
           q == PutS(d, "pause_over", o)
<1>1. Safe(s, {}, {}) /\ s \in Server
    BY TurnFacts
<1>2. o \in BOOLEAN
    OBVIOUS
<1>3. clientPause(s, c, over) = Answer(q, c)
    BY <1>1 DEF clientPause, pauseClients, PutS, Server
<1> HIDE DEF o
<1>4. ServerOk("clients_paused", TRUE) /\ ServerOk("pause_over", o)
    BY <1>2 DEF ServerOk
<1>5. Change(s, d, {"clients_paused"}, {}, {}) /\ d \in Server
    BY <1>1, <1>4, PutServer DEF Change
<1> HIDE DEF d
<1>6. Change(d, q, {"pause_over"}, {}, {})
    BY <1>4, <1>5, PutServer
<1> HIDE DEF q
<1>7. Change(s, q, {"clients_paused"} \cup {"pause_over"}, {} \cup {}, {} \cup {})
    BY <1>5, <1>6, ChangeTrans
<1>8. Change(s, q, {"clients_paused", "pause_over"}, {}, {})
    BY <1>7, ChangeMore
<1>9. Safe(q, {}, {})
    BY <1>1, <1>8, PrivateSafe DEF PlainFields
<1>10. Quiet(s, {"clients_paused", "pause_over"}, {}, {})
    BY DEF Quiet, Loud
<1>11. Turn(q, c, {}, {}) /\ Calm(s, q)
    BY <1>8, <1>9, <1>10, QuietTurn
<1> QED
    BY <1>3, <1>11, TurnOver

-----------------------------------------------------------------------------
(* The values of keys. *)

\* The two ends of a list.
LEMMA Ends ==
    ASSUME NEW T, NEW l \in Seq(T)
    PROVE  /\ \A x \in T : /\ Append(l, x) \in Seq(T) /\ Append(l, x) # <<>>
                           /\ <<x>> \o l \in Seq(T) /\ <<x>> \o l # <<>>
           /\ l # <<>> => /\ Head(l) \in T /\ Tail(l) \in Seq(T) /\ <<Head(l)>> \o Tail(l) = l
                          /\ Last(l) \in T /\ Front(l) \in Seq(T) /\ Append(Front(l), Last(l)) = l
<1>1. Len(l) \in Nat /\ DOMAIN l = 1..Len(l) /\ \A i \in 1..Len(l) : l[i] \in T
    BY LenProperties, ElementOfSeq
<1>2. ASSUME NEW x \in T
      PROVE  /\ Append(l, x) \in Seq(T) /\ Append(l, x) # <<>>
             /\ <<x>> \o l \in Seq(T) /\ <<x>> \o l # <<>>
    <2>1. <<x>> \in Seq(T) /\ Len(<<x>>) = 1
        OBVIOUS
    <2>2. <<x>> \o l \in Seq(T) /\ Len(<<x>> \o l) = 1 + Len(l)
        BY <2>1, ConcatProperties
    <2>3. <<x>> \o l # <<>>
        BY <1>1, <2>2
    <2> QED
        BY <2>2, <2>3, AppendProperties
<1>3. ASSUME l # <<>>
      PROVE  Head(l) \in T /\ Tail(l) \in Seq(T) /\ <<Head(l)>> \o Tail(l) = l
    <2>1. /\ Head(l) \in T /\ Tail(l) \in Seq(T) /\ Len(Tail(l)) = Len(l) - 1 /\ Head(l) = l[1]
          /\ \A i \in 1..Len(Tail(l)) : Tail(l)[i] = l[i + 1]
        BY <1>3, HeadTailProperties
    <2> DEFINE a == Head(l)
               m == Tail(l)
               n == <<a>> \o m
    <2>2. <<a>> \in Seq(T) /\ Len(<<a>>) = 1 /\ <<a>>[1] = a
        BY <2>1
    <2>3. Len(l) # 0
        BY <1>1, <1>3, EmptySeq
    <2> HIDE DEF a, m
    <2>4. /\ n \in Seq(T) /\ Len(n) = 1 + Len(m)
          /\ \A i \in 1..(1 + Len(m)) : n[i] = IF i <= 1 THEN <<a>>[i] ELSE m[i - 1]
        BY <2>1, <2>2, ConcatProperties DEF m
    <2> HIDE DEF n
    <2>5. Len(n) = Len(l)
        BY <1>1, <2>1, <2>4 DEF m
    <2>6. ASSUME NEW i \in 1..Len(n) PROVE n[i] = l[i]
        <3>1. CASE i = 1
            BY <2>1, <2>2, <2>4, <3>1 DEF a
        <3>2. CASE i # 1
            <4>1. i - 1 \in 1..Len(m) /\ ~(i <= 1) /\ (i - 1) + 1 = i
                BY <1>1, <2>1, <2>5, <3>2 DEF m
            <4>2. m[i - 1] = l[i]
                BY <2>1, <4>1 DEF m
            <4> QED
                BY <2>4, <4>1, <4>2
        <3> QED
            BY <3>1, <3>2
    <2>7. n = l
        BY <2>4, <2>5, <2>6, SeqEqual
    <2> QED
        BY <2>1, <2>7 DEF n, a, m
<1>4. ASSUME l # <<>>
      PROVE  Last(l) \in T /\ Front(l) \in Seq(T) /\ Append(Front(l), Last(l)) = l
    <2> DEFINE m == Front(l)
               a == Last(l)
               n == Append(m, a)
    <2>1. Len(l) \in Nat \ {0}
        BY <1>4, EmptySeq
    <2>2. a = l[Len(l)] /\ a \in T
        BY <1>1, <2>1 DEF Last
    <2>3. m = SubSeq(l, 1, Len(l) - 1)
        BY DEF Front
    <2>4. \A i \in 1..(Len(l) - 1) : l[i] \in T
        BY <1>1
    <2>5. /\ m \in Seq(T) /\ Len(m) = Len(l) - 1
          /\ \A i \in 1..(Len(l) - 1) : m[i] = l[i]
        <3>1. /\ m \in Seq(T) /\ Len(m) = IF 1 <= Len(l) - 1 THEN (Len(l) - 1) - 1 + 1 ELSE 0
              /\ \A i \in 1..((Len(l) - 1) - 1 + 1) : m[i] = l[1 + i - 1]
            <4>1. 1 \in Int /\ Len(l) - 1 \in Int
                BY <2>1
            <4> QED
                BY <2>3, <2>4, <4>1, SubSeqProperties
        <3> HIDE DEF m
        <3>2. Len(m) = Len(l) - 1
            <4> DEFINE N == Len(l)
                       M == Len(m)
            <4>1. N \in Nat /\ N # 0 /\ M = IF 1 <= N - 1 THEN (N - 1) - 1 + 1 ELSE 0
                BY <2>1, <3>1
            <4> HIDE DEF N, M
            <4>2. M = N - 1
                BY <4>1
            <4> QED
                BY <4>2 DEF N, M
        <3>3. ASSUME NEW i \in 1..(Len(l) - 1) PROVE m[i] = l[i]
            <4>1. i \in 1..((Len(l) - 1) - 1 + 1) /\ 1 + i - 1 = i
                BY <2>1, <3>3
            <4>2. m[i] = l[1 + i - 1]
                BY <3>1, <4>1
            <4> QED
                BY <4>1, <4>2
        <3> QED
            BY <3>1, <3>2, <3>3
    <2> HIDE DEF m, a
    <2>6. /\ n \in Seq(T) /\ Len(n) = Len(m) + 1 /\ n[Len(m) + 1] = a
          /\ \A i \in 1..Len(m) : n[i] = m[i]
        BY <2>2, <2>5, AppendProperties
    <2> HIDE DEF n
    <2>7. Len(n) = Len(l) /\ \A i \in 1..Len(n) : n[i] = l[i]
        BY <2>1, <2>2, <2>5, <2>6
    <2>8. n = l
        BY <2>6, <2>7, SeqEqual
    <2> QED
        BY <2>2, <2>5, <2>8 DEF n, m, a
<1> QED
    BY <1>2, <1>3, <1>4

ProperValue(val) == val.t = "list" <=> val.v # <<>>
\* A value after a push is a list and not empty.
LEMMA PushFacts ==
    ASSUME NEW val \in Value, NEW x \in Nat, NEW where
    PROVE  LET w == listTypePush(val, x, where)
           IN  w \in Value /\ w.t = "list" /\ w.v # <<>> /\ ProperValue(w) /\ Keep(w) = w
<1> DEFINE m == IF where = "head" THEN <<x>> \o val.v ELSE Append(val.v, x)
           w == List(m)
<1>1. val.v \in Seq(Nat)
    BY DEF Value
<1>2. m \in Seq(Nat) /\ m # <<>>
    BY <1>1, Ends
<1>3. listTypePush(val, x, where) = w
    BY DEF listTypePush
<1> HIDE DEF m
<1>4. w \in Value /\ w.t = "list" /\ w.v = m
    BY <1>2, ConstantValues
<1> HIDE DEF w
<1> QED
    BY <1>2, <1>3, <1>4 DEF ProperValue, Keep

\* A pop can be undone by a push at the same end.
LEMMA PopFacts ==
    ASSUME NEW val \in Value, val.t = "list", val.v # <<>>, NEW where
    PROVE  LET w == listTypePop(val, where)
           IN  /\ w \in Value /\ w.t = "list" /\ Popped(val, where) \in Nat
               /\ listTypePush(w, Popped(val, where), where) = val
<1> DEFINE m == IF where = "head" THEN Tail(val.v) ELSE Front(val.v)
           x == IF where = "head" THEN Head(val.v) ELSE Last(val.v)
           w == List(m)
<1>1. val.v \in Seq(Nat)
    BY DEF Value
<1>2. m \in Seq(Nat) /\ x \in Nat
    BY <1>1, Ends
<1>3. (IF where = "head" THEN <<x>> \o m ELSE Append(m, x)) = val.v
    BY <1>1, Ends
<1>4. listTypePop(val, where) = w /\ Popped(val, where) = x
    BY DEF listTypePop, Popped
<1> HIDE DEF m, x
<1>5. w \in Value /\ w.t = "list" /\ w.v = m
    BY <1>2, ConstantValues
<1> HIDE DEF w
<1>6. listTypePush(w, x, where) = List(val.v)
    BY <1>3, <1>5 DEF listTypePush
<1>7. List(val.v) = val
    BY DEF List, Value
<1> QED
    BY <1>2, <1>4, <1>5, <1>6, <1>7

\* A list that is empty is no value.
LEMMA KeepFacts ==
    ASSUME NEW val \in Value, val.t = "list"
    PROVE  /\ Keep(val) \in Value /\ ProperValue(Keep(val)) /\ Keep(val).v = val.v
           /\ Keep(val) = None \/ Keep(val) = val
BY ConstantValues DEF Keep, ProperValue

\* What is neither a list nor a string is nothing.
LEMMA NoneOr ==
    ASSUME NEW val \in Value, ProperValue(val), val.t # "list", val.t # "string"
    PROVE  val = None
BY DEF Value, ProperValue, None

\* Which values a list can be pushed on.
Pushable(val) == val = None \/ val.t = "list"

-----------------------------------------------------------------------------
(* Commands that change the data set. *)

Kept(s, q) == q.replica = s.replica /\ q.executing = s.executing
\* Replica and transaction stay.
LEMMA KeptFrame ==
    ASSUME NEW s, NEW q, NEW S, NEW F, NEW G, Change(s, q, S, F, G),
           S \cap {"replica", "executing"} = {}
    PROVE  Kept(s, q)
BY DEF Change, Same, Kept, ServerFields

\* A command that wrote what replaying it writes is over.
LEMMA DirtyOver ==
    ASSUME NEW s, NEW r, NEW c, NEW cmd \in Commands, Spoken(r, c, {}, {}), Kept(s, r),
           r.db = Replay(s.db, cmd), Proper(r.db)
    PROVE  Over(s, Dirty(r, cmd), c)
<1> DEFINE b == TRUE
           d == PutS(r, "dirty", b)
           q == PutS(d, "argv", cmd)
<1>1. Safe(r, {}, {}) /\ r \in Server
    BY SpokenFacts
<1>2. Dirty(r, cmd) = q
    BY <1>1 DEF Dirty, PutS, Server
<1>3. ServerOk("dirty", b) /\ ServerOk("argv", cmd)
    BY DEF ServerOk
<1> HIDE DEF b
<1>4. Change(r, d, {"dirty"}, {}, {}) /\ d \in Server
    BY <1>1, <1>3, PutServer DEF Change
<1>5. d.dirty = b
    BY <1>1 DEF PutS, Server
<1> HIDE DEF d
<1>6. Change(d, q, {"argv"}, {}, {})
    BY <1>3, <1>4, PutServer
<1>7. q.argv = cmd /\ q.dirty = d.dirty
    BY <1>4 DEF PutS, Server
<1> HIDE DEF q
<1>8. Change(r, q, {"dirty"} \cup {"argv"}, {} \cup {}, {} \cup {})
    BY <1>4, <1>6, ChangeTrans
<1>9. Change(r, q, {"dirty", "argv"}, {}, {})
    BY <1>8, ChangeMore
<1>10. Safe(q, {}, {})
    BY <1>1, <1>9, PrivateSafe DEF PlainFields
<1>11. Spoken(q, c, {}, {})
    <2>1. "executing" \notin {"dirty", "argv"} /\ {} \cap VoiceFields = {} /\ {} \cap VoiceFlags = {}
          /\ "MULTI" \notin {}
        OBVIOUS
    <2> QED
        BY <1>9, <1>10, <2>1, TurnFrame
<1>12. q.db = r.db /\ q.replica = r.replica /\ q.executing = r.executing
    BY <1>9 DEF Change, Same, ServerFields
<1>13. q.dirty
    BY <1>5, <1>7 DEF b
<1>14. Logged(s, q)
    BY <1>7, <1>12, <1>13 DEF Logged
<1>15. InTurn(q.cl[c])
    BY <1>11 DEF Spoken, InTurn
<1> QED
    BY <1>2, <1>11, <1>12, <1>14, <1>15 DEF Over, Spoken, Kept

\* The answer first and the signal then, or the other way round.
LEMMA TellOver ==
    ASSUME NEW s, NEW r, NEW c, NEW cmd \in Commands, NEW k \in Keys, Turn(r, c, {k}, {}),
           Kept(s, r), r.db = Replay(s.db, cmd), Proper(r.db)
    PROVE  Over(s, Dirty(touchWatchedKey(Answer(r, c), k), cmd), c)
<1> DEFINE a == Answer(r, c)
           q == touchWatchedKey(a, k)
<1>1. Spoken(a, c, {k}, {}) /\ Calm(r, a)
    BY AnswerSpoken
<1> HIDE DEF a
<1>2. Safe(a, {k}, {})
    BY <1>1 DEF Spoken
<1>3. Safe(q, {k} \ {k}, {}) /\ Change(a, q, {}, {}, {"DIRTY_CAS"})
    BY <1>2, touchWatchedKeySafe
<1> HIDE DEF q
<1>4. Safe(q, {}, {})
    <2>1. {k} \ {k} = {}
        OBVIOUS
    <2> QED
        BY <1>3, <2>1
<1>5. {"DIRTY_CAS"} \cap VoiceFlags = {} /\ {} \cap VoiceFields = {}
    BY DEF VoiceFlags
<1>6. Spoken(q, c, {}, {})
    BY <1>1, <1>3, <1>4, <1>5, TurnFrame
<1>7. q.db = a.db /\ q.replica = a.replica /\ q.executing = a.executing
    BY <1>3 DEF Change, Same, ServerFields
<1>8. Kept(s, q) /\ q.db = r.db
    BY <1>1, <1>7 DEF Calm, Kept
<1>9. Over(s, Dirty(q, cmd), c)
    BY <1>6, <1>8, DirtyOver
<1> QED
    BY <1>9 DEF q, a

\* So is one whose answer comes after the write.
LEMMA ToldOver ==
    ASSUME NEW s, NEW r, NEW c, NEW cmd \in Commands, Turn(r, c, {}, {}), Kept(s, r),
           r.db = Replay(s.db, cmd), Proper(r.db)
    PROVE  Over(s, Dirty(Answer(r, c), cmd), c)
<1> DEFINE a == Answer(r, c)
<1>1. Spoken(a, c, {}, {}) /\ Calm(r, a)
    BY AnswerSpoken
<1> HIDE DEF a
<1>2. Kept(s, a) /\ a.db = r.db
    BY <1>1 DEF Calm, Kept
<1>3. Over(s, Dirty(a, cmd), c)
    BY <1>1, <1>2, DirtyOver
<1> QED
    BY <1>3 DEF a

\* A turn goes on while the data set changes.
LEMMA DataTurn ==
    ASSUME NEW s, NEW q, NEW c, NEW S, NEW F, NEW G, NEW K, NEW R, NEW K2, NEW R2,
           Change(s, q, S, F, G), Safe(q, K2, R2), S \subseteq DataSet, F \subseteq {"stale"},
           G \subseteq {"DIRTY_CAS"}
    PROVE  /\ Turn(s, c, K, R) => Turn(q, c, K2, R2)
           /\ Spoken(s, c, K, R) => Spoken(q, c, K2, R2)
           /\ (\A x \in Clients : InTurn(s.cl[x])) => \A x \in Clients : InTurn(q.cl[x])
           /\ Kept(s, q) /\ q.dirty = s.dirty
<1>1. "executing" \notin S /\ F \cap VoiceFields = {} /\ G \cap VoiceFlags = {} /\ "MULTI" \notin G
    BY DEF DataSet, VoiceFlags, VoiceFields
<1>2. S \cap {"replica", "executing"} = {}
    BY DEF DataSet
<1>3. q.dirty = s.dirty
    BY DEF Change, Same, ServerFields, DataSet
<1>4. Kept(s, q)
    BY <1>2, KeptFrame
<1>5. /\ Turn(s, c, K, R) => Turn(q, c, K2, R2)
      /\ Spoken(s, c, K, R) => Spoken(q, c, K2, R2)
      /\ (\A x \in Clients : InTurn(s.cl[x])) => \A x \in Clients : InTurn(q.cl[x])
    BY <1>1, TurnFrame
<1> QED
    BY <1>3, <1>4, <1>5

\* A list is created if there is none.
PushedOn(db, k, x, where) == [db EXCEPT ![k] = listTypePush(db[k], x, where)]
IfNone(s, k) == IF s.db[k] = None THEN dbAdd(s, k, List(<<>>)) ELSE s
\* The destination of a push is made if it does not exist.
LEMMA IfNoneSafe ==
    ASSUME NEW s, NEW K, NEW R, Safe(s, K, R), NEW k \in Keys, k \in K, Pushable(s.db[k])
    PROVE  /\ Safe(IfNone(s, k), K, R) /\ Change(s, IfNone(s, k), DataSet, {"stale"}, {})
           /\ IfNone(s, k).db[k].t = "list" /\ IfNone(s, k).db[k] \in Value
           /\ \A x, where : PushedOn(IfNone(s, k).db, k, x, where) = PushedOn(s.db, k, x, where)
<1> DEFINE e == List(<<>>)
           d == dbAdd(s, k, e)
           q == IfNone(s, k)
<1>1. s \in Server /\ s.db \in [Keys -> Value]
    BY DEF Safe, Sound, Server
<1>2. e \in Value /\ e.t = "list" /\ e.v = <<>>
    <2>1. <<>> \in Seq(Nat)
        BY EmptySeq
    <2> QED
        BY <2>1 DEF List, Value
<1>3. CASE s.db[k] = None
    <2>1. q = d
        BY <1>3 DEF IfNone
    <2> HIDE DEF e, q
    <2>2. /\ Safe(d, K, R) /\ Change(s, d, {"db", "overwritten", "ready_keys"}, {"stale"}, {})
          /\ d.db = [s.db EXCEPT ![k] = e]
        BY <1>2, dbAddSafe
    <2> HIDE DEF d
    <2>3. d.db[k] = e /\ d.db \in [Keys -> Value] /\ \A j \in Keys \ {k} : d.db[j] = s.db[j]
        BY <1>1, <1>2, <2>2
    <2>4. ASSUME NEW x, NEW where
          PROVE  listTypePush(e, x, where) = listTypePush(None, x, where)
        BY <1>2 DEF listTypePush, None
    <2>5. ASSUME NEW x, NEW where
          PROVE  PushedOn(d.db, k, x, where) = PushedOn(s.db, k, x, where)
        <3> DEFINE w == listTypePush(e, x, where)
        <3>1. listTypePush(d.db[k], x, where) = w /\ listTypePush(s.db[k], x, where) = w
            BY <1>3, <2>3, <2>4
        <3> HIDE DEF w
        <3>2. [d.db EXCEPT ![k] = w] = [s.db EXCEPT ![k] = w]
            BY <1>1, <2>3
        <3> QED
            BY <3>1, <3>2 DEF PushedOn
    <2> QED
        BY <1>2, <2>1, <2>2, <2>3, <2>5 DEF DataSet, q
<1>4. CASE s.db[k] # None
    <2>1. q = s
        BY <1>4 DEF IfNone
    <2>2. Change(s, s, DataSet, {"stale"}, {})
        BY <1>1, ChangeRefl
    <2>3. s.db[k].t = "list" /\ s.db[k] \in Value
        BY <1>1, <1>4 DEF Pushable
    <2> QED
        BY <2>1, <2>2, <2>3
<1> QED
    BY <1>3, <1>4

\* What a client may send is a command with its arguments.
LEMMA RequestFacts ==
    ASSUME NEW cmd \in Requests
    PROVE  /\ cmd \in Commands /\ Request(cmd) /\ cmd.ks \in Seq(Keys) /\ cmd.timeout \in BOOLEAN
           /\ cmd.v \in Nat /\ cmd.op \in Sent
BY DEF Requests, Commands, Sent

\* The command that a pop on behalf of a client is propagated as.
LEMMA PopOfFacts ==
    ASSUME NEW k \in Keys, NEW where
    PROVE  /\ PopOf(k, where) \in Commands /\ PopOf(k, where).k = k
           /\ PopOf(k, where).op = IF where = "head" THEN "lpop" ELSE "rpop"
<1> DEFINE o == IF where = "head" THEN "lpop" ELSE "rpop"
<1>1. o \in Sent \cup {"none", "lpush", "rpop", "rpoplpush"}
    BY DEF Sent, WriteCommands
<1> HIDE DEF o
<1>2. <<>> \in Seq(Keys) /\ NULL \in Arguments /\ "none" \in Sent \cup {"none", "lpush", "rpop", "rpoplpush"}
    BY EmptySeq DEF Arguments
<1>3. Command \in Commands
    BY <1>2 DEF Command, Commands
<1>4. PopOf(k, where) = [Command EXCEPT !.op = o, !.k = k]
    BY DEF PopOf, o
<1> QED
    BY <1>1, <1>3, <1>4 DEF Commands, o

\* What a replica does with each command.
LEMMA ReplayFacts ==
    ASSUME NEW db, NEW cmd
    PROVE  /\ cmd.op = "rpush" =>
                Replay(db, cmd) = [db EXCEPT ![cmd.k] = listTypePush(db[cmd.k], cmd.v, "tail")]
           /\ cmd.op = "lpush" =>
                Replay(db, cmd) = [db EXCEPT ![cmd.k] = listTypePush(db[cmd.k], cmd.v, "head")]
           /\ cmd.op = "lpop" =>
                Replay(db, cmd) = [db EXCEPT ![cmd.k] = Keep(listTypePop(db[cmd.k], "head"))]
           /\ cmd.op = "rpop" =>
                Replay(db, cmd) = [db EXCEPT ![cmd.k] = Keep(listTypePop(db[cmd.k], "tail"))]
           /\ cmd.op = "set" => Replay(db, cmd) = [db EXCEPT ![cmd.k] = Str]
           /\ cmd.op = "sortstore" => Replay(db, cmd) = [db EXCEPT ![cmd.k] = List(<<cmd.v>>)]
           /\ cmd.op = "del" => Replay(db, cmd) = [db EXCEPT ![cmd.k] = None]
           /\ cmd.op = "flushall" => Replay(db, cmd) = [k \in Keys |-> None]
<1>1. ASSUME cmd.op = "rpush"
      PROVE  Replay(db, cmd) = [db EXCEPT ![cmd.k] = listTypePush(db[cmd.k], cmd.v, "tail")]
    BY <1>1 DEF Replay
<1>2. ASSUME cmd.op = "lpush"
      PROVE  Replay(db, cmd) = [db EXCEPT ![cmd.k] = listTypePush(db[cmd.k], cmd.v, "head")]
    BY <1>2 DEF Replay
<1>3. ASSUME cmd.op = "lpop"
      PROVE  Replay(db, cmd) = [db EXCEPT ![cmd.k] = Keep(listTypePop(db[cmd.k], "head"))]
    BY <1>3 DEF Replay
<1>4. ASSUME cmd.op = "rpop"
      PROVE  Replay(db, cmd) = [db EXCEPT ![cmd.k] = Keep(listTypePop(db[cmd.k], "tail"))]
    BY <1>4 DEF Replay
<1>5. ASSUME cmd.op = "set" PROVE Replay(db, cmd) = [db EXCEPT ![cmd.k] = Str]
    BY <1>5 DEF Replay
<1>6. ASSUME cmd.op = "sortstore" PROVE Replay(db, cmd) = [db EXCEPT ![cmd.k] = List(<<cmd.v>>)]
    BY <1>6 DEF Replay
<1>7. ASSUME cmd.op = "del" PROVE Replay(db, cmd) = [db EXCEPT ![cmd.k] = None]
    BY <1>7 DEF Replay
<1>8. ASSUME cmd.op = "flushall" PROVE Replay(db, cmd) = [k \in Keys |-> None]
    BY <1>8 DEF Replay
<1> QED
    BY <1>1, <1>2, <1>3, <1>4, <1>5, <1>6, <1>7, <1>8

\* One key with a proper value.
LEMMA ProperExcept ==
    ASSUME NEW db \in [Keys -> Value], Proper(db), NEW k \in Keys, NEW val \in Value, ProperValue(val)
    PROVE  [db EXCEPT ![k] = val] \in [Keys -> Value] /\ Proper([db EXCEPT ![k] = val])
BY DEF Proper, ProperValue

Ready(s, c) == Turn(s, c, {}, {}) /\ ~s.dirty /\ Proper(s.db)
\* What a command of the table finds.
LEMMA ReadyFacts ==
    ASSUME NEW s, NEW c, Ready(s, c)
    PROVE  /\ Turn(s, c, {}, {}) /\ Safe(s, {}, {}) /\ s \in Server /\ c \in Open(s) /\ c \in Clients
           /\ s.db \in [Keys -> Value] /\ Proper(s.db) /\ ~s.dirty
           /\ \A k \in Keys : ProperValue(s.db[k]) /\ s.db[k] \in Value
           /\ Over(s, Answer(s, c), c)
<1>1. Turn(s, c, {}, {}) /\ Proper(s.db) /\ ~s.dirty
    BY DEF Ready
<1>2. Safe(s, {}, {}) /\ s \in Server /\ c \in Open(s) /\ c \in Clients
    BY <1>1, TurnFacts
<1>3. s.db \in [Keys -> Value]
    BY <1>2 DEF Server
<1>4. Calm(s, s)
    BY DEF Calm
<1>5. Over(s, Answer(s, c), c)
    BY <1>1, <1>4, TurnOver
<1> QED
    BY <1>1, <1>2, <1>3, <1>5 DEF Proper, ProperValue

\* RPUSH: those who wait are signalled, those who watch are told.
LEMMA pushOver ==
    ASSUME NEW s, NEW c, Ready(s, c), NEW cmd \in Requests, cmd.op = "rpush"
    PROVE  Over(s, pushGenericCommand(s, c, cmd), c)
<1> DEFINE k == cmd.k
           d == IfNone(s, k)
           w == listTypePush(d.db[k], cmd.v, "tail")
           r == Write(d, k, w)
<1>1. cmd \in Commands /\ k \in Keys /\ cmd.v \in Nat
    BY RequestFacts DEF Request
<1>2. CASE s.db[k].t = "string"
    <2>1. pushGenericCommand(s, c, cmd) = Answer(s, c)
        BY <1>2 DEF pushGenericCommand
    <2> QED
        BY <2>1, ReadyFacts
<1>3. CASE s.db[k].t # "string"
    <2>1. Pushable(s.db[k])
        BY <1>1, <1>3, ReadyFacts, NoneOr DEF Pushable
    <2>2. Safe(s, {k}, {}) /\ Turn(s, c, {}, {})
        BY ReadyFacts, SafeMore
    <2>3. pushGenericCommand(s, c, cmd) = Dirty(touchWatchedKey(Answer(r, c), k), cmd)
        BY <1>3 DEF pushGenericCommand, IfNone, signalModifiedKey
    <2> HIDE DEF k
    <2>4. /\ Safe(d, {k}, {}) /\ Change(s, d, DataSet, {"stale"}, {})
          /\ d.db[k].t = "list" /\ d.db[k] \in Value
          /\ \A x, where : PushedOn(d.db, k, x, where) = PushedOn(s.db, k, x, where)
        BY <1>1, <2>1, <2>2, IfNoneSafe
    <2>5. w = listTypePush(d.db[k], cmd.v, "tail")
        OBVIOUS
    <2> HIDE DEF d
    <2>6. w \in Value
        BY <1>1, <2>4, PushFacts
    <2> HIDE DEF w
    <2>7. MayChange(d, k, {k}) /\ MayBecome(d, k, w, {})
        BY <2>4 DEF MayChange, MayBecome
    <2>8. /\ Safe(r, {k}, {}) /\ Change(d, r, {"db", "overwritten"}, {"stale"}, {})
          /\ r.db = [d.db EXCEPT ![k] = w]
        BY <1>1, <2>4, <2>6, <2>7, WriteSafe
    <2> HIDE DEF r
    <2>9. Turn(d, c, {k}, {}) /\ Kept(s, d)
        BY <2>2, <2>4, DataTurn
    <2>10. Turn(r, c, {k}, {}) /\ Kept(d, r)
        BY <2>8, <2>9, DataTurn DEF DataSet
    <2>11. Kept(s, r)
        BY <2>9, <2>10 DEF Kept
    <2>12. r.db = [s.db EXCEPT ![k] = listTypePush(s.db[k], cmd.v, "tail")]
        <3>1. r.db = PushedOn(d.db, k, cmd.v, "tail")
            BY <2>5, <2>8 DEF PushedOn
        <3>2. r.db = PushedOn(s.db, k, cmd.v, "tail")
            BY <2>4, <3>1
        <3> QED
            BY <3>2 DEF PushedOn
    <2>13. r.db = Replay(s.db, cmd)
        BY <2>12, ReplayFacts DEF k
    <2>14. Proper(r.db)
        <3>1. s.db[k] \in Value /\ s.db \in [Keys -> Value] /\ Proper(s.db)
            BY <1>1, ReadyFacts
        <3> DEFINE y == listTypePush(s.db[k], cmd.v, "tail")
        <3>2. y \in Value /\ ProperValue(y)
            BY <1>1, <3>1, PushFacts
        <3> HIDE DEF y
        <3>3. Proper([s.db EXCEPT ![k] = y])
            BY <1>1, <3>1, <3>2, ProperExcept
        <3> QED
            BY <2>12, <3>3 DEF y
    <2> QED
        BY <1>1, <2>3, <2>10, <2>11, <2>13, <2>14, TellOver
<1> QED
    BY <1>2, <1>3

\* A pop from a list, the key deleted with the last element.
LEMMA PopOver ==
    ASSUME NEW s, NEW c, Ready(s, c), NEW k \in Keys, s.db[k].t = "list", NEW where
    PROVE  Over(s, Pop(s, c, k, where), c)
<1> DEFINE p == listTypePop(s.db[k], where)
           w == Keep(p)
           r == Write(s, k, w)
           cmd == PopOf(k, where)
<1>1. /\ s.db[k] \in Value /\ s.db \in [Keys -> Value] /\ Proper(s.db) /\ s.db[k].v # <<>>
      /\ Turn(s, c, {}, {}) /\ Safe(s, {k}, {})
    BY ReadyFacts, SafeMore DEF ProperValue
<1>2. p \in Value /\ p.t = "list"
    BY <1>1, PopFacts
<1>3. cmd \in Commands /\ cmd.k = k /\ cmd.op = IF where = "head" THEN "lpop" ELSE "rpop"
    BY PopOfFacts
<1>4. Pop(s, c, k, where) = Dirty(touchWatchedKey(Answer(r, c), k), cmd)
    BY DEF Pop, signalModifiedKey
<1>5. where # "head" => listTypePop(s.db[k], where) = listTypePop(s.db[k], "tail")
    BY DEF listTypePop
<1> HIDE DEF cmd
<1>6. [s.db EXCEPT ![k] = w] = Replay(s.db, cmd)
    <2>1. CASE where = "head"
        BY <1>3, <2>1, ReplayFacts, ZenonT(40)
    <2>2. CASE where # "head"
        <3>1. cmd.op = "rpop" /\ p = listTypePop(s.db[k], "tail") /\ cmd.k = k
            BY <1>3, <1>5, <2>2
        <3> HIDE DEF p
        <3>2. Replay(s.db, cmd) = [s.db EXCEPT ![k] = Keep(listTypePop(s.db[k], "tail"))]
            BY ONLY <3>1, ReplayFacts
        <3> QED
            BY <3>1, <3>2
    <2> QED
        BY <2>1, <2>2
<1> HIDE DEF p
<1>7. w \in Value /\ ProperValue(w)
    BY <1>2, KeepFacts
<1> HIDE DEF w
<1>8. MayChange(s, k, {k}) /\ MayBecome(s, k, w, {})
    BY DEF MayChange, MayBecome
<1>9. /\ Safe(r, {k}, {}) /\ Change(s, r, {"db", "overwritten"}, {"stale"}, {})
      /\ r.db = [s.db EXCEPT ![k] = w]
    BY <1>1, <1>7, <1>8, WriteSafe
<1> HIDE DEF r
<1>10. Turn(r, c, {k}, {}) /\ Kept(s, r)
    BY <1>1, <1>9, DataTurn DEF DataSet
<1>11. Proper(r.db)
    BY <1>1, <1>7, <1>9, ProperExcept
<1> QED
    BY <1>3, <1>4, <1>6, <1>9, <1>10, <1>11, TellOver

\* LPOP.
LEMMA popOver ==
    ASSUME NEW s, NEW c, Ready(s, c), NEW cmd \in Requests, cmd.op = "lpop"
    PROVE  Over(s, popGenericCommand(s, c, cmd), c)
<1>1. cmd.k \in Keys
    BY RequestFacts DEF Request
<1> QED
    BY <1>1, PopOver, ReadyFacts DEF popGenericCommand

\* A client that finds no list waits and is not answered.
LEMMA blockOver ==
    ASSUME NEW s, NEW c, Ready(s, c), ~Has(s, c, "MULTI"),
           NEW ks \in Seq(Keys), ks # <<>>, \A i \in 1..Len(ks) : s.db[ks[i]].t # "list",
           NEW target \in Keys \cup {NULL}, target # NULL => s.cl[c].lastcmd # "blpop",
           NEW timeout \in BOOLEAN
    PROVE  Over(s, blockForKeys(s, c, ks, target, timeout), c)
<1> DEFINE q == blockForKeys(s, c, ks, target, timeout)
<1>1. /\ Safe(s, {}, {}) /\ c \in Open(s) /\ c \in Clients /\ ~s.dirty
      /\ "BLOCKED" \notin s.cl[c].flags /\ ~s.executing /\ Unanswered(s.cl[c]) /\ Heard(s, c)
    BY ReadyFacts DEF Turn, Has
<1>2. \A k \in ToSet(ks) : s.db[k].t # "list"
    BY ToSetFacts
<1>3. /\ Safe(q, {}, {}) /\ Others(s, q, c) /\ Change(s, q, {"blocking_keys"}, {"bpop"}, {"BLOCKED"})
      /\ "BLOCKED" \in q.cl[c].flags
    BY <1>1, <1>2, blockForKeysSafe
<1> HIDE DEF q
<1>4. c \in Open(q)
    BY <1>1, <1>3, Frame
<1>5. Heard(q, c)
    BY <1>1, <1>3 DEF Heard, Others
<1>6. Calm(s, q)
    <2>1. Same(s, q, {"blocking_keys"})
        BY <1>3 DEF Change
    <2> QED
        BY <2>1, CalmFrame DEF Loud
<1>7. Unanswered(q.cl[c])
    <2>1. Alike(s.cl[c], q.cl[c], {"bpop"}, {"BLOCKED"})
        BY <1>1, <1>3 DEF Change
    <2>2. /\ q.cl[c].state = s.cl[c].state /\ q.cl[c].answers = s.cl[c].answers
          /\ q.cl[c].n = s.cl[c].n /\ q.cl[c].muted = s.cl[c].muted
        BY <2>1 DEF Alike, ClientFields
    <2>3. \A f \in VoiceFlags : f # "BLOCKED" => (f \in q.cl[c].flags <=> f \in s.cl[c].flags)
        BY <2>1 DEF Alike
    <2>4. /\ Silent(q.cl[c]) <=> Silent(s.cl[c])
          /\ Replies(q.cl[c]) <=> Replies(s.cl[c])
          /\ Ordered(q.cl[c]) <=> Ordered(s.cl[c])
        BY <2>2, <2>3 DEF Silent, Replies, Ordered, VoiceFlags
    <2> QED
        BY <1>1, <2>2, <2>4 DEF Unanswered
<1>8. InTurn(q.cl[c])
    BY <1>3, <1>7 DEF InTurn
<1>9. Over(s, q, c)
    BY <1>1, <1>3, <1>4, <1>5, <1>6, <1>8 DEF Over, Calm, Logged
<1> QED
    BY <1>9 DEF q

\* BLPOP and BRPOP: the first key with a list, an error or waiting.
LEMMA blockingPopOver ==
    ASSUME NEW s, NEW c, Ready(s, c), NEW cmd \in Requests, cmd.op \in {"blpop", "brpop"}, NEW where
    PROVE  Over(s, blockingPopGenericCommand(s, c, cmd, where), c)
<1> DEFINE found == {i \in 1..Len(cmd.ks) : s.db[cmd.ks[i]] # None}
           i == CHOOSE m \in found : \A j \in found : m <= j
           k == cmd.ks[i]
<1>1. cmd.ks \in Seq(Keys) /\ cmd.ks # <<>> /\ cmd.timeout \in BOOLEAN
    BY RequestFacts DEF Request
<1>2. Len(cmd.ks) \in Nat /\ \A j \in 1..Len(cmd.ks) : cmd.ks[j] \in Keys
    BY <1>1, LenProperties, ElementOfSeq
<1>3. CASE found # {}
    <2>1. found \in SUBSET Nat
        OBVIOUS
    <2>2. blockingPopGenericCommand(s, c, cmd, where)
          = IF s.db[k].t # "list" THEN Answer(s, c) ELSE Pop(s, c, k, where)
        BY <1>3 DEF blockingPopGenericCommand
    <2>3. \E m \in found : \A j \in found : m <= j
        <3> HIDE DEF found
        <3> QED
            BY <1>3, <2>1, Dropping!Smallest
    <2>4. i \in found
        BY <2>3
    <2>5. k \in Keys
        BY <1>2, <2>4
    <2> HIDE DEF k
    <2> QED
        BY <2>2, <2>5, PopOver, ReadyFacts
<1>4. CASE found = {} /\ Has(s, c, "MULTI")
    <2>1. blockingPopGenericCommand(s, c, cmd, where) = Answer(s, c)
        BY <1>4 DEF blockingPopGenericCommand
    <2> QED
        BY <2>1, ReadyFacts
<1>5. CASE found = {} /\ ~Has(s, c, "MULTI")
    <2>1. blockingPopGenericCommand(s, c, cmd, where)
          = blockForKeys(s, c, cmd.ks, NULL, cmd.timeout)
        BY <1>5 DEF blockingPopGenericCommand
    <2>2. \A j \in 1..Len(cmd.ks) : s.db[cmd.ks[j]].t # "list"
        BY <1>5 DEF None
    <2>3. NULL \in Keys \cup {NULL} /\ (NULL # NULL => s.cl[c].lastcmd # "blpop")
        OBVIOUS
    <2> QED
        BY <1>1, <1>5, <2>1, <2>2, <2>3, blockOver, ZenonT(40)
<1> QED
    BY <1>3, <1>4, <1>5

\* What the second half of RPOPLPUSH changes.
PushLists == DataSet \cup ReplyLists
PushFields == {"stale", "pending", "answers"}
PushFlags == {"DIRTY_CAS"} \cup ReplyFlags
HandledPush(s, q) ==
    Change(s, q, PushLists, PushFields, PushFlags) /\ Kept(s, q) /\ q.dirty = s.dirty
\* The second half of RPOPLPUSH: the destination is told and signalled.
LEMMA rpoplpushHandlePushSpoken ==
    ASSUME NEW s, NEW c, NEW K, NEW R, Turn(s, c, K, R), NEW dst \in Keys, Pushable(s.db[dst]),
           NEW v \in Nat
    PROVE  /\ Spoken(rpoplpushHandlePush(s, c, dst, v), c, K \ {dst}, R)
           /\ HandledPush(s, rpoplpushHandlePush(s, c, dst, v))
           /\ rpoplpushHandlePush(s, c, dst, v).db = PushedOn(s.db, dst, v, "head")
<1> DEFINE d == IfNone(s, dst)
           t == touchWatchedKey(d, dst)
           w == listTypePush(t.db[dst], v, "head")
           r == Write(t, dst, w)
           q == Answer(r, c)
           K1 == K \cup {dst}
           K2 == K \ {dst}
<1>1. rpoplpushHandlePush(s, c, dst, v) = q
    BY DEF rpoplpushHandlePush, IfNone, signalModifiedKey
<1>2. Safe(s, K1, R) /\ dst \in K1
    <2>1. Safe(s, K, R)
        BY DEF Turn
    <2>2. K \subseteq K1 /\ R \subseteq R /\ R \subseteq R \cup K1
        OBVIOUS
    <2> HIDE DEF K1
    <2>3. Safe(s, K1, R)
        BY <2>1, <2>2, SafeMore
    <2> QED
        BY <2>3 DEF K1
<1>3. K1 \ {dst} = K2
    OBVIOUS
<1> HIDE DEF K1
<1>4. /\ Safe(d, K1, R) /\ Change(s, d, DataSet, {"stale"}, {}) /\ d.db[dst].t = "list" /\ d.db[dst] \in Value
      /\ PushedOn(d.db, dst, v, "head") = PushedOn(s.db, dst, v, "head")
    BY <1>2, IfNoneSafe
<1> HIDE DEF d
<1>5. /\ Safe(t, K1 \ {dst}, R) /\ Change(d, t, {}, {}, {"DIRTY_CAS"})
      /\ \A x \in Clients : x \in ToSet(d.watched_keys[dst]) => Dirtied(t.cl[x])
    BY <1>4, touchWatchedKeySafe
<1> HIDE DEF t, K2
<1>6. Safe(t, K2, R)
    BY <1>3, <1>5
<1>7. t.db = d.db /\ t.watched_keys = d.watched_keys
    BY <1>5 DEF Change, Same, ServerFields
<1>8. w \in Value
    BY <1>4, <1>7, PushFacts
<1>9. w = listTypePush(t.db[dst], v, "head")
    OBVIOUS
<1> HIDE DEF w
<1>10. MayChange(t, dst, K2) /\ MayBecome(t, dst, w, R)
    BY <1>4, <1>5, <1>7 DEF MayChange, MayBecome
<1>11. /\ Safe(r, K2, R) /\ Change(t, r, {"db", "overwritten"}, {"stale"}, {})
       /\ r.db = [t.db EXCEPT ![dst] = w]
    BY <1>6, <1>8, <1>10, WriteSafe
<1> HIDE DEF r
<1>12. r.db = PushedOn(s.db, dst, v, "head")
    <2>1. r.db = PushedOn(d.db, dst, v, "head")
        BY <1>7, <1>9, <1>11 DEF PushedOn
    <2> QED
        BY <1>4, <2>1
<1>13. Turn(d, c, K1, R) /\ Kept(s, d) /\ d.dirty = s.dirty
    BY <1>4, DataTurn
<1>14. Turn(t, c, K2, R) /\ Kept(d, t) /\ t.dirty = d.dirty
    <2>1. {} \subseteq DataSet /\ {} \subseteq {"stale"} /\ {"DIRTY_CAS"} \subseteq {"DIRTY_CAS"}
        OBVIOUS
    <2> QED
        BY <1>5, <1>6, <1>13, <2>1, DataTurn
<1>15. Turn(r, c, K2, R) /\ Kept(t, r) /\ r.dirty = t.dirty
    BY <1>11, <1>14, DataTurn DEF DataSet
<1>16. /\ Spoken(q, c, K2, R) /\ Replied(r, q, c, {"pending", "answers"}) /\ Calm(r, q)
    BY <1>15, AnswerSpoken
<1> HIDE DEF q
<1>17. Kept(s, q) /\ q.dirty = s.dirty /\ q.db = r.db
    BY <1>13, <1>14, <1>15, <1>16 DEF Kept, Calm
<1>18. Change(s, q, PushLists, PushFields, PushFlags)
    <2>1. Change(s, d, PushLists, PushFields, PushFlags)
        BY <1>4, ChangeMore DEF PushLists, PushFields, PushFlags
    <2>2. Change(d, t, PushLists, PushFields, PushFlags)
        BY <1>5, ChangeMore DEF PushFlags
    <2>3. Change(t, r, PushLists, PushFields, PushFlags)
        BY <1>11, ChangeMore DEF PushLists, PushFields, DataSet
    <2>4. Change(r, q, PushLists, PushFields, PushFlags)
        BY <1>16, ChangeMore DEF Replied, PushLists, PushFields, PushFlags
    <2>5. Change(s, t, PushLists \cup PushLists, PushFields \cup PushFields, PushFlags \cup PushFlags)
        BY <2>1, <2>2, ChangeTrans
    <2>6. Change(t, q, PushLists \cup PushLists, PushFields \cup PushFields, PushFlags \cup PushFlags)
        BY <2>3, <2>4, ChangeTrans
    <2>7. /\ PushLists \cup PushLists = PushLists /\ PushFields \cup PushFields = PushFields
          /\ PushFlags \cup PushFlags = PushFlags
        OBVIOUS
    <2>8. Change(s, q, PushLists \cup PushLists, PushFields \cup PushFields, PushFlags \cup PushFlags)
        BY <2>5, <2>6, <2>7, ChangeTrans
    <2> QED
        BY <2>7, <2>8
<1> QED
    BY <1>1, <1>12, <1>16, <1>17, <1>18 DEF HandledPush, K2

\* The last element of one list becomes the first of another.
MovedFrom(db, k) == [db EXCEPT ![k] = listTypePop(db[k], "tail")]
MovedTo(db, k, dst) == PushedOn(MovedFrom(db, k), dst, Popped(db[k], "tail"), "head")
KeptIn(db, k) == [db EXCEPT ![k] = Keep(db[k])]
\* An element moved from one list to another, or to the other end of the same.
LEMMA MovedFacts ==
    ASSUME NEW db \in [Keys -> Value], Proper(db), NEW k \in Keys, NEW dst \in Keys,
           db[k].t = "list", Pushable(db[dst]), NEW cmd, cmd.op = "rpoplpush", cmd.k = k, cmd.arg = dst
    PROVE  /\ Popped(db[k], "tail") \in Nat
           /\ MovedFrom(db, k) \in [Keys -> Value] /\ Pushable(MovedFrom(db, k)[dst])
           /\ MovedTo(db, k, dst) \in [Keys -> Value] /\ MovedTo(db, k, dst)[k].t = "list"
           /\ Keep(MovedTo(db, k, dst)[k]) \in Value
           /\ KeptIn(MovedTo(db, k, dst), k) = Replay(db, cmd) /\ Proper(KeptIn(MovedTo(db, k, dst), k))
<1> DEFINE v == Popped(db[k], "tail")
           p == listTypePop(db[k], "tail")
           a == [db EXCEPT ![k] = p]
           w == listTypePush(a[dst], v, "head")
           b == [a EXCEPT ![dst] = w]
           x == Keep(b[k])
           e == [b EXCEPT ![k] = x]
           y == Keep(p)
           f == [db EXCEPT ![k] = y]
           z == listTypePush(f[dst], v, "head")
           g == [f EXCEPT ![dst] = z]
<1>1. db[k] \in Value /\ db[dst] \in Value /\ db[k].v # <<>>
    BY DEF Proper
<1>2. v \in Nat /\ p \in Value /\ p.t = "list"
    BY <1>1, PopFacts
<1>3. Replay(db, cmd) = g
    BY DEF Replay
<1>4. MovedFrom(db, k) = a /\ MovedTo(db, k, dst) = b /\ KeptIn(MovedTo(db, k, dst), k) = e
    BY DEF PushedOn, MovedFrom, MovedTo, KeptIn
<1> HIDE DEF v, p
<1>5. y \in Value /\ ProperValue(y) /\ y.v = p.v
    BY <1>2, KeepFacts
<1> HIDE DEF y
<1>6. a \in [Keys -> Value] /\ a[k] = p /\ \A j \in Keys \ {k} : a[j] = db[j]
    BY <1>2
<1>7. f \in [Keys -> Value] /\ f[k] = y /\ \A j \in Keys \ {k} : f[j] = db[j]
    BY <1>5
<1> HIDE DEF a, f
<1>8. a[dst] \in Value /\ f[dst] \in Value
    BY <1>6, <1>7
<1>9. w \in Value /\ w.t = "list" /\ ProperValue(w) /\ Keep(w) = w
    BY <1>2, <1>8, PushFacts
<1>10. z = w
    <2>1. a[dst].v = f[dst].v
        BY <1>5, <1>6, <1>7
    <2> QED
        BY <2>1 DEF listTypePush
<1> HIDE DEF w, z
<1>11. b \in [Keys -> Value] /\ b[dst] = w /\ \A j \in Keys \ {dst} : b[j] = a[j]
    BY <1>6, <1>9
<1>12. g \in [Keys -> Value] /\ g[dst] = w /\ \A j \in Keys \ {dst} : g[j] = f[j]
    BY <1>7, <1>9, <1>10
<1> HIDE DEF b, g
<1>13. Pushable(a[dst])
    BY <1>2, <1>6 DEF Pushable
<1>14. b[k] \in Value /\ b[k].t = "list"
    BY <1>2, <1>6, <1>9, <1>11
<1>15. x \in Value /\ ProperValue(x)
    BY <1>14, KeepFacts
<1>16. x = g[k]
    <2>1. CASE k = dst
        BY <1>9, <1>11, <1>12, <2>1
    <2>2. CASE k # dst
        BY <1>6, <1>7, <1>11, <1>12, <2>2 DEF y
    <2> QED
        BY <2>1, <2>2
<1> HIDE DEF x
<1>17. e \in [Keys -> Value] /\ e[k] = x /\ \A j \in Keys \ {k} : e[j] = b[j]
    BY <1>11, <1>15
<1> HIDE DEF e
<1>18. ASSUME NEW j \in Keys PROVE e[j] = g[j] /\ ProperValue(e[j])
    <2>1. CASE j = k
        BY <1>15, <1>16, <1>17, <2>1
    <2>2. CASE j # k /\ j = dst
        BY <1>9, <1>11, <1>12, <1>17, <2>2
    <2>3. CASE j # k /\ j # dst
        <3>1. e[j] = db[j] /\ g[j] = db[j]
            BY <1>6, <1>7, <1>11, <1>12, <1>17, <2>3
        <3> QED
            BY <3>1 DEF Proper, ProperValue
    <2> QED
        BY <2>1, <2>2, <2>3
<1>19. e = g
    BY <1>12, <1>17, <1>18
<1>20. Proper(e)
    BY <1>18 DEF Proper, ProperValue
<1> QED
    BY <1>2, <1>3, <1>4, <1>6, <1>11, <1>13, <1>14, <1>15, <1>19, <1>20 DEF v, x

\* A write after the answer.
LEMMA DataSpoken ==
    ASSUME NEW s, NEW q, NEW c, NEW S, NEW F, NEW G, NEW K, NEW R, NEW K2, NEW R2,
           Change(s, q, S, F, G), Safe(q, K2, R2), Spoken(s, c, K, R), S \subseteq DataSet,
           F \subseteq {"stale"}, G \subseteq {"DIRTY_CAS"}
    PROVE  Spoken(q, c, K2, R2) /\ Kept(s, q)
BY DataTurn, ZenonT(40)

\* RPOPLPUSH.
LEMMA rpoplpushOver ==
    ASSUME NEW s, NEW c, Ready(s, c), NEW cmd \in Requests, cmd.op = "brpoplpush",
           s.db[cmd.k].t = "list"
    PROVE  Over(s, rpoplpushCommand(s, c, cmd), c)
<1> DEFINE k == cmd.k
           dst == cmd.arg
           sent2 == [cmd EXCEPT !.op = "rpoplpush"]
           v == Popped(s.db[k], "tail")
           p == listTypePop(s.db[k], "tail")
           a == MovedFrom(s.db, k)
           b == MovedTo(s.db, k, dst)
           x == Keep(b[k])
           q == Write(s, k, p)
           r == rpoplpushHandlePush(q, c, dst, v)
           h == Write(r, k, x)
           t == touchWatchedKey(h, k)
<1>1. cmd \in Commands /\ k \in Keys /\ dst \in Keys
    BY RequestFacts DEF Request
<1>2. CASE s.db[dst].t = "string"
    <2>1. rpoplpushCommand(s, c, cmd) = Answer(s, c)
        BY <1>2 DEF rpoplpushCommand
    <2> QED
        BY <2>1, ReadyFacts
<1>3. CASE s.db[dst].t # "string"
    <2>1. Pushable(s.db[dst])
        BY <1>1, <1>3, ReadyFacts, NoneOr DEF Pushable
    <2>2. /\ Safe(s, {k}, {}) /\ Turn(s, c, {}, {}) /\ s.db \in [Keys -> Value] /\ Proper(s.db)
          /\ s.db[k] \in Value /\ s.db[k].v # <<>>
        BY <1>1, ReadyFacts, SafeMore DEF ProperValue
    <2>3. sent2 \in Commands /\ sent2.op = "rpoplpush" /\ sent2.k = k /\ sent2.arg = dst
        BY <1>1 DEF Commands
    <2>4. rpoplpushCommand(s, c, cmd)
          = Dirty(touchWatchedKey(Write(r, k, Keep(r.db[k])), k), sent2)
        BY <1>3 DEF rpoplpushCommand, signalModifiedKey
    <2>5. s.db[k].t = "list"
        OBVIOUS
    <2> HIDE DEF k, dst, sent2
    <2>6. /\ v \in Nat /\ a \in [Keys -> Value] /\ Pushable(a[dst])
          /\ b \in [Keys -> Value] /\ b[k].t = "list" /\ x \in Value
          /\ KeptIn(b, k) = Replay(s.db, sent2) /\ Proper(KeptIn(b, k))
        BY ONLY <1>1, <2>1, <2>2, <2>3, <2>5, MovedFacts
    <2>24. a = [s.db EXCEPT ![k] = p] /\ b = PushedOn(a, dst, v, "head")
        BY DEF MovedFrom, MovedTo
    <2>7. p \in Value /\ p.t = "list"
        BY <2>2, <2>5, PopFacts
    <2> HIDE DEF v, p
    <2>8. MayChange(s, k, {k}) /\ MayBecome(s, k, p, {})
        BY <2>5 DEF MayChange, MayBecome
    <2>9. /\ Safe(q, {k}, {}) /\ Change(s, q, {"db", "overwritten"}, {"stale"}, {})
          /\ q.db = [s.db EXCEPT ![k] = p]
        BY <1>1, <2>2, <2>7, <2>8, WriteSafe
    <2> HIDE DEF a, q
    <2>10. Turn(q, c, {k}, {}) /\ Kept(s, q) /\ q.dirty = s.dirty
        BY <2>2, <2>9, DataTurn DEF DataSet
    <2> DEFINE L == {k} \ {dst}
    <2>11. /\ Spoken(r, c, L, {}) /\ HandledPush(q, r) /\ r.db = b
        <3>1. q.db = a
            BY <2>9, <2>24
        <3> QED
            BY <1>1, <2>6, <2>10, <2>24, <3>1, rpoplpushHandlePushSpoken
    <2>12. x = Keep(r.db[k])
        BY <2>11
    <2> HIDE DEF b, r, x
    <2>13. Safe(r, {k}, {})
        <3>1. Safe(r, L, {})
            BY <2>11 DEF Spoken
        <3>2. L \subseteq {k} /\ {} \subseteq {} /\ {} \subseteq {} \cup {k}
            OBVIOUS
        <3> QED
            BY ONLY <3>1, <3>2, SafeMore
    <2>14. MayChange(r, k, {k}) /\ MayBecome(r, k, x, {})
        BY <2>6, <2>11 DEF MayChange, MayBecome
    <2>15. /\ Safe(h, {k}, {}) /\ Change(r, h, {"db", "overwritten"}, {"stale"}, {})
           /\ h.db = [r.db EXCEPT ![k] = x]
        BY <1>1, <2>6, <2>13, <2>14, WriteSafe
    <2> HIDE DEF h
    <2> HIDE DEF L
    <2>16. Spoken(h, c, {k}, {}) /\ Kept(r, h)
        <3>1. {"db", "overwritten"} \subseteq DataSet /\ {"stale"} \subseteq {"stale"} /\ {} \subseteq {"DIRTY_CAS"}
            BY DEF DataSet
        <3> QED
            BY ONLY <2>11, <2>15, <3>1, DataSpoken
    <2>17. Safe(t, {k} \ {k}, {}) /\ Change(h, t, {}, {}, {"DIRTY_CAS"})
        BY <1>1, <2>15, touchWatchedKeySafe
    <2> HIDE DEF t
    <2>18. Safe(t, {}, {})
        <3>1. {k} \ {k} = {}
            OBVIOUS
        <3> QED
            BY <2>17, <3>1
    <2>19. Spoken(t, c, {}, {}) /\ Kept(h, t)
        <3>1. {} \subseteq DataSet /\ {} \subseteq {"stale"} /\ {"DIRTY_CAS"} \subseteq {"DIRTY_CAS"}
            OBVIOUS
        <3> QED
            BY ONLY <2>16, <2>17, <2>18, <3>1, DataSpoken
    <2>20. t.db = h.db
        BY <2>17 DEF Change, Same, ServerFields
    <2>21. t.db = Replay(s.db, sent2) /\ Proper(t.db)
        BY <2>6, <2>11, <2>12, <2>15, <2>20 DEF KeptIn
    <2>22. Kept(s, t)
        BY <2>10, <2>11, <2>16, <2>19 DEF Kept, HandledPush
    <2>23. rpoplpushCommand(s, c, cmd) = Dirty(t, sent2)
        BY <2>4, <2>12 DEF t, h
    <2> QED
        BY <2>3, <2>19, <2>21, <2>22, <2>23, DirtyOver
<1> QED
    BY <1>2, <1>3

\* BRPOPLPUSH: a list, an error or waiting.
LEMMA brpoplpushOver ==
    ASSUME NEW s, NEW c, Ready(s, c), NEW cmd \in Requests, cmd.op = "brpoplpush",
           s.executing \/ s.cl[c].lastcmd = cmd.op
    PROVE  Over(s, brpoplpushCommand(s, c, cmd), c)
<1>1. cmd.k \in Keys /\ cmd.arg \in Keys /\ cmd.timeout \in BOOLEAN
    BY RequestFacts DEF Request
<1>2. CASE s.db[cmd.k] = None /\ ~Has(s, c, "MULTI")
    <2>1. brpoplpushCommand(s, c, cmd) = blockForKeys(s, c, <<cmd.k>>, cmd.arg, cmd.timeout)
        BY <1>2 DEF brpoplpushCommand
    <2>2. ~s.executing
        BY <1>2, ReadyFacts DEF Turn, Has
    <2>3. /\ <<cmd.k>> \in Seq(Keys) /\ <<cmd.k>> # <<>> /\ cmd.arg \in Keys \cup {NULL}
          /\ \A i \in 1..Len(<<cmd.k>>) : s.db[<<cmd.k>>[i]].t # "list"
        BY <1>1, <1>2 DEF None
    <2>4. s.cl[c].lastcmd # "blpop"
        BY <2>2
    <2> QED
        BY <1>1, <1>2, <2>1, <2>3, <2>4, blockOver
<1>3. CASE ~(s.db[cmd.k] = None /\ ~Has(s, c, "MULTI")) /\ s.db[cmd.k].t # "list"
    <2>1. brpoplpushCommand(s, c, cmd) = Answer(s, c)
        BY <1>3 DEF brpoplpushCommand
    <2> QED
        BY <2>1, ReadyFacts
<1>4. CASE s.db[cmd.k].t = "list"
    <2>1. brpoplpushCommand(s, c, cmd) = rpoplpushCommand(s, c, cmd)
        BY <1>4 DEF brpoplpushCommand, None
    <2> QED
        BY <1>4, <2>1, rpoplpushOver
<1> QED
    BY <1>2, <1>3, <1>4

\* A command that stores a value with setKey.
LEMMA setKeyOver ==
    ASSUME NEW s, NEW c, Ready(s, c), NEW cmd \in Commands, NEW k \in Keys, NEW val \in Value,
           ProperValue(val), Replay(s.db, cmd) = [s.db EXCEPT ![k] = val]
    PROVE  Over(s, Dirty(Answer(setKey(s, k, val), c), cmd), c)
<1> DEFINE r == setKey(s, k, val)
<1>1. Safe(s, {}, {}) /\ Turn(s, c, {}, {}) /\ s.db \in [Keys -> Value] /\ Proper(s.db)
    BY ReadyFacts
<1>2. /\ Safe(r, {}, {}) /\ Change(s, r, DataSet, {"stale"}, {"DIRTY_CAS"})
      /\ r.db = [s.db EXCEPT ![k] = val]
    BY <1>1, setKeySafe
<1> HIDE DEF r
<1>3. Turn(r, c, {}, {}) /\ Kept(s, r)
    BY <1>1, <1>2, DataTurn
<1>4. Proper(r.db) /\ r.db = Replay(s.db, cmd)
    BY <1>1, <1>2, ProperExcept
<1>5. Over(s, Dirty(Answer(r, c), cmd), c)
    BY <1>3, <1>4, ToldOver
<1> QED
    BY <1>5 DEF r

\* SET, and SORT with STORE.
LEMMA setOver ==
    ASSUME NEW s, NEW c, Ready(s, c), NEW cmd \in Requests, cmd.op \in {"set", "sortstore"}
    PROVE  /\ cmd.op = "set" => Over(s, setCommand(s, c, cmd), c)
           /\ cmd.op = "sortstore" => Over(s, sortStoreCommand(s, c, cmd), c)
<1>1. cmd \in Commands /\ cmd.k \in Keys /\ cmd.v \in Nat
    BY RequestFacts DEF Request
<1>2. ASSUME cmd.op = "set" PROVE Over(s, setCommand(s, c, cmd), c)
    <2>1. Str \in Value /\ ProperValue(Str)
        BY ConstantValues DEF ProperValue
    <2>2. Replay(s.db, cmd) = [s.db EXCEPT ![cmd.k] = Str]
        BY <1>2, ReplayFacts
    <2>3. Over(s, Dirty(Answer(setKey(s, cmd.k, Str), c), cmd), c)
        BY <1>1, <2>1, <2>2, setKeyOver
    <2> QED
        BY <2>3 DEF setCommand
<1>3. ASSUME cmd.op = "sortstore" PROVE Over(s, sortStoreCommand(s, c, cmd), c)
    <2> DEFINE l == List(<<cmd.v>>)
    <2>1. l \in Value /\ ProperValue(l)
        <3>1. <<cmd.v>> \in Seq(Nat) /\ <<cmd.v>> # <<>>
            BY <1>1
        <3> QED
            BY <3>1, ConstantValues DEF ProperValue
    <2>2. Replay(s.db, cmd) = [s.db EXCEPT ![cmd.k] = l]
        BY <1>3, ReplayFacts
    <2>3. sortStoreCommand(s, c, cmd) = Dirty(Answer(setKey(s, cmd.k, l), c), cmd)
        BY DEF sortStoreCommand
    <2> HIDE DEF l
    <2> QED
        BY <1>1, <2>1, <2>2, <2>3, setKeyOver
<1> QED
    BY <1>2, <1>3

\* DEL.
LEMMA delOver ==
    ASSUME NEW s, NEW c, Ready(s, c), NEW cmd \in Requests, cmd.op = "del"
    PROVE  Over(s, delCommand(s, c, cmd), c)
<1> DEFINE k == cmd.k
           d == Write(s, k, None)
           r == touchWatchedKey(d, k)
<1>1. cmd \in Commands /\ k \in Keys
    BY RequestFacts DEF Request
<1>2. CASE s.db[k] = None
    <2>1. delCommand(s, c, cmd) = Answer(s, c)
        BY <1>2 DEF delCommand
    <2> QED
        BY <2>1, ReadyFacts
<1>3. CASE s.db[k] # None
    <2>1. delCommand(s, c, cmd) = Dirty(Answer(r, c), cmd)
        BY <1>3 DEF delCommand, dbDelete, signalModifiedKey
    <2>2. Safe(s, {k}, {}) /\ Turn(s, c, {}, {}) /\ s.db \in [Keys -> Value] /\ Proper(s.db)
        BY ReadyFacts, SafeMore
    <2>3. Replay(s.db, cmd) = [s.db EXCEPT ![k] = None]
        BY ReplayFacts
    <2> HIDE DEF k
    <2>4. None \in Value /\ ProperValue(None) /\ None.t # "list"
        BY ConstantValues DEF ProperValue
    <2>5. MayChange(s, k, {k}) /\ MayBecome(s, k, None, {})
        BY <2>4 DEF MayChange, MayBecome
    <2>6. /\ Safe(d, {k}, {}) /\ Change(s, d, {"db", "overwritten"}, {"stale"}, {})
          /\ d.db = [s.db EXCEPT ![k] = None]
        BY <1>1, <2>2, <2>4, <2>5, WriteSafe
    <2> HIDE DEF d
    <2>7. Turn(d, c, {k}, {}) /\ Kept(s, d)
        BY <2>2, <2>6, DataTurn DEF DataSet
    <2>8. Safe(r, {k} \ {k}, {}) /\ Change(d, r, {}, {}, {"DIRTY_CAS"})
        BY <1>1, <2>6, touchWatchedKeySafe
    <2> HIDE DEF r
    <2>9. Safe(r, {}, {}) /\ r.db = d.db
        <3>1. {k} \ {k} = {}
            OBVIOUS
        <3>2. r.db = d.db
            BY <2>8 DEF Change, Same, ServerFields
        <3> QED
            BY <2>8, <3>1, <3>2
    <2>10. Turn(r, c, {}, {}) /\ Kept(d, r)
        <3>1. {} \subseteq DataSet /\ {} \subseteq {"stale"} /\ {"DIRTY_CAS"} \subseteq {"DIRTY_CAS"}
            OBVIOUS
        <3> QED
            BY <2>7, <2>8, <2>9, <3>1, DataTurn
    <2>11. Kept(s, r)
        BY <2>7, <2>10 DEF Kept
    <2>12. Proper(r.db) /\ r.db = Replay(s.db, cmd)
        BY <1>1, <2>2, <2>3, <2>4, <2>6, <2>9, ProperExcept
    <2> QED
        BY <1>1, <2>1, <2>10, <2>11, <2>12, ToldOver
<1> QED
    BY <1>2, <1>3

\* FLUSHALL.
LEMMA flushallOver ==
    ASSUME NEW s, NEW c, Ready(s, c), NEW cmd \in Requests, cmd.op = "flushall"
    PROVE  Over(s, flushallCommand(s, c, cmd), c)
<1> DEFINE r == emptyDb(touchWatchedKeysOnFlush(s))
<1>1. cmd \in Commands
    BY RequestFacts
<1>2. Safe(s, {}, {}) /\ Turn(s, c, {}, {})
    BY ReadyFacts
<1>3. /\ Safe(r, {}, {}) /\ Change(s, r, DataSet, {"stale"}, {"DIRTY_CAS"})
      /\ r.db = [k \in Keys |-> None]
    BY <1>2, FlushSafe
<1>4. flushallCommand(s, c, cmd) = Dirty(Answer(r, c), cmd)
    BY DEF flushallCommand
<1> HIDE DEF r
<1>5. Turn(r, c, {}, {}) /\ Kept(s, r)
    BY <1>2, <1>3, DataTurn
<1>6. r.db = Replay(s.db, cmd)
    BY <1>3, ReplayFacts
<1>7. Proper(r.db)
    BY <1>3 DEF Proper, None
<1> QED
    BY <1>1, <1>4, <1>5, <1>6, <1>7, ToldOver

-----------------------------------------------------------------------------
(* The command table, and transactions. *)

Callable(s, c, cmd) ==
    /\ cmd \in Requests /\ cmd.op \notin {"exec", "quit", "unknown"}
    /\ IF s.executing THEN cmd \in Queued ELSE s.ready_keys = <<>> /\ s.cl[c].lastcmd = cmd.op
\* Every command of the table.
LEMMA ProcOver ==
    ASSUME NEW s, NEW c, NEW cmd, Ready(s, c), Callable(s, c, cmd)
    PROVE  Over(s, Proc(s, c, cmd), c)
<1>1. Turn(s, c, {}, {}) /\ ~s.dirty /\ Over(s, Answer(s, c), c)
    BY ReadyFacts
<1>2. cmd \in Requests /\ Request(cmd) /\ cmd.timeout \in BOOLEAN /\ cmd.op \in Sent
    BY RequestFacts DEF Callable
<1>3. cmd.op \in {"multi", "discard", "watch"} => ~s.executing /\ s.ready_keys = <<>>
    BY DEF Callable, Queued
<1>4. s.executing \/ s.cl[c].lastcmd = cmd.op
    BY DEF Callable
<1>5. CASE cmd.op = "rpush"
    BY <1>2, <1>5, pushOver DEF Proc
<1>6. CASE cmd.op = "lpop"
    BY <1>2, <1>6, popOver DEF Proc
<1>7. CASE cmd.op = "blpop"
    BY <1>2, <1>7, blockingPopOver DEF Proc
<1>8. CASE cmd.op = "brpop"
    BY <1>2, <1>8, blockingPopOver DEF Proc
<1>9. CASE cmd.op = "brpoplpush"
    BY <1>2, <1>4, <1>9, brpoplpushOver DEF Proc
<1>10. CASE cmd.op = "set"
    BY <1>2, <1>10, setOver DEF Proc
<1>11. CASE cmd.op = "sortstore"
    BY <1>2, <1>11, setOver DEF Proc
<1>12. CASE cmd.op = "del"
    BY <1>2, <1>12, delOver DEF Proc
<1>13. CASE cmd.op = "flushall"
    BY <1>2, <1>13, flushallOver DEF Proc
<1>14. CASE cmd.op = "multi"
    BY <1>1, <1>3, <1>14, multiOver DEF Proc
<1>15. CASE cmd.op = "discard"
    BY <1>1, <1>3, <1>15, discardOver DEF Proc
<1>16. CASE cmd.op = "watch"
    <2>1. cmd.k \in Keys
        BY <1>2, <1>16 DEF Request
    <2> QED
        BY <1>1, <1>3, <1>16, <2>1, watchOver DEF Proc
<1>17. CASE cmd.op = "unwatch"
    BY <1>1, <1>17, unwatchOver DEF Proc
<1>18. CASE cmd.op = "subscribe"
    <2>1. cmd.arg \in Channels
        BY <1>2, <1>18 DEF Request
    <2> QED
        BY <1>1, <1>18, <2>1, subscribeOver DEF Proc
<1>19. CASE cmd.op = "unsubscribe"
    BY <1>1, <1>19, subscribeOver DEF Proc
<1>20. CASE cmd.op = "psubscribe"
    <2>1. cmd.arg \in Patterns
        BY <1>2, <1>20 DEF Request
    <2> QED
        BY <1>1, <1>20, <2>1, subscribeOver DEF Proc
<1>21. CASE cmd.op = "punsubscribe"
    BY <1>1, <1>21, subscribeOver DEF Proc
<1>22. CASE cmd.op = "publish"
    <2>1. cmd.arg \in Channels
        BY <1>2, <1>22 DEF Request
    <2> QED
        BY <1>1, <1>22, <2>1, publishOver DEF Proc
<1>23. CASE cmd.op = "kill"
    <2>1. cmd.arg \in Clients
        BY <1>2, <1>23 DEF Request
    <2> QED
        BY <1>1, <1>23, <2>1, killOver DEF Proc
<1>24. CASE cmd.op = "reply"
    <2>1. cmd.arg \in {"on", "off", "skip"}
        BY <1>2, <1>24 DEF Request
    <2> QED
        BY <1>1, <1>24, <2>1, replyOver DEF Proc
<1>25. CASE cmd.op = "pause"
    BY <1>1, <1>2, <1>25, pauseOver DEF Proc
<1>26. CASE cmd.op = "ping"
    BY <1>1, <1>26 DEF Proc
<1>27. cmd.op \in {"rpush", "lpop", "blpop", "brpop", "brpoplpush", "set", "sortstore", "del",
                   "flushall", "multi", "discard", "watch", "unwatch", "subscribe", "unsubscribe",
                   "psubscribe", "punsubscribe", "publish", "kill", "reply", "pause", "ping"}
    BY <1>2 DEF Callable, Sent, WriteCommands, OtherCommands
<1> QED
    BY <1>5, <1>6, <1>7, <1>8, <1>9, <1>10, <1>11, <1>12, <1>13, <1>14, <1>15, <1>16, <1>17, <1>18,
       <1>19, <1>20, <1>21, <1>22, <1>23, <1>24, <1>25, <1>26, <1>27

\* A command is done: it is answered, or its client waits, and propagated.
Done(s, c) ==
    /\ Safe(s, {}, {}) /\ c \in Open(s) /\ Heard(s, c) /\ Settled(s)
    /\ IF s.executing
       THEN "MULTI" \in s.cl[c].flags /\ Answered(s.cl[c]) /\ "BLOCKED" \notin s.cl[c].flags
       ELSE InTurn(s.cl[c])
\* A command that is over and has been propagated leaves equal data sets.
LEMMA PropagatedDone ==
    ASSUME NEW s, NEW q, NEW c, Over(s, q, c), Settled(s)
    PROVE  Done(Propagated(q), c) /\ Propagated(q).executing = s.executing
<1>1. CASE ~q.dirty
    <2>1. Propagated(q) = q
        BY <1>1 DEF Propagated
    <2>2. q.db = s.db /\ q.replica = s.replica /\ q.executing = s.executing
        BY <1>1 DEF Over, Logged
    <2>3. Settled(q)
        BY <1>1, <2>2 DEF Settled
    <2> QED
        BY <2>1, <2>2, <2>3 DEF Over, Done
<1>2. CASE q.dirty
    <2> DEFINE b == FALSE
               X == Replay(q.replica, q.argv)
               e == PutS(q, "replica", X)
               f == PutS(e, "dirty", b)
               p == PutS(f, "argv", Command)
    <2>1. q \in Server /\ Safe(q, {}, {}) /\ q.replica = s.replica /\ q.executing = s.executing
        BY DEF Over, Safe, Sound
    <2>2. s.replica = s.db /\ q.db = Replay(s.db, q.argv) /\ Proper(q.db)
        BY <1>2 DEF Over, Logged, Settled
    <2>3. X = q.db /\ q.db \in [Keys -> Value]
        BY <2>1, <2>2 DEF Server
    <2>4. Propagated(q) = p
        <3> HIDE DEF X
        <3>1. propagate(q, q.argv) = e
            BY DEF propagate, PutS, X
        <3>2. Propagated(q) = [e EXCEPT !.dirty = FALSE, !.argv = Command]
            BY <1>2, <3>1 DEF Propagated
        <3> HIDE DEF e
        <3> QED
            BY <3>2 DEF PutS
    <2> HIDE DEF X
    <2>5. <<>> \in Seq(Keys) /\ NULL \in Arguments
        BY EmptySeq DEF Arguments
    <2>6. Command \in Commands
        BY <2>5 DEF Command, Commands
    <2>7. ServerOk("replica", X) /\ ServerOk("dirty", b) /\ ServerOk("argv", Command)
        BY <2>3, <2>6 DEF ServerOk
    <2> HIDE DEF b
    <2>8. Change(q, e, {"replica"}, {}, {}) /\ e \in Server
        BY <2>1, <2>7, PutServer DEF Change
    <2>9. e.replica = X
        BY <2>1 DEF PutS, Server
    <2> HIDE DEF e
    <2>10. Change(e, f, {"dirty"}, {}, {}) /\ f \in Server
        BY <2>7, <2>8, PutServer DEF Change
    <2>11. f.dirty = b
        BY <2>8 DEF PutS, Server
    <2> HIDE DEF f
    <2>12. Change(f, p, {"argv"}, {}, {})
        BY <2>7, <2>10, PutServer
    <2> HIDE DEF p
    <2>13. f.replica = X
        BY <2>9, <2>10 DEF Change, Same, ServerFields
    <2>14. p.replica = X /\ p.dirty = b
        BY <2>11, <2>12, <2>13 DEF Change, Same, ServerFields
    <2>15. Change(q, p, {"replica", "dirty", "argv"}, {}, {})
        <3>1. Change(q, f, {"replica"} \cup {"dirty"}, {} \cup {}, {} \cup {})
            BY <2>8, <2>10, ChangeTrans
        <3>2. Change(q, f, {"replica", "dirty"}, {}, {})
            BY <3>1, ChangeMore
        <3>3. Change(q, p, {"replica", "dirty"} \cup {"argv"}, {} \cup {}, {} \cup {})
            BY <2>12, <3>2, ChangeTrans
        <3> QED
            BY <3>3, ChangeMore
    <2>16. Safe(p, {}, {})
        BY <2>1, <2>15, PrivateSafe DEF PlainFields
    <2>17. p.db = q.db /\ p.executing = q.executing
        BY <2>15 DEF Change, Same, ServerFields
    <2>18. Open(p) = Open(q)
        BY <2>15, Frame
    <2>19. ASSUME NEW x \in Clients
           PROVE  /\ InTurn(p.cl[x]) <=> InTurn(q.cl[x])
                  /\ Answered(p.cl[x]) <=> Answered(q.cl[x])
                  /\ \A g : g \in p.cl[x].flags <=> g \in q.cl[x].flags
        <3>1. Alike(q.cl[x], p.cl[x], {}, {})
            BY <2>15 DEF Change
        <3>2. \A g : g \in p.cl[x].flags <=> g \in q.cl[x].flags
            BY <3>1 DEF Alike
        <3>3. {} \cap VoiceFields = {} /\ {} \cap VoiceFlags = {}
            OBVIOUS
        <3> QED
            BY <3>1, <3>2, <3>3, VoiceFrame
    <2>20. Heard(p, c)
        BY <2>19 DEF Over, Heard
    <2>21. c \in Open(p) /\ c \in Clients
        BY <2>18 DEF Over, Open
    <2>22. ~p.dirty
        BY <2>14 DEF b
    <2>23. Settled(p)
        BY <2>2, <2>3, <2>14, <2>17, <2>22 DEF Settled
    <2> QED
        BY <2>1, <2>4, <2>16, <2>17, <2>19, <2>20, <2>21, <2>23 DEF Over, Done
<1> QED
    BY <1>1, <1>2

\* The commands of a transaction, one after the other.
Executing(p, n, q) == Ready(q, p.c) /\ q.executing /\ Settled(q)
ExecStep(p, q, cmd) == Propagated(Proc(q, p.c, cmd))
Transaction == INSTANCE Loops WITH Step <- ExecStep, Holds <- Executing

\* Between two commands of a transaction.
LEMMA DoneReady ==
    ASSUME NEW s, NEW c, Done(s, c), s.executing
    PROVE  Ready(s, c) /\ Settled(s)
BY DEF Done, Ready, Turn, Settled

\* The queued commands of a transaction, one after the other.
LEMMA ExecutedDone ==
    ASSUME NEW s, NEW c, Ready(s, c), s.executing, Settled(s), NEW l \in Seq(Queued)
    PROVE  Ready(Executed(s, c, l), c) /\ Executed(s, c, l).executing /\ Settled(Executed(s, c, l))
<1> DEFINE p == [c |-> c]
           q == Transaction!Loop(p, s, l)
<1>1. Executed(s, c, l) = q
    BY DEF Executed, Transaction!Loop, ExecStep
<1>2. p.c = c
    OBVIOUS
<1>3. Len(l) \in Nat /\ \A n \in 1..Len(l) : l[n] \in Queued
    BY LenProperties, ElementOfSeq
<1> HIDE DEF p, q
<1>4. Executing(p, 0, s)
    BY <1>2 DEF Executing
<1>5. ASSUME NEW n \in 1..Len(l), NEW r, Executing(p, n - 1, r)
      PROVE  Executing(p, n, ExecStep(p, r, l[n]))
    <2> DEFINE cmd == l[n]
               d == Proc(r, c, cmd)
    <2>1. Ready(r, c) /\ r.executing /\ Settled(r)
        BY <1>2, <1>5 DEF Executing
    <2>2. cmd \in Queued
        BY <1>3
    <2>3. ExecStep(p, r, l[n]) = Propagated(d)
        BY <1>2 DEF ExecStep
    <2> HIDE DEF cmd
    <2>4. Callable(r, c, cmd)
        BY <2>1, <2>2 DEF Callable, Queued
    <2>5. Over(r, d, c)
        BY <2>1, <2>4, ProcOver
    <2> HIDE DEF d
    <2>6. Done(Propagated(d), c) /\ Propagated(d).executing
        BY <2>1, <2>5, PropagatedDone
    <2>7. Ready(Propagated(d), c) /\ Settled(Propagated(d))
        BY <2>6, DoneReady
    <2> QED
        BY <1>2, <2>3, <2>6, <2>7 DEF Executing
<1>6. Executing(p, Len(l), q)
    BY <1>3, <1>4, <1>5, Transaction!LoopHolds DEF q
<1> QED
    BY <1>1, <1>2, <1>6 DEF Executing

\* A command that answered and left the data set alone is done.
LEMMA CalmDone ==
    ASSUME NEW s, NEW q, NEW c, Spoken(q, c, {}, {}), Calm(s, q), Settled(s), ~s.executing
    PROVE  Done(q, c) /\ ~q.executing
<1>1. ~q.executing /\ Settled(q)
    BY DEF Calm, Settled
<1>2. InTurn(q.cl[c])
    BY DEF Spoken, InTurn
<1> QED
    BY <1>1, <1>2 DEF Done, Spoken

\* discardTransaction after the answer.
LEMMA DiscardSpoken ==
    ASSUME NEW s, NEW c, Spoken(s, c, {}, {}), ~s.executing
    PROVE  Spoken(discardTransaction(s, c), c, {}, {}) /\ Calm(s, discardTransaction(s, c))
<1> DEFINE d == discardTransaction(s, c)
           F == {"watched_keys", "stale", "mstate", "refused"}
           G == {"MULTI", "DIRTY_CAS", "DIRTY_EXEC"}
<1>1. Safe(s, {}, {}) /\ s \in Server /\ c \in Open(s)
    BY SpokenFacts
<1>2. Safe(d, {}, {}) /\ Change(s, d, {"watched_keys"}, F, G)
    BY <1>1, discardTransactionSafe
<1> HIDE DEF d
<1>3. Quiet(s, {"watched_keys"}, F, G)
    BY DEF Quiet, VoiceFlags, VoiceFields, Loud
<1> HIDE DEF F, G
<1>4. Spoken(d, c, {}, {}) /\ Calm(s, d)
    BY <1>2, <1>3, QuietTurn
<1> QED
    BY <1>4 DEF d

\* Entering and leaving the execution of a transaction.
LEMMA ExecutingPut ==
    ASSUME NEW s \in Server, NEW c, Safe(s, {}, {}), NEW b \in BOOLEAN
    PROVE  LET q == PutS(s, "executing", b)
           IN  /\ Safe(q, {}, {}) /\ q.cl = s.cl /\ q.executing = b /\ q.db = s.db
               /\ q.replica = s.replica /\ q.dirty = s.dirty
<1> DEFINE q == PutS(s, "executing", b)
<1>1. ServerOk("executing", b)
    BY DEF ServerOk
<1>2. Change(s, q, {"executing"}, {}, {}) /\ q.cl = s.cl
    BY <1>1, PutServer
<1>3. q.executing = b
    BY DEF PutS, Server
<1> HIDE DEF q
<1>4. Safe(q, {}, {})
    BY <1>2, PrivateSafe DEF PlainFields
<1>5. q.db = s.db /\ q.replica = s.replica /\ q.dirty = s.dirty
    BY <1>2 DEF Change, Same, ServerFields
<1> QED
    BY <1>2, <1>3, <1>4, <1>5 DEF q

\* EXEC: refused, aborted or run; it never runs with a stale key.
LEMMA execDone ==
    ASSUME NEW s, NEW c, Ready(s, c), Settled(s), ~s.executing
    PROVE  Done(execCommand(s, c), c) /\ ~execCommand(s, c).executing
<1> DEFINE a == Answer(s, c)
<1>1. Turn(s, c, {}, {}) /\ Safe(s, {}, {}) /\ s \in Server /\ c \in Open(s) /\ c \in Clients
    BY ReadyFacts
<1>2. Spoken(a, c, {}, {}) /\ Calm(s, a) /\ Replied(s, a, c, {"pending", "answers"})
    BY <1>1, AnswerSpoken
<1>3. CASE ~Has(s, c, "MULTI")
    <2>1. execCommand(s, c) = a
        BY <1>3 DEF execCommand
    <2> HIDE DEF a
    <2> QED
        BY <1>2, <2>1, CalmDone
<1>4. CASE Has(s, c, "MULTI") /\ (Has(s, c, "DIRTY_CAS") \/ Has(s, c, "DIRTY_EXEC"))
    <2>1. execCommand(s, c) = discardTransaction(a, c)
        BY <1>4 DEF execCommand
    <2> HIDE DEF a
    <2>2. ~a.executing
        BY <1>2 DEF Calm
    <2>3. Spoken(discardTransaction(a, c), c, {}, {}) /\ Calm(a, discardTransaction(a, c))
        BY <1>2, <2>2, DiscardSpoken
    <2>4. Calm(s, discardTransaction(a, c))
        BY <1>2, <2>3 DEF Calm
    <2> QED
        BY <2>1, <2>3, <2>4, CalmDone
<1>5. CASE Has(s, c, "MULTI") /\ ~Has(s, c, "DIRTY_CAS") /\ ~Has(s, c, "DIRTY_EXEC")
    <2> DEFINE b == unwatchAllKeys(a, c)
               q == PutS(b, "executing", TRUE)
               l == s.cl[c].mstate
               x == Executed(q, c, l)
               y == PutS(x, "executing", FALSE)
               z == discardTransaction(y, c)
               v == b.cl[c].broken \/ s.cl[c].stale # {} \/ s.cl[c].refused
               w == [b EXCEPT !.cl[c].broken = v, !.executing = TRUE]
    <2>1. execCommand(s, c) =
              discardTransaction([Executed(w, c, l) EXCEPT !.executing = FALSE], c)
        BY <1>5 DEF execCommand
    <2>2. s.cl[c] \in Client /\ l \in Seq(Queued)
        <3>1. s.cl[c] \in Client
            BY <1>1, ClientOf
        <3> QED
            BY <3>1 DEF Client
    <2>3. s.cl[c].stale = {} /\ ~s.cl[c].refused
        <3>1. ToldClient(s.cl[c], {})
            BY <1>1 DEF Safe, Told
        <3> QED
            BY <1>5, <3>1 DEF ToldClient, Dirtied, Has
    <2> HIDE DEF a, l
    <2>4. Safe(b, {}, {}) /\ Change(a, b, {"watched_keys"}, {"watched_keys", "stale"}, {})
        <3>1. Safe(a, {}, {}) /\ c \in Open(a)
            BY <1>2, SpokenFacts
        <3> QED
            BY <3>1, unwatchAllKeysSafe
    <2> HIDE DEF b
    <2>5. Spoken(b, c, {}, {}) /\ Calm(a, b)
        <3>1. Quiet(a, {"watched_keys"}, {"watched_keys", "stale"}, {})
            BY DEF Quiet, VoiceFields, Loud
        <3> QED
            BY <1>2, <2>4, <3>1, QuietTurn
    <2>6. "MULTI" \in b.cl[c].flags
        <3>1. "MULTI" \in a.cl[c].flags
            BY <1>1, <1>2, <1>5 DEF Replied, Change, Alike, ReplyFlags, Has
        <3> QED
            BY <1>1, <2>4, <3>1 DEF Change, Alike
    <2>7. b \in Server /\ b.cl[c] \in Client
        <3>1. b \in Server
            BY <2>5, SpokenFacts
        <3> QED
            BY <1>1, <3>1, ClientOf
    <2>8. b.cl[c].broken = FALSE
        <3>1. ~b.cl[c].broken
            BY <1>1, <2>4 DEF Safe, Told, ToldClient
        <3> QED
            BY <2>7, <3>1 DEF Client
    <2>9. v = FALSE
        BY <2>3, <2>8
    <2> HIDE DEF v
    <2>10. w = q
        <3> DEFINE f == FALSE
                   r == b.cl[c]
                   e == [b EXCEPT !.cl[c].broken = f]
        <3>1. w = [e EXCEPT !.executing = TRUE]
            BY <2>9
        <3> HIDE DEF f
        <3>2. r.broken = f /\ r \in Client
            BY <2>7, <2>8 DEF f
        <3>3. [r EXCEPT !.broken = f] = r
            <4> HIDE DEF r
            <4> QED
                BY <3>2 DEF Client
        <3>4. e = [b EXCEPT !.cl = [b.cl EXCEPT ![c] = [r EXCEPT !.broken = f]]]
            OBVIOUS
        <3>5. [b.cl EXCEPT ![c] = r] = b.cl
            BY <1>1, <2>7 DEF Server
        <3>6. e = b
            BY <2>7, <3>3, <3>4, <3>5 DEF Server
        <3> QED
            BY <3>1, <3>6 DEF PutS
    <2>11. execCommand(s, c) = z
        BY <2>1, <2>10 DEF PutS
    <2>12. /\ Safe(q, {}, {}) /\ q.cl = b.cl /\ q.executing = TRUE /\ q.db = b.db
           /\ q.replica = b.replica /\ q.dirty = b.dirty
        BY <2>4, <2>7, ExecutingPut
    <2> HIDE DEF q
    <2>13. Ready(q, c) /\ q.executing /\ Settled(q)
        <3>1. Settled(q)
            BY <1>2, <2>5, <2>12 DEF Settled, Calm
        <3>2. c \in Open(q) /\ Heard(q, c)
            BY <2>5, <2>12 DEF Spoken, Open, Heard
        <3>3. Turn(q, c, {}, {})
            BY <2>5, <2>6, <2>12, <3>2 DEF Turn, Spoken
        <3> QED
            BY <2>12, <3>1, <3>3 DEF Ready, Settled
    <2>14. Ready(x, c) /\ x.executing /\ Settled(x)
        BY <2>2, <2>13, ExecutedDone
    <2> HIDE DEF x
    <2>15. Turn(x, c, {}, {}) /\ Safe(x, {}, {}) /\ x \in Server
        BY <2>14, ReadyFacts
    <2>16. /\ Safe(y, {}, {}) /\ y.cl = x.cl /\ y.executing = FALSE /\ y.db = x.db
           /\ y.replica = x.replica /\ y.dirty = x.dirty
        BY <2>15, ExecutingPut
    <2> HIDE DEF y
    <2>17. c \in Open(y) /\ Heard(y, c)
        BY <2>15, <2>16 DEF Turn, Open, Heard
    <2>18. Spoken(y, c, {}, {})
        BY <2>14, <2>15, <2>16, <2>17 DEF Turn, Spoken
    <2>19. Settled(y)
        BY <2>14, <2>16 DEF Settled
    <2>20. Spoken(z, c, {}, {}) /\ Calm(y, z)
        BY <2>16, <2>18, DiscardSpoken
    <2> HIDE DEF z
    <2> QED
        BY <2>11, <2>16, <2>19, <2>20, CalmDone
<1> QED
    BY <1>3, <1>4, <1>5

\* A command that only answers is done.
LEMMA AnswerDone ==
    ASSUME NEW s, NEW q, NEW c, Turn(q, c, {}, {}), Calm(s, q), Settled(s), ~s.executing
    PROVE  Done(Answer(q, c), c) /\ ~Answer(q, c).executing
<1>1. Spoken(Answer(q, c), c, {}, {}) /\ Calm(q, Answer(q, c))
    BY AnswerSpoken
<1>2. Calm(s, Answer(q, c))
    BY <1>1 DEF Calm
<1> QED
    BY <1>1, <1>2, CalmDone

\* call.
LEMMA callDone ==
    ASSUME NEW s, NEW c, Ready(s, c), Settled(s), ~s.executing, s.ready_keys = <<>>,
           NEW cmd \in Requests, cmd.op \notin {"quit", "unknown"}, s.cl[c].lastcmd = cmd.op
    PROVE  Done(call(s, c, cmd), c) /\ ~call(s, c, cmd).executing
<1>1. CASE cmd.op = "exec"
    BY <1>1, execDone DEF call
<1>2. CASE cmd.op # "exec"
    <2> DEFINE d == Proc(s, c, cmd)
    <2>1. call(s, c, cmd) = Propagated(d)
        BY <1>2 DEF call
    <2>2. Callable(s, c, cmd)
        BY <1>2 DEF Callable
    <2>3. Over(s, d, c)
        BY <2>2, ProcOver
    <2> HIDE DEF d
    <2> QED
        BY <2>1, <2>3, PropagatedDone
<1> QED
    BY <1>1, <1>2

\* The name of the last command of a client that does not wait.
LEMMA LastcmdTurn ==
    ASSUME NEW s, NEW c, Turn(s, c, {}, {}), NEW op \in Sent
    PROVE  LET q == PutC(s, c, "lastcmd", op)
           IN  /\ Turn(q, c, {}, {}) /\ Calm(s, q) /\ q.ready_keys = s.ready_keys
               /\ q.cl[c].lastcmd = op /\ q.slave = s.slave
<1> DEFINE q == PutC(s, c, "lastcmd", op)
<1>1. Safe(s, {}, {}) /\ s \in Server /\ c \in Open(s) /\ c \in Clients
    BY TurnFacts
<1>2. FieldOk("lastcmd", op)
    BY DEF FieldOk
<1>3. /\ Change(s, q, {}, {"lastcmd"}, {}) /\ Others(s, q, c)
      /\ q.cl[c] = With(s.cl[c], "lastcmd", op)
    BY <1>1, <1>2, PutField
<1> HIDE DEF q
<1>4. s.cl[c] \in Client
    BY <1>1, ClientOf
<1>5. q.cl[c].lastcmd = op
    BY <1>3, <1>4 DEF With, Client
<1>6. Open(q) = Open(s)
    BY <1>3, Frame
<1>7. BlockedClients(q)
    <2> SUFFICES ASSUME NEW x \in Open(q) PROVE BlockedClient(q.cl[x])
        BY DEF BlockedClients
    <2>1. BlockedClient(s.cl[x]) /\ x \in Clients
        BY <1>1, <1>6 DEF Safe, Sound, BlockedClients, Open
    <2>2. CASE x = c
        <3>1. s.cl[c].bpop.keys = {} /\ s.cl[c].bpop.target = NULL /\ "BLOCKED" \notin s.cl[c].flags
            BY <2>1, <2>2 DEF BlockedClient, Turn
        <3>2. Alike(s.cl[c], q.cl[c], {"lastcmd"}, {})
            BY <1>1, <1>3 DEF Change
        <3>3. q.cl[c].bpop = s.cl[c].bpop /\ "BLOCKED" \notin q.cl[c].flags
            BY <3>1, <3>2 DEF Alike, ClientFields
        <3> QED
            BY <2>2, <3>1, <3>3 DEF BlockedClient
    <2>3. CASE x # c
        BY <1>3, <2>1, <2>3 DEF Others
    <2> QED
        BY <2>2, <2>3
<1>8. q \in Server
    BY <1>3 DEF Change
<1>9. Sound(q)
    <2>1. Sound(s)
        BY <1>1 DEF Safe
    <2> QED
        BY <1>3, <1>7, <1>8, <2>1, Frame DEF Sound
<1>10. Noticed(q, {}) /\ Told(q, {}, {})
    <2>1. Noticed(s, {}) /\ Told(s, {}, {})
        BY <1>1 DEF Safe
    <2> QED
        BY <1>3, <2>1, NoticedFrame, ToldFrame
<1>11. Safe(q, {}, {})
    BY <1>9, <1>10 DEF Safe
<1>12. Quiet(s, {}, {"lastcmd"}, {})
    BY DEF Quiet, VoiceFields
<1>13. Turn(q, c, {}, {}) /\ Calm(s, q)
    BY <1>3, <1>11, <1>12, QuietTurn
<1>14. q.ready_keys = s.ready_keys /\ q.slave = s.slave
    BY <1>3 DEF Change, Same, ServerFields
<1> QED
    BY <1>5, <1>13, <1>14 DEF q

\* A command queued in a transaction.
LEMMA queueDone ==
    ASSUME NEW s, NEW c, Turn(s, c, {}, {}), NEW cmd \in Queued
    PROVE  LET q == queueMultiCommand(s, c, cmd)
           IN  Turn(q, c, {}, {}) /\ Calm(s, q)
<1> DEFINE v == Append(s.cl[c].mstate, cmd)
           q == PutC(s, c, "mstate", v)
<1>1. Safe(s, {}, {}) /\ s \in Server /\ c \in Clients
    BY TurnFacts
<1>2. queueMultiCommand(s, c, cmd) = q
    BY DEF queueMultiCommand, PutC, Put, With
<1>3. v \in Seq(Queued)
    <2>1. s.cl[c].mstate \in Seq(Queued)
        BY <1>1, ClientOf DEF Client
    <2> QED
        BY <2>1, AppendProperties
<1> HIDE DEF v
<1>4. FieldOk("mstate", v)
    BY <1>3 DEF FieldOk
<1>5. Change(s, q, {}, {"mstate"}, {})
    BY <1>1, <1>4, PutField
<1> HIDE DEF q
<1>6. Safe(q, {}, {})
    BY <1>1, <1>5, PrivateSafe DEF TableFields
<1>7. Quiet(s, {}, {"mstate"}, {})
    BY DEF Quiet, VoiceFields
<1> QED
    BY <1>2, <1>5, <1>6, <1>7, QuietTurn

\* A command that is refused when it should be queued spoils the transaction.
LEMMA flagTransactionTurn ==
    ASSUME NEW s, NEW c, Turn(s, c, {}, {})
    PROVE  LET q == flagTransaction(s, c)
           IN  /\ Turn(q, c, {}, {}) /\ Calm(s, q)
               /\ Has(s, c, "MULTI") => "DIRTY_EXEC" \in q.cl[c].flags
<1> DEFINE q == Set(s, c, "DIRTY_EXEC")
<1>1. Safe(s, {}, {}) /\ s \in Server /\ c \in Clients
    BY TurnFacts
<1>2. /\ Change(s, q, {}, {}, {"DIRTY_EXEC"}) /\ Others(s, q, c)
      /\ q.cl[c].flags = s.cl[c].flags \cup {"DIRTY_EXEC"}
    BY <1>1, SetChange DEF FlagNames
<1>3. /\ Has(s, c, "MULTI") => flagTransaction(s, c) = q
      /\ ~Has(s, c, "MULTI") => flagTransaction(s, c) = s
    BY DEF flagTransaction
<1> HIDE DEF q
<1>4. Sound(q)
    <2>1. Sound(s) /\ q \in Server
        BY <1>1, <1>2 DEF Safe, Change
    <2> QED
        BY <1>2, <2>1, Frame DEF Sound
<1>5. Noticed(q, {})
    <2>1. Noticed(s, {})
        BY <1>1 DEF Safe
    <2> QED
        BY <1>2, <2>1, NoticedFrame
<1>6. Told(q, {}, {})
    <2>1. Told(s, {}, {}) /\ q.watched_keys = s.watched_keys /\ q.ready_keys = s.ready_keys
        BY <1>1, <1>2 DEF Safe, Change, Same, ServerFields
    <2>2. ASSUME NEW x \in Clients
          PROVE  /\ q.cl[x].stale = s.cl[x].stale /\ q.cl[x].refused = s.cl[x].refused
                 /\ q.cl[x].broken = s.cl[x].broken /\ (Dirtied(s.cl[x]) => Dirtied(q.cl[x]))
                 /\ "DIRTY_EXEC" \in s.cl[x].flags => "DIRTY_EXEC" \in q.cl[x].flags
        <3>1. Alike(s.cl[x], q.cl[x], {}, {"DIRTY_EXEC"})
            BY <1>2 DEF Change
        <3>2. CASE x = c
            BY <1>2, <3>1, <3>2 DEF Alike, ClientFields, Dirtied
        <3>3. CASE x # c
            BY <1>2, <3>3 DEF Others
        <3> QED
            BY <3>2, <3>3
    <2>3. \A x \in Clients : ToldClient(q.cl[x], {})
        BY <2>1, <2>2 DEF Told, ToldClient
    <2> QED
        BY <2>1, <2>2, <2>3 DEF Told
<1>7. Safe(q, {}, {})
    BY <1>4, <1>5, <1>6 DEF Safe
<1>8. Quiet(s, {}, {}, {"DIRTY_EXEC"})
    BY DEF Quiet, VoiceFlags
<1>9. Turn(q, c, {}, {}) /\ Calm(s, q)
    BY <1>2, <1>7, <1>8, QuietTurn
<1>10. Calm(s, s)
    BY DEF Calm
<1>11. "DIRTY_EXEC" \in q.cl[c].flags
    BY <1>2
<1> QED
    BY <1>3, <1>9, <1>10, <1>11

\* A refused command is remembered if the transaction is flagged.
LEMMA RefusedSpoken ==
    ASSUME NEW s, NEW c, Spoken(s, c, {}, {}), NEW m \in BOOLEAN,
           m => "DIRTY_EXEC" \in s.cl[c].flags
    PROVE  LET q == PutC(s, c, "refused", m)
           IN  Spoken(q, c, {}, {}) /\ Calm(s, q)
<1> DEFINE q == PutC(s, c, "refused", m)
<1>1. Safe(s, {}, {}) /\ s \in Server /\ c \in Clients
    BY SpokenFacts
<1>2. FieldOk("refused", m)
    BY DEF FieldOk
<1>3. /\ Change(s, q, {}, {"refused"}, {}) /\ Others(s, q, c)
      /\ q.cl[c] = With(s.cl[c], "refused", m)
    BY <1>1, <1>2, PutField
<1> HIDE DEF q
<1>4. Sound(q)
    <2>1. Sound(s) /\ q \in Server
        BY <1>1, <1>3 DEF Safe, Change
    <2> QED
        BY <1>3, <2>1, Frame DEF Sound
<1>5. Noticed(q, {})
    <2>1. Noticed(s, {})
        BY <1>1 DEF Safe
    <2> QED
        BY <1>3, <2>1, NoticedFrame
<1>6. Told(q, {}, {})
    <2>1. Told(s, {}, {}) /\ q.watched_keys = s.watched_keys /\ q.ready_keys = s.ready_keys
        BY <1>1, <1>3 DEF Safe, Change, Same, ServerFields
    <2>2. s.cl[c] \in Client
        BY <1>1, ClientOf
    <2>3. q.cl[c].refused = m
        BY <1>3, <2>2 DEF With, Client
    <2>4. ASSUME NEW x \in Clients
          PROVE  /\ q.cl[x].stale = s.cl[x].stale
                 /\ q.cl[x].broken = s.cl[x].broken /\ (Dirtied(s.cl[x]) <=> Dirtied(q.cl[x]))
                 /\ "DIRTY_EXEC" \in s.cl[x].flags <=> "DIRTY_EXEC" \in q.cl[x].flags
        <3>1. Alike(s.cl[x], q.cl[x], {"refused"}, {})
            BY <1>3 DEF Change
        <3> QED
            BY <3>1 DEF Alike, ClientFields, Dirtied
    <2>5. \A x \in Clients : x # c => q.cl[x] = s.cl[x]
        BY <1>3 DEF Others
    <2>6. ASSUME NEW x \in Clients PROVE q.cl[x].refused => "DIRTY_EXEC" \in q.cl[x].flags
        BY <2>1, <2>3, <2>4, <2>5 DEF Told, ToldClient
    <2>7. \A x \in Clients : ToldClient(q.cl[x], {})
        BY <2>1, <2>4, <2>6 DEF Told, ToldClient
    <2> QED
        BY <2>1, <2>4, <2>7 DEF Told
<1>7. Safe(q, {}, {})
    BY <1>4, <1>5, <1>6 DEF Safe
<1>8. Quiet(s, {}, {"refused"}, {})
    BY DEF Quiet, VoiceFields
<1>9. Spoken(q, c, {}, {}) /\ Calm(s, q)
    BY <1>3, <1>7, <1>8, QuietTurn
<1> QED
    BY <1>9 DEF q

\* processCommand, whatever the command.
LEMMA processCommandDone ==
    ASSUME NEW s, NEW c, Turn(s, c, {}, {}), Settled(s), ~s.executing, s.ready_keys = <<>>,
           NEW cmd \in Requests
    PROVE  Done(processCommand(s, c, cmd), c) /\ ~processCommand(s, c, cmd).executing
<1> DEFINE q == PutC(s, c, "lastcmd", cmd.op)
<1>1. cmd.op \in Sent
    BY RequestFacts
<1>2. [s EXCEPT !.cl[c].lastcmd = cmd.op] = q
    BY DEF PutC, Put, With
<1>3. /\ Turn(q, c, {}, {}) /\ Calm(s, q) /\ q.ready_keys = <<>>
      /\ q.cl[c].lastcmd = cmd.op /\ q.slave = s.slave
    BY <1>1, LastcmdTurn
<1>4. CASE cmd.op = "quit"
    <2> DEFINE a == Answer(s, c)
               b == Set(a, c, "CLOSE_AFTER_REPLY")
    <2>1. processCommand(s, c, cmd) = b
        BY <1>4 DEF processCommand, WriteCommands
    <2>2. Spoken(a, c, {}, {}) /\ Calm(s, a)
        BY AnswerSpoken
    <2> HIDE DEF a
    <2>3. Spoken(b, c, {}, {}) /\ Calm(a, b)
        BY <2>2, CloseAfterReply
    <2> HIDE DEF b
    <2>4. Calm(s, b)
        BY <2>2, <2>3 DEF Calm
    <2> QED
        BY <2>1, <2>3, <2>4, CalmDone
<1>5. CASE cmd.op = "unknown"
    <2> DEFINE a == flagTransaction(q, c)
               b == Answer(a, c)
               m == Has(q, c, "MULTI")
               r == PutC(b, c, "refused", m)
    <2>1. processCommand(s, c, cmd) = [b EXCEPT !.cl[c].refused = m]
        BY <1>2, <1>5 DEF processCommand, WriteCommands
    <2> HIDE DEF q
    <2>2. Turn(a, c, {}, {}) /\ Calm(q, a) /\ (m => "DIRTY_EXEC" \in a.cl[c].flags)
        BY <1>3, flagTransactionTurn
    <2>3. m \in BOOLEAN
        BY DEF Has
    <2> HIDE DEF a, m
    <2>4. /\ Spoken(b, c, {}, {}) /\ Calm(a, b) /\ Replied(a, b, c, {"pending", "answers"})
        BY <2>2, AnswerSpoken
    <2> HIDE DEF b
    <2>5. m => "DIRTY_EXEC" \in b.cl[c].flags
        <3>1. c \in Clients
            BY <2>2, TurnFacts
        <3>2. Alike(a.cl[c], b.cl[c], {"pending", "answers"}, ReplyFlags)
            BY <2>4, <3>1 DEF Replied, Change
        <3> QED
            BY <2>2, <3>2 DEF Alike, ReplyFlags
    <2>6. Spoken(r, c, {}, {}) /\ Calm(b, r)
        BY <2>3, <2>4, <2>5, RefusedSpoken
    <2>7. processCommand(s, c, cmd) = r
        BY <2>1 DEF PutC, Put, With
    <2> HIDE DEF r
    <2>8. Calm(s, r)
        BY <1>3, <2>2, <2>4, <2>6 DEF Calm
    <2> QED
        BY <2>6, <2>7, <2>8, CalmDone
<1>6. CASE cmd.op \notin {"quit", "unknown"}
    <2> DEFINE shut == \/ cmd.op \in WriteCommands /\ s.slave
                       \/ /\ Has(q, c, "PUBSUB")
                          /\ cmd.op \notin {"ping", "subscribe", "unsubscribe", "psubscribe",
                                            "punsubscribe"}
               later == Has(q, c, "MULTI") /\ cmd.op \notin {"exec", "discard", "multi", "watch"}
    <2>1. CASE shut
        <3>1. processCommand(s, c, cmd) = Answer(q, c)
            BY <1>2, <1>6, <2>1 DEF processCommand
        <3> HIDE DEF q
        <3> QED
            BY <1>3, <3>1, AnswerDone
    <2>2. CASE ~shut /\ later
        <3> DEFINE b == queueMultiCommand(q, c, cmd)
        <3>1. processCommand(s, c, cmd) = Answer(b, c)
            BY <1>2, <1>6, <2>2 DEF processCommand
        <3>2. cmd \in Queued
            BY <1>6, <2>2 DEF Queued
        <3> HIDE DEF q
        <3>3. Turn(b, c, {}, {}) /\ Calm(q, b)
            BY <1>3, <3>2, queueDone
        <3> HIDE DEF b
        <3>4. Calm(s, b)
            BY <1>3, <3>3 DEF Calm
        <3> QED
            BY <3>1, <3>3, <3>4, AnswerDone
    <2>3. CASE ~shut /\ ~later
        <3>1. processCommand(s, c, cmd) = call(q, c, cmd)
            BY <1>2, <1>6, <2>3 DEF processCommand
        <3> HIDE DEF q
        <3>2. Settled(q) /\ ~q.executing
            BY <1>3 DEF Calm, Settled
        <3>3. Ready(q, c)
            BY <1>3, <3>2 DEF Ready, Settled
        <3> QED
            BY <1>3, <1>6, <3>1, <3>2, <3>3, callDone
    <2> QED
        BY <2>1, <2>2, <2>3
<1> QED
    BY <1>4, <1>5, <1>6

-----------------------------------------------------------------------------
(* The event loop, between commands. *)

Fine(s) ==
    /\ Safe(s, {}, {}) /\ Settled(s) /\ ~s.executing
    /\ \A c \in Clients : InTurn(s.cl[c])

\* What holds between commands.
LEMMA FineFacts ==
    ASSUME NEW s, Fine(s)
    PROVE  Safe(s, {}, {}) /\ s \in Server /\ Sound(s) /\ Noticed(s, {}) /\ Told(s, {}, {})
BY DEF Fine, Safe, Sound

\* After a command that is done.
LEMMA DoneFine ==
    ASSUME NEW s, NEW c, Done(s, c), ~s.executing
    PROVE  Fine(s) /\ c \in Open(s)
BY DEF Done, Fine, Heard

\* A step that leaves data set and transaction alone and everybody in turn.
LEMMA CalmFine ==
    ASSUME NEW s, NEW q, Fine(s), Calm(s, q), Safe(q, {}, {}), \A c \in Clients : InTurn(q.cl[c])
    PROVE  Fine(q)
BY DEF Fine, Calm, Settled

\* A step that leaves data set and answers alone.
LEMMA FineFrame ==
    ASSUME NEW s, NEW q, NEW S, NEW F, NEW G, Fine(s), Change(s, q, S, F, G), Safe(q, {}, {}),
           S \cap Loud = {}, F \cap VoiceFields = {}, G \cap VoiceFlags = {}
    PROVE  Fine(q) /\ Open(q) = Open(s)
<1>1. Same(s, q, S)
    BY DEF Change
<1>2. Calm(s, q)
    BY <1>1, CalmFrame
<1>3. "executing" \notin S /\ "state" \notin F
    BY DEF Loud, VoiceFields
<1>4. ~s.executing /\ \A c \in Clients : InTurn(s.cl[c])
    BY DEF Fine
<1>5. \A c \in Clients : InTurn(q.cl[c])
    BY <1>3, <1>4, TurnFrame
<1>6. Open(q) = Open(s)
    BY <1>3, Frame
<1> QED
    BY <1>2, <1>5, <1>6, CalmFine

\* A step that changes one client.
LEMMA FineOne ==
    ASSUME NEW s, NEW q, NEW c, NEW S, Fine(s), Same(s, q, S), Others(s, q, c), Safe(q, {}, {}),
           S \cap Loud = {}, InTurn(q.cl[c])
    PROVE  Fine(q)
<1>1. Calm(s, q)
    BY CalmFrame
<1>2. \A x \in Clients : InTurn(q.cl[x])
    BY DEF Fine, Others
<1> QED
    BY <1>1, <1>2, CalmFine

\* resetClient.
LEMMA resetClientFine ==
    ASSUME NEW s, NEW c, Fine(s), c \in Open(s)
    PROVE  /\ Fine(resetClient(s, c)) /\ Open(resetClient(s, c)) = Open(s)
           /\ resetClient(s, c).ready_keys = s.ready_keys
<1> DEFINE G == {"REPLY_SKIP", "REPLY_SKIP_NEXT"}
           b == Clear(s, c, G)
           q == resetClient(s, c)
<1>1. Safe(s, {}, {}) /\ s \in Server /\ c \in Clients
    BY FineFacts DEF Open
<1>2. Change(s, b, {}, {}, G) /\ Others(s, b, c) /\ b.cl[c].flags = s.cl[c].flags \ G
    BY <1>1, ClearChange
<1>3. q = IF Has(s, c, "REPLY_SKIP_NEXT") THEN Set(b, c, "REPLY_SKIP") ELSE b
    BY DEF resetClient
<1> HIDE DEF b, q
<1>4. b \in Server
    BY <1>2 DEF Change
<1>5. /\ Change(b, Set(b, c, "REPLY_SKIP"), {}, {}, {"REPLY_SKIP"})
      /\ Others(b, Set(b, c, "REPLY_SKIP"), c)
      /\ Set(b, c, "REPLY_SKIP").cl[c].flags = b.cl[c].flags \cup {"REPLY_SKIP"}
    BY <1>1, <1>4, SetChange DEF FlagNames
<1>6. Change(s, q, {}, {}, G) /\ Others(s, q, c)
    <2>1. CASE Has(s, c, "REPLY_SKIP_NEXT")
        <3> HIDE DEF G
        <3>1. Change(s, q, {} \cup {}, {} \cup {}, G \cup {"REPLY_SKIP"})
            BY <1>2, <1>3, <1>5, <2>1, ChangeTrans
        <3>2. G \cup {"REPLY_SKIP"} = G /\ {} \cup {} = {}
            BY DEF G
        <3> QED
            BY <1>2, <1>3, <1>5, <2>1, <3>1, <3>2 DEF Others
    <2> QED
        BY <1>2, <1>3, <2>1
<1>7. Safe(q, {}, {})
    BY <1>1, <1>6, PrivateSafe DEF TableFlags
<1>8. InTurn(q.cl[c])
    <2>1. Alike(s.cl[c], q.cl[c], {}, G)
        BY <1>1, <1>6 DEF Change
    <2>2. q.cl[c].muted = s.cl[c].muted
        BY <2>1 DEF Alike, ClientFields
    <2>3. Replies(s.cl[c]) => Replies(q.cl[c])
        BY <1>2, <1>3, <1>5, <2>2 DEF Replies, Has
    <2>4. InTurn(s.cl[c]) /\ {} \cap VoiceFields = {}
        BY <1>1 DEF Fine
    <2> QED
        BY <2>1, <2>3, <2>4, VoiceKept
<1>9. Same(s, q, {})
    BY <1>6 DEF Change
<1>10. Fine(q)
    BY <1>6, <1>7, <1>8, <1>9, FineOne
<1>11. Open(q) = Open(s)
    BY <1>6, Frame
<1>12. q.ready_keys = s.ready_keys
    BY <1>9 DEF Same, ServerFields
<1> QED
    BY <1>10, <1>11, <1>12 DEF q

\* The end of a pause: every client that does not wait is looked at again.
PauseSet == {"unblocked_clients", "twice", "clients_paused"}
Requeueing(p, n, q) == Fine(q) /\ Change(p.s, q, PauseSet, {}, {"UNBLOCKED"})
RequeueStep(p, q, c) == Requeued(q, c)
Requeue == INSTANCE Loops WITH Step <- RequeueStep, Holds <- Requeueing

\* A client is queued as unblocked when the pause is over.
LEMMA RequeuedFine ==
    ASSUME NEW s, NEW c, Fine(s), c \in Open(s)
    PROVE  /\ Fine(Requeued(s, c))
           /\ Change(s, Requeued(s, c), {"unblocked_clients", "twice"}, {}, {"UNBLOCKED"})
<1>1. Safe(s, {}, {}) /\ s \in Server /\ c \in Clients /\ Sound(s)
    BY FineFacts DEF Open
<1>2. CASE Has(s, c, "BLOCKED")
    BY <1>1, <1>2, ChangeRefl DEF Requeued
<1>3. CASE ~Has(s, c, "BLOCKED")
    <2> DEFINE b == Set(s, c, "UNBLOCKED")
               v == Append(b.unblocked_clients, c)
               X == IF Has(s, c, "UNBLOCKED") THEN b.twice \cup {c} ELSE b.twice
               d == PutS(b, "unblocked_clients", v)
               q == PutS(d, "twice", X)
    <2>1. /\ Change(s, b, {}, {}, {"UNBLOCKED"}) /\ Others(s, b, c)
          /\ "UNBLOCKED" \in b.cl[c].flags
        BY <1>1, SetChange DEF FlagNames
    <2>2. b \in Server
        BY <2>1 DEF Change
    <2>3. Requeued(s, c) = q
        <3>1. Requeued(s, c) = [b EXCEPT !.unblocked_clients = v, !.twice = X]
            BY <1>3 DEF Requeued
        <3> HIDE DEF b, v, X
        <3> QED
            BY <2>2, <3>1 DEF PutS, Server
    <2> HIDE DEF b
    <2>4. /\ b.unblocked_clients \in Seq(Clients) /\ b.unblocked_clients = s.unblocked_clients
          /\ b.twice \in SUBSET Clients /\ b.twice = s.twice
        <3>1. b.unblocked_clients = s.unblocked_clients /\ b.twice = s.twice
            BY <2>1 DEF Change, Same, ServerFields
        <3> QED
            BY <2>2, <3>1 DEF Server
    <2>5. X \in SUBSET Clients /\ s.twice \subseteq X /\ (Has(s, c, "UNBLOCKED") => c \in X)
        BY <1>1, <2>4
    <2>6. v \in Seq(Clients) /\ ListsBut(v, Flags(s, "UNBLOCKED") \cup {c}, X)
        <3>1. ListsBut(s.unblocked_clients, Flags(s, "UNBLOCKED"), s.twice)
            BY <1>1 DEF Sound, UnblockedTable
        <3>2. c \notin Flags(s, "UNBLOCKED") \/ c \in X
            BY <2>5 DEF Has, Flags
        <3> HIDE DEF X
        <3>3. ListsBut(s.unblocked_clients, Flags(s, "UNBLOCKED"), X)
            BY <2>5, <3>1 DEF ListsBut
        <3> QED
            BY <1>1, <2>4, <3>2, <3>3, ListsButAppend
    <2> HIDE DEF v, X
    <2>7. ServerOk("unblocked_clients", v) /\ ServerOk("twice", X)
        BY <2>5, <2>6 DEF ServerOk
    <2>8. Change(b, d, {"unblocked_clients"}, {}, {}) /\ d.cl = b.cl
        BY <2>2, <2>7, PutServer
    <2>9. d.unblocked_clients = v /\ d \in Server
        BY <2>2, <2>8 DEF PutS, Server, Change
    <2> HIDE DEF d
    <2>10. Change(d, q, {"twice"}, {}, {}) /\ q.cl = d.cl
        BY <2>7, <2>9, PutServer
    <2>21. q.twice = X /\ q.unblocked_clients = v
        BY <2>9 DEF PutS, Server
    <2> HIDE DEF q
    <2>22. Change(s, q, {"unblocked_clients", "twice"}, {}, {"UNBLOCKED"})
        <3>1. Change(s, d, {} \cup {"unblocked_clients"}, {} \cup {}, {"UNBLOCKED"} \cup {})
            BY <2>1, <2>8, ChangeTrans
        <3>2. Change(s, d, {"unblocked_clients"}, {}, {"UNBLOCKED"})
            BY <3>1, ChangeMore
        <3>3. Change(s, q, {"unblocked_clients"} \cup {"twice"}, {} \cup {}, {"UNBLOCKED"} \cup {})
            BY <2>10, <3>2, ChangeTrans
        <3> QED
            BY <3>3, ChangeMore
    <2>23. Open(q) = Open(s) /\ q \in Server
        BY <2>22, Frame DEF Change
    <2>24. UnblockedTable(q)
        <3>1. q.cl = b.cl /\ \A x \in Clients : x # c => q.cl[x] = s.cl[x]
            BY <2>1, <2>8, <2>10 DEF Others
        <3>2. Flags(q, "UNBLOCKED") = Flags(s, "UNBLOCKED") \cup {c}
            BY <2>1, <2>23, <3>1 DEF Flags, Open
        <3> QED
            BY <2>6, <2>21, <3>2 DEF UnblockedTable
    <2>11. Sound(q)
        BY <1>1, <2>22, <2>23, <2>24, Frame DEF Sound
    <2>12. Noticed(q, {}) /\ Told(q, {}, {})
        <3>1. Noticed(s, {}) /\ Told(s, {}, {})
            BY FineFacts
        <3> QED
            BY <2>22, <3>1, NoticedFrame, ToldFrame
    <2>13. Safe(q, {}, {})
        BY <2>11, <2>12 DEF Safe
    <2>14. {"unblocked_clients", "twice"} \cap Loud = {} /\ {} \cap VoiceFields = {}
           /\ {"UNBLOCKED"} \cap VoiceFlags = {}
        BY DEF Loud, VoiceFlags
    <2>15. Fine(q)
        BY <2>22, <2>13, <2>14, FineFrame
    <2> QED
        BY <2>3, <2>22, <2>15
<1> QED
    BY <1>2, <1>3

\* clientsArePaused, and the end of the pause.
LEMMA clientsArePausedFine ==
    ASSUME NEW s, Fine(s)
    PROVE  /\ Fine(clientsArePaused(s))
           /\ Change(s, clientsArePaused(s), PauseSet, {}, {"UNBLOCKED"})
<1>1. Safe(s, {}, {}) /\ s \in Server /\ Sound(s)
    BY FineFacts
<1>2. CASE ~PauseEnds(s)
    BY <1>1, <1>2, ChangeRefl DEF clientsArePaused
<1>3. CASE PauseEnds(s)
    <2> DEFINE p == [s |-> s]
               l == s.clients
               b == FALSE
               e == PutS(s, "clients_paused", b)
               q == Requeue!Loop(p, e, l)
    <2>1. clientsArePaused(s) = q
        <3>1. [s EXCEPT !.clients_paused = FALSE] = e
            BY DEF PutS
        <3> HIDE DEF e
        <3> QED
            BY <1>3, <3>1 DEF clientsArePaused, Requeue!Loop, RequeueStep
    <2>2. p.s = s
        OBVIOUS
    <2>3. l \in Seq(Clients)
        BY <1>1 DEF Server
    <2>4. Len(l) \in Nat
        BY <2>3, LenProperties
    <2>5. \A n \in 1..Len(l) : l[n] \in Open(s)
        <3>1. \A n \in 1..Len(l) : l[n] \in ToSet(l)
            BY <2>3, ToSetFacts
        <3>2. ToSet(l) = Open(s)
            BY <1>1 DEF Sound, ClientsTable, Lists
        <3> HIDE DEF l
        <3> QED
            BY <3>1, <3>2
    <2>6. ServerOk("clients_paused", b)
        BY DEF ServerOk
    <2> HIDE DEF p, l, q, b
    <2>7. Change(s, e, {"clients_paused"}, {}, {})
        BY <1>1, <2>6, PutServer
    <2> HIDE DEF e
    <2>8. Safe(e, {}, {})
        BY <1>1, <2>7, PrivateSafe DEF PlainFields
    <2>9. {"clients_paused"} \cap Loud = {} /\ {} \cap VoiceFields = {} /\ {} \cap VoiceFlags = {}
        BY DEF Loud
    <2>10. Fine(e)
        BY <2>7, <2>8, <2>9, FineFrame
    <2>11. Change(s, e, PauseSet, {}, {"UNBLOCKED"})
        BY <2>7, ChangeMore DEF PauseSet
    <2>12. Requeueing(p, 0, e)
        BY <2>2, <2>10, <2>11 DEF Requeueing
    <2>13. ASSUME NEW n \in 1..Len(l), NEW r, Requeueing(p, n - 1, r)
           PROVE  Requeueing(p, n, RequeueStep(p, r, l[n]))
        <3> DEFINE d == Requeued(r, l[n])
        <3>1. Fine(r) /\ Change(s, r, PauseSet, {}, {"UNBLOCKED"})
            BY <2>2, <2>13 DEF Requeueing
        <3>2. Open(r) = Open(s)
            BY <3>1, Frame
        <3>3. l[n] \in Open(r)
            BY <2>5, <3>2
        <3>4. Fine(d) /\ Change(r, d, {"unblocked_clients", "twice"}, {}, {"UNBLOCKED"})
            BY <3>1, <3>3, RequeuedFine
        <3>5. RequeueStep(p, r, l[n]) = d
            BY DEF RequeueStep
        <3> HIDE DEF d
        <3>6. Change(s, d, PauseSet \cup {"unblocked_clients", "twice"}, {} \cup {},
                     {"UNBLOCKED"} \cup {"UNBLOCKED"})
            BY <3>1, <3>4, ChangeTrans
        <3>7. PauseSet \cup {"unblocked_clients", "twice"} \subseteq PauseSet
            BY DEF PauseSet
        <3>8. Change(s, d, PauseSet, {}, {"UNBLOCKED"})
            BY <3>6, <3>7, ChangeMore
        <3> QED
            BY <2>2, <3>4, <3>5, <3>8 DEF Requeueing
    <2>14. Requeueing(p, Len(l), q)
        BY <2>4, <2>12, <2>13, Requeue!LoopHolds DEF q
    <2> QED
        BY <2>1, <2>2, <2>14 DEF Requeueing
<1> QED
    BY <1>2, <1>3

\* The next command of a client is taken from its buffer.
Taken(s, c) == [s EXCEPT !.cl[c].querybuf = Tail(@), !.cl[c].n = @ + 1]
\* The next command is taken from the buffer: it is the client's turn.
LEMMA TakenTurn ==
    ASSUME NEW s, NEW c, Fine(s), c \in Open(s), s.cl[c].querybuf # <<>>, ~Has(s, c, "BLOCKED")
    PROVE  /\ Turn(Taken(s, c), c, {}, {}) /\ Settled(Taken(s, c)) /\ ~Taken(s, c).executing
           /\ Taken(s, c).ready_keys = s.ready_keys
           /\ Head(s.cl[c].querybuf) \in Requests
<1> DEFINE v == Tail(s.cl[c].querybuf)
           b == PutC(s, c, "querybuf", v)
           n == s.cl[c].n + 1
           q == PutC(b, c, "n", n)
<1>1. Safe(s, {}, {}) /\ s \in Server /\ c \in Clients /\ Sound(s)
    BY FineFacts DEF Open
<1>2. s.cl[c] \in Client
    BY <1>1, ClientOf
<1>3. s.cl[c].querybuf \in Seq(Requests) /\ s.cl[c].n \in Nat
    BY <1>2 DEF Client
<1>4. v \in Seq(Requests) /\ Head(s.cl[c].querybuf) \in Requests
    BY <1>3, Ends
<1>5. n \in Nat
    BY <1>3
<1>6. Taken(s, c) = q
    <2>1. [s EXCEPT !.cl[c].querybuf = v] = b
        BY DEF PutC, Put, With
    <2>2. Taken(s, c) = [[s EXCEPT !.cl[c].querybuf = v] EXCEPT !.cl[c].n = @ + 1]
        BY DEF Taken
    <2>3. b.cl[c].n = s.cl[c].n
        BY <1>1, <1>2 DEF PutC, Put, With, Server, Client
    <2> HIDE DEF b
    <2> QED
        BY <2>1, <2>2, <2>3 DEF PutC, Put, With
<1> HIDE DEF v, n
<1>7. FieldOk("querybuf", v) /\ FieldOk("n", n)
    BY <1>4, <1>5 DEF FieldOk
<1>8. Change(s, b, {}, {"querybuf"}, {}) /\ Others(s, b, c)
    BY <1>1, <1>7, PutField
<1> HIDE DEF b
<1>9. b \in Server
    BY <1>8 DEF Change
<1>10. Change(b, q, {}, {"n"}, {}) /\ Others(b, q, c) /\ q.cl[c] = With(b.cl[c], "n", n)
    BY <1>1, <1>7, <1>9, PutField
<1>11. b.cl[c] \in Client
    BY <1>1, <1>9, ClientOf
<1>12. q.cl[c].n = n
    BY <1>10, <1>11 DEF With, Client
<1> HIDE DEF q
<1>13. Change(s, q, {}, {"querybuf", "n"}, {})
    <2>1. Change(s, q, {} \cup {}, {"querybuf"} \cup {"n"}, {} \cup {})
        BY <1>8, <1>10, ChangeTrans
    <2> QED
        BY <2>1, ChangeMore
<1>14. Others(s, q, c) /\ q \in Server /\ Open(q) = Open(s)
    BY <1>8, <1>10, <1>13, Frame DEF Others, Change
<1>15. Unread(q)
    BY <1>1, <1>14 DEF Unread, Sound, Others
<1>16. Sound(q)
    BY <1>1, <1>13, <1>14, <1>15, Frame DEF Sound
<1>17. Noticed(q, {}) /\ Told(q, {}, {})
    <2>1. Noticed(s, {}) /\ Told(s, {}, {})
        BY FineFacts
    <2> QED
        BY <1>13, <2>1, NoticedFrame, ToldFrame
<1>18. Safe(q, {}, {})
    BY <1>16, <1>17 DEF Safe
<1>19. Same(s, q, {})
    BY <1>13 DEF Change
<1>20. q.db = s.db /\ q.replica = s.replica /\ q.dirty = s.dirty /\ q.executing = s.executing
       /\ q.ready_keys = s.ready_keys
    BY <1>19 DEF Same, ServerFields
<1>21. Settled(q) /\ ~q.executing
    BY <1>20 DEF Fine, Settled
<1>22. Alike(s.cl[c], q.cl[c], {"querybuf", "n"}, {})
    BY <1>1, <1>13 DEF Change
<1>23. /\ q.cl[c].answers = s.cl[c].answers /\ q.cl[c].muted = s.cl[c].muted
       /\ q.cl[c].state = s.cl[c].state /\ \A f : f \in q.cl[c].flags <=> f \in s.cl[c].flags
    BY <1>22 DEF Alike, ClientFields
<1>24. "BLOCKED" \notin q.cl[c].flags
    BY <1>23 DEF Has
<1>25. Unanswered(q.cl[c])
    <2>1. Answered(s.cl[c])
        BY <1>1 DEF Fine, InTurn, Has
    <2>2. s.cl[c].answers \in Seq(Nat)
        BY <1>2 DEF Client
    <2>3. Len(s.cl[c].answers) \in Nat
          /\ \A i \in 1..Len(s.cl[c].answers) : s.cl[c].answers[i] \in Nat
        BY <2>2, LenProperties, ElementOfSeq
    <2>4. Ordered(q.cl[c]) /\ Replies(q.cl[c])
        BY <1>23, <2>1 DEF Answered, Ordered, Replies
    <2>5. Silent(s.cl[c]) => Silent(q.cl[c])
        BY <1>23 DEF Silent
    <2>6. \A i \in 1..Len(q.cl[c].answers) : q.cl[c].answers[i] < q.cl[c].n
        BY <1>3, <1>12, <1>23, <2>1, <2>3 DEF Answered, n
    <2>7. Silent(q.cl[c]) \/ Len(q.cl[c].answers) + 1 = q.cl[c].n
        BY <1>3, <1>12, <1>23, <2>1, <2>3, <2>5 DEF Answered, n
    <2> QED
        BY <2>4, <2>6, <2>7 DEF Unanswered
<1>26. Heard(q, c)
    BY <1>14 DEF Heard, Fine, Others
<1>27. Turn(q, c, {}, {})
    BY <1>14, <1>18, <1>21, <1>24, <1>25, <1>26 DEF Turn
<1> QED
    BY <1>4, <1>6, <1>20, <1>21, <1>27

-----------------------------------------------------------------------------
(* The clients that wait for a list are served.  While a key is served it may *)
(* be an empty list, which the replica has removed already.                   *)

PoppedFrom(db, k, where) == [db EXCEPT ![k] = listTypePop(db[k], where)]
Serviced(db, k) ==
    db \in [Keys -> Value] /\ k \in Keys /\ db[k].t = "list" /\ Proper(KeptIn(db, k))

\* A list that is being served may be empty.
LEMMA ServicedFacts ==
    ASSUME NEW db, NEW k, Serviced(db, k)
    PROVE  /\ KeptIn(db, k) \in [Keys -> Value] /\ KeptIn(db, k)[k] = Keep(db[k])
           /\ \A j \in Keys : j # k => KeptIn(db, k)[j] = db[j] /\ ProperValue(db[j])
           /\ db[k] \in Value
<1>1. db \in [Keys -> Value] /\ k \in Keys /\ db[k] \in Value /\ db[k].t = "list"
    BY DEF Serviced
<1> DEFINE x == Keep(db[k])
<1>2. x \in Value
    BY <1>1, KeepFacts
<1>3. KeptIn(db, k) = [db EXCEPT ![k] = x]
    BY DEF KeptIn
<1> HIDE DEF x
<1>4. /\ [db EXCEPT ![k] = x] \in [Keys -> Value] /\ [db EXCEPT ![k] = x][k] = x
      /\ \A j \in Keys : j # k => [db EXCEPT ![k] = x][j] = db[j]
    BY <1>1, <1>2
<1>5. \A j \in Keys : ProperValue(KeptIn(db, k)[j])
    BY DEF Serviced, Proper, ProperValue
<1>6. \A j \in Keys : j # k => ProperValue(db[j])
    BY <1>3, <1>4, <1>5
<1> QED
    BY <1>1, <1>3, <1>4, <1>6 DEF x

\* Proper, key by key.
LEMMA ProperValues ==
    ASSUME NEW db, \A k \in Keys : ProperValue(db[k])
    PROVE  Proper(db)
BY DEF Proper, ProperValue

\* A pop on behalf of a client, and what a replica makes of it.
LEMMA PoppedServiced ==
    ASSUME NEW db, NEW k, Serviced(db, k), db[k].v # <<>>, NEW where \in {"head", "tail"}
    PROVE  /\ Serviced(PoppedFrom(db, k, where), k)
           /\ Popped(db[k], where) \in Nat
           /\ listTypePop(db[k], where) \in Value
           /\ KeptIn(PoppedFrom(db, k, where), k) = Replay(KeptIn(db, k), PopOf(k, where))
           /\ PushedOn(PoppedFrom(db, k, where), k, Popped(db[k], where), where) = db
<1> DEFINE w == listTypePop(db[k], where)
           d == PoppedFrom(db, k, where)
           x == Popped(db[k], where)
           y == Keep(w)
           g == KeptIn(db, k)
<1>1. db \in [Keys -> Value] /\ k \in Keys /\ db[k] \in Value /\ db[k].t = "list"
    BY DEF Serviced
<1>2. w \in Value /\ w.t = "list" /\ x \in Nat /\ listTypePush(w, x, where) = db[k]
    BY <1>1, PopFacts
<1>3. /\ g \in [Keys -> Value] /\ g[k] = Keep(db[k])
      /\ \A j \in Keys : j # k => g[j] = db[j]
      /\ \A j \in Keys : j # k => ProperValue(db[j])
    BY ServicedFacts
<1>4. Keep(db[k]) = db[k]
    BY DEF Keep
<1>5. d = [db EXCEPT ![k] = w]
    BY DEF PoppedFrom
<1>6. PopOf(k, where).k = k /\ PopOf(k, where).op = IF where = "head" THEN "lpop" ELSE "rpop"
    BY <1>1, PopOfFacts
<1>7. Replay(g, PopOf(k, where)) = [g EXCEPT ![k] = y]
    <2>1. g[k] = db[k]
        BY <1>3, <1>4
    <2> HIDE DEF g, w
    <2> DEFINE cmd == PopOf(k, where)
    <2> HIDE DEF cmd
    <2>2. Replay(g, cmd) = [g EXCEPT ![k] = Keep(listTypePop(g[k], where))]
        <3>1. cmd.k = k /\ cmd.op = IF where = "head" THEN "lpop" ELSE "rpop"
            BY <1>6 DEF cmd
        <3>2. CASE where = "head"
            BY <3>1, <3>2, ReplayFacts
        <3>3. CASE where = "tail"
            BY <3>1, <3>3, ReplayFacts
        <3> QED
            BY <3>2, <3>3
    <2> QED
        BY <2>1, <2>2 DEF w, cmd
<1>8. y \in Value /\ ProperValue(y)
    BY <1>2, KeepFacts
<1> HIDE DEF w, x, y, g, d
<1>9. d \in [Keys -> Value] /\ d[k] = w /\ \A j \in Keys : j # k => d[j] = db[j]
    BY <1>1, <1>2, <1>5
<1>10. KeptIn(d, k) = [d EXCEPT ![k] = y]
    BY <1>9 DEF KeptIn, y
<1>11. [d EXCEPT ![k] = y] = [g EXCEPT ![k] = y]
    BY <1>1, <1>3, <1>8, <1>9
<1>12. Proper(KeptIn(d, k))
    <2>1. \A j \in Keys : ProperValue([d EXCEPT ![k] = y][j])
        BY <1>1, <1>3, <1>8, <1>9
    <2> QED
        BY <1>10, <2>1, ProperValues
<1>13. Serviced(d, k)
    BY <1>1, <1>2, <1>9, <1>12 DEF Serviced
<1>14. PushedOn(d, k, x, where) = db
    <2>1. PushedOn(d, k, x, where) = [d EXCEPT ![k] = db[k]]
        BY <1>2, <1>9 DEF PushedOn
    <2> QED
        BY <1>1, <1>9, <2>1
<1> QED
    BY <1>2, <1>7, <1>10, <1>11, <1>13, <1>14 DEF d, g, x, w

\* A push on behalf of a client to a key that may be served itself.
LEMMA PushedServiced ==
    ASSUME NEW db, NEW k, Serviced(db, k), NEW dst \in Keys, db[dst].t # "string", NEW v \in Nat
    PROVE  /\ Pushable(db[dst])
           /\ Serviced(PushedOn(db, dst, v, "head"), k)
           /\ KeptIn(PushedOn(db, dst, v, "head"), k) = PushedOn(KeptIn(db, k), dst, v, "head")
<1> DEFINE g == KeptIn(db, k)
           w == listTypePush(db[dst], v, "head")
           e == PushedOn(db, dst, v, "head")
<1>1. db \in [Keys -> Value] /\ k \in Keys /\ db[k] \in Value /\ db[k].t = "list" /\ db[dst] \in Value
    BY DEF Serviced
<1>2. /\ g \in [Keys -> Value] /\ g[k] = Keep(db[k])
      /\ \A j \in Keys : j # k => g[j] = db[j]
      /\ \A j \in Keys : j # k => ProperValue(db[j])
    BY ServicedFacts
<1>3. Pushable(db[dst])
    <2>1. CASE dst = k
        BY <1>1, <2>1 DEF Pushable
    <2>2. CASE dst # k
        BY <1>1, <1>2, <2>2, NoneOr DEF Pushable
    <2> QED
        BY <2>1, <2>2
<1>4. w \in Value /\ w.t = "list" /\ ProperValue(w) /\ Keep(w) = w
    BY <1>1, PushFacts
<1>5. listTypePush(g[dst], v, "head") = w
    <2>1. g[dst].v = db[dst].v
        BY <1>1, <1>2, KeepFacts
    <2> HIDE DEF g
    <2> QED
        BY <2>1 DEF listTypePush
<1>6. e = [db EXCEPT ![dst] = w] /\ PushedOn(g, dst, v, "head") = [g EXCEPT ![dst] = w]
    BY <1>5 DEF PushedOn
<1> HIDE DEF g, w, e
<1>7. e \in [Keys -> Value] /\ e[dst] = w /\ \A j \in Keys : j # dst => e[j] = db[j]
    BY <1>1, <1>4, <1>6
<1> DEFINE y == Keep(e[k])
           h == [e EXCEPT ![k] = y]
<1>8. KeptIn(e, k) = h
    BY DEF KeptIn
<1>9. e[k].t = "list" /\ y = IF dst = k THEN w ELSE g[k]
    BY <1>1, <1>2, <1>4, <1>7
<1>10. g[k] \in Value /\ ProperValue(g[k])
    BY <1>1, <1>2, KeepFacts
<1> HIDE DEF y
<1>11. y \in Value
    BY <1>4, <1>9, <1>10
<1>12. h = [g EXCEPT ![dst] = w]
    BY <1>1, <1>2, <1>4, <1>7, <1>9, <1>11
<1>13. Proper(h)
    <2>1. \A j \in Keys : ProperValue(h[j])
        BY <1>1, <1>2, <1>4, <1>7, <1>9, <1>10, <1>11
    <2> HIDE DEF h
    <2> QED
        BY <2>1, ProperValues
<1> HIDE DEF h
<1>14. Serviced(e, k)
    BY <1>1, <1>7, <1>8, <1>9, <1>13 DEF Serviced
<1> QED
    BY <1>3, <1>6, <1>8, <1>12, <1>14 DEF e, g

\* The state while k is served.
Served(s, k) ==
    /\ Safe(s, {}, {k}) /\ ~s.executing /\ ~s.dirty /\ \A c \in Clients : InTurn(s.cl[c])
    /\ Serviced(s.db, k) /\ s.replica = KeptIn(s.db, k)

\* The state between two clients that are served.
LEMMA SpokenServed ==
    ASSUME NEW s, NEW c, NEW k, Spoken(s, c, {}, {k}), ~s.executing, ~s.dirty, Serviced(s.db, k),
           s.replica = KeptIn(s.db, k)
    PROVE  Served(s, k)
<1>1. \A x \in Clients : InTurn(s.cl[x])
    BY DEF Spoken, Heard, InTurn
<1> QED
    BY <1>1 DEF Served, Spoken

\* A pop or push on behalf of a client is propagated at once.
LEMMA propagateTurn ==
    ASSUME NEW s, NEW c, NEW R, NEW cmd, Replay(s.replica, cmd) \in [Keys -> Value], Sound(s)
    PROVE  LET q == propagate(s, cmd)
           IN  /\ Turn(s, c, {}, R) => Turn(q, c, {}, R)
               /\ Spoken(s, c, {}, R) => Spoken(q, c, {}, R)
               /\ q.replica = Replay(s.replica, cmd) /\ Change(s, q, {"replica"}, {}, {})
               /\ q.db = s.db /\ q.dirty = s.dirty /\ q.executing = s.executing
               /\ q.blocking_keys = s.blocking_keys
<1> DEFINE v == Replay(s.replica, cmd)
           q == PutS(s, "replica", v)
<1>1. propagate(s, cmd) = q
    BY DEF propagate, PutS
<1>2. s \in Server
    BY DEF Sound
<1> HIDE DEF v
<1>3. ServerOk("replica", v)
    BY DEF ServerOk, v
<1>4. Change(s, q, {"replica"}, {}, {})
    BY <1>2, <1>3, PutServer
<1>5. q.replica = v
    BY <1>2 DEF PutS, Server
<1> HIDE DEF q
<1>6. q.db = s.db /\ q.dirty = s.dirty /\ q.executing = s.executing
      /\ q.blocking_keys = s.blocking_keys
    BY <1>4 DEF Change, Same, ServerFields
<1>7. Safe(s, {}, R) => Safe(q, {}, R)
    BY <1>4, PrivateSafe DEF PlainFields
<1>8. "executing" \notin {"replica"} /\ {} \cap VoiceFields = {} /\ {} \cap VoiceFlags = {}
    OBVIOUS
<1>9. Turn(s, c, {}, R) => Turn(q, c, {}, R)
    <2> HAVE Turn(s, c, {}, R)
    <2>1. Safe(q, {}, R)
        BY <1>7 DEF Turn
    <2> QED
        BY <1>4, <1>8, <2>1, TurnFrame
<1>10. Spoken(s, c, {}, R) => Spoken(q, c, {}, R)
    <2> HAVE Spoken(s, c, {}, R)
    <2>1. Safe(q, {}, R)
        BY <1>7 DEF Spoken
    <2> QED
        BY <1>4, <1>8, <2>1, TurnFrame
<1> QED
    BY <1>1, <1>4, <1>5, <1>6, <1>9, <1>10 DEF v

\* The answers of a client that stops waiting.
LEMMA ReplyKept ==
    ASSUME NEW r, NEW u, NEW F, NEW G, Alike(r, u, F, G), F \cap VoiceFields = {},
           G \cap {"CLOSE_AFTER_REPLY", "REPLY_OFF", "REPLY_SKIP", "REPLY_SKIP_NEXT"} = {}
    PROVE  (Unanswered(r) => Unanswered(u)) /\ (Answered(r) => Answered(u))
<1>1. u.state = r.state /\ u.answers = r.answers /\ u.n = r.n /\ u.muted = r.muted
    BY DEF Alike, ClientFields, VoiceFields
<1>2. \A f \in {"CLOSE_AFTER_REPLY", "REPLY_OFF", "REPLY_SKIP", "REPLY_SKIP_NEXT"} :
          f \in u.flags <=> f \in r.flags
    BY DEF Alike
<1>3. (Silent(u) <=> Silent(r)) /\ (Ordered(u) <=> Ordered(r)) /\ (Replies(u) <=> Replies(r))
    BY <1>1, <1>2 DEF Silent, Ordered, Replies
<1> QED
    BY <1>1, <1>3 DEF Unanswered, Answered

\* What of the server a step leaves to the clients that wait behind c.
Passed(s, q, c) ==
    /\ Open(q) = Open(s)
    /\ \A k \in Keys : ToSet(q.blocking_keys[k]) = ToSet(s.blocking_keys[k]) \ {c}
\* A step that leaves alone who waits.
LEMMA PassedFrame ==
    ASSUME NEW s, NEW q, NEW r, NEW c, NEW S, NEW F, NEW G, Passed(s, q, c), Change(q, r, S, F, G),
           "blocking_keys" \notin S, "state" \notin F
    PROVE  Passed(s, r, c)
<1>1. Open(r) = Open(q)
    BY Frame
<1>2. r.blocking_keys = q.blocking_keys
    BY DEF Change, Same, ServerFields
<1> QED
    BY <1>1, <1>2 DEF Passed

UnblockSet == {"blocking_keys", "unblocked_clients"}
\* unblockClient: the client may be answered.
LEMMA UnblockTurn ==
    ASSUME NEW s, NEW c, NEW R, Safe(s, {}, R), ~s.executing, \A x \in Clients : InTurn(s.cl[x]),
           c \in Open(s), "BLOCKED" \in s.cl[c].flags
    PROVE  LET q == unblockClient(s, c)
           IN  /\ Turn(q, c, {}, R) /\ Passed(s, q, c) /\ Calm(s, q)
               /\ Change(s, q, UnblockSet, {"bpop"}, {"BLOCKED", "UNBLOCKED"})
<1> DEFINE q == unblockClient(s, c)
<1>1. /\ Safe(q, {}, R) /\ Others(s, q, c)
      /\ Change(s, q, {"blocking_keys", "unblocked_clients"}, {"bpop"}, {"BLOCKED", "UNBLOCKED"})
      /\ "BLOCKED" \notin q.cl[c].flags
      /\ \A k \in Keys : ToSet(q.blocking_keys[k]) = ToSet(s.blocking_keys[k]) \ {c}
    BY unblockClientSafe
<1> HIDE DEF q
<1>2. Change(s, q, UnblockSet, {"bpop"}, {"BLOCKED", "UNBLOCKED"})
    BY <1>1 DEF UnblockSet
<1>3. Same(s, q, UnblockSet) /\ UnblockSet \cap Loud = {}
    BY <1>2 DEF Change, UnblockSet, Loud
<1>4. Calm(s, q)
    BY <1>3, CalmFrame
<1>5. Open(q) = Open(s) /\ c \in Clients
    BY <1>2, Frame DEF Open
<1>6. Unanswered(q.cl[c])
    <2>1. Alike(s.cl[c], q.cl[c], {"bpop"}, {"BLOCKED", "UNBLOCKED"})
        BY <1>2, <1>5 DEF Change
    <2>2. Unanswered(s.cl[c])
        BY <1>5 DEF InTurn
    <2>3. /\ {"bpop"} \cap VoiceFields = {}
          /\ {"BLOCKED", "UNBLOCKED"} \cap
                {"CLOSE_AFTER_REPLY", "REPLY_OFF", "REPLY_SKIP", "REPLY_SKIP_NEXT"} = {}
        BY DEF VoiceFields
    <2> QED
        BY <2>1, <2>2, <2>3, ReplyKept
<1>7. Heard(q, c)
    BY <1>1 DEF Heard, Others
<1>8. ~q.executing
    BY <1>4 DEF Calm
<1>9. Turn(q, c, {}, R)
    BY <1>1, <1>5, <1>6, <1>7, <1>8 DEF Turn
<1>10. Passed(s, q, c)
    BY <1>1, <1>5 DEF Passed
<1> QED
    BY <1>2, <1>4, <1>9, <1>10 DEF q

\* The watchers of a key that is served are told already.
LEMMA ServedMayChange ==
    ASSUME NEW s, NEW k \in Keys, Safe(s, {}, {k})
    PROVE  MayChange(s, k, {})
<1>1. k \in Keys \ {} /\ k \in ToSet(s.ready_keys) \cup {k}
    OBVIOUS
<1> QED
    BY <1>1 DEF Safe, Told, MayChange

\* One element is taken from the list for c.
Where(s, c) == IF s.cl[c].lastcmd = "blpop" THEN "head" ELSE "tail"
Taking(s, c, k) == unblockClient(Write(s, k, listTypePop(s.db[k], Where(s, c))), c)
\* The element is popped and the client is unblocked.
LEMMA TakingTurn ==
    ASSUME NEW s, NEW c, NEW k \in Keys, Served(s, k), c \in ToSet(s.blocking_keys[k]),
           s.db[k].v # <<>>
    PROVE  LET q == Taking(s, c, k)
           IN  /\ Turn(q, c, {}, {k}) /\ Passed(s, q, c) /\ ~q.executing /\ ~q.dirty
               /\ q.db = PoppedFrom(s.db, k, Where(s, c)) /\ q.replica = s.replica
               /\ s.cl[c].bpop.target \in Keys \cup {NULL}
               /\ s.cl[c].bpop.target # NULL => Where(s, c) = "tail"
<1> DEFINE w == listTypePop(s.db[k], Where(s, c))
           a == Write(s, k, w)
           q == unblockClient(a, c)
<1>1. /\ Safe(s, {}, {k}) /\ ~s.executing /\ ~s.dirty /\ \A x \in Clients : InTurn(s.cl[x])
      /\ Serviced(s.db, k)
    BY DEF Served
<1>2. Where(s, c) \in {"head", "tail"}
    BY DEF Where
<1>3. w \in Value
    BY <1>1, <1>2, PoppedServiced
<1>4. c \in Open(s) /\ c \in Clients /\ "BLOCKED" \in s.cl[c].flags
    <2>1. ToSet(s.blocking_keys[k]) = Waiting(s, k)
        BY <1>1 DEF Safe, Sound, BlockingTable, Lists
    <2>2. c \in Open(s) /\ k \in s.cl[c].bpop.keys
        BY <2>1 DEF Waiting
    <2>3. BlockedClient(s.cl[c])
        BY <1>1, <2>2 DEF Safe, Sound, BlockedClients
    <2> QED
        BY <2>2, <2>3 DEF BlockedClient, Open
<1>5. MayChange(s, k, {}) /\ MayBecome(s, k, w, {k})
    BY <1>1, ServedMayChange DEF MayBecome
<1>6. q = Taking(s, c, k)
    BY DEF Taking
<1>7. PoppedFrom(s.db, k, Where(s, c)) = [s.db EXCEPT ![k] = w]
    BY DEF PoppedFrom
<1> HIDE DEF w
<1>8. /\ Safe(a, {}, {k}) /\ Change(s, a, {"db", "overwritten"}, {"stale"}, {})
      /\ a.db = [s.db EXCEPT ![k] = w]
    BY <1>1, <1>3, <1>5, WriteSafe
<1> HIDE DEF a
<1>9. {"stale"} \cap VoiceFields = {} /\ {} \cap VoiceFlags = {}
    BY DEF VoiceFields
<1>10. ASSUME NEW x \in Clients PROVE InTurn(a.cl[x])
    <2>1. Alike(s.cl[x], a.cl[x], {"stale"}, {}) /\ InTurn(s.cl[x])
        BY <1>1, <1>8 DEF Change
    <2>2. InTurn(a.cl[x])
        BY <1>9, <2>1, VoiceFrame
    <2> QED
        BY <2>2
<1>11. Kept(s, a) /\ a.dirty = s.dirty
    <2>1. {"db", "overwritten"} \cap {"replica", "executing"} = {}
        OBVIOUS
    <2>2. a.dirty = s.dirty
        BY <1>8 DEF Change, Same, ServerFields
    <2> QED
        BY <1>8, <2>1, <2>2, KeptFrame
<1>12. Open(a) = Open(s) /\ a.blocking_keys = s.blocking_keys
    BY <1>8, Frame DEF Change, Same, ServerFields
<1>13. "BLOCKED" \in a.cl[c].flags
    BY <1>4, <1>8 DEF Change, Alike
<1>14. ~a.executing /\ a.replica = s.replica
    BY <1>1, <1>11 DEF Kept
<1>15. Turn(q, c, {}, {k}) /\ Passed(a, q, c) /\ Calm(a, q)
    BY <1>4, <1>8, <1>12, <1>13, <1>14, <1>10, UnblockTurn
<1> HIDE DEF q
<1>16. Passed(s, q, c)
    BY <1>12, <1>15 DEF Passed
<1>17. ~q.executing /\ ~q.dirty /\ q.db = a.db /\ q.replica = s.replica
    BY <1>1, <1>11, <1>14, <1>15 DEF Calm
<1>18. s.cl[c].bpop.target \in Keys \cup {NULL}
    <2>1. s \in Server
        BY <1>1 DEF Safe, Sound
    <2>2. s.cl[c] \in Client
        BY <1>4, <2>1, ClientOf
    <2>3. s.cl[c].bpop \in Bpop
        BY <2>2 DEF Client
    <2> QED
        BY <2>3 DEF Bpop
<1>19. s.cl[c].bpop.target # NULL => Where(s, c) = "tail"
    <2>1. BlockedClient(s.cl[c])
        BY <1>1, <1>4 DEF Safe, Sound, BlockedClients
    <2> QED
        BY <2>1 DEF BlockedClient, Where
<1> QED
    BY <1>6, <1>7, <1>8, <1>15, <1>16, <1>17, <1>18, <1>19

\* What is taken goes to the client, to the list it named, or back.
LEMMA GivenServed ==
    ASSUME NEW s, NEW q, NEW c, NEW k \in Keys, NEW cmd, Turn(q, c, {}, {k}), Passed(s, q, c),
           ~q.executing, ~q.dirty, Serviced(q.db, k), KeptIn(q.db, k) = Replay(q.replica, cmd)
    PROVE  /\ Turn(propagate(q, cmd), c, {}, {k}) /\ Passed(s, propagate(q, cmd), c)
           /\ ~propagate(q, cmd).executing /\ ~propagate(q, cmd).dirty
           /\ propagate(q, cmd).db = q.db /\ propagate(q, cmd).replica = KeptIn(q.db, k)
           /\ Served(Answer(propagate(q, cmd), c), k)
           /\ Passed(s, Answer(propagate(q, cmd), c), c)
<1> DEFINE p == propagate(q, cmd)
           a == Answer(p, c)
<1>1. Replay(q.replica, cmd) \in [Keys -> Value]
    BY ServicedFacts
<1>2. Sound(q)
    BY DEF Turn, Safe
<1>3. /\ Turn(p, c, {}, {k}) /\ p.replica = Replay(q.replica, cmd)
      /\ Change(q, p, {"replica"}, {}, {}) /\ p.db = q.db /\ p.dirty = q.dirty
      /\ p.executing = q.executing
    BY <1>1, <1>2, propagateTurn
<1> HIDE DEF p
<1>4. "blocking_keys" \notin {"replica"} /\ "state" \notin {}
    OBVIOUS
<1>5. Passed(s, p, c)
    BY <1>3, <1>4, PassedFrame
<1>6. Spoken(a, c, {}, {k}) /\ Calm(p, a) /\ Replied(p, a, c, {"pending", "answers"})
    BY <1>3, AnswerSpoken
<1> HIDE DEF a
<1>7. Change(p, a, ReplyLists, {"pending", "answers"}, ReplyFlags)
    BY <1>6 DEF Replied
<1>8. "blocking_keys" \notin ReplyLists /\ "state" \notin {"pending", "answers"}
    BY DEF ReplyLists
<1>9. Passed(s, a, c)
    BY <1>5, <1>7, <1>8, PassedFrame
<1>10. a.db = q.db /\ a.replica = KeptIn(q.db, k) /\ ~a.dirty /\ ~a.executing
    BY <1>3, <1>6 DEF Calm
<1>11. Served(a, k)
    BY <1>6, <1>10, SpokenServed
<1> QED
    BY <1>3, <1>5, <1>9, <1>11 DEF p, a

\* The element goes to the list that BRPOPLPUSH named.
LEMMA MovedServed ==
    ASSUME NEW s, NEW q, NEW c, NEW k \in Keys, NEW dst \in Keys, NEW v \in Nat, NEW cmd,
           Turn(q, c, {}, {k}), Passed(s, q, c), ~q.executing, ~q.dirty, Serviced(q.db, k),
           q.replica = KeptIn(q.db, k), q.db[dst].t # "string",
           cmd.op = "lpush", cmd.k = dst, cmd.v = v
    PROVE  LET x == propagate(rpoplpushHandlePush(q, c, dst, v), cmd)
           IN  Served(x, k) /\ Passed(s, x, c)
<1> DEFINE h == rpoplpushHandlePush(q, c, dst, v)
           x == propagate(h, cmd)
           d == PushedOn(q.db, dst, v, "head")
<1>1. Pushable(q.db[dst]) /\ Serviced(d, k) /\ KeptIn(d, k) = PushedOn(q.replica, dst, v, "head")
    BY PushedServiced
<1>2. Spoken(h, c, {} \ {dst}, {k}) /\ HandledPush(q, h) /\ h.db = d
    BY <1>1, rpoplpushHandlePushSpoken
<1> HIDE DEF h, d
<1>3. {} \ {dst} = {}
    OBVIOUS
<1>4. Spoken(h, c, {}, {k})
    BY <1>2, <1>3
<1>5. Change(q, h, PushLists, PushFields, PushFlags) /\ h.replica = q.replica
      /\ h.executing = q.executing /\ h.dirty = q.dirty
    BY <1>2 DEF HandledPush, Kept
<1>6. "blocking_keys" \notin PushLists /\ "state" \notin PushFields
    BY DEF PushLists, PushFields, DataSet, ReplyLists
<1>7. Passed(s, h, c)
    BY <1>5, <1>6, PassedFrame
<1>8. Replay(h.replica, cmd) = KeptIn(d, k)
    <2>1. Replay(h.replica, cmd) = PushedOn(h.replica, dst, v, "head")
        BY ReplayFacts DEF PushedOn
    <2> QED
        BY <1>1, <1>5, <2>1
<1>9. Replay(h.replica, cmd) \in [Keys -> Value]
    BY <1>1, <1>8, ServicedFacts
<1>10. Sound(h)
    BY <1>4 DEF Spoken, Safe
<1>11. /\ Spoken(x, c, {}, {k}) /\ x.replica = Replay(h.replica, cmd)
       /\ Change(h, x, {"replica"}, {}, {}) /\ x.db = h.db /\ x.dirty = h.dirty
       /\ x.executing = h.executing
    BY <1>4, <1>9, <1>10, propagateTurn
<1> HIDE DEF x
<1>12. Served(x, k)
    BY <1>1, <1>2, <1>5, <1>8, <1>11, SpokenServed
<1>13. "blocking_keys" \notin {"replica"} /\ "state" \notin {}
    OBVIOUS
<1>14. Passed(s, x, c)
    BY <1>7, <1>11, <1>13, PassedFrame
<1> QED
    BY <1>12, <1>14 DEF x, h

\* The destination holds another type: the element goes back.
LEMMA ReturnedServed ==
    ASSUME NEW s, NEW q, NEW c, NEW k \in Keys, NEW w \in Value, Turn(q, c, {}, {k}),
           Passed(s, q, c), ~q.executing, ~q.dirty, NEW db, Serviced(db, k),
           [q.db EXCEPT ![k] = w] = db, q.replica = KeptIn(db, k)
    PROVE  LET x == Write(Answer(q, c), k, w)
           IN  Served(x, k) /\ Passed(s, x, c)
<1> DEFINE a == Answer(q, c)
           x == Write(a, k, w)
<1>1. Spoken(a, c, {}, {k}) /\ Calm(q, a) /\ Replied(q, a, c, {"pending", "answers"})
    BY AnswerSpoken
<1> HIDE DEF a
<1>2. Change(q, a, ReplyLists, {"pending", "answers"}, ReplyFlags)
    BY <1>1 DEF Replied
<1>3. "blocking_keys" \notin ReplyLists /\ "state" \notin {"pending", "answers"}
    BY DEF ReplyLists
<1>4. Passed(s, a, c)
    BY <1>2, <1>3, PassedFrame
<1>5. Safe(a, {}, {k})
    BY <1>1 DEF Spoken
<1>6. MayChange(a, k, {}) /\ MayBecome(a, k, w, {k})
    BY <1>5, ServedMayChange DEF MayBecome
<1>7. /\ Safe(x, {}, {k}) /\ Change(a, x, {"db", "overwritten"}, {"stale"}, {})
      /\ x.db = [a.db EXCEPT ![k] = w]
    BY <1>5, <1>6, WriteSafe
<1> HIDE DEF x
<1>8. {"db", "overwritten"} \subseteq DataSet /\ {"stale"} \subseteq {"stale"}
      /\ {} \subseteq {"DIRTY_CAS"}
    BY DEF DataSet
<1>9. Spoken(x, c, {}, {k}) /\ Kept(a, x)
    BY <1>1, <1>7, <1>8, DataSpoken
<1>10. x.dirty = a.dirty
    BY <1>7 DEF Change, Same, ServerFields
<1>11. x.db = db
    BY <1>1, <1>7 DEF Calm
<1>12. x.replica = KeptIn(db, k) /\ ~x.executing /\ ~x.dirty
    BY <1>1, <1>9, <1>10 DEF Calm, Kept
<1>13. Served(x, k)
    BY <1>9, <1>11, <1>12, SpokenServed
<1>14. "blocking_keys" \notin {"db", "overwritten"} /\ "state" \notin {"stale"}
    OBVIOUS
<1>15. Passed(s, x, c)
    BY <1>4, <1>7, <1>14, PassedFrame
<1> QED
    BY <1>13, <1>15 DEF x, a

\* One client is served.
LEMMA ServeServed ==
    ASSUME NEW s, NEW c, NEW k \in Keys, Served(s, k), c \in ToSet(s.blocking_keys[k]),
           s.db[k].v # <<>>
    PROVE  Served(Serve(s, c, k), k) /\ Passed(s, Serve(s, c, k), c)
<1> DEFINE where == Where(s, c)
           v == Popped(s.db[k], where)
           dst == s.cl[c].bpop.target
           q == Taking(s, c, k)
           r == serveClientBlockedOnList(q, c, k, dst, v, where)
<1>1. /\ Turn(q, c, {}, {k}) /\ Passed(s, q, c) /\ ~q.executing /\ ~q.dirty
      /\ q.db = PoppedFrom(s.db, k, where) /\ q.replica = s.replica
      /\ dst \in Keys \cup {NULL} /\ (dst # NULL => where = "tail")
    BY TakingTurn
<1>2. Serve(s, c, k) = IF r.ok THEN r.s ELSE Write(r.s, k, listTypePush(r.s.db[k], v, where))
    BY DEF Serve, Taking, Where
<1>3. Serviced(s.db, k) /\ s.replica = KeptIn(s.db, k)
    BY DEF Served
<1>4. where \in {"head", "tail"}
    BY DEF Where
<1>5. /\ Serviced(q.db, k) /\ v \in Nat
      /\ KeptIn(q.db, k) = Replay(q.replica, PopOf(k, where))
      /\ PushedOn(q.db, k, v, where) = s.db
    BY <1>1, <1>3, <1>4, PoppedServiced
<1> HIDE DEF where, v, dst, q
<1>6. CASE dst = NULL
    <2> DEFINE a == Answer(propagate(q, PopOf(k, where)), c)
    <2>1. r = [ok |-> TRUE, s |-> a]
        BY <1>6 DEF serveClientBlockedOnList
    <2>2. Serve(s, c, k) = a
        <3> HIDE DEF a, r
        <3> QED
            BY <1>2, <2>1
    <2>3. Served(a, k) /\ Passed(s, a, c)
        BY <1>1, <1>5, GivenServed
    <2> QED
        BY <2>2, <2>3
<1>7. CASE dst # NULL /\ q.db[dst].t = "string"
    <2> DEFINE a == Answer(q, c)
               w == listTypePush(q.db[k], v, where)
    <2>1. r = [ok |-> FALSE, s |-> a]
        BY <1>7 DEF serveClientBlockedOnList
    <2>2. Calm(q, a)
        BY <1>1, AnswerSpoken
    <2>3. Serve(s, c, k) = Write(a, k, w)
        <3>1. a.db = q.db
            BY <2>2 DEF Calm
        <3> HIDE DEF a, r
        <3> QED
            BY <1>2, <2>1, <3>1
    <2>4. w \in Value
        <3>1. q.db[k] \in Value
            BY <1>5 DEF Serviced
        <3> QED
            BY <1>5, <3>1, PushFacts
    <2>5. [q.db EXCEPT ![k] = w] = s.db
        BY <1>5 DEF PushedOn
    <2> HIDE DEF w
    <2>6. q.replica = KeptIn(s.db, k)
        BY <1>1, <1>3
    <2> QED
        BY <1>1, <1>3, <2>3, <2>4, <2>5, <2>6, ReturnedServed
<1>8. CASE dst # NULL /\ q.db[dst].t # "string"
    <2> DEFINE p == propagate(q, PopOf(k, where))
               cmd == [Command EXCEPT !.op = "lpush", !.k = dst, !.v = v]
               x == propagate(rpoplpushHandlePush(p, c, dst, v), cmd)
    <2>1. r = [ok |-> TRUE, s |-> x]
        BY <1>1, <1>8 DEF serveClientBlockedOnList
    <2>2. Serve(s, c, k) = x
        <3> HIDE DEF x, r
        <3> QED
            BY <1>2, <2>1
    <2>3. cmd.op = "lpush" /\ cmd.k = dst /\ cmd.v = v
        BY DEF Command
    <2> HIDE DEF cmd
    <2>4. /\ Turn(p, c, {}, {k}) /\ Passed(s, p, c) /\ ~p.executing /\ ~p.dirty
          /\ p.db = q.db /\ p.replica = KeptIn(q.db, k)
        BY <1>1, <1>5, GivenServed
    <2> HIDE DEF p
    <2>5. Serviced(p.db, k) /\ p.replica = KeptIn(p.db, k) /\ p.db[dst].t # "string" /\ dst \in Keys
        BY <1>1, <1>5, <1>8, <2>4
    <2>6. Served(x, k) /\ Passed(s, x, c)
        BY <1>5, <2>3, <2>4, <2>5, MovedServed
    <2> QED
        BY <2>2, <2>6
<1> QED
    BY <1>6, <1>7, <1>8

\* A key with no list, or that nobody waits for, is no longer being served.
LEMMA SafeLess ==
    ASSUME NEW s, NEW k \in Keys, Safe(s, {}, {k}), s.db[k].t # "list" \/ s.blocking_keys[k] = <<>>
    PROVE  Safe(s, {}, {})
<1>1. Sound(s) /\ Noticed(s, {k}) /\ Told(s, {}, {k})
    BY DEF Safe
<1>2. Noticed(s, {})
    BY <1>1 DEF Noticed
<1>3. Told(s, {}, {})
    BY <1>1 DEF Told
<1> QED
    BY <1>1, <1>2, <1>3 DEF Safe

\* Only an empty list is deleted at the end.
LEMMA KeptProper ==
    ASSUME NEW db \in [Keys -> Value], Proper(db), NEW k \in Keys
    PROVE  KeptIn(db, k) = db \/ db[k].t = "string"
<1>1. db[k].v = <<>> => db[k].t # "list"
    BY DEF Proper
<1>2. CASE db[k].v # <<>>
    <2>1. Keep(db[k]) = db[k]
        BY <1>2 DEF Keep
    <2> QED
        BY <2>1 DEF KeptIn
<1>3. CASE db[k].v = <<>> /\ db[k].t # "string"
    <2>1. db[k] \in Value /\ ProperValue(db[k])
        BY DEF Proper, ProperValue
    <2>2. db[k] = None
        BY <1>1, <1>3, <2>1, NoneOr
    <2>3. Keep(db[k]) = db[k]
        BY <1>3, <2>2 DEF Keep
    <2> QED
        BY <2>3 DEF KeptIn
<1> QED
    BY <1>2, <1>3

\* The clients that wait for k, from the one that blocked first.
Behind(p, n, x) == \E i \in (n + 1)..Len(p.l) : p.l[i] = x
Serving(p, n, r) ==
    /\ Served(r, p.k) /\ Open(r) = Open(p.s)
    /\ r.db[p.k].v # <<>> => \A x : x \in ToSet(r.blocking_keys[p.k]) <=> Behind(p, n, x)
ServeStep(p, q, c) == Serve(q, c, p.k)
ServeAll == INSTANCE Loops WITH Step <- ServeStep, Holds <- Serving

\* One turn of the loop over the clients that wait for a key.
LEMMA ServingStep ==
    ASSUME NEW p, p.k \in Keys, p.l \in Seq(Clients), IsInjective(p.l), NEW n \in 1..Len(p.l), NEW r,
           Serving(p, n - 1, r)
    PROVE  Serving(p, n, ServeStep(p, r, p.l[n]))
<1> DEFINE k == p.k
           l == p.l
           c == l[n]
           q == Serve(r, c, k)
<1>1. /\ Served(r, k) /\ Open(r) = Open(p.s)
      /\ r.db[k].v # <<>> => \A x : x \in ToSet(r.blocking_keys[k]) <=> Behind(p, n - 1, x)
    BY DEF Serving
<1>2. ServeStep(p, r, p.l[n]) = q
    BY DEF ServeStep
<1>3. Len(l) \in Nat /\ n \in Nat /\ (n - 1) + 1 = n
    BY LenProperties
<1>4. CASE r.db[k].v = <<>>
    <2>1. q = r
        BY <1>4 DEF Serve
    <2> QED
        BY <1>1, <1>2, <1>4, <2>1 DEF Serving
<1>5. CASE r.db[k].v # <<>>
    <2>1. \A x : x \in ToSet(r.blocking_keys[k]) <=> \E i \in n..Len(l) : l[i] = x
        BY <1>1, <1>3, <1>5 DEF Behind
    <2>2. c \in ToSet(r.blocking_keys[k])
        BY <1>3, <2>1
    <2>3. Served(q, k) /\ Passed(r, q, c)
        BY <1>1, <1>5, <2>2, ServeServed
    <2> HIDE DEF q
    <2>4. Open(q) = Open(p.s) /\ ToSet(q.blocking_keys[k]) = ToSet(r.blocking_keys[k]) \ {c}
        BY <1>1, <2>3 DEF Passed
    <2>5. \A i, j \in 1..Len(l) : l[i] = l[j] => i = j
        <3>1. DOMAIN l = 1..Len(l)
            BY LenProperties
        <3> QED
            BY <3>1 DEF IsInjective
    <2>6. \A i \in n..Len(l) : l[i] # c <=> i \in (n + 1)..Len(l)
        BY <1>3, <2>5
    <2>7. \A i \in (n + 1)..Len(l) : i \in n..Len(l)
        BY <1>3
    <2>8. ASSUME NEW x PROVE x \in ToSet(q.blocking_keys[k]) <=> Behind(p, n, x)
        BY <2>1, <2>4, <2>6, <2>7 DEF Behind
    <2> QED
        BY <1>2, <2>3, <2>4, <2>8 DEF Serving
<1> QED
    BY <1>4, <1>5

\* The first of the ready keys leaves the ready list.
NextReady(s) == [s EXCEPT !.ready_keys = Tail(@)]
\* The first ready key is taken from the list.
LEMMA NextReadySafe ==
    ASSUME NEW s, Fine(s), s.ready_keys # <<>>
    PROVE  /\ Head(s.ready_keys) \in Keys /\ Safe(NextReady(s), {}, {Head(s.ready_keys)})
           /\ Change(s, NextReady(s), {"ready_keys"}, {}, {}) /\ NextReady(s).cl = s.cl
<1> DEFINE k == Head(s.ready_keys)
           v == Tail(s.ready_keys)
           q == PutS(s, "ready_keys", v)
<1>1. Safe(s, {}, {}) /\ s \in Server /\ Sound(s) /\ Noticed(s, {}) /\ Told(s, {}, {})
    BY FineFacts
<1>2. s.ready_keys \in Seq(Keys)
    BY <1>1 DEF Server
<1>3. k \in Keys /\ k \in ToSet(s.ready_keys) /\ v \in Seq(Keys) /\ ToSet(s.ready_keys) = ToSet(v) \cup {k}
    BY <1>2, TailLists
<1>4. NextReady(s) = q
    BY DEF NextReady, PutS
<1> HIDE DEF k, v
<1>5. ServerOk("ready_keys", v)
    BY <1>3 DEF ServerOk
<1>6. Change(s, q, {"ready_keys"}, {}, {}) /\ q.cl = s.cl
    BY <1>1, <1>5, PutServer
<1>7. q.ready_keys = v
    BY <1>1 DEF PutS, Server
<1> HIDE DEF q
<1>8. q.db = s.db /\ q.blocking_keys = s.blocking_keys /\ q.overwritten = s.overwritten
      /\ q.watched_keys = s.watched_keys /\ q \in Server
    BY <1>6 DEF Change, Same, ServerFields
<1>9. Sound(q)
    BY <1>1, <1>6, <1>8, Frame DEF Sound
<1>10. Noticed(q, {k})
    BY <1>1, <1>3, <1>7, <1>8 DEF Noticed
<1>11. Told(q, {}, {k})
    BY <1>1, <1>3, <1>6, <1>7, <1>8 DEF Told
<1>12. Safe(q, {}, {k})
    BY <1>9, <1>10, <1>11 DEF Safe
<1> QED
    BY <1>3, <1>4, <1>6, <1>12 DEF k

\* handleClientsBlockedOnLists, for one ready key.
LEMMA handleFine ==
    ASSUME NEW s, Fine(s), s.ready_keys # <<>>
    PROVE  /\ Fine(handleClientsBlockedOnLists(s))
           /\ Open(handleClientsBlockedOnLists(s)) = Open(s)
<1> DEFINE k == Head(s.ready_keys)
           a == NextReady(s)
           l == a.blocking_keys[k]
           p == [s |-> a, k |-> k, l |-> l]
           d == ServeAll!Loop(p, a, l)
           q == handleClientsBlockedOnLists(s)
<1>1. k \in Keys /\ Safe(a, {}, {k}) /\ Change(s, a, {"ready_keys"}, {}, {}) /\ a.cl = s.cl
    BY NextReadySafe
<1>2. q = IF a.db[k].t # "list" THEN a
          ELSE IF d.db[k].v = <<>> THEN dbDelete(d, k) ELSE d
    <2> DEFINE f == CHOOSE run : run = [n \in 0..Len(l) |->
                                          IF n = 0 THEN a ELSE Serve(run[n - 1], l[n], k)]
    <2>1. handleClientsBlockedOnLists(s) =
              IF a.db[k].t # "list" THEN a
              ELSE IF f[Len(l)].db[k].v = <<>> THEN dbDelete(f[Len(l)], k) ELSE f[Len(l)]
        BY DEF handleClientsBlockedOnLists, NextReady
    <2> HIDE DEF a
    <2>2. p.k = k
        OBVIOUS
    <2> HIDE DEF p, l, k
    <2>3. d = f[Len(l)]
        BY <2>2 DEF ServeAll!Loop, ServeStep
    <2> HIDE DEF f, d
    <2> QED
        BY <2>1, <2>3
<1> HIDE DEF a, q, k
<1>3. a.db = s.db /\ a.replica = s.replica /\ a.dirty = s.dirty /\ a.executing = s.executing
      /\ a \in Server
    BY <1>1 DEF Change, Same, ServerFields
<1>4. Open(a) = Open(s)
    BY <1>1, Frame
<1>5. Settled(a) /\ ~a.executing /\ \A x \in Clients : InTurn(a.cl[x])
    BY <1>1, <1>3 DEF Fine, Settled
<1>6. CASE a.db[k].t # "list"
    <2>1. Safe(a, {}, {})
        BY <1>1, <1>6, SafeLess
    <2> QED
        BY <1>2, <1>4, <1>5, <1>6, <2>1 DEF Fine, q
<1>7. CASE a.db[k].t = "list"
    <2>1. a.db \in [Keys -> Value] /\ l \in Seq(Clients)
        BY <1>1, <1>3 DEF Server
    <2>2. p.s = a /\ p.k = k /\ p.l = l
        OBVIOUS
    <2> HIDE DEF p, l, d
    <2>3. KeptIn(a.db, k) = a.db
        BY <1>1, <1>5, <1>7, <2>1, KeptProper DEF Settled
    <2>4. Served(a, k)
        <3>1. Serviced(a.db, k)
            BY <1>1, <1>5, <1>7, <2>1, <2>3 DEF Serviced, Settled
        <3> QED
            BY <1>1, <1>5, <2>3, <3>1 DEF Served, Settled
    <2>5. IsInjective(l)
        BY <1>1 DEF Safe, Sound, BlockingTable, Lists, l
    <2>6. Len(l) \in Nat
        BY <2>1, LenProperties
    <2>7. Serving(p, 0, a)
        <3>1. \A x : x \in ToSet(l) <=> \E i \in 1..Len(l) : l[i] = x
            BY <2>1, ToSetFacts
        <3>2. 0 + 1 = 1
            OBVIOUS
        <3> QED
            BY <2>2, <2>4, <3>1, <3>2 DEF Serving, Behind, l
    <2>8. ASSUME NEW n \in 1..Len(l), NEW r, Serving(p, n - 1, r)
          PROVE  Serving(p, n, ServeStep(p, r, l[n]))
        BY <1>1, <2>1, <2>2, <2>5, <2>8, ServingStep
    <2>9. Serving(p, Len(l), d)
        BY <2>6, <2>7, <2>8, ServeAll!LoopHolds DEF d
    <2>10. /\ Served(d, k) /\ Open(d) = Open(a)
           /\ d.db[k].v # <<>> => \A x : x \in ToSet(d.blocking_keys[k]) <=> Behind(p, Len(l), x)
        BY <2>2, <2>9 DEF Serving
    <2>11. /\ Safe(d, {}, {k}) /\ ~d.executing /\ ~d.dirty /\ \A x \in Clients : InTurn(d.cl[x])
           /\ Serviced(d.db, k) /\ d.replica = KeptIn(d.db, k)
        BY <2>10 DEF Served
    <2>12. Proper(KeptIn(d.db, k)) /\ d.db \in [Keys -> Value] /\ d.db[k].t = "list"
        BY <2>11 DEF Serviced
    <2>13. CASE d.db[k].v # <<>>
        <3>1. \A x : ~Behind(p, Len(l), x)
            <4>1. \A i \in (Len(l) + 1)..Len(l) : FALSE
                BY <2>6
            <4> QED
                BY <2>2, <4>1 DEF Behind
        <3>2. d.blocking_keys[k] = <<>>
            <4>1. d \in Server
                BY <2>11 DEF Safe, Sound
            <4>2. d.blocking_keys[k] \in Seq(Clients)
                BY <1>1, <4>1 DEF Server
            <4>3. ToSet(d.blocking_keys[k]) = {}
                BY <2>10, <2>13, <3>1
            <4> QED
                BY <4>2, <4>3, ToSetFacts
        <3>3. Safe(d, {}, {})
            BY <1>1, <2>11, <3>2, SafeLess
        <3>4. KeptIn(d.db, k) = d.db
            <4>1. Keep(d.db[k]) = d.db[k]
                BY <2>13 DEF Keep
            <4> QED
                BY <1>1, <2>12, <4>1 DEF KeptIn
        <3>5. Settled(d)
            BY <2>11, <2>12, <3>4 DEF Settled
        <3> QED
            BY <1>2, <1>4, <1>7, <2>10, <2>11, <2>13, <3>3, <3>5 DEF Fine, q
    <2>14. CASE d.db[k].v = <<>>
        <3> DEFINE e == Write(d, k, None)
        <3>1. q = e
            BY <1>2, <1>7, <2>14 DEF dbDelete
        <3>2. MayChange(d, k, {}) /\ MayBecome(d, k, None, {k}) /\ None \in Value
            BY <1>1, <2>11, ServedMayChange, ConstantValues DEF MayBecome
        <3>3. /\ Safe(e, {}, {k}) /\ Change(d, e, {"db", "overwritten"}, {"stale"}, {})
              /\ e.db = [d.db EXCEPT ![k] = None]
            BY <1>1, <2>11, <3>2, WriteSafe
        <3> HIDE DEF e
        <3>4. e.db[k].t # "list"
            <4>1. e.db[k] = None
                BY <1>1, <2>12, <3>3
            <4> QED
                BY <4>1, ConstantValues
        <3>5. Safe(e, {}, {})
            BY <1>1, <3>3, <3>4, SafeLess
        <3>6. e.db = KeptIn(d.db, k)
            <4>1. Keep(d.db[k]) = None
                BY <2>14 DEF Keep
            <4> QED
                BY <3>3, <4>1 DEF KeptIn
        <3>7. e.replica = d.replica /\ e.dirty = d.dirty /\ e.executing = d.executing
            BY <3>3 DEF Change, Same, ServerFields
        <3>8. Settled(e) /\ ~e.executing
            BY <2>11, <2>12, <3>6, <3>7 DEF Settled
        <3>9. {"stale"} \cap VoiceFields = {} /\ {} \cap VoiceFlags = {}
            BY DEF VoiceFields
        <3>10. ASSUME NEW x \in Clients PROVE InTurn(e.cl[x])
            <4>1. Alike(d.cl[x], e.cl[x], {"stale"}, {}) /\ InTurn(d.cl[x])
                BY <2>11, <3>3 DEF Change
            <4> QED
                BY <3>9, <4>1, VoiceFrame
        <3>11. Open(e) = Open(d)
            BY <3>3, Frame
        <3> QED
            BY <1>4, <2>10, <3>1, <3>5, <3>8, <3>10, <3>11 DEF Fine, q
    <2> QED
        BY <2>13, <2>14
<1> QED
    BY <1>6, <1>7

-----------------------------------------------------------------------------
(* Clients are closed, stop waiting, are written to. *)

\* At most c is gone.
Closer(s, q, c) == Fine(q) /\ q.ready_keys = s.ready_keys /\ Open(s) \ {c} \subseteq Open(q)

\* No client is closed.
LEMMA CloserRefl ==
    ASSUME NEW s, NEW c, Fine(s)
    PROVE  Closer(s, s, c)
BY DEF Closer

\* Two steps that may close c.
LEMMA CloserTrans ==
    ASSUME NEW s, NEW q, NEW r, NEW c, Closer(s, q, c), Closer(q, r, c)
    PROVE  Closer(s, r, c)
BY DEF Closer

\* A step that closes nobody.
LEMMA CloserFrame ==
    ASSUME NEW s, NEW q, NEW c, NEW S, NEW F, NEW G, Fine(s), Change(s, q, S, F, G), Safe(q, {}, {}),
           S \cap Loud = {}, "ready_keys" \notin S, F \cap VoiceFields = {}, G \cap VoiceFlags = {}
    PROVE  Closer(s, q, c) /\ Open(q) = Open(s)
<1>1. Fine(q) /\ Open(q) = Open(s)
    BY FineFrame
<1>2. q.ready_keys = s.ready_keys
    BY DEF Change, Same, ServerFields
<1> QED
    BY <1>1, <1>2 DEF Closer

\* freeClient between commands.
LEMMA freeClientFine ==
    ASSUME NEW s, NEW c, Fine(s), c \in Open(s)
    PROVE  Closer(s, freeClient(s, c), c) /\ Open(freeClient(s, c)) = Open(s) \ {c}
<1> DEFINE q == freeClient(s, c)
<1>1. Safe(s, {}, {}) /\ c \in Clients
    BY FineFacts DEF Open
<1>2. /\ Safe(q, {}, {}) /\ Others(s, q, c) /\ Same(s, q, ClientTables)
      /\ Open(q) = Open(s) \ {c} /\ (InTurn(s.cl[c]) => InTurn(q.cl[c]))
    BY <1>1, freeClientSafe
<1> HIDE DEF q
<1>3. InTurn(q.cl[c])
    BY <1>1, <1>2 DEF Fine
<1>4. ClientTables \cap Loud = {}
    BY DEF ClientTables, Loud
<1>5. Fine(q)
    BY <1>2, <1>3, <1>4, FineOne
<1>6. q.ready_keys = s.ready_keys
    BY <1>2 DEF Same, ServerFields, ClientTables
<1> QED
    BY <1>2, <1>5, <1>6 DEF Closer, q

\* A client that waits is answered and goes on.
Let(s, c) == unblockClient(Answer(s, c), c)
\* A blocked client gets an answer and goes on.
LEMMA LetGoFine ==
    ASSUME NEW s, NEW c, Fine(s), c \in Open(s), Has(s, c, "BLOCKED")
    PROVE  /\ Closer(s, Let(s, c), c) /\ Open(Let(s, c)) = Open(s)
           /\ Spoken(Let(s, c), c, {}, {})
<1> DEFINE a == Answer(s, c)
           q == unblockClient(a, c)
<1>1. Safe(s, {}, {}) /\ c \in Clients /\ ~s.executing
    BY FineFacts DEF Open, Fine
<1>2. Unanswered(s.cl[c])
    BY <1>1 DEF Fine, InTurn, Has
<1>3. /\ Safe(a, {}, {}) /\ Replied(s, a, c, {"pending", "answers"}) /\ Answered(a.cl[c])
    BY <1>1, <1>2, AnswerSafe
<1>4. Let(s, c) = q
    BY DEF Let
<1> HIDE DEF a
<1>5. Change(s, a, ReplyLists, {"pending", "answers"}, ReplyFlags) /\ Others(s, a, c)
    BY <1>3 DEF Replied
<1>6. Open(a) = Open(s)
    BY <1>5, Frame
<1>7. c \in Open(a)
    BY <1>6
<1>8. /\ Safe(q, {}, {}) /\ Others(a, q, c)
      /\ Change(a, q, {"blocking_keys", "unblocked_clients"}, {"bpop"}, {"BLOCKED", "UNBLOCKED"})
      /\ "BLOCKED" \notin q.cl[c].flags
    BY <1>3, <1>7, unblockClientSafe
<1> HIDE DEF q
<1>9. Answered(q.cl[c])
    <2>1. Alike(a.cl[c], q.cl[c], {"bpop"}, {"BLOCKED", "UNBLOCKED"})
        BY <1>1, <1>8 DEF Change
    <2>2. /\ {"bpop"} \cap VoiceFields = {}
          /\ {"BLOCKED", "UNBLOCKED"} \cap
                {"CLOSE_AFTER_REPLY", "REPLY_OFF", "REPLY_SKIP", "REPLY_SKIP_NEXT"} = {}
        BY DEF VoiceFields
    <2> QED
        BY <1>3, <2>1, <2>2, ReplyKept
<1>10. Open(q) = Open(s)
    BY <1>6, <1>8, Frame
<1>11. Others(s, q, c)
    BY <1>5, <1>8 DEF Others
<1> DEFINE S == ReplyLists \cup {"blocking_keys", "unblocked_clients"}
<1>12. Same(s, q, S)
    BY <1>5, <1>8 DEF Change, Same
<1>13. S \cap Loud = {} /\ "ready_keys" \notin S
    BY DEF Loud, ReplyLists
<1> HIDE DEF S
<1>14. InTurn(q.cl[c])
    BY <1>8, <1>9 DEF InTurn
<1>15. Fine(q)
    BY <1>8, <1>11, <1>12, <1>13, <1>14, FineOne
<1>16. q.ready_keys = s.ready_keys
    BY <1>12, <1>13 DEF Same, ServerFields
<1>17. Heard(q, c) /\ ~q.executing
    BY <1>15 DEF Fine, Heard
<1>18. Spoken(q, c, {}, {})
    BY <1>8, <1>9, <1>10, <1>17 DEF Spoken
<1> QED
    BY <1>4, <1>10, <1>15, <1>16, <1>18 DEF Closer

\* A blocked client when the server becomes a slave.
LEMMA DisconnectedFine ==
    ASSUME NEW s, NEW c, Fine(s), c \in Open(s)
    PROVE  Closer(s, Disconnected(s, c), c)
<1>1. CASE ~Has(s, c, "BLOCKED")
    BY <1>1, CloserRefl DEF Disconnected
<1>2. CASE Has(s, c, "BLOCKED")
    <2> DEFINE b == Let(s, c)
               q == Set(b, c, "CLOSE_AFTER_REPLY")
    <2>1. Disconnected(s, c) = q
        BY <1>2 DEF Disconnected, Let
    <2>2. Closer(s, b, c) /\ Open(b) = Open(s) /\ Spoken(b, c, {}, {})
        BY <1>2, LetGoFine
    <2> HIDE DEF b
    <2>3. Fine(b) /\ b \in Server /\ c \in Clients
        BY <2>2, FineFacts DEF Closer, Open
    <2>4. Spoken(q, c, {}, {}) /\ Calm(b, q)
        BY <2>2, CloseAfterReply
    <2>5. Change(b, q, {}, {}, {"CLOSE_AFTER_REPLY"})
        BY <2>3, SetChange DEF FlagNames
    <2> HIDE DEF q
    <2>6. Safe(q, {}, {}) /\ \A x \in Clients : InTurn(q.cl[x])
        BY <2>4 DEF Spoken, Heard, InTurn
    <2>7. Fine(q)
        BY <2>3, <2>4, <2>6, CalmFine
    <2>8. Open(q) = Open(b)
        BY <2>5, Frame
    <2>9. q.ready_keys = b.ready_keys
        BY <2>5 DEF Change, Same, ServerFields
    <2>10. Closer(b, q, c)
        BY <2>7, <2>8, <2>9 DEF Closer
    <2> QED
        BY <2>1, <2>2, <2>10, CloserTrans
<1> QED
    BY <1>1, <1>2

\* clientsCronHandleTimeout.
LEMMA TimeoutFine ==
    ASSUME NEW s, NEW c, Fine(s), c \in Open(s), NEW expired, NEW idle
    PROVE  Closer(s, clientsCronHandleTimeout(s, c, expired, idle), c)
<1>1. Closer(s, freeClient(s, c), c) /\ Closer(s, s, c)
    BY freeClientFine, CloserRefl
<1>2. Has(s, c, "BLOCKED") => Closer(s, Let(s, c), c)
    BY LetGoFine
<1>3. Let(s, c) = unblockClient(replyToBlockedClientTimedOut(s, c), c)
    BY DEF Let, replyToBlockedClientTimedOut
<1> QED
    BY <1>1, <1>2, <1>3 DEF clientsCronHandleTimeout

\* What is written, and whether there is a handler for the rest.
LEMMA PutFine ==
    ASSUME NEW s, NEW c, NEW d \in Clients, NEW g \in {"pending", "handler"}, NEW v, FieldOk(g, v),
           Fine(s)
    PROVE  Closer(s, PutC(s, d, g, v), c) /\ Open(PutC(s, d, g, v)) = Open(s)
<1> DEFINE q == PutC(s, d, g, v)
<1>1. Safe(s, {}, {}) /\ s \in Server
    BY FineFacts
<1>2. Change(s, q, {}, {g}, {})
    BY <1>1, PutField
<1> HIDE DEF q
<1>3. Safe(q, {}, {})
    BY <1>1, <1>2, PrivateSafe DEF TableFields
<1>4. {} \cap Loud = {} /\ "ready_keys" \notin {} /\ {g} \cap VoiceFields = {}
      /\ {} \cap VoiceFlags = {}
    BY DEF VoiceFields
<1> QED
    BY <1>2, <1>3, <1>4, CloserFrame DEF q

\* writeToClient: everything, a part or an error.
LEMMA WrittenFine ==
    ASSUME NEW s, NEW c, Fine(s), c \in Open(s), NEW how
    PROVE  Closer(s, Written(s, c, how), c)
<1> DEFINE v == IF how = "all" THEN 0 ELSE s.cl[c].pending
           q == PutC(s, c, "pending", v)
           b == FALSE
           r == PutC(q, c, "handler", b)
<1>1. s \in Server /\ c \in Clients
    BY FineFacts DEF Open
<1>2. v \in Nat
    <2>1. s.cl[c] \in Client
        BY <1>1, ClientOf
    <2> QED
        BY <2>1 DEF Client
<1>3. [s EXCEPT !.cl[c].pending = IF how = "all" THEN 0 ELSE @] = q
    BY DEF PutC, Put, With
<1> HIDE DEF v
<1>4. FieldOk("pending", v) /\ FieldOk("handler", b)
    BY <1>2 DEF FieldOk
<1>5. Written(s, c, how) \in {freeClient(s, c), q, freeClient(q, c), r}
    <2> HIDE DEF q
    <2>1. [q EXCEPT !.cl[c].handler = FALSE] = r
        BY DEF PutC, Put, With
    <2> HIDE DEF r
    <2> QED
        BY <1>3, <2>1 DEF Written
<1> HIDE DEF b
<1>6. Closer(s, q, c) /\ Open(q) = Open(s)
    BY <1>1, <1>4, PutFine
<1> HIDE DEF q
<1>7. Fine(q) /\ c \in Open(q)
    BY <1>6 DEF Closer
<1>8. Closer(q, r, c) /\ Closer(q, freeClient(q, c), c) /\ Closer(s, freeClient(s, c), c)
    BY <1>1, <1>4, <1>7, PutFine, freeClientFine
<1> HIDE DEF r
<1>9. Closer(s, r, c) /\ Closer(s, freeClient(q, c), c)
    BY <1>6, <1>8, CloserTrans
<1> QED
    BY <1>5, <1>6, <1>8, <1>9

\* The loops over the clients: those that are still to come are connected.
Tending(p, n, q) ==
    /\ Fine(q) /\ q.ready_keys = p.s.ready_keys
    /\ \A i \in (n + 1)..Len(p.l) : p.l[i] \in Open(q)
DisconnectStep(p, q, c) == Disconnected(q, c)
FreeStep(p, q, c) == freeClient(q, c)
TimeoutStep(p, q, c) == clientsCronHandleTimeout(q, c, p.expired, p.idle)
Disconnecting == INSTANCE Loops WITH Step <- DisconnectStep, Holds <- Tending
Freeing == INSTANCE Loops WITH Step <- FreeStep, Holds <- Tending
Cron == INSTANCE Loops WITH Step <- TimeoutStep, Holds <- Tending

\* The next client of a loop that closes clients is still connected.
LEMMA TendingFacts ==
    ASSUME NEW p, p.l \in Seq(Clients), NEW n \in 1..Len(p.l), NEW q, Tending(p, n - 1, q)
    PROVE  Fine(q) /\ p.l[n] \in Open(q)
<1>1. n \in ((n - 1) + 1)..Len(p.l)
    BY LenProperties
<1> QED
    BY <1>1 DEF Tending

\* One turn of such a loop.
LEMMA TendingStep ==
    ASSUME NEW p, p.l \in Seq(Clients), IsInjective(p.l), NEW n \in 1..Len(p.l), NEW q, NEW r,
           Tending(p, n - 1, q), Closer(q, r, p.l[n])
    PROVE  Tending(p, n, r)
<1> DEFINE l == p.l
<1>1. Len(l) \in Nat /\ DOMAIN l = 1..Len(l)
    BY LenProperties
<1>2. Fine(r) /\ r.ready_keys = p.s.ready_keys
    BY DEF Tending, Closer
<1>3. ASSUME NEW i \in (n + 1)..Len(l) PROVE l[i] \in Open(r)
    <2>1. i \in ((n - 1) + 1)..Len(l) /\ i \in 1..Len(l) /\ i # n
        BY <1>1
    <2>2. l[i] \in Open(q)
        BY <2>1 DEF Tending
    <2>3. l[i] # l[n]
        BY <1>1, <2>1 DEF IsInjective
    <2> QED
        BY <2>2, <2>3 DEF Closer
<1> QED
    BY <1>2, <1>3 DEF Tending

\* Before the loop.
LEMMA TendingStart ==
    ASSUME NEW p, p.l \in Seq(Clients), ToSet(p.l) \subseteq Open(p.s), Fine(p.s)
    PROVE  Tending(p, 0, p.s) /\ Len(p.l) \in Nat
<1>1. Len(p.l) \in Nat
    BY LenProperties
<1>2. \A i \in 1..Len(p.l) : p.l[i] \in ToSet(p.l)
    BY ToSetFacts
<1>3. (0 + 1)..Len(p.l) = 1..Len(p.l)
    OBVIOUS
<1> QED
    BY <1>1, <1>2, <1>3 DEF Tending

\* disconnectAllBlockedClients.
LEMMA disconnectAllFine ==
    ASSUME NEW s, Fine(s)
    PROVE  LET q == disconnectAllBlockedClients(s) IN Fine(q) /\ q.ready_keys = s.ready_keys
<1> DEFINE l == s.clients
           p == [s |-> s, l |-> l]
           q == Disconnecting!Loop(p, s, l)
<1>1. s \in Server /\ Sound(s)
    BY FineFacts
<1>2. l \in Seq(Clients) /\ IsInjective(l) /\ ToSet(l) = Open(s)
    BY <1>1 DEF Server, Sound, ClientsTable, Lists
<1>3. p.s = s /\ p.l = l
    OBVIOUS
<1>4. disconnectAllBlockedClients(s) = q
    BY DEF disconnectAllBlockedClients, Disconnecting!Loop, DisconnectStep
<1> HIDE DEF p, l, q
<1>5. Tending(p, 0, s) /\ Len(l) \in Nat
    BY <1>2, <1>3, TendingStart
<1>6. ASSUME NEW n \in 1..Len(l), NEW r, Tending(p, n - 1, r)
      PROVE  Tending(p, n, DisconnectStep(p, r, l[n]))
    <2>1. Fine(r) /\ l[n] \in Open(r)
        BY <1>2, <1>3, <1>6, TendingFacts
    <2>2. Closer(r, DisconnectStep(p, r, l[n]), l[n])
        BY <2>1, DisconnectedFine DEF DisconnectStep
    <2> QED
        BY <1>2, <1>3, <1>6, <2>2, TendingStep
<1>7. Tending(p, Len(l), q)
    BY <1>5, <1>6, Disconnecting!LoopHolds DEF q
<1> QED
    BY <1>3, <1>4, <1>7 DEF Tending

\* freeClientsInAsyncFreeQueue.
LEMMA freeQueueFine ==
    ASSUME NEW s, Fine(s)
    PROVE  LET q == freeClientsInAsyncFreeQueue(s) IN Fine(q) /\ q.ready_keys = s.ready_keys
<1> DEFINE l == s.clients_to_close
           p == [s |-> s, l |-> l]
           q == Freeing!Loop(p, s, l)
<1>1. s \in Server /\ Sound(s)
    BY FineFacts
<1>2. l \in Seq(Clients) /\ IsInjective(l) /\ ToSet(l) \subseteq Open(s)
    BY <1>1 DEF Server, Sound, CloseTable, Lists, Flags
<1>3. p.s = s /\ p.l = l
    OBVIOUS
<1>4. freeClientsInAsyncFreeQueue(s) = q
    BY DEF freeClientsInAsyncFreeQueue, Freeing!Loop, FreeStep
<1> HIDE DEF p, l, q
<1>5. Tending(p, 0, s) /\ Len(l) \in Nat
    BY <1>2, <1>3, TendingStart
<1>6. ASSUME NEW n \in 1..Len(l), NEW r, Tending(p, n - 1, r)
      PROVE  Tending(p, n, FreeStep(p, r, l[n]))
    <2>1. Fine(r) /\ l[n] \in Open(r)
        BY <1>2, <1>3, <1>6, TendingFacts
    <2>2. Closer(r, FreeStep(p, r, l[n]), l[n])
        BY <2>1, freeClientFine DEF FreeStep
    <2> QED
        BY <1>2, <1>3, <1>6, <2>2, TendingStep
<1>7. Tending(p, Len(l), q)
    BY <1>5, <1>6, Freeing!LoopHolds DEF q
<1> QED
    BY <1>3, <1>4, <1>7 DEF Tending

\* clientsCron.
LEMMA clientsCronFine ==
    ASSUME NEW s, Fine(s), NEW expired, NEW idle
    PROVE  LET q == clientsCron(s, expired, idle) IN Fine(q) /\ q.ready_keys = s.ready_keys
<1> DEFINE l == Reverse(s.clients)
           p == [s |-> s, l |-> l, expired |-> expired, idle |-> idle]
           q == Cron!Loop(p, s, l)
<1>1. s \in Server /\ Sound(s)
    BY FineFacts
<1>2. l \in Seq(Clients) /\ IsInjective(l) /\ ToSet(l) \subseteq Open(s)
    <2>1. s.clients \in Seq(Clients) /\ Lists(s.clients, Open(s))
        BY <1>1 DEF Server, Sound, ClientsTable
    <2>2. l \in Seq(Clients) /\ Lists(l, Open(s))
        BY <2>1, ReverseLists
    <2> HIDE DEF l
    <2> QED
        BY <2>2 DEF Lists
<1>3. p.s = s /\ p.l = l /\ p.expired = expired /\ p.idle = idle
    OBVIOUS
<1>4. clientsCron(s, expired, idle) = q
    <2> HIDE DEF p
    <2> QED
        BY <1>3 DEF clientsCron, Cron!Loop, TimeoutStep
<1> HIDE DEF p, l, q
<1>5. Tending(p, 0, s) /\ Len(l) \in Nat
    BY <1>2, <1>3, TendingStart
<1>6. ASSUME NEW n \in 1..Len(l), NEW r, Tending(p, n - 1, r)
      PROVE  Tending(p, n, TimeoutStep(p, r, l[n]))
    <2>1. Fine(r) /\ l[n] \in Open(r)
        BY <1>2, <1>3, <1>6, TendingFacts
    <2>2. Closer(r, TimeoutStep(p, r, l[n]), l[n])
        BY <2>1, TimeoutFine DEF TimeoutStep
    <2> QED
        BY <1>2, <1>3, <1>6, <2>2, TendingStep
<1>7. Tending(p, Len(l), q)
    BY <1>5, <1>6, Cron!LoopHolds DEF q
<1> QED
    BY <1>3, <1>4, <1>7 DEF Tending

-----------------------------------------------------------------------------
(* The steps of the event loop. *)

\* A new connection.
LEMMA createClientFacts ==
    /\ createClient \in Client /\ createClient.state = "open" /\ createClient.flags = {}
    /\ createClient.bpop.keys = {} /\ createClient.bpop.target = NULL
    /\ createClient.watched_keys = <<>> /\ createClient.channels = {}
    /\ createClient.patterns = <<>> /\ createClient.querybuf = <<>> /\ createClient.stale = {}
    /\ ~createClient.refused /\ ~createClient.broken /\ InTurn(createClient)
<1>1. createClient \in Client
    BY DEF createClient, Client, Bpop
<1>2. /\ createClient.state = "open" /\ createClient.flags = {}
      /\ createClient.bpop.keys = {} /\ createClient.bpop.target = NULL
      /\ createClient.watched_keys = <<>> /\ createClient.channels = {}
      /\ createClient.patterns = <<>> /\ createClient.querybuf = <<>> /\ createClient.stale = {}
      /\ ~createClient.refused /\ ~createClient.broken
    BY DEF createClient
<1>3. createClient.answers = <<>> /\ createClient.n = 0
    BY DEF createClient
<1>4. Len(<<>>) = 0 /\ 1..0 = {}
    OBVIOUS
<1>5. InTurn(createClient)
    BY <1>2, <1>3, <1>4 DEF InTurn, Answered, Ordered, Replies
<1> QED
    BY <1>1, <1>2, <1>5

\* Nothing is in the empty list.
LEMMA NothingIn == \A x : ~Contains(<<>>, x)
BY DEF Contains

Accepted(s, c) == [s EXCEPT !.cl[c] = createClient, !.clients = Append(@, c)]
\* A client that connects is in no table but that of the clients.
LEMMA AcceptedFine ==
    ASSUME NEW s, Fine(s), NEW c \in Clients, s.cl[c].state = "new"
    PROVE  /\ Fine(Accepted(s, c)) /\ c \in Open(Accepted(s, c))
           /\ Accepted(s, c).ready_keys = s.ready_keys
<1> DEFINE u == createClient
           v == Append(s.clients, c)
           q == PutB(s, c, u, "clients", v)
<1>1. s \in Server /\ Sound(s) /\ Noticed(s, {}) /\ Told(s, {}, {}) /\ s.cl[c] \in Client
    BY FineFacts, ClientOf
<1>2. /\ u \in Client /\ u.state = "open" /\ u.flags = {} /\ u.bpop.keys = {} /\ u.bpop.target = NULL
      /\ u.watched_keys = <<>> /\ u.channels = {} /\ u.patterns = <<>> /\ u.querybuf = <<>>
      /\ u.stale = {} /\ ~u.refused /\ ~u.broken /\ InTurn(u)
    BY createClientFacts
<1>3. c \notin Open(s)
    BY DEF Open
<1>4. s.clients \in Seq(Clients) /\ Lists(s.clients, Open(s))
    BY <1>1 DEF Server, Sound, ClientsTable
<1>5. v \in Seq(Clients) /\ Lists(v, Open(s) \cup {c})
    BY <1>3, <1>4, ListsAppend
<1>6. Accepted(s, c) = q
    BY DEF Accepted, PutB, PutS, Put
<1> HIDE DEF u, v
<1>7. ServerOk("clients", v)
    BY <1>5 DEF ServerOk
<1>8. Alike(s.cl[c], u, ClientFields, FlagNames)
    <2>1. s.cl[c].flags \subseteq FlagNames
        BY <1>1 DEF Client
    <2> QED
        BY <1>2, <2>1 DEF Alike
<1>9. Change(s, q, {"clients"}, ClientFields, FlagNames) /\ Others(s, q, c) /\ q.cl[c] = u
    BY <1>1, <1>2, <1>7, <1>8, PutBoth
<1>10. q.clients = v
    <2>1. Put(s, c, u) \in Server
        BY <1>1, <1>2, <1>8, PutClient DEF Change
    <2> QED
        BY <2>1 DEF PutB, PutS, Server
<1> HIDE DEF q
<1>11. q \in Server /\ Same(s, q, {"clients"})
    BY <1>9 DEF Change
<1>12. \A x \in Clients : x # c => q.cl[x] = s.cl[x]
    BY <1>9 DEF Others
<1>13. Open(q) = Open(s) \cup {c}
    BY <1>2, <1>9, <1>12 DEF Open
<1>14. /\ q.blocking_keys = s.blocking_keys /\ q.watched_keys = s.watched_keys
       /\ q.pubsub_channels = s.pubsub_channels /\ q.pubsub_patterns = s.pubsub_patterns
       /\ q.clients_pending_write = s.clients_pending_write
       /\ q.clients_to_close = s.clients_to_close /\ q.unblocked_clients = s.unblocked_clients
       /\ q.twice = s.twice
       /\ q.ready_keys = s.ready_keys /\ q.db = s.db /\ q.overwritten = s.overwritten
    BY <1>11 DEF Same, ServerFields
<1>15. ClientsTable(q)
    BY <1>5, <1>10, <1>13 DEF ClientsTable
<1>16. \A k \in Keys : Waiting(q, k) = Waiting(s, k)
    BY <1>2, <1>3, <1>9, <1>12, <1>13 DEF Waiting, Open
<1>17. \A k \in Keys : Watching(q, k) = Watching(s, k)
    BY <1>2, <1>3, <1>9, <1>12, <1>13, NothingIn DEF Watching, Open
<1>18. \A ch \in Channels : Subscribed(q, ch) = Subscribed(s, ch)
    BY <1>2, <1>3, <1>9, <1>12, <1>13 DEF Subscribed, Open
<1>19. Subscriptions(q) = Subscriptions(s)
    BY <1>2, <1>3, <1>9, <1>12, <1>13, NothingIn DEF Subscriptions, Open
<1>20. \A f : Flags(q, f) = Flags(s, f)
    BY <1>2, <1>3, <1>9, <1>12, <1>13 DEF Flags, Open
<1>21. BlockingTable(q) /\ WatchTable(q) /\ ChannelTable(q) /\ PatternTable(q)
    BY <1>1, <1>14, <1>16, <1>17, <1>18, <1>19
       DEF Sound, BlockingTable, WatchTable, ChannelTable, PatternTable
<1>22. WriteTable(q) /\ CloseTable(q) /\ UnblockedTable(q)
    BY <1>1, <1>14, <1>20 DEF Sound, WriteTable, CloseTable, UnblockedTable
<1>23. BlockedClients(q)
    <2>1. BlockedClient(u)
        BY <1>2 DEF BlockedClient
    <2> QED
        BY <1>1, <1>9, <1>12, <1>13, <2>1 DEF Sound, BlockedClients, Open
<1>24. Unread(q)
    BY <1>1, <1>12, <1>13 DEF Sound, Unread
<1>25. Sound(q)
    BY <1>11, <1>15, <1>21, <1>22, <1>23, <1>24 DEF Sound
<1>26. Noticed(q, {})
    BY <1>1, <1>14 DEF Noticed
<1>27. Told(q, {}, {})
    <2>1. ToldClient(u, {})
        BY <1>2 DEF ToldClient
    <2>2. \A x \in Clients : ToldClient(q.cl[x], {})
        BY <1>1, <1>9, <1>12, <2>1 DEF Told
    <2>3. \A x \in Clients : \A k \in q.cl[x].stale : x \in ToSet(q.watched_keys[k])
        BY <1>1, <1>2, <1>9, <1>12, <1>14 DEF Told
    <2>4. \A k \in Keys : c \notin ToSet(s.watched_keys[k])
        BY <1>1, <1>3 DEF Sound, WatchTable, Lists, Watching
    <2>5. \A k \in Keys \ {} : k \in ToSet(q.ready_keys) \cup {} =>
              \A x \in Clients : x \in ToSet(q.watched_keys[k]) => Dirtied(q.cl[x])
        BY <1>1, <1>12, <1>14, <2>4 DEF Told
    <2> QED
        BY <2>2, <2>3, <2>5 DEF Told
<1>28. Safe(q, {}, {})
    BY <1>25, <1>26, <1>27 DEF Safe
<1>29. {"clients"} \cap Loud = {} /\ InTurn(q.cl[c])
    BY <1>2, <1>9 DEF Loud
<1>30. Fine(q)
    BY <1>9, <1>11, <1>28, <1>29, FineOne
<1> QED
    BY <1>6, <1>13, <1>14, <1>30

\* One more command in the buffer.
LEMMA ReadFine ==
    ASSUME NEW s, Fine(s), NEW c, c \in Open(s), NEW cmd \in Requests
    PROVE  LET q == [s EXCEPT !.cl[c].querybuf = Append(@, cmd)]
           IN  Fine(q) /\ Open(q) = Open(s) /\ q.ready_keys = s.ready_keys
<1> DEFINE v == Append(s.cl[c].querybuf, cmd)
           q == PutC(s, c, "querybuf", v)
<1>1. s \in Server /\ Sound(s) /\ Noticed(s, {}) /\ Told(s, {}, {}) /\ c \in Clients
    BY FineFacts DEF Open
<1>2. v \in Seq(Requests)
    <2>1. s.cl[c].querybuf \in Seq(Requests)
        BY <1>1, ClientOf DEF Client
    <2> QED
        BY <2>1, AppendProperties
<1>3. [s EXCEPT !.cl[c].querybuf = Append(@, cmd)] = q
    BY DEF PutC, Put, With
<1> HIDE DEF v
<1>4. FieldOk("querybuf", v)
    BY <1>2 DEF FieldOk
<1>5. Change(s, q, {}, {"querybuf"}, {}) /\ Others(s, q, c)
    BY <1>1, <1>4, PutField
<1> HIDE DEF q
<1>6. Open(q) = Open(s) /\ q \in Server
    BY <1>5, Frame DEF Change
<1>7. Unread(q)
    BY <1>1, <1>5, <1>6 DEF Unread, Sound, Others
<1>8. Sound(q)
    BY <1>1, <1>5, <1>6, <1>7, Frame DEF Sound
<1>9. Noticed(q, {}) /\ Told(q, {}, {})
    BY <1>1, <1>5, NoticedFrame, ToldFrame
<1>10. Safe(q, {}, {})
    BY <1>8, <1>9 DEF Safe
<1>11. {} \cap Loud = {} /\ {"querybuf"} \cap VoiceFields = {} /\ {} \cap VoiceFlags = {}
    BY DEF VoiceFields
<1>12. Fine(q)
    BY <1>5, <1>10, <1>11, FineFrame
<1>13. q.ready_keys = s.ready_keys
    BY <1>5 DEF Change, Same, ServerFields
<1> QED
    BY <1>3, <1>6, <1>12, <1>13

\* The first of a list of clients leaves it, and the flag that goes with it.
First(s, l, c, f) == Clear(PutS(s, l, Tail(s[l])), c, {f})
Gone(s, q, l, c, f) ==
    /\ Change(s, q, {l}, {}, {f}) /\ Others(s, q, c) /\ q[l] = Tail(s[l])
    /\ q.cl[c].flags = s.cl[c].flags \ {f}
\* The first of a list of clients leaves it.
LEMMA FirstChange ==
    ASSUME NEW s \in Server, NEW l \in {"unblocked_clients", "clients_pending_write"},
           NEW c \in Clients, NEW f, s[l] # <<>>
    PROVE  Gone(s, First(s, l, c, f), l, c, f)
<1> DEFINE v == Tail(s[l])
           b == PutS(s, l, v)
           q == Clear(b, c, {f})
<1>1. s[l] \in Seq(Clients)
    BY DEF Server
<1>2. v \in Seq(Clients)
    BY <1>1, Ends
<1>3. First(s, l, c, f) = q
    BY DEF First
<1>4. ServerOk(l, v)
    BY <1>2 DEF ServerOk
<1> HIDE DEF v
<1>5. Change(s, b, {l}, {}, {}) /\ b.cl = s.cl /\ Others(s, b, c)
    BY <1>4, PutServer
<1>6. b[l] = v
    BY DEF PutS, Server
<1> HIDE DEF b
<1>7. b \in Server
    BY <1>5 DEF Change
<1>8. Change(b, q, {}, {}, {f}) /\ Others(b, q, c) /\ q.cl[c].flags = b.cl[c].flags \ {f}
    BY <1>7, ClearChange
<1> HIDE DEF q
<1>9. Change(s, q, {l}, {}, {f})
    <2>1. Change(s, q, {l} \cup {}, {} \cup {}, {} \cup {f})
        BY <1>5, <1>8, ChangeTrans
    <2> QED
        BY <2>1, ChangeMore
<1>10. q[l] = b[l]
    BY <1>8 DEF Change, Same, ServerFields
<1> QED
    BY <1>3, <1>5, <1>6, <1>8, <1>9, <1>10 DEF Others, Gone, v

\* The first unblocked client: if it has input, it is connected.
LEMMA UnblockedFirst ==
    ASSUME NEW s, Fine(s), s.unblocked_clients # <<>>
    PROVE  LET c == Head(s.unblocked_clients)
               q == First(s, "unblocked_clients", c, "UNBLOCKED")
           IN  /\ c \in Clients /\ Fine(q) /\ Open(q) = Open(s) /\ q.ready_keys = s.ready_keys
               /\ q.cl[c].querybuf # <<>> => c \in Open(q)
<1> DEFINE c == Head(s.unblocked_clients)
           q == First(s, "unblocked_clients", c, "UNBLOCKED")
<1>1. s \in Server /\ Sound(s) /\ Noticed(s, {}) /\ Told(s, {}, {})
    BY FineFacts
<1>2. s.unblocked_clients \in Seq(Clients)
    BY <1>1 DEF Server
<1>3. c \in Clients /\ ToSet(s.unblocked_clients) = ToSet(Tail(s.unblocked_clients)) \cup {c}
    BY <1>2, TailLists
<1> HIDE DEF c
<1>4. /\ Change(s, q, {"unblocked_clients"}, {}, {"UNBLOCKED"}) /\ Others(s, q, c)
      /\ q.unblocked_clients = Tail(s.unblocked_clients)
      /\ q.cl[c].flags = s.cl[c].flags \ {"UNBLOCKED"}
    <2> DEFINE l == "unblocked_clients"
               f == "UNBLOCKED"
    <2>1. l \in {"unblocked_clients", "clients_pending_write"} /\ s[l] # <<>>
        OBVIOUS
    <2> HIDE DEF l, f
    <2>2. Gone(s, First(s, l, c, f), l, c, f)
        BY ONLY <1>1, <1>3, <2>1, FirstChange
    <2> QED
        BY <2>2 DEF Gone, l, f
<1> HIDE DEF q
<1>5. Open(q) = Open(s) /\ q \in Server
    BY <1>4, Frame DEF Change
<1>6. UnblockedTable(q)
    <2>1. ListsBut(Tail(s.unblocked_clients), Flags(s, "UNBLOCKED") \ {c}, s.twice)
        BY <1>1, <1>2, ListsButLess DEF Sound, UnblockedTable, c
    <2>2. Flags(q, "UNBLOCKED") = Flags(s, "UNBLOCKED") \ {c}
        BY <1>3, <1>4, <1>5 DEF Flags, Others, Open
    <2>3. q.twice = s.twice
        BY <1>4 DEF Change, Same, ServerFields
    <2> QED
        BY <1>4, <2>1, <2>2, <2>3 DEF UnblockedTable
<1>7. Sound(q)
    BY <1>1, <1>4, <1>5, <1>6, Frame DEF Sound
<1>8. Noticed(q, {}) /\ Told(q, {}, {})
    BY <1>1, <1>4, NoticedFrame, ToldFrame
<1>9. Safe(q, {}, {})
    BY <1>7, <1>8 DEF Safe
<1>10. {"unblocked_clients"} \cap Loud = {} /\ {} \cap VoiceFields = {}
       /\ {"UNBLOCKED"} \cap VoiceFlags = {}
    BY DEF Loud, VoiceFlags
<1>11. Fine(q)
    BY <1>4, <1>9, <1>10, FineFrame
<1>12. q.ready_keys = s.ready_keys
    BY <1>4 DEF Change, Same, ServerFields
<1>13. q.cl[c].querybuf # <<>> => c \in Open(q)
    BY <1>3, <1>7 DEF Sound, Unread
<1> QED
    BY <1>3, <1>5, <1>11, <1>12, <1>13 DEF c, q

\* The first client with something to write is connected.
LEMMA WriteFirst ==
    ASSUME NEW s, Fine(s), s.clients_pending_write # <<>>
    PROVE  LET c == Head(s.clients_pending_write)
               q == First(s, "clients_pending_write", c, "PENDING_WRITE")
           IN  c \in Open(q) /\ Fine(q) /\ q.ready_keys = s.ready_keys
<1> DEFINE l == s.clients_pending_write
           c == Head(l)
           q == First(s, "clients_pending_write", c, "PENDING_WRITE")
<1>1. s \in Server /\ Sound(s) /\ Noticed(s, {}) /\ Told(s, {}, {})
    BY FineFacts
<1>2. l \in Seq(Clients) /\ Lists(l, Flags(s, "PENDING_WRITE"))
    BY <1>1 DEF Server, Sound, WriteTable
<1>3. c \in Clients /\ c \in ToSet(l) /\ Lists(Tail(l), Flags(s, "PENDING_WRITE") \ {c})
    BY <1>2, TailLists
<1>4. c \in Open(s)
    BY <1>2, <1>3 DEF Lists, Flags
<1> HIDE DEF c
<1>5. /\ Change(s, q, {"clients_pending_write"}, {}, {"PENDING_WRITE"}) /\ Others(s, q, c)
      /\ q.clients_pending_write = Tail(l)
      /\ q.cl[c].flags = s.cl[c].flags \ {"PENDING_WRITE"}
    <2> DEFINE m == "clients_pending_write"
               f == "PENDING_WRITE"
    <2>1. m \in {"unblocked_clients", "clients_pending_write"} /\ s[m] # <<>>
        OBVIOUS
    <2> HIDE DEF m, f
    <2>2. Gone(s, First(s, m, c, f), m, c, f)
        BY ONLY <1>1, <1>3, <2>1, FirstChange
    <2> QED
        BY <2>2 DEF Gone, m, f
<1> HIDE DEF q
<1>6. Open(q) = Open(s) /\ q \in Server
    BY <1>5, Frame DEF Change
<1>7. WriteTable(q)
    <2>1. Flags(q, "PENDING_WRITE") = Flags(s, "PENDING_WRITE") \ {c}
        BY <1>4, <1>5, <1>6 DEF Flags, Others, Open
    <2> QED
        BY <1>3, <1>5, <2>1 DEF WriteTable
<1>8. Sound(q)
    BY <1>1, <1>5, <1>6, <1>7, Frame DEF Sound
<1>9. Noticed(q, {}) /\ Told(q, {}, {})
    BY <1>1, <1>5, NoticedFrame, ToldFrame
<1>10. Safe(q, {}, {})
    BY <1>8, <1>9 DEF Safe
<1>11. {"clients_pending_write"} \cap Loud = {} /\ {} \cap VoiceFields = {}
       /\ {"PENDING_WRITE"} \cap VoiceFlags = {}
    BY DEF Loud, VoiceFlags
<1>12. Fine(q)
    BY <1>5, <1>10, <1>11, FineFrame
<1>13. q.ready_keys = s.ready_keys
    BY <1>5 DEF Change, Same, ServerFields
<1> QED
    BY <1>4, <1>6, <1>12, <1>13 DEF c, q

\* The clock and the role.
LEMMA PlainFine ==
    ASSUME NEW s, Fine(s), NEW g \in {"pause_over", "slave"}, NEW v \in BOOLEAN
    PROVE  Fine(PutS(s, g, v)) /\ PutS(s, g, v).ready_keys = s.ready_keys
<1> DEFINE q == PutS(s, g, v)
<1>1. Safe(s, {}, {}) /\ s \in Server
    BY FineFacts
<1>2. ServerOk(g, v)
    BY DEF ServerOk
<1>3. Change(s, q, {g}, {}, {})
    BY <1>1, <1>2, PutServer
<1> HIDE DEF q
<1>4. Safe(q, {}, {})
    BY <1>1, <1>3, PrivateSafe DEF PlainFields
<1>5. {g} \cap Loud = {} /\ {} \cap VoiceFields = {} /\ {} \cap VoiceFlags = {}
    BY DEF Loud
<1>6. Fine(q)
    BY <1>3, <1>4, <1>5, FineFrame
<1>7. q.ready_keys = s.ready_keys
    BY <1>3 DEF Change, Same, ServerFields
<1> QED
    BY <1>6, <1>7 DEF q

-----------------------------------------------------------------------------
(* The invariant, between the steps. *)

LEMMA Now ==
    ASSUME IInv
    PROVE  /\ Fine(server) /\ phase \in {"events", "unblock", "write"}
           /\ current \in Open(server) \cup {NULL}
           /\ server.ready_keys # <<>> => current # NULL
           /\ phase = "write" => current = NULL
           /\ sent \in Nat
BY DEF IInv, Fine

\* The invariant after a step, from what its action establishes.
LEMMA Then ==
    ASSUME IInv, Fine(server'), phase' \in {"events", "unblock", "write"},
           current' \in Open(server') \cup {NULL},
           server'.ready_keys # <<>> => current' # NULL, phase' = "write" => current' = NULL,
           load' = load, sent' \in Nat
    PROVE  IInv'
BY DEF IInv, Fine

\* Between commands nobody is being processed and no key is ready.
LEMMA WhenIdle ==
    ASSUME IInv, Idle, Fine(server'), server'.ready_keys = server.ready_keys,
           phase' \in {"events", "unblock", "write"}, current' = current, load' = load, sent' = sent
    PROVE  IInv'
<1>1. server.ready_keys = <<>> /\ current = NULL /\ sent \in Nat
    BY Now DEF Idle
<1> QED
    BY <1>1, Then

\* A connected client is a client.
LEMMA OpenIs ==
    ASSUME NEW s, NEW c, c \in Open(s)
    PROVE  c \in Clients /\ c # NULL
BY NetworkingAssumption DEF Open

\* A client that has not connected yet.
LEMMA NotYetFacts ==
    /\ NotYet \in Client /\ NotYet.state = "new" /\ NotYet.querybuf = <<>> /\ NotYet.stale = {}
    /\ ~NotYet.refused /\ ~NotYet.broken /\ InTurn(NotYet)
<1>1. NotYet \in Client
    BY createClientFacts DEF NotYet, Client
<1>2. /\ NotYet.state = "new" /\ NotYet.querybuf = <<>> /\ NotYet.stale = {} /\ NotYet.flags = {}
      /\ ~NotYet.refused /\ ~NotYet.broken /\ NotYet.answers = <<>> /\ NotYet.n = 0
    BY DEF NotYet, createClient
<1>3. Len(<<>>) = 0 /\ 1..0 = {}
    OBVIOUS
<1>4. InTurn(NotYet)
    BY <1>2, <1>3 DEF InTurn, Answered, Ordered, Replies
<1> QED
    BY <1>1, <1>2, <1>4

\* The empty list has nobody.
LEMMA NoList ==
    <<>> \in Seq(Clients) /\ Lists(<<>>, {}) /\ ListsBut(<<>>, {}, {})
BY DEF Lists, ListsBut, IsInjective, ToSet

\* The server at the start, field by field.
LEMMA InitServer ==
    ASSUME Init
    PROVE  /\ server \in Server
           /\ \A c \in Clients : server.cl[c] = IF c \in load.late THEN NotYet ELSE createClient
           /\ server.clients = SetToSeq(Clients \ load.late)
           /\ \A k \in Keys : server.blocking_keys[k] = <<>> /\ server.watched_keys[k] = <<>>
           /\ \A k \in Keys : server.db[k] = None
           /\ \A ch \in Channels : server.pubsub_channels[ch] = <<>>
           /\ server.replica = server.db /\ server.pubsub_patterns = <<>>
           /\ server.ready_keys = <<>> /\ server.unblocked_clients = <<>> /\ server.twice = {}
           /\ server.clients_pending_write = <<>> /\ server.clients_to_close = <<>>
           /\ ~server.executing /\ ~server.dirty
           /\ Lists(server.clients, Clients \ load.late)
<1>1. IsFiniteSet(Clients \ load.late)
    BY ClientsAssumption, FS_Subset
<1>2. /\ SetToSeq(Clients \ load.late) \in Seq(Clients \ load.late)
      /\ Lists(SetToSeq(Clients \ load.late), Clients \ load.late)
    BY <1>1, SetToSeqLists
<1> DEFINE l == SetToSeq(Clients \ load.late)
<1>3. l \in Seq(Clients) /\ Lists(l, Clients \ load.late)
    BY <1>2
<1> DEFINE table == [c \in Clients |-> IF c \in load.late THEN NotYet ELSE createClient]
           empty == [k \in Keys |-> None]
           nobody == [k \in Keys |-> <<>>]
           quiet == [ch \in Channels |-> <<>>]
           off == FALSE
           argv == Command
<1>4. table \in [Clients -> Client]
    BY NotYetFacts, createClientFacts
<1>5. None \in Value /\ empty \in [Keys -> Value]
    BY DEF Value, None
<1>6. nobody \in [Keys -> Seq(Clients)] /\ quiet \in [Channels -> Seq(Clients)]
    BY NoList
<1>7. argv \in Commands
    BY DEF Commands, Command, Arguments
<1>8. server = [cl |-> table, clients |-> l, db |-> empty, replica |-> empty,
                blocking_keys |-> nobody, watched_keys |-> nobody,
                ready_keys |-> <<>>, overwritten |-> {},
                pubsub_channels |-> quiet, pubsub_patterns |-> <<>>,
                unblocked_clients |-> <<>>, twice |-> {}, clients_pending_write |-> <<>>,
                clients_to_close |-> <<>>, clients_paused |-> off, pause_over |-> off,
                slave |-> off, executing |-> off, dirty |-> off, argv |-> argv]
    BY DEF Init
<1>9. \A c \in Clients : table[c] = IF c \in load.late THEN NotYet ELSE createClient
    OBVIOUS
<1>10. \A k \in Keys : nobody[k] = <<>> /\ empty[k] = None
    OBVIOUS
<1>11. \A ch \in Channels : quiet[ch] = <<>>
    OBVIOUS
<1>12. off \in BOOLEAN /\ ~off
    OBVIOUS
<1> HIDE DEF l, table, empty, nobody, quiet, off, argv
<1>13. server \in Server
    BY <1>3, <1>4, <1>5, <1>6, <1>7, <1>8, <1>12 DEF Server
<1>14. /\ server.cl = table /\ server.clients = l /\ server.db = empty /\ server.replica = empty
       /\ server.blocking_keys = nobody /\ server.watched_keys = nobody
       /\ server.ready_keys = <<>> /\ server.unblocked_clients = <<>> /\ server.twice = {}
       /\ server.pubsub_channels = quiet /\ server.pubsub_patterns = <<>>
       /\ server.clients_pending_write = <<>> /\ server.clients_to_close = <<>>
       /\ server.executing = off /\ server.dirty = off
    BY <1>8
<1> QED
    BY <1>3, <1>9, <1>10, <1>11, <1>12, <1>13, <1>14 DEF l

\* The invariant holds at the start.
LEMMA InitIInv == Init => IInv
<1> SUFFICES ASSUME Init PROVE IInv
    OBVIOUS
<1> DEFINE late == load.late
<1>1. /\ server \in Server
      /\ \A c \in Clients : server.cl[c] = IF c \in late THEN NotYet ELSE createClient
      /\ \A k \in Keys : server.blocking_keys[k] = <<>> /\ server.watched_keys[k] = <<>>
      /\ \A k \in Keys : server.db[k] = None
      /\ \A ch \in Channels : server.pubsub_channels[ch] = <<>>
      /\ server.replica = server.db /\ server.pubsub_patterns = <<>>
      /\ server.ready_keys = <<>> /\ server.unblocked_clients = <<>> /\ server.twice = {}
      /\ server.clients_pending_write = <<>> /\ server.clients_to_close = <<>>
      /\ ~server.executing /\ ~server.dirty
      /\ Lists(server.clients, Clients \ late)
    BY InitServer
<1>2. /\ phase = "events" /\ current = NULL /\ sent = 0
      /\ \E w \in DOMAIN Workloads : load = Workloads[w]
    BY DEF Init
<1> HIDE DEF late
<1>3. \A c \in Clients : c \in late => server.cl[c] = NotYet
    BY <1>1
<1>4. \A c \in Clients \ late : server.cl[c] = createClient
    BY <1>1
<1>5. Open(server) = Clients \ late
    BY <1>3, <1>4, NotYetFacts, createClientFacts DEF Open
<1>6. ClientsTable(server)
    BY <1>1, <1>5 DEF ClientsTable
<1>7. \A k \in Keys : Waiting(server, k) = {} /\ Watching(server, k) = {}
    BY <1>4, <1>5, createClientFacts, NothingIn DEF Waiting, Watching
<1>8. BlockingTable(server) /\ WatchTable(server)
    BY <1>1, <1>7, NoList DEF BlockingTable, WatchTable
<1>9. \A ch \in Channels : Subscribed(server, ch) = {}
    BY <1>4, <1>5, createClientFacts DEF Subscribed
<1>10. Subscriptions(server) = {}
    BY <1>4, <1>5, createClientFacts, NothingIn DEF Subscriptions
<1>11. ChannelTable(server) /\ PatternTable(server)
    BY <1>1, <1>9, <1>10, NoList DEF ChannelTable, PatternTable
<1>12. \A f : Flags(server, f) = {}
    BY <1>4, <1>5, createClientFacts DEF Flags
<1>13. WriteTable(server) /\ CloseTable(server) /\ UnblockedTable(server)
    BY <1>1, <1>12, NoList DEF WriteTable, CloseTable, UnblockedTable
<1>14. BlockedClients(server)
    BY <1>4, <1>5, createClientFacts DEF BlockedClients, BlockedClient
<1>15. Unread(server)
    BY <1>3, <1>5, NotYetFacts DEF Unread
<1>16. Sound(server)
    BY <1>1, <1>6, <1>8, <1>11, <1>13, <1>14, <1>15 DEF Sound
<1>17. Noticed(server, {})
    BY <1>1 DEF Noticed
<1>18. Told(server, {}, {})
    <2>1. \A c \in Clients : /\ server.cl[c].stale = {} /\ ~server.cl[c].refused
                             /\ ~server.cl[c].broken
        BY <1>3, <1>4, NotYetFacts, createClientFacts
    <2>2. ToSet(<<>>) = {}
        BY NoList DEF Lists
    <2> QED
        BY <1>1, <2>1, <2>2 DEF Told, ToldClient
<1>19. Safe(server, {}, {})
    BY <1>16, <1>17, <1>18 DEF Safe
<1>20. \A c \in Clients : InTurn(server.cl[c])
    BY <1>3, <1>4, NotYetFacts, createClientFacts
<1>21. Settled(server)
    <2>1. None.t = "none" /\ None.v = <<>>
        BY DEF None
    <2> QED
        BY <1>1, <2>1 DEF Settled, Proper
<1> QED
    BY <1>1, <1>2, <1>19, <1>20, <1>21 DEF IInv

-----------------------------------------------------------------------------
(* One lemma for each action. *)

\* What a client may send, with the number it is sent under as its value.
LEMMA Numbered ==
    ASSUME NEW cmd \in Requests, NEW n \in Nat
    PROVE  [cmd EXCEPT !.v = n] \in Requests
<1> DEFINE r == [cmd EXCEPT !.v = n]
<1>1. cmd \in [op : WriteCommands \cup OtherCommands, k : Keys \cup {NULL}, ks : Seq(Keys),
               timeout : BOOLEAN, v : Nat, arg : Arguments] /\ Request(cmd)
    BY DEF Requests
<1>2. r \in [op : WriteCommands \cup OtherCommands, k : Keys \cup {NULL}, ks : Seq(Keys),
             timeout : BOOLEAN, v : Nat, arg : Arguments]
    BY <1>1
<1>3. r.op = cmd.op /\ r.k = cmd.k /\ r.ks = cmd.ks /\ r.arg = cmd.arg
    BY <1>1
<1> HIDE DEF r
<1>4. Request(r)
    BY <1>1, <1>3 DEF Request
<1> QED
    BY <1>2, <1>4 DEF Requests, r

\* readQueryFromClient.
LEMMA readKeeps ==
    ASSUME IInv, NEW c \in Clients, NEW cmd \in load.cmds[c], readQueryFromClient(c, cmd)
    PROVE  IInv'
<1> DEFINE r == [cmd EXCEPT !.v = sent + 1]
           q == [server EXCEPT !.cl[c].querybuf = Append(@, r)]
<1>1. Fine(server) /\ server.ready_keys = <<>> /\ sent \in Nat /\ phase = "events"
    BY Now DEF readQueryFromClient, Idle
<1>2. PICK w \in DOMAIN Workloads : load = Workloads[w]
    BY DEF IInv
<1>3. cmd \in Requests
    BY <1>2, ClientsAssumption
<1>4. sent + 1 \in Nat /\ sent' = sent + 1 /\ phase' = phase /\ load' = load /\ current' = c
    BY <1>1 DEF readQueryFromClient
<1>5. r \in Requests
    BY <1>3, <1>4, Numbered
<1>6. server' = q
    BY DEF readQueryFromClient
<1>7. c \in Open(server)
    BY DEF readQueryFromClient, Live, Open
<1> HIDE DEF r
<1>8. Fine(q) /\ Open(q) = Open(server) /\ q.ready_keys = server.ready_keys
    BY ONLY <1>1, <1>5, <1>7, ReadFine
<1> HIDE DEF q
<1> QED
    BY <1>1, <1>4, <1>6, <1>7, <1>8, Then

\* A closed connection.
LEMMA closedKeeps ==
    ASSUME IInv, NEW c \in Clients, ReadClosed(c)
    PROVE  IInv'
<1>1. Fine(server) /\ Idle /\ phase = "events"
    BY Now DEF ReadClosed, Idle
<1>2. c \in Open(server)
    BY DEF ReadClosed, Live, Open
<1>3. /\ server' = freeClient(server, c)
      /\ phase' = phase /\ current' = current /\ load' = load /\ sent' = sent
    BY DEF ReadClosed
<1>4. Closer(server, freeClient(server, c), c)
    BY <1>1, <1>2, freeClientFine
<1>5. Fine(server') /\ server'.ready_keys = server.ready_keys
    BY <1>3, <1>4 DEF Closer
<1> QED
    BY <1>1, <1>3, <1>5, WhenIdle

\* acceptCommonHandler, with one client too many or not.
LEMMA acceptKeeps ==
    ASSUME IInv, NEW c \in Clients, acceptCommonHandler(c)
    PROVE  IInv'
<1> DEFINE s == Accepted(server, c)
<1>1. Fine(server) /\ Idle /\ phase = "events" /\ server.cl[c].state = "new"
    BY Now DEF acceptCommonHandler, Idle
<1>2. /\ server' = IF Len(s.clients) > MaxClients THEN freeClient(s, c) ELSE s
      /\ phase' = phase /\ current' = current /\ load' = load /\ sent' = sent
    BY DEF acceptCommonHandler, Accepted
<1>3. Fine(s) /\ c \in Open(s) /\ s.ready_keys = server.ready_keys
    BY <1>1, AcceptedFine
<1> HIDE DEF s
<1>4. Closer(s, freeClient(s, c), c)
    BY <1>3, freeClientFine
<1>5. Fine(server') /\ server'.ready_keys = server.ready_keys
    BY <1>2, <1>3, <1>4 DEF Closer
<1> QED
    BY <1>1, <1>2, <1>5, WhenIdle

\* sendReplyToClient.
LEMMA sendKeeps ==
    ASSUME IInv, NEW c \in Clients, NEW how, sendReplyToClient(c, how)
    PROVE  IInv'
<1>1. Fine(server) /\ Idle /\ phase = "events"
    BY Now DEF sendReplyToClient, Idle
<1>2. c \in Open(server)
    BY DEF sendReplyToClient, Live, Open
<1>3. /\ server' = Written(server, c, how)
      /\ phase' = phase /\ current' = current /\ load' = load /\ sent' = sent
    BY DEF sendReplyToClient
<1>4. Closer(server, Written(server, c, how), c)
    BY <1>1, <1>2, WrittenFine
<1>5. Fine(server') /\ server'.ready_keys = server.ready_keys
    BY <1>3, <1>4 DEF Closer
<1> QED
    BY <1>1, <1>3, <1>5, WhenIdle

\* The server as processInputBuffer finds it, once it has asked for the pause.
Asked(s, c) == IF s.cl[c].querybuf = <<>> THEN s ELSE clientsArePaused(s)
\* Asking for the pause frees nobody.
LEMMA AskedFine ==
    ASSUME NEW s, NEW c, Fine(s), c \in Open(s)
    PROVE  /\ Fine(Asked(s, c)) /\ c \in Open(Asked(s, c))
           /\ Asked(s, c).ready_keys = s.ready_keys
<1>1. CASE s.cl[c].querybuf = <<>>
    BY <1>1 DEF Asked
<1>2. CASE s.cl[c].querybuf # <<>>
    <2> DEFINE q == clientsArePaused(s)
    <2>1. Asked(s, c) = q
        BY <1>2 DEF Asked
    <2>2. Fine(q) /\ Change(s, q, PauseSet, {}, {"UNBLOCKED"})
        BY clientsArePausedFine
    <2> HIDE DEF q
    <2>3. s \in Server
        BY FineFacts
    <2>4. Open(q) = Open(s)
        BY <2>2, <2>3, Frame
    <2>5. q.ready_keys = s.ready_keys
        BY <2>2 DEF Change, Same, ServerFields, PauseSet
    <2> QED
        BY <2>1, <2>2, <2>4, <2>5
<1> QED
    BY <1>1, <1>2

\* processInputBuffer: the client stays connected through its own command.
LEMMA processKeeps ==
    ASSUME IInv, processInputBuffer
    PROVE  IInv'
<1> DEFINE c == current
           s == Asked(server, c)
           cmd == Head(s.cl[c].querybuf)
           q == processCommand(Taken(s, c), c, cmd)
<1>1. /\ Fine(server) /\ c \in Open(server) /\ server.ready_keys = <<>> /\ sent \in Nat
      /\ phase \in {"events", "unblock"}
    BY Now DEF processInputBuffer
<1>2. phase' = phase /\ load' = load /\ sent' = sent
    BY DEF processInputBuffer
<1>3. IF Stops(s, c) THEN server' = s /\ current' = NULL
      ELSE /\ server' = IF cmd.op = "quit" \/ q.ready_keys # <<>> THEN q ELSE resetClient(q, c)
           /\ current' = current
    BY DEF processInputBuffer, Asked, Taken
<1>4. Fine(s) /\ c \in Open(s) /\ s.ready_keys = <<>>
    BY <1>1, AskedFine
<1> HIDE DEF s
<1>5. CASE Stops(s, c)
    BY <1>1, <1>2, <1>3, <1>4, <1>5, Then
<1>6. CASE ~Stops(s, c)
    <2>1. s.cl[c].querybuf # <<>> /\ ~Has(s, c, "BLOCKED")
        BY <1>6 DEF Stops
    <2> HIDE DEF c
    <2>2. /\ Turn(Taken(s, c), c, {}, {}) /\ Settled(Taken(s, c)) /\ ~Taken(s, c).executing
          /\ Taken(s, c).ready_keys = <<>> /\ cmd \in Requests
        BY <1>4, <2>1, TakenTurn
    <2> HIDE DEF cmd
    <2>3. Done(q, c) /\ ~q.executing
        BY <2>2, processCommandDone
    <2> HIDE DEF q
    <2>4. Fine(q) /\ c \in Open(q)
        BY <2>3, DoneFine
    <2>5. /\ Fine(resetClient(q, c)) /\ c \in Open(resetClient(q, c))
        BY <2>4, resetClientFine
    <2>6. Fine(server') /\ c \in Open(server') /\ c # NULL
        BY <1>3, <1>6, <2>4, <2>5, OpenIs
    <2>7. current' = c
        BY <1>3, <1>6 DEF c
    <2> QED
        BY <1>1, <1>2, <2>6, <2>7, Then
<1> QED
    BY <1>5, <1>6

\* ServeReady.
LEMMA serveKeeps ==
    ASSUME IInv, ServeReady
    PROVE  IInv'
<1> DEFINE q == handleClientsBlockedOnLists(server)
           r == resetClient(q, current)
<1>1. /\ Fine(server) /\ current \in Open(server) /\ server.ready_keys # <<>> /\ sent \in Nat
      /\ phase \in {"events", "unblock"}
    BY Now DEF ServeReady
<1>2. /\ server' = IF q.ready_keys = <<>> THEN r ELSE q
      /\ phase' = phase /\ current' = current /\ load' = load /\ sent' = sent
    BY DEF ServeReady
<1>3. Fine(q) /\ Open(q) = Open(server)
    BY <1>1, handleFine
<1> HIDE DEF q
<1>4. Fine(r) /\ Open(r) = Open(q)
    BY <1>1, <1>3, resetClientFine
<1> HIDE DEF r
<1>5. Fine(server') /\ current' \in Open(server') /\ current' # NULL
    BY <1>1, <1>2, <1>3, <1>4, OpenIs
<1> QED
    BY <1>1, <1>2, <1>5, Then

\* serverCron: clients that time out, the queue of those to close, the pause.
LEMMA cronKeeps ==
    ASSUME IInv, NEW expired, NEW idle, NEW over \in BOOLEAN, serverCron(expired, idle, over)
    PROVE  IInv'
<1> DEFINE b == server.pause_over \/ over
           a == PutS(server, "pause_over", b)
           s == clientsCron(a, expired, idle)
           q == freeClientsInAsyncFreeQueue(s)
           r == clientsArePaused(q)
<1>1. Fine(server) /\ Idle /\ server \in Server
    BY Now, FineFacts DEF serverCron
<1>2. a = [server EXCEPT !.pause_over = @ \/ over]
    BY DEF PutS
<1>3. /\ server' = r /\ phase' = "unblock" /\ current' = current /\ load' = load /\ sent' = sent
    BY <1>2 DEF serverCron
<1>4. b \in BOOLEAN
    OBVIOUS
<1> HIDE DEF b
<1>5. Fine(a) /\ a.ready_keys = server.ready_keys
    BY <1>1, <1>4, PlainFine
<1> HIDE DEF a
<1>6. Fine(s) /\ s.ready_keys = a.ready_keys
    BY <1>5, clientsCronFine
<1> HIDE DEF s
<1>7. Fine(q) /\ q.ready_keys = s.ready_keys
    BY <1>6, freeQueueFine
<1> HIDE DEF q
<1>8. Fine(r) /\ Change(q, r, PauseSet, {}, {"UNBLOCKED"})
    BY <1>7, clientsArePausedFine
<1> HIDE DEF r
<1>9. r.ready_keys = q.ready_keys
    BY <1>8 DEF Change, Same, ServerFields, PauseSet
<1> QED
    BY <1>1, <1>3, <1>5, <1>6, <1>7, <1>8, <1>9, WhenIdle

\* beforeSleep.
LEMMA sleepKeeps ==
    ASSUME IInv, beforeSleep
    PROVE  IInv'
BY Now, WhenIdle DEF beforeSleep

\* processUnblockedClients.
LEMMA unblockedKeeps ==
    ASSUME IInv, processUnblockedClients
    PROVE  IInv'
<1>1. /\ Fine(server) /\ current = NULL /\ server.ready_keys = <<>> /\ sent \in Nat
      /\ phase = "unblock" /\ load' = load /\ sent' = sent
    BY Now DEF processUnblockedClients
<1>2. CASE server.unblocked_clients = <<>>
    <2>1. phase' = "write" /\ server' = server /\ current' = current
        BY <1>2 DEF processUnblockedClients
    <2> QED
        BY <1>1, <2>1, Then
<1>3. CASE server.unblocked_clients # <<>>
    <2> DEFINE c == Head(server.unblocked_clients)
               s == First(server, "unblocked_clients", c, "UNBLOCKED")
    <2>1. s = Clear([server EXCEPT !.unblocked_clients = Tail(@)], c, {"UNBLOCKED"})
        BY DEF First, PutS
    <2>2. /\ server' = s /\ phase' = phase
          /\ current' = IF ~Has(s, c, "BLOCKED") /\ s.cl[c].querybuf # <<>> THEN c ELSE NULL
        BY <1>3, <2>1 DEF processUnblockedClients
    <2>3. /\ Fine(s) /\ s.ready_keys = server.ready_keys
          /\ s.cl[c].querybuf # <<>> => c \in Open(s)
        BY <1>1, <1>3, UnblockedFirst
    <2> HIDE DEF s, c
    <2> QED
        BY <1>1, <2>2, <2>3, Then
<1> QED
    BY <1>2, <1>3

\* handleClientsWithPendingWrites.
LEMMA writeKeeps ==
    ASSUME IInv, NEW how, handleClientsWithPendingWrites(how)
    PROVE  IInv'
<1>1. /\ Fine(server) /\ current = NULL /\ server.ready_keys = <<>> /\ sent \in Nat
      /\ phase = "write" /\ load' = load /\ sent' = sent /\ current' = current
    BY Now DEF handleClientsWithPendingWrites
<1>2. CASE server.clients_pending_write = <<>>
    <2>1. phase' = "events" /\ server' = server
        BY <1>2 DEF handleClientsWithPendingWrites
    <2> QED
        BY <1>1, <2>1, Then
<1>3. CASE server.clients_pending_write # <<>>
    <2> DEFINE c == Head(server.clients_pending_write)
               s == First(server, "clients_pending_write", c, "PENDING_WRITE")
               q == Written(s, c, how)
               b == TRUE
               r == PutC(q, c, "handler", b)
    <2>1. s = Clear([server EXCEPT !.clients_pending_write = Tail(@)], c, {"PENDING_WRITE"})
        BY DEF First, PutS
    <2>2. r = [q EXCEPT !.cl[c].handler = TRUE]
        BY DEF PutC, Put, With
    <2>3. server' = (IF q.cl[c].pending > 0 THEN r ELSE q) /\ phase' = phase
        BY <1>3, <2>1, <2>2 DEF handleClientsWithPendingWrites
    <2>4. c \in Open(s) /\ Fine(s) /\ s.ready_keys = server.ready_keys
        BY <1>1, <1>3, WriteFirst
    <2> HIDE DEF s, c
    <2>5. Closer(s, q, c)
        BY <2>4, WrittenFine
    <2> HIDE DEF q
    <2>6. Fine(q) /\ q.ready_keys = s.ready_keys /\ c \in Clients
        BY <2>4, <2>5, OpenIs DEF Closer
    <2>7. FieldOk("handler", b)
        BY DEF FieldOk
    <2> HIDE DEF b
    <2>8. Closer(q, r, c)
        BY <2>6, <2>7, PutFine
    <2> HIDE DEF r
    <2>9. Fine(r) /\ r.ready_keys = q.ready_keys
        BY <2>8 DEF Closer
    <2> QED
        BY <1>1, <2>3, <2>4, <2>6, <2>9, Then
<1> QED
    BY <1>2, <1>3

\* A change of role.
LEMMA slaveKeeps ==
    ASSUME IInv, SlaveOf
    PROVE  IInv'
<1> DEFINE t == TRUE
           f == FALSE
           s == PutS(server, "slave", t)
           q == PutS(server, "slave", f)
           r == disconnectAllBlockedClients(s)
<1>1. Fine(server) /\ Idle /\ phase = "events"
    BY Now DEF SlaveOf, Idle
<1>2. s = [server EXCEPT !.slave = TRUE] /\ q = [server EXCEPT !.slave = FALSE]
    BY DEF PutS
<1>3. /\ server' = IF server.slave THEN q ELSE r
      /\ phase' = phase /\ current' = current /\ load' = load /\ sent' = sent
    BY <1>2 DEF SlaveOf
<1>4. t \in BOOLEAN /\ f \in BOOLEAN
    OBVIOUS
<1> HIDE DEF t, f
<1>5. Fine(s) /\ s.ready_keys = server.ready_keys
    BY <1>1, <1>4, PlainFine
<1>6. Fine(q) /\ q.ready_keys = server.ready_keys
    BY <1>1, <1>4, PlainFine
<1> HIDE DEF s, q
<1>7. Fine(r) /\ r.ready_keys = s.ready_keys
    BY <1>5, disconnectAllFine
<1> HIDE DEF r
<1> QED
    BY <1>1, <1>3, <1>5, <1>6, <1>7, WhenIdle

-----------------------------------------------------------------------------

(* Whatever the clients send, close and wait for: the tables of the server, *)
(* the lists somebody waits for, who is told of a changed key, the answers  *)
(* and the replica are as the inductive invariant says after every step of  *)
(* the event loop (ae.c, networking.c, server.c).                           *)
THEOREM Invariance == Spec => []IInv
<1>1. Init => IInv
    BY InitIInv
<1>2. IInv /\ [Next]_vars => IInv'
    <2> SUFFICES ASSUME IInv, [Next]_vars PROVE IInv'
        OBVIOUS
    <2>1. CASE \E c \in Clients : \E cmd \in load.cmds[c] : readQueryFromClient(c, cmd)
        BY <2>1, readKeeps
    <2>2. CASE \E c \in Clients : ReadClosed(c) \/ acceptCommonHandler(c)
        BY <2>2, closedKeeps, acceptKeeps
    <2>3. CASE \E c \in Clients, how \in load.writes : sendReplyToClient(c, how)
        BY <2>3, sendKeeps
    <2>4. CASE processInputBuffer
        BY <2>4, processKeeps
    <2>5. CASE ServeReady
        BY <2>5, serveKeeps
    <2>6. CASE \E expired, idle \in SUBSET Live, over \in BOOLEAN : serverCron(expired, idle, over)
        BY <2>6, cronKeeps
    <2>7. CASE beforeSleep
        BY <2>7, sleepKeeps
    <2>8. CASE processUnblockedClients
        BY <2>8, unblockedKeeps
    <2>9. CASE \E how \in load.writes : handleClientsWithPendingWrites(how)
        BY <2>9, writeKeeps
    <2>10. CASE SlaveOf
        BY <2>10, slaveKeeps
    <2>11. CASE UNCHANGED vars
        <3>1. server' = server /\ phase' = phase /\ current' = current /\ load' = load /\ sent' = sent
            BY <2>11 DEF vars
        <3> QED
            BY <3>1, Now, Then
    <2> QED
        BY <2>1, <2>2, <2>3, <2>4, <2>5, <2>6, <2>7, <2>8, <2>9, <2>10, <2>11 DEF Next
<1> QED
    BY <1>1, <1>2, PTL DEF Spec

(* Whoever watches, waits, subscribes, has output to write, is to be closed *)
(* or was just unblocked is in the list the server keeps of such clients,   *)
(* once, and nobody else is: not even a client freed in between             *)
(* (freeClient, unblockClient, unlinkClient).  Only unblocked_clients may   *)
(* hold more: clients that the end of a pause queued a second time.         *)
THEOREM TablesAgreeHolds == Spec => []TablesAgree
<1>1. IInv => TablesAgree
    <2> SUFFICES ASSUME IInv PROVE TablesAgree
        OBVIOUS
    <2>1. Sound(server)
        BY Now, FineFacts
    <2>2. Live = Open(server)
        BY DEF Live, Open
    <2>3. \A f : Flagged(f) = Flags(server, f)
        BY <2>2 DEF Flagged, Flags, Has
    <2>4. Flagged("BLOCKED") = {c \in Live : server.cl[c].bpop.keys # {}}
        BY <2>1, <2>2 DEF Flagged, Has, Sound, BlockedClients, BlockedClient
    <2> QED
        BY <2>1, <2>2, <2>3, <2>4
           DEF TablesAgree, Sound, ClientsTable, BlockingTable, WatchTable, ChannelTable,
               PatternTable, WriteTable, CloseTable, UnblockedTable, Waiting, Watching,
               Subscribed, Subscriptions
<1> QED
    BY <1>1, Invariance, PTL

(* Once a command is over no client waits for a key that holds a list, but  *)
(* for a list that was stored over another value                            *)
(* (handleClientsBlockedOnLists, signalListAsReady).                        *)
THEOREM NobodyMissesAListHolds == Spec => []NobodyMissesAList
<1>1. IInv => NobodyMissesAList
    <2> SUFFICES ASSUME IInv PROVE NobodyMissesAList
        OBVIOUS
    <2>1. Noticed(server, {})
        BY Now, FineFacts
    <2>2. ToSet(<<>>) = {}
        BY NoList DEF Lists
    <2> QED
        BY <2>1, <2>2 DEF Noticed, NobodyMissesAList
<1> QED
    BY <1>1, Invariance, PTL

(* Every command of a client is answered once, in the order they were sent, *)
(* whatever the client waited for in between, unless it asked for silence   *)
(* (processInputBuffer, addReply, unblockClient).                           *)
THEOREM AnsweredInOrderHolds == Spec => []AnsweredInOrder
<1>1. IInv => AnsweredInOrder
    <2> SUFFICES ASSUME IInv, NEW c \in Clients
                 PROVE  LET r == server.cl[c]
                        IN /\ \A i \in 1..(Len(r.answers) - 1) : r.answers[i] < r.answers[i + 1]
                           /\ r.state = "open" /\ ~r.muted /\ "CLOSE_AFTER_REPLY" \notin r.flags
                              /\ "BLOCKED" \notin r.flags => Len(r.answers) = r.n
        BY DEF AnsweredInOrder
    <2> DEFINE r == server.cl[c]
    <2>1. InTurn(r) /\ r \in Client
        BY Now, FineFacts, ClientOf DEF Fine
    <2> HIDE DEF r
    <2>2. Ordered(r)
        BY <2>1 DEF InTurn, Unanswered, Answered
    <2>3. Len(r.answers) \in Nat
        BY <2>1, LenProperties DEF Client
    <2>4. ASSUME NEW i \in 1..(Len(r.answers) - 1) PROVE r.answers[i] < r.answers[i + 1]
        <3>1. i \in 1..Len(r.answers) /\ i + 1 \in 1..Len(r.answers) /\ i < i + 1
            BY <2>3
        <3> QED
            BY <2>2, <3>1 DEF Ordered
    <2>5. r.state = "open" /\ ~r.muted /\ "CLOSE_AFTER_REPLY" \notin r.flags
          /\ "BLOCKED" \notin r.flags => Len(r.answers) = r.n
        BY <2>1 DEF InTurn, Answered, Silent
    <2> QED
        BY <2>4, <2>5 DEF r
<1> QED
    BY <1>1, Invariance, PTL

(* No transaction runs although a key it watches has changed since WATCH,   *)
(* by whomever and on whoever's behalf, or one of its commands was refused  *)
(* (execCommand, touchWatchedKey, flagTransaction).                         *)
THEOREM TransactionsAreIsolatedHolds == Spec => []TransactionsAreIsolated
<1>1. IInv => TransactionsAreIsolated
    BY Now, FineFacts DEF TransactionsAreIsolated, Told, ToldClient
<1> QED
    BY <1>1, Invariance, PTL

(* What the server sends its replicas leaves them with its own data set     *)
(* (propagate, serveClientBlockedOnList).                                   *)
THEOREM ReplicaAgreesHolds == Spec => []ReplicaAgrees
<1>1. IInv => ReplicaAgrees
    BY DEF IInv, Settled, ReplicaAgrees
<1> QED
    BY <1>1, Invariance, PTL

=============================================================================
