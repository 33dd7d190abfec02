----------------------------- MODULE Resharding -----------------------------
(***************************************************************************)
(* Moving a hash slot of Redis Cluster from one master to another while    *)
(* clients use its keys (cluster.c): CLUSTER SETSLOT, GETKEYSINSLOT and    *)
(* MIGRATE in the order of redis-trib's move_slot, the redirections of     *)
(* getNodeByQuery that clients follow, and the pings that spread the new   *)
(* owner.  A key's value is the number of the write that stored it, 0 when *)
(* the key is missing.  Masters own other slots besides, so that nobody    *)
(* becomes a slave, and the cluster is up.                                 *)
(***************************************************************************)
EXTENDS Naturals, FiniteSets, FiniteSetsExt

CONSTANTS
    Node,       \* the masters, numbers in the order of their first epochs
    Source,     \* owns the slot at first
    Target,     \* shall own it
    Key,        \* keys of the slot
    Client,
    MaxWrites,  \* bound: writes of clients
    MaxErrors   \* bound: MIGRATEs that fail half way

NoOne == 0

ASSUME ReshardingAssumption ==
    /\ Node \subseteq Nat \ {0} /\ IsFiniteSet(Node) /\ {Source, Target} \subseteq Node /\ Source # Target
    /\ IsFiniteSet(Key) /\ MaxWrites \in Nat \ {0} /\ MaxErrors \in Nat

VARIABLES
    owner,      \* owner[n]: server.cluster->slots[slot] at n
    epoch,      \* epoch[n][x]: the configEpoch of x that n knows
    current,    \* currentEpoch of each node
    migrating,  \* migrating_slots_to
    importing,  \* importing_slots_from
    data,       \* data[n][k]: the value of k at n
    trib,       \* redis-trib: its step, the nodes still to be told, whether it
                \* has exited, whether it runs as fix, the keys it calls MIGRATE
                \* for again, and the errors so far
    client,     \* the request of each client and where it is sent
    last,       \* the value of the last write to a key that was served
    mixed       \* history: keys used at the target while also at the source

vars == <<owner, epoch, current, migrating, importing, data, trib, client, last, mixed>>
cluster == <<owner, epoch, current, migrating, importing>>

\* The keys that a failed MIGRATE has left at both nodes.
copied == {k \in Key : data[Source][k] # 0 /\ data[Target][k] # 0}

Idle == [busy |-> FALSE, keys |-> {}, write |-> FALSE, at |-> Source, asking |-> FALSE]

Init ==
    /\ owner = [n \in Node |-> Source]
    /\ epoch = [n \in Node |-> [x \in Node |-> x]]
    /\ current = [n \in Node |-> Max(Node)]
    /\ migrating = [n \in Node |-> NoOne]
    /\ importing = [n \in Node |-> NoOne]
    /\ \E ks \in SUBSET Key :
        data = [n \in Node |-> [k \in Key |-> IF n = Source /\ k \in ks THEN 1 ELSE 0]]
    /\ trib = [step |-> "importing", tell |-> Node, exited |-> FALSE, fix |-> FALSE, again |-> {}, errors |-> 0]
    /\ client = [c \in Client |-> Idle]
    /\ last = data[Source]
    /\ mixed = {}

-----------------------------------------------------------------------------
(* Clients. *)

Writes == Max({last[k] : k \in Key} \cup {1})

\* Mutant: a request is redirected even when the key is still here.
getNodeByQueryEarly(n, ks, asking) ==
    IF owner[n] = n /\ migrating[n] # NoOne THEN [node |-> migrating[n], code |-> "ASK"]
    ELSE IF importing[n] # NoOne /\ asking THEN [node |-> n, code |-> "NONE"]
    ELSE [node |-> owner[n], code |-> IF owner[n] = n THEN "NONE" ELSE "MOVED"]

\* getNodeByQuery: where a request for keys ks belongs, seen by n.
getNodeByQuery(n, ks, asking) ==
    LET migrating_slot == owner[n] = n /\ migrating[n] # NoOne
        importing_slot == ~migrating_slot /\ importing[n] # NoOne
        missing_keys == \E k \in ks : data[n][k] = 0
    IN  IF migrating_slot /\ missing_keys THEN [node |-> migrating[n], code |-> "ASK"]
        ELSE IF importing_slot /\ asking
        THEN IF Cardinality(ks) > 1 /\ missing_keys THEN [node |-> n, code |-> "UNSTABLE"]
             ELSE [node |-> n, code |-> "NONE"]
        ELSE [node |-> owner[n], code |-> IF owner[n] = n THEN "NONE" ELSE "MOVED"]

Request(c, ks, write) ==
    /\ ~client[c].busy
    /\ write => Writes < MaxWrites
    /\ client' = [client EXCEPT ![c] = [@ EXCEPT !.busy = TRUE, !.keys = ks, !.write = write]]
    /\ UNCHANGED <<cluster, data, trib, last, mixed>>

\* clusterRedirectClient: MOVED, ASK (the client sends ASKING first) or
\* TRYAGAIN.
clusterRedirectClient(c) ==
    LET q == client[c]
        r == getNodeByQuery(q.at, q.keys, q.asking)
    IN  /\ q.busy /\ r.code # "NONE"
        /\ client' = [client EXCEPT ![c].at = r.node, ![c].asking = r.code \in {"ASK", "UNSTABLE"}]
        /\ UNCHANGED <<cluster, data, trib, last, mixed>>

\* The request is served; askingCommand's flag is gone with the command.
Serve(c) ==
    LET q == client[c]
        n == q.at
    IN  /\ q.busy /\ getNodeByQuery(n, q.keys, q.asking).code = "NONE"
        /\ client' = [client EXCEPT ![c] = [Idle EXCEPT !.at = n]]
        /\ IF q.write /\ Writes < MaxWrites
           THEN /\ data' = [data EXCEPT ![n] = [k \in Key |-> IF k \in q.keys THEN Writes + 1 ELSE @[k]]]
                /\ last' = [k \in Key |-> IF k \in q.keys THEN Writes + 1 ELSE last[k]]
           ELSE UNCHANGED <<data, last>>
        /\ mixed' = IF n = Target THEN mixed \cup (q.keys \cap copied) ELSE mixed
        /\ UNCHANGED <<cluster, trib>>

-----------------------------------------------------------------------------
(* The commands of redis-trib. *)

\* CLUSTER SETSLOT <slot> IMPORTING and MIGRATING.
SetSlotImporting ==
    /\ trib.step = "importing" /\ owner[Target] # Target
    /\ importing' = [importing EXCEPT ![Target] = Source]
    /\ trib' = [trib EXCEPT !.step = "migrating"]
    /\ UNCHANGED <<owner, epoch, current, migrating, data, client, last, mixed>>

SetSlotMigrating ==
    /\ trib.step = "migrating" /\ owner[Source] = Source
    /\ migrating' = [migrating EXCEPT ![Source] = Target]
    /\ trib' = [trib EXCEPT !.step = "migrate"]
    /\ UNCHANGED <<owner, epoch, current, importing, data, client, last, mixed>>

\* CLUSTER GETKEYSINSLOT and COUNTKEYSINSLOT at n.
getKeysInSlot(n) == {k \in Key : data[n][k] # 0}

\* restoreCommand at the target, whose keys are d: BUSYKEY unless REPLACE is given.
restoreCommand(d, k, replace) == replace \/ d[Target][k] = 0

\* Mutant: the keys are deleted before the target has answered.
MigrateOutcomeEarly(d, reached, answered, replace) ==
    [d EXCEPT ![Target] = [k \in Key |-> IF k \in reached THEN d[Source][k] ELSE @[k]],
              ![Source] = [k \in Key |-> 0]]

\* One attempt of migrateCommand with the keys d: all are sent at once; the
\* target executes those in reached, and the source hears the answers of those
\* in answered, of which it deletes the ones that were not refused.
MigrateOutcome(d, reached, answered, replace) ==
    LET stored == {k \in reached : restoreCommand(d, k, replace)}
    IN  [d EXCEPT ![Target] = [k \in Key |-> IF k \in stored THEN d[Source][k] ELSE @[k]],
                  ![Source] = [k \in Key |-> IF k \in stored \cap answered THEN 0 ELSE @[k]]]

\* migrateCommand for the keys ks, or for those of the call that redis-trib
\* repeats with REPLACE.  A socket that fails before the first answer makes it
\* try again, when the target may have executed the keys in first already; it
\* fails at most MaxErrors times.  redis-trib exits with any error, but with
\* fix it answers BUSYKEY by calling again with REPLACE.
migrateCommand(ks, first, reached, answered) ==
    LET replace == trib.again # {}
        tried == MigrateOutcome(data, first, {}, replace)
        busykey == \E k \in answered : ~restoreCommand(tried, k, replace)
        ioerr == answered # ks
        again == busykey /\ trib.fix
    IN  /\ trib.step = "migrate" /\ ~trib.exited
        /\ ks # {} /\ (replace => ks = trib.again \cap getKeysInSlot(Source))
        /\ ioerr \/ first # {} => trib.errors < MaxErrors
        /\ data' = MigrateOutcome(tried, reached, answered, replace)
        /\ trib' = [trib EXCEPT !.exited = (ioerr \/ busykey) /\ ~again,
                                !.again = IF again THEN ks ELSE {},
                                !.errors = IF ioerr \/ first # {} THEN @ + 1 ELSE @]
        /\ UNCHANGED <<cluster, client, last, mixed>>

\* The loop of move_slot calls MIGRATE for keys that are in the slot.
Migrate ==
    \E ks \in SUBSET getKeysInSlot(Source) : \E first, reached \in SUBSET ks : \E answered \in SUBSET reached :
        migrateCommand(ks, first, reached, answered)

\* The operator runs redis-trib fix on the open slot (fix_open_slot): it calls
\* move_slot with :fix, whose two SETSLOT find the slot importing and migrating
\* already.
fix_open_slot ==
    /\ trib.exited
    /\ trib' = [trib EXCEPT !.exited = FALSE, !.fix = TRUE]
    /\ UNCHANGED <<cluster, data, client, last, mixed>>

\* The loop of move_slot ends when GETKEYSINSLOT answers with no key.
NoKeysLeft ==
    /\ trib.step = "migrate" /\ ~trib.exited /\ getKeysInSlot(Source) = {}
    /\ trib' = [trib EXCEPT !.step = "node"]
    /\ UNCHANGED <<cluster, data, client, last, mixed>>

\* clusterBumpConfigEpochWithoutConsensus, when the target takes the slot.
Bumped(n) ==
    LET most == Max({epoch[n][x] : x \in Node} \cup {current[n]})
    IN  epoch[n][n] = 0 \/ epoch[n][n] # most

\* Mutant: the target drops its importing state but not the old owner.
SetSlotNodeNotOwner(n) ==
    /\ trib.step = "node" /\ n \in trib.tell
    /\ migrating' = [migrating EXCEPT ![n] = NoOne]
    /\ importing' = [importing EXCEPT ![n] = NoOne]
    /\ owner' = IF n = Target THEN owner ELSE [owner EXCEPT ![n] = Target]
    /\ trib' = [trib EXCEPT !.tell = @ \ {n}]
    /\ UNCHANGED <<epoch, current, data, client, last, mixed>>

\* CLUSTER SETSLOT <slot> NODE <target> at n; refused while n holds keys.
SetSlotNode(n) ==
    /\ trib.step = "node" /\ n \in trib.tell
    /\ ~(owner[n] = n /\ n # Target /\ getKeysInSlot(n) # {})
    /\ migrating' = IF getKeysInSlot(n) = {} THEN [migrating EXCEPT ![n] = NoOne] ELSE migrating
    /\ IF n = Target /\ importing[n] # NoOne
       THEN /\ importing' = [importing EXCEPT ![n] = NoOne]
            /\ IF Bumped(n)
               THEN /\ current' = [current EXCEPT ![n] = @ + 1]
                    /\ epoch' = [epoch EXCEPT ![n][n] = current[n] + 1]
               ELSE UNCHANGED <<current, epoch>>
       ELSE UNCHANGED <<importing, current, epoch>>
    /\ owner' = [owner EXCEPT ![n] = Target]
    /\ trib' = [trib EXCEPT !.tell = @ \ {n}]
    /\ UNCHANGED <<data, client, last, mixed>>

-----------------------------------------------------------------------------
\* clusterUpdateSlotsConfigWith, for a slot that n does not import.
ClaimAccepted(m, n) == importing[n] = NoOne /\ epoch[n][owner[n]] < epoch[m][m]

\* A ping of m reaches n: epochs, and the slot if m says it owns it; keys of
\* a slot that was lost to m are deleted (delKeysInSlot).
Ping(m, n) ==
    LET seen == [epoch[n] EXCEPT ![m] = Max({@, epoch[m][m]})]
        taken == owner[m] = m /\ owner[n] # m /\ ClaimAccepted(m, n)
    IN  /\ m # n
        /\ current' = [current EXCEPT ![n] = Max({@, current[m]})]
        /\ epoch' = [epoch EXCEPT ![n] = seen]
        /\ owner' = IF taken THEN [owner EXCEPT ![n] = m] ELSE owner
        /\ data' = IF taken /\ owner[n] = n THEN [data EXCEPT ![n] = [k \in Key |-> 0]] ELSE data
        /\ UNCHANGED <<migrating, importing, trib, client, last, mixed>>

-----------------------------------------------------------------------------
Next ==
    \/ \E c \in Client :
        \/ \E ks \in SUBSET Key \ {{}}, write \in BOOLEAN : Request(c, ks, write)
        \/ clusterRedirectClient(c) \/ Serve(c)
    \/ SetSlotImporting \/ SetSlotMigrating \/ NoKeysLeft
    \/ Migrate
    \/ fix_open_slot
    \/ \E n \in Node : SetSlotNode(n)
    \/ \E m, n \in Node : Ping(m, n)

\* redis-trib goes on until it exits (a MIGRATE ends with an answer or its
\* timeout), and clients go on.  Nobody has to call redis-trib fix.
Fairness ==
    /\ WF_vars(SetSlotImporting \/ SetSlotMigrating \/ NoKeysLeft)
    /\ WF_vars(Migrate)
    /\ \A n \in Node : WF_vars(SetSlotNode(n))
    /\ \A c \in Client : WF_vars(clusterRedirectClient(c)) /\ WF_vars(Serve(c))

Spec == Init /\ [][Next]_vars /\ Fairness

-----------------------------------------------------------------------------
(* Properties. *)

TypeOK ==
    /\ owner \in [Node -> Node]
    /\ migrating \in [Node -> Node \cup {NoOne}] /\ importing \in [Node -> Node \cup {NoOne}]
    /\ data \in [Node -> [Key -> 0..MaxWrites]]
    /\ trib.step \in {"importing", "migrating", "migrate", "node"} /\ trib.tell \subseteq Node
    /\ \A n, x \in Node : epoch[n][x] <= current[n]
    /\ \A c \in Client : client[c].at \in Node

(* Wherever a request is served, all its keys have the value of the last   *)
(* write: no request finds a key missing that has just moved, and none     *)
(* reads or writes an old copy.  Excluded are keys that a failed MIGRATE   *)
(* left at both nodes and a request with several keys used at the target.  *)
ServedFromNewest ==
    \A c \in Client :
        LET q == client[c]
        IN  q.busy /\ getNodeByQuery(q.at, q.keys, q.asking).code = "NONE"
            => \A k \in q.keys \ mixed : data[q.at][k] = last[k] \/ (k \in copied /\ Cardinality(q.keys) > 1)

(* A key that was written is somewhere, with its last value.               *)
NoKeyLost == \A k \in Key \ mixed : last[k] # 0 => \E n \in Node : data[n][k] = last[k]

(* redis-trib gives up at the first error of a MIGRATE and leaves the slot *)
(* open: a request for several keys, which may be spread over the two      *)
(* nodes, need not be served then.                                         *)
GivenUp(c) == trib.exited /\ Cardinality(client[c].keys) > 1

(* A client that follows its redirections is served in the end: they form  *)
(* no cycle that lasts, and TRYAGAIN ends with the migration.  When        *)
(* redis-trib has given up, a request for one key is served all the same.  *)
EveryRequestServed == \A c \in Client : client[c].busy ~> (~client[c].busy \/ GivenUp(c))
=============================================================================
