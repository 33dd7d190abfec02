------------------------------ MODULE Cluster ------------------------------
(***************************************************************************)
(* The bus of Redis Cluster (cluster.c): failure detection by gossip,      *)
(* the election of a slave, the configuration epochs that decide who owns  *)
(* a slot, manual failover, and the configuration file.                    *)
(*                                                                         *)
(* A node's knowledge is a record, view[n]; the functions of the source    *)
(* are operators from views to views.  Nodes are numbered in the order of  *)
(* their names, which decides collisions of epochs.  A node's bitmap of    *)
(* slots and its list of slaves are derived from slots and slaveof.        *)
(* Pings and pongs carry what the sender knows when they arrive; requests  *)
(* for votes, votes, FAIL, UPDATE and MFSTART travel and may be lost.      *)
(* Times are left out: what waits for a time may happen at any moment.     *)
(***************************************************************************)
EXTENDS Naturals, FiniteSets, FiniteSetsExt, TLC

CONSTANTS
    Node,           \* the nodes, numbers in the order of their names
    Slot,           \* hash slots
    Layouts,        \* first configurations, with what can happen to them: who
                    \* follows whom, who owns what; the links that work; the nodes
                    \* that do not always answer, those that crash; the commands,
                    \* and how many of them, of the crashes and of the epochs there are
    MaxWire         \* bound: messages on their way

NoOne == 0

ASSUME ClusterAssumption ==
    /\ Node \subseteq Nat \ {0} /\ IsFiniteSet(Node)
    /\ \A l \in Layouts : /\ l.slaveof \in [Node -> Node \cup {NoOne}]
                          /\ l.slots \in [Slot -> {n \in Node : l.slaveof[n] = NoOne}]

VARIABLES
    layout,     \* the first configuration of this behaviour
    view,       \* what each node knows
    disk,       \* nodes.conf of the nodes that may crash
    wire,       \* messages on their way
    faults,     \* how many crashes and commands there were
    wins,       \* history: <<epoch, master, slave>> of won elections
    waived      \* history: epochs in which the votes do not count one each: a crash
                \* erased one, a takeover asked for none, a late one counted again

vars == <<layout, view, disk, wire, faults, wins, waived>>

-----------------------------------------------------------------------------
(* Nodes, slots and epochs in a view. *)

nodeIsMaster(v, x) == v.slaveof[x] = NoOne

\* clusterNode.slots and numslots of x.
SlotsOf(v, x) == {s \in Slot : v.slots[s] = x}

\* The number of masters that serve slots.
ClusterSize(v) == Cardinality({x \in Node : nodeIsMaster(v, x) /\ SlotsOf(v, x) # {}})

\* clusterUpdateState before n sleeps: the size is counted anew, but not by
\* a master that has just started.
clusterUpdateState(v, n) ==
    IF v.booting /\ nodeIsMaster(v, n) THEN v ELSE [v EXCEPT !.size = ClusterSize(v)]

\* The majority of the masters, as they were last counted.
NeededQuorum(v) == v.size \div 2 + 1

\* clusterGetMaxEpoch.
clusterGetMaxEpoch(v) == Max({v.epoch[x] : x \in Node} \cup {v.currentEpoch})

\* clusterDelNodeSlots with clusterDelSlot.
clusterDelNodeSlots(v, x) ==
    [v EXCEPT !.slots = [s \in Slot |-> IF @[s] = x THEN NoOne ELSE @[s]]]

\* clusterSetNodeAsMaster.
clusterSetNodeAsMaster(v, x) == [v EXCEPT !.slaveof[x] = NoOne]

\* resetManualFailover.
resetManualFailover(v) == [v EXCEPT !.mf = "none"]

\* clusterSetMaster: n becomes a slave of x.
clusterSetMaster(v, n, x) == resetManualFailover([v EXCEPT !.slaveof[n] = x])

\* clusterBumpConfigEpochWithoutConsensus.
clusterBumpConfigEpochWithoutConsensus(v, n) ==
    IF v.epoch[n] = 0 \/ v.epoch[n] # clusterGetMaxEpoch(v)
    THEN [v EXCEPT !.currentEpoch = @ + 1, !.epoch[n] = v.currentEpoch + 1] ELSE v

\* clusterHandleConfigEpochCollision: the node with the smaller name moves on.
clusterHandleConfigEpochCollision(v, n, sender) ==
    IF /\ v.epoch[sender] = v.epoch[n] /\ nodeIsMaster(v, sender) /\ nodeIsMaster(v, n)
       /\ sender > n
    THEN [v EXCEPT !.currentEpoch = @ + 1, !.epoch[n] = v.currentEpoch + 1] ELSE v

\* clusterUpdateSlotsConfigWith: sender claims slots with an epoch; whoever
\* loses the last slot to it becomes its slave.  No slot is being imported,
\* and the keys of a slot that is lost, which go with it, are not modelled.
clusterUpdateSlotsConfigWith(v, n, sender, senderEpoch, slots) ==
    LET taken == {s \in slots : v.slots[s] = NoOne \/ v.epoch[v.slots[s]] < senderEpoch}
        curmaster == IF nodeIsMaster(v, n) THEN n ELSE v.slaveof[n]
        w == [v EXCEPT !.slots = [s \in Slot |-> IF s \in taken THEN sender ELSE @[s]]]
    IN  IF sender = n THEN v
        ELSE IF (\E s \in taken : v.slots[s] = curmaster) /\ SlotsOf(w, curmaster) = {}
                /\ curmaster # sender
        THEN clusterSetMaster(w, n, sender) ELSE w

-----------------------------------------------------------------------------
(* Failure detection. *)

\* clusterNodeAddFailureReport and clusterNodeDelFailureReport.
clusterNodeAddFailureReport(v, x, sender) == [v EXCEPT !.reports[x] = @ \cup {sender}]
clusterNodeDelFailureReport(v, x, sender) == [v EXCEPT !.reports[x] = @ \ {sender}]

\* clusterNodeFailureReportsCount after clusterNodeCleanupFailureReports:
\* the reports in old are too old and dropped.
clusterNodeCleanupFailureReports(v, x, old) == [v EXCEPT !.reports[x] = @ \ old]

\* markNodeAsFailingIfNeeded.
markNodeAsFailingIfNeeded(v, n, x, old) ==
    LET w == clusterNodeCleanupFailureReports(v, x, old)
        failures == Cardinality(w.reports[x]) + (IF nodeIsMaster(v, n) THEN 1 ELSE 0)
    IN  IF x \notin v.pfail THEN v
        ELSE IF failures < NeededQuorum(v) THEN w
        ELSE [w EXCEPT !.pfail = @ \ {x}, !.fail = @ \cup {x}]

\* clearNodeFailureIfNeeded; late says that FAIL was set long ago.
clearNodeFailureIfNeeded(v, x, late) ==
    IF x \in v.fail /\ (~nodeIsMaster(v, x) \/ SlotsOf(v, x) = {} \/ late)
    THEN [v EXCEPT !.fail = @ \ {x}] ELSE v

\* clusterProcessGossipSection with one entry about x.
clusterProcessGossipSection(v, n, sender, g, old) ==
    IF g.about \in {n, sender} \/ ~nodeIsMaster(v, sender) THEN v
    ELSE IF g.failing
    THEN markNodeAsFailingIfNeeded(clusterNodeAddFailureReport(v, g.about, sender), n, g.about, old)
    ELSE clusterNodeDelFailureReport(v, g.about, sender)

-----------------------------------------------------------------------------
(* Packets. *)

\* clusterBuildMessageHdr of n with view v: a slave sends its master's slots
\* and epoch.
clusterBuildMessageHdr(v, n, to, type) ==
    LET master == IF nodeIsMaster(v, n) THEN n ELSE v.slaveof[n]
    IN  [type |-> type, from |-> n, to |-> to, slaveof |-> v.slaveof[n], slots |-> SlotsOf(v, master),
         currentEpoch |-> v.currentEpoch, configEpoch |-> v.epoch[master], force |-> v.mf # "none"]

\* clusterProcessPacket: what every packet of a known node does.
PacketEpochs(v, h) ==
    [v EXCEPT !.currentEpoch = Max({@, h.currentEpoch}), !.epoch[h.from] = Max({@, h.configEpoch})]

\* The sender is a master, or a slave of the master it names.
PacketRole(v, h) ==
    IF h.slaveof = NoOne THEN clusterSetNodeAsMaster(v, h.from)
    ELSE LET w == IF nodeIsMaster(v, h.from) THEN clusterDelNodeSlots(v, h.from) ELSE v
         IN  [w EXCEPT !.slaveof[h.from] = h.slaveof]

\* Its slots differ from the known ones.
DirtySlots(v, h) ==
    LET sender_master == IF nodeIsMaster(v, h.from) THEN h.from ELSE v.slaveof[h.from]
    IN  SlotsOf(v, sender_master) # h.slots

\* The view of n after a ping, or a pong that answers its own.
PingView(v, n, h, pong, late, g, old) ==
    LET seen == PacketEpochs(v, h)
        alive == IF ~pong THEN seen
                 ELSE clearNodeFailureIfNeeded([seen EXCEPT !.pfail = @ \ {h.from}], h.from, late)
        known == PacketRole(alive, h)
        moved == IF nodeIsMaster(known, h.from) /\ DirtySlots(known, h)
                 THEN clusterUpdateSlotsConfigWith(known, n, h.from, h.configEpoch, h.slots) ELSE known
        bumped == IF h.configEpoch = moved.epoch[n]
                  THEN clusterHandleConfigEpochCollision(moved, n, h.from) ELSE moved
    IN  clusterProcessGossipSection(bumped, n, h.from, g, old)

\* The sender claims a slot of a node with a newer epoch: it is told so
\* with an UPDATE about one of them.
clusterSendUpdate(v, n, h) ==
    LET known == PacketRole(PacketEpochs(v, h), h)
        newer == {s \in h.slots : /\ known.slots[s] \notin {h.from, NoOne}
                                  /\ known.epoch[known.slots[s]] > h.configEpoch}
        about == known.slots[Min(newer)]
    IN  IF newer = {} \/ ~DirtySlots(known, h) THEN {}
        ELSE {clusterBuildMessageHdr(known, n, h.from, "UPDATE")
                @@ [about |-> about, epoch |-> known.epoch[about], claimed |-> SlotsOf(known, about)]}

\* clusterBroadcastMessage: to every other node whose link is up.
clusterBroadcastMessage(v, n, type, linked) ==
    {clusterBuildMessageHdr(v, n, x, type) : x \in {y \in linked : {n, y} \in layout.links}}

\* clusterSendFail, when n has just marked a node.
clusterSendFail(v, w, n) ==
    IF ~nodeIsMaster(w, n) THEN {}
    ELSE {m @@ [about |-> y] : m \in clusterBroadcastMessage(w, n, "FAIL", Node), y \in w.fail \ v.fail}

\* clusterSaveConfig: the file holds everything but votes under way.
clusterSaveConfig(v) ==
    [currentEpoch |-> v.currentEpoch, lastVoteEpoch |-> v.lastVoteEpoch, slaveof |-> v.slaveof,
     epoch |-> v.epoch, slots |-> v.slots, pfail |-> v.pfail, fail |-> v.fail]

\* clusterBeforeSleep: the file is written when something asked for it.
clusterBeforeSleep(n, v, w) ==
    disk' = IF /\ n \in layout.crashing
               /\ \/ v.slaveof # w.slaveof \/ v.epoch # w.epoch \/ v.slots # w.slots
                  \/ v.pfail # w.pfail \/ v.fail # w.fail \/ v.auth_sent # w.auth_sent
            THEN [disk EXCEPT ![n] = clusterSaveConfig(w)] ELSE disk

\* clusterSendMessage: what fits on the wire; the rest is lost.
clusterSendMessage(old, new) ==
    IF Cardinality(old \cup new) <= MaxWire THEN old \cup new ELSE old

-----------------------------------------------------------------------------
createView(slaveof, epoch, slots, current) ==
    [currentEpoch |-> current, lastVoteEpoch |-> 0, slaveof |-> slaveof, epoch |-> epoch,
     slots |-> slots, pfail |-> {}, fail |-> {}, reports |-> [x \in Node |-> {}],
     auth_epoch |-> 0, auth_count |-> 0, auth_sent |-> FALSE, mf |-> "none", voted |-> {}, size |-> 1, booting |-> FALSE]

Init ==
    /\ \E l \in Layouts :
        layout = l /\
        view = [n \in Node |->
                clusterUpdateState(
                    createView(l.slaveof,
                               [x \in Node |-> IF l.slaveof[x] = NoOne THEN x ELSE IF x = n THEN 0 ELSE l.slaveof[x]],
                               l.slots, Max({x \in Node : l.slaveof[x] = NoOne})), n)]
    /\ disk = [n \in layout.crashing |-> clusterSaveConfig(view[n])]
    /\ wire = {}
    /\ faults = 0
    /\ wins = {}
    /\ waived = {}

\* A ping or pong of m reaches n.
Ping(m, n, pong, late, about, old) ==
    LET h == clusterBuildMessageHdr(view[m], m, n, "PING")
        g == [about |-> about, failing |-> about \in view[m].pfail \cup view[m].fail]
        w == PingView(view[n], n, h, pong, late, g, old)
    IN  /\ {m, n} \in layout.links /\ w.currentEpoch <= layout.epochs
        /\ view' = [view EXCEPT ![n] = clusterUpdateState(w, n)]
        /\ clusterBeforeSleep(n, view[n], w)
        /\ wire' = clusterSendMessage(wire, clusterSendUpdate(view[n], n, h)
                                            \cup clusterSendFail(view[n], w, n))
        /\ UNCHANGED <<faults, wins, waived>>

\* clusterCron: x did not answer for the node timeout.
Timeout(n, x) ==
    /\ x # n /\ x \notin view[n].pfail \cup view[n].fail
    /\ LET w == [view[n] EXCEPT !.pfail = @ \cup {x}]
       IN  /\ view' = [view EXCEPT ![n] = w]
           /\ clusterBeforeSleep(n, w, w)
    /\ UNCHANGED <<wire, faults, wins, waived>>

\* A FAIL message.
ReceiveFail(m) ==
    LET v == PacketEpochs(view[m.to], m)
        w == IF m.about = m.to \/ m.about \in v.fail THEN v
             ELSE [v EXCEPT !.fail = @ \cup {m.about}, !.pfail = @ \ {m.about}]
    IN  /\ m.type = "FAIL"
        /\ view' = [view EXCEPT ![m.to] = clusterUpdateState(w, m.to)]
        /\ clusterBeforeSleep(m.to, view[m.to], w)
        /\ wire' = wire \ {m}
        /\ UNCHANGED <<faults, wins, waived>>

\* An UPDATE message.
ReceiveUpdate(m) ==
    LET v == PacketEpochs(view[m.to], m)
        w == IF v.epoch[m.about] >= m.epoch THEN v
             ELSE clusterUpdateSlotsConfigWith(
                    [clusterSetNodeAsMaster(v, m.about) EXCEPT !.epoch[m.about] = m.epoch],
                    m.to, m.about, m.epoch, m.claimed)
    IN  /\ m.type = "UPDATE"
        /\ view' = [view EXCEPT ![m.to] = clusterUpdateState(w, m.to)]
        /\ clusterBeforeSleep(m.to, view[m.to], w)
        /\ wire' = wire \ {m}
        /\ UNCHANGED <<faults, wins, waived>>

-----------------------------------------------------------------------------
(* Election. *)

\* Mutant: the epoch of the last vote is not looked at.
VoteGrantedAgain(v, n, h) ==
    /\ nodeIsMaster(v, n) /\ SlotsOf(v, n) # {}
    /\ h.currentEpoch >= v.currentEpoch
    /\ ~nodeIsMaster(v, h.from)
    /\ v.slaveof[h.from] \in v.fail \/ h.force

\* clusterSendFailoverAuthIfNeeded: the vote of n for the request h.
VoteGranted(v, n, h) ==
    /\ nodeIsMaster(v, n) /\ SlotsOf(v, n) # {}
    /\ h.currentEpoch >= v.currentEpoch
    /\ v.lastVoteEpoch # v.currentEpoch
    /\ ~nodeIsMaster(v, h.from)
    /\ v.slaveof[h.from] \in v.fail \/ h.force
    /\ v.slaveof[h.from] \notin v.voted
    /\ \A s \in h.slots : v.slots[s] = NoOne \/ v.epoch[v.slots[s]] <= h.configEpoch

ReceiveAuthRequest(m) ==
    LET n == m.to
        v == PacketEpochs(view[n], m)
        w == [v EXCEPT !.lastVoteEpoch = v.currentEpoch, !.voted = @ \cup {v.slaveof[m.from]}]
        next == IF VoteGranted(v, n, m) THEN w ELSE v
    IN  /\ m.type = "REQUEST"
        /\ view' = [view EXCEPT ![n] = next]
        /\ clusterBeforeSleep(n, view[n], next)
        /\ wire' = IF VoteGranted(v, n, m)
                   THEN clusterSendMessage(wire \ {m}, {clusterBuildMessageHdr(v, n, m.from, "ACK")})
                   ELSE wire \ {m}
        /\ UNCHANGED <<faults, wins, waived>>

\* A vote arrives; who sends it must be a master with slots.
ReceiveAuthAck(m) ==
    LET v == PacketEpochs(view[m.to], m)
        w == IF /\ nodeIsMaster(v, m.from) /\ SlotsOf(v, m.from) # {}
                /\ m.currentEpoch >= v.auth_epoch
             THEN [v EXCEPT !.auth_count = @ + 1] ELSE v
    IN  /\ m.type = "ACK"
        /\ view' = [view EXCEPT ![m.to] = clusterUpdateState(w, m.to)]
        /\ clusterBeforeSleep(m.to, view[m.to], w)
        /\ wire' = wire \ {m}
        /\ UNCHANGED <<faults, wins, waived>>

\* The time in which a node votes for no other slave of a master is over.
VoteAgain(n) ==
    /\ view[n].voted # {}
    /\ view' = [view EXCEPT ![n].voted = {}]
    /\ UNCHANGED <<disk, wire, faults, wins, waived>>

\* clusterHandleSlaveFailover: n may try to replace its master.
MayFailover(v, n) ==
    /\ ~nodeIsMaster(v, n)
    /\ v.slaveof[n] \in v.fail \/ v.mf = "can_start"
    /\ SlotsOf(v, v.slaveof[n]) # {}

\* Its parts: an attempt that is too old starts again ...
RestartElection(n) ==
    /\ MayFailover(view[n], n) /\ view[n].auth_sent
    /\ view' = [view EXCEPT ![n].auth_sent = FALSE, ![n].auth_count = 0]
    /\ clusterBeforeSleep(n, view'[n], view'[n])
    /\ UNCHANGED <<wire, faults, wins, waived>>

\* ... the request for votes goes out to everyone (clusterRequestFailoverAuth);
\* a vote of the old attempt that came since the restart stays counted ...
clusterRequestFailoverAuth(n) ==
    LET v == view[n]
        w == [v EXCEPT !.currentEpoch = @ + 1, !.auth_epoch = v.currentEpoch + 1, !.auth_sent = TRUE]
    IN  /\ MayFailover(v, n) /\ ~v.auth_sent /\ v.currentEpoch < layout.epochs
        /\ view' = [view EXCEPT ![n] = w]
        /\ clusterBeforeSleep(n, v, w)
        /\ \E linked \in SUBSET {x \in Node : {n, x} \in layout.links} :
            wire' = clusterSendMessage(wire, clusterBroadcastMessage(w, n, "REQUEST", linked))
        /\ waived' = IF v.auth_count > 0 THEN waived \cup {w.auth_epoch} ELSE waived
        /\ UNCHANGED <<faults, wins>>

\* clusterFailoverReplaceYourMaster.
clusterFailoverReplaceYourMaster(v, n) ==
    LET w == [clusterSetNodeAsMaster(v, n)
                EXCEPT !.slots = [s \in Slot |-> IF @[s] = v.slaveof[n] THEN n ELSE @[s]]]
    IN  resetManualFailover(w)

\* Mutant: a vote less than the majority is enough.
ElectionWonEarly(v) == v.auth_sent /\ v.auth_count + 1 >= NeededQuorum(v)

ElectionWon(v) == v.auth_sent /\ v.auth_count >= NeededQuorum(v)

\* ... and the votes are enough.
WinElection(n) ==
    LET v == view[n]
        e == Max({v.epoch[n], v.auth_epoch})
        w == clusterFailoverReplaceYourMaster([v EXCEPT !.epoch[n] = e], n)
    IN  /\ MayFailover(v, n) /\ ElectionWon(v)
        /\ view' = [view EXCEPT ![n] = clusterUpdateState(w, n)]
        /\ clusterBeforeSleep(n, v, w)
        /\ wins' = wins \cup {<<v.auth_epoch, v.slaveof[n], n>>}
        /\ UNCHANGED <<wire, faults, waived>>

-----------------------------------------------------------------------------
(* Commands and crashes. *)

\* CLUSTER FAILOVER: the master is asked to pause (clusterSendMFStart) ...
clusterSendMFStart(n) ==
    LET v == view[n]
    IN  /\ faults < layout.faults /\ ~nodeIsMaster(v, n) /\ v.slaveof[n] \notin v.fail
        /\ faults' = faults + 1
        /\ view' = [view EXCEPT ![n] = [resetManualFailover(v) EXCEPT !.mf = "waiting"]]
        /\ wire' = clusterSendMessage(wire, {clusterBuildMessageHdr(v, n, v.slaveof[n], "MFSTART")})
        /\ UNCHANGED <<disk, wins, waived>>

\* ... pauses its clients ...
ReceiveMFStart(m) ==
    LET v == PacketEpochs(view[m.to], m)
        w == IF v.slaveof[m.from] # m.to THEN v
             ELSE [resetManualFailover(v) EXCEPT !.mf = "paused"]
    IN  /\ m.type = "MFSTART"
        /\ view' = [view EXCEPT ![m.to] = clusterUpdateState(w, m.to)]
        /\ clusterBeforeSleep(m.to, view[m.to], w)
        /\ wire' = wire \ {m}
        /\ UNCHANGED <<faults, wins, waived>>

\* ... and tells its offset in a ping; the slave reaches it
\* (clusterHandleManualFailover) and may start.
clusterHandleManualFailover(n) ==
    LET v == view[n]
    IN  /\ v.mf = "waiting" /\ ~nodeIsMaster(v, n)
        /\ view[v.slaveof[n]].mf = "paused" /\ nodeIsMaster(view[v.slaveof[n]], v.slaveof[n])
        /\ view' = [view EXCEPT ![n].mf = "can_start"]
        /\ UNCHANGED <<disk, wire, faults, wins, waived>>

\* manualFailoverCheckTimeout.
manualFailoverCheckTimeout(n) ==
    /\ view[n].mf # "none"
    /\ view' = [view EXCEPT ![n] = resetManualFailover(@)]
    /\ UNCHANGED <<disk, wire, faults, wins, waived>>

\* CLUSTER FAILOVER FORCE: the master is not asked.
FailoverForce(n) ==
    /\ faults < layout.faults /\ ~nodeIsMaster(view[n], n)
    /\ faults' = faults + 1
    /\ view' = [view EXCEPT ![n].mf = "can_start"]
    /\ UNCHANGED <<disk, wire, wins, waived>>

\* CLUSTER FAILOVER TAKEOVER: nobody is asked.
FailoverTakeover(n) ==
    LET v == view[n]
        w == clusterFailoverReplaceYourMaster(clusterBumpConfigEpochWithoutConsensus(v, n), n)
    IN  /\ faults < layout.faults /\ ~nodeIsMaster(v, n) /\ v.currentEpoch < layout.epochs
        /\ faults' = faults + 1
        /\ view' = [view EXCEPT ![n] = clusterUpdateState(w, n)]
        /\ clusterBeforeSleep(n, v, w)
        /\ waived' = waived \cup {w.epoch[n]}
        /\ UNCHANGED <<wire, wins>>

\* clusterLoadConfig after a crash: a vote given since the last save is gone,
\* and until it has counted them the node takes itself for the only master.
clusterLoadConfig(n) ==
    LET d == disk[n]
        v == createView(d.slaveof, d.epoch, d.slots,
                        Max({d.currentEpoch} \cup {d.epoch[x] : x \in Node}))
    IN  /\ faults < layout.faults /\ n \in layout.crashing
        /\ faults' = faults + 1
        /\ view' = [view EXCEPT ![n] = [v EXCEPT !.lastVoteEpoch = d.lastVoteEpoch, !.booting = TRUE,
                                                 !.pfail = d.pfail, !.fail = d.fail]]
        /\ wire' = {m \in wire : m.to # n}
        /\ waived' = IF d.lastVoteEpoch # view[n].lastVoteEpoch
                     THEN waived \cup {view[n].lastVoteEpoch} ELSE waived
        /\ UNCHANGED <<disk, wins>>

\* clusterCron, when CLUSTER_WRITABLE_DELAY is over.
Booted(n) ==
    /\ view[n].booting
    /\ view' = [view EXCEPT ![n] = clusterUpdateState([@ EXCEPT !.booting = FALSE], n)]
    /\ UNCHANGED <<disk, wire, faults, wins, waived>>

-----------------------------------------------------------------------------
Step ==
    \/ \E m, n \in Node, about \in layout.unreachable \cup {1}, pong, late, fresh \in BOOLEAN :
        /\ pong => m \in view[n].pfail \cup view[n].fail
        /\ late => pong
        /\ fresh \/ view[n].reports[about] # {}
        /\ Ping(m, n, pong, late, about, IF fresh THEN {} ELSE view[n].reports[about])
    \/ \E n \in Node, x \in layout.unreachable : Timeout(n, x)
    \/ \E m \in wire : \/ ReceiveFail(m) \/ ReceiveUpdate(m) \/ ReceiveAuthRequest(m)
                       \/ ReceiveAuthAck(m) \/ ReceiveMFStart(m)
    \/ \E n \in Node : \/ VoteAgain(n) \/ RestartElection(n) \/ clusterRequestFailoverAuth(n)
                       \/ WinElection(n) \/ clusterHandleManualFailover(n)
                       \/ manualFailoverCheckTimeout(n)
    \/ \E n \in Node : \/ "failover" \in layout.commands /\ clusterSendMFStart(n)
                       \/ "force" \in layout.commands /\ FailoverForce(n)
                       \/ "takeover" \in layout.commands /\ FailoverTakeover(n)
    \/ \E n \in layout.crashing : clusterLoadConfig(n) \/ Booted(n)

Next == Step /\ UNCHANGED layout

Spec == Init /\ [][Next]_vars

-----------------------------------------------------------------------------
(* Properties. *)

TypeOK ==
    /\ \A n \in Node :
        /\ view[n].currentEpoch \in 0..layout.epochs
        /\ view[n].lastVoteEpoch <= view[n].currentEpoch
        /\ \A x \in Node : view[n].epoch[x] <= view[n].currentEpoch
        /\ view[n].slaveof \in [Node -> Node \cup {NoOne}]
        /\ view[n].slots \in [Slot -> Node \cup {NoOne}]
        /\ view[n].pfail \cap view[n].fail = {} /\ n \notin view[n].pfail \cup view[n].fail
    /\ Cardinality(wire) <= MaxWire /\ faults \in 0..layout.faults

(* In an epoch at most one of a master's slaves wins, although votes are   *)
(* lost or late and a slave that has won votes in its own epoch.  Waived   *)
(* are the epochs of a takeover, of a vote that a crash erased (the file   *)
(* is not written when a vote is given), and of an attempt that starts     *)
(* with a late vote of the attempt before.                                 *)
OneWinnerPerEpoch ==
    \A a, b \in wins : (a[1] = b[1] /\ a[2] = b[2] /\ a[1] \notin waived) => a[3] = b[3]

(* Two masters that both claim a slot do so with different epochs, so that *)
(* everyone prefers the same one, unless the epoch is a waived one.        *)
ClaimsAreOrdered ==
    \A m, n \in Node : \A s \in Slot :
        (/\ m # n /\ view[m].slots[s] = m /\ view[n].slots[s] = n
         /\ view[m].epoch[m] \notin waived)
        => view[m].epoch[m] # view[n].epoch[n]
=============================================================================
