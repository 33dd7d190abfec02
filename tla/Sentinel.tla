------------------------------ MODULE Sentinel ------------------------------
(***************************************************************************)
(* Redis Sentinel (sentinel.c) for one monitored master: failure detection *)
(* by each sentinel and by a quorum, the election of a leader for a        *)
(* failover, the failover itself, the spreading of the new configuration   *)
(* by hello messages, and crashes of sentinels and servers.                *)
(*                                                                         *)
(* What one sentinel knows is a record, view[s]; the functions of the      *)
(* source are operators from views to views.  Times are left out: whatever *)
(* waits for a time may happen from the moment it waits.  An instance is   *)
(* named by its address.  Requests for votes arrive late, again or never:  *)
(* those sent so far are kept in a set, and any can be the next to arrive. *)
(* Hello messages, questions without a request for a vote and INFO are     *)
(* answered from the state of the moment.                                  *)
(***************************************************************************)
EXTENDS Naturals, FiniteSets, FiniteSetsExt, TLC

CONSTANTS
    Sentinel,       \* the sentinels, by their run id
    Redis,          \* the servers, by their address
    FirstMaster,    \* the master in the first configuration
    Priority,       \* [Redis -> Nat]: slave-priority
    NoOne,          \* NULL: no vote, no promoted slave, slave of nobody
    Quorum,         \* sentinels that make a master objectively down
    ParallelSyncs,  \* slaves reconfigured at the same time
    MaxEpoch,       \* bound: epochs
    Failing,        \* the servers that can go down
    MaxDown,        \* bound: how often a server goes down
    MaxFixes,       \* bound: orders to slaves found with a wrong master;
                    \*   a failover by command uses up one, too
    MaxFaults       \* bound: crashes of sentinels, operator commands, tilts and
                    \*   masters found down because they report to be slaves

ASSUME SentinelAssumption ==
    /\ IsFiniteSet(Sentinel)
    /\ Quorum \in Nat /\ 2 * Quorum > Cardinality(Sentinel)
    /\ FirstMaster \in Redis /\ NoOne \notin Sentinel \cup Redis /\ Failing \subseteq Redis
    /\ {MaxEpoch, MaxDown, MaxFixes, MaxFaults, ParallelSyncs} \subseteq Nat

VARIABLES
    view,       \* what each sentinel knows
    disk,       \* the configuration file of each sentinel
    asks,       \* requests for a vote sent so far
    orders,     \* SLAVEOF commands on their way to servers
    role,       \* role[r]: whom server r replicates, NoOne for a master
    up,         \* the servers that answer
    faults,     \* how often what MaxFaults, MaxDown and MaxFixes bound has happened
    ballots,    \* history: <<sentinel, epoch, leader>> of votes given
    elected,    \* history: <<epoch, sentinel, epoch of the votes counted>> of elected leaders
    disputed    \* history: epochs that may have several configurations, see below

vars == <<view, disk, asks, orders, role, up, faults, ballots, elected, disputed>>

FailoverState == {"none", "wait_start", "select_slave", "send_slaveof_noone",
                  "wait_promotion", "reconf_slaves", "update_config"}
Reconf == SUBSET {"sent", "inprog", "done"}    \* flags SRI_RECONF_SENT, _INPROG and _DONE of a slave
NoVote == [leader |-> NoOne, epoch |-> 0]

-----------------------------------------------------------------------------
(* A sentinel's view. *)

\* createSentinelRedisInstance for the master, its slaves and the sentinels.
createSentinelRedisInstance(addr, slaves, sentinels) ==
    [current_epoch |-> 0, config_epoch |-> 0, addr |-> addr,
     leader |-> NoOne, leader_epoch |-> 0,
     failover_state |-> "none", failover_epoch |-> 0, force |-> FALSE,
     promoted |-> NoOne, slaves |-> slaves, reconf |-> [r \in Redis |-> {}],
     s_down |-> {}, o_down |-> FALSE, reports_slave |-> FALSE,
     sentinels |-> sentinels, master_down |-> {},
     votes |-> [t \in Sentinel |-> NoVote], tilt |-> FALSE]

\* Mutant: the promoted slave is not announced before the end of the failover.
sentinelGetCurrentMasterAddressOld(v) == v.addr

\* sentinelGetCurrentMasterAddress: after the promotion, the new master's.
sentinelGetCurrentMasterAddress(v) ==
    IF v.promoted # NoOne /\ v.failover_state \in {"reconf_slaves", "update_config"}
    THEN v.promoted ELSE v.addr

\* rewriteConfigSentinelOption: what the file keeps.  The slave that was
\* promoted is written with the old master's address.
rewriteConfigSentinelOption(v) ==
    LET master == sentinelGetCurrentMasterAddress(v)
    IN  [current_epoch |-> v.current_epoch, config_epoch |-> v.config_epoch,
         leader_epoch |-> v.leader_epoch, addr |-> master,
         slaves |-> IF master \in v.slaves THEN (v.slaves \ {master}) \cup {v.addr} ELSE v.slaves,
         sentinels |-> v.sentinels]

\* sentinelHandleConfiguration: the view after a start with that file.
sentinelHandleConfiguration(d) ==
    [createSentinelRedisInstance(d.addr, d.slaves, d.sentinels)
        EXCEPT !.config_epoch = d.config_epoch, !.leader_epoch = d.leader_epoch,
               !.current_epoch = IF d.config_epoch > d.current_epoch
                                 THEN d.config_epoch ELSE d.current_epoch]

\* Mutant: the failover under way is not ended.
sentinelResetMasterKeeps(v, sentinels) ==
    [v EXCEPT !.slaves = {}, !.sentinels = sentinels, !.leader = NoOne, !.promoted = NoOne,
              !.force = FALSE, !.reconf = [r \in Redis |-> {}], !.s_down = {}, !.o_down = FALSE,
              !.reports_slave = FALSE]

\* sentinelResetMaster: forget slaves, votes and the failover; the run by
\* an operator forgets the sentinels too.
sentinelResetMaster(v, sentinels) ==
    [v EXCEPT !.slaves = {}, !.sentinels = sentinels, !.leader = NoOne,
              !.failover_state = "none", !.promoted = NoOne, !.force = FALSE,
              !.reconf = [r \in Redis |-> {}], !.s_down = {}, !.o_down = FALSE,
              !.reports_slave = FALSE,
              !.master_down = @ \cap sentinels,
              !.votes = [t \in Sentinel |-> IF t \in sentinels THEN @[t] ELSE NoVote]]

\* sentinelResetMasterAndChangeAddress: the old master becomes a slave.
sentinelResetMasterAndChangeAddress(v, addr) ==
    [sentinelResetMaster(v, v.sentinels)
        EXCEPT !.addr = addr, !.slaves = (v.slaves \cup {v.addr}) \ {addr}]

\* sentinelMasterLooksSane.
sentinelMasterLooksSane(v) == ~v.reports_slave /\ v.addr \notin v.s_down /\ ~v.o_down

-----------------------------------------------------------------------------
(* Failure detection. *)

\* sentinelCheckSubjectivelyDown of some instances: those in elapsed did not
\* answer for down_after_period, or were reported as slave too long.
sentinelCheckSubjectivelyDown(v, instances, elapsed) ==
    [v EXCEPT !.s_down = (@ \ instances) \cup (instances \cap elapsed)]

\* sentinelCheckObjectivelyDown.
sentinelCheckObjectivelyDown(v) ==
    [v EXCEPT !.o_down = /\ v.addr \in v.s_down
                         /\ 1 + Cardinality(v.master_down) >= Quorum]

-----------------------------------------------------------------------------
(* Election. *)

\* Mutant: the vote of an epoch can be changed.
sentinelVoteLeaderAgain(v, req_epoch, req_runid) ==
    LET w == [v EXCEPT !.current_epoch = IF req_epoch > @ THEN req_epoch ELSE @]
    IN  IF w.leader_epoch <= req_epoch /\ w.current_epoch <= req_epoch
        THEN [w EXCEPT !.leader = req_runid, !.leader_epoch = w.current_epoch]
        ELSE w

\* sentinelVoteLeader: one vote in an epoch, never in an old one.
sentinelVoteLeader(v, req_epoch, req_runid) ==
    LET w == [v EXCEPT !.current_epoch = IF req_epoch > @ THEN req_epoch ELSE @]
    IN  IF w.leader_epoch < req_epoch /\ w.current_epoch <= req_epoch
        THEN [w EXCEPT !.leader = req_runid, !.leader_epoch = w.current_epoch]
        ELSE w

\* The votes for c that other sentinels are known to have given.
sentinelLeaderIncr(v, c) ==
    Cardinality({t \in v.sentinels : v.votes[t] = [leader |-> c, epoch |-> v.current_epoch]})

\* sentinelGetLeader: the view after s has voted itself, and the winner; the
\* order of the dictionary decides between candidates with as many votes.
sentinelGetLeader(v, s) ==
    LET epoch == v.failover_epoch
        named == {c \in Sentinel : sentinelLeaderIncr(v, c) > 0}
        first == {c \in named : \A d \in named : sentinelLeaderIncr(v, c) >= sentinelLeaderIncr(v, d)}
        outcome(c) ==
            LET w == sentinelVoteLeader(v, epoch, IF c = NoOne THEN s ELSE c)
                mine == IF w.leader # NoOne /\ w.leader_epoch = epoch THEN w.leader ELSE NoOne
                most == IF c = NoOne THEN 0 ELSE sentinelLeaderIncr(v, c)
                votes == IF mine = NoOne THEN 0 ELSE sentinelLeaderIncr(v, mine) + 1
                winner == IF votes > most THEN mine ELSE c
                max_votes == IF votes > most THEN votes ELSE most
            IN  [view |-> w,
                 winner |-> IF /\ max_votes >= (Cardinality(v.sentinels) + 1) \div 2 + 1
                               /\ max_votes >= Quorum
                            THEN winner ELSE NoOne]
    IN  {outcome(c) : c \in IF first = {} THEN {NoOne} ELSE first}

-----------------------------------------------------------------------------
(* Failover. *)

\* sentinelStartFailover.
sentinelStartFailover(v) ==
    [v EXCEPT !.failover_state = "wait_start", !.current_epoch = @ + 1,
              !.failover_epoch = v.current_epoch + 1]

\* sentinelStartFailoverIfNeeded: rested says that the last attempt is long ago.
sentinelStartFailoverIfNeeded(v, rested) ==
    IF v.o_down /\ v.failover_state = "none" /\ rested /\ v.current_epoch < MaxEpoch
    THEN sentinelStartFailover(v) ELSE v

\* sentinelAbortFailover.
sentinelAbortFailover(v) ==
    [v EXCEPT !.failover_state = "none", !.force = FALSE, !.promoted = NoOne]

\* compareSlavesForPromotion and sentinelSelectSlave: a lowest priority among
\* the slaves that answer; offsets, which are not modelled, decide the rest.
sentinelSelectSlave(v, answering) ==
    LET good == {r \in (v.slaves \ v.s_down) \cap answering : Priority[r] # 0}
    IN  {r \in good : \A q \in good : Priority[r] <= Priority[q]}

\* sentinelFailoverWaitStart: go on when elected or forced, or give up in time.
sentinelFailoverWaitStart(v, s, late) ==
    {IF o.winner = s \/ o.view.force
     THEN [o.view EXCEPT !.failover_state = "select_slave"]
     ELSE IF late THEN sentinelAbortFailover(o.view) ELSE o.view : o \in sentinelGetLeader(v, s)}

\* sentinelFailoverSelectSlave.
sentinelFailoverSelectSlave(v, answering) ==
    IF sentinelSelectSlave(v, answering) = {} THEN {sentinelAbortFailover(v)}
    ELSE {[v EXCEPT !.promoted = r, !.failover_state = "send_slaveof_noone"] :
            r \in sentinelSelectSlave(v, answering)}

\* sentinelFailoverSendSlaveOfNoOne: the order goes out over a link that is up.
sentinelFailoverSendSlaveOfNoOne(v, answering, late) ==
    IF v.promoted \in answering THEN [v EXCEPT !.failover_state = "wait_promotion"]
    ELSE IF late THEN sentinelAbortFailover(v) ELSE v

\* sentinelFailoverWaitPromotion.
sentinelFailoverWaitPromotion(v, late) == IF late THEN sentinelAbortFailover(v) ELSE v

\* The flags after sentinelFailoverReconfNextSlave: it visits slaves in any
\* order of the dictionary until ParallelSyncs are on their way, and orders
\* them to follow the promoted one.  An order without effect for too long
\* (expired) counts as done, and is sent again to a slave that answers.
Reconfigured(v, answering, expired) ==
    LET busy == {r \in v.slaves : v.reconf[r] \cap {"sent", "inprog"} # {}}
        most == IF Cardinality(busy) < ParallelSyncs THEN ParallelSyncs - Cardinality(busy) ELSE 0
        open == {r \in v.slaves \ {v.promoted} : "done" \notin v.reconf[r]}
        given == {r \in open \cap expired : "sent" \in v.reconf[r]}
        free == ((open \ busy) \cup given) \cap answering
        visits == {n \in SUBSET v.slaves :
                    \/ n = {} /\ most = 0
                    \/ most > 0 /\ Cardinality(n \cap free) = most
                    \/ n = v.slaves /\ Cardinality(n \cap free) < most}
    IN  {[r \in Redis |-> IF r \notin n THEN v.reconf[r]
                          ELSE (IF r \in given THEN {"done"} ELSE v.reconf[r])
                               \cup (IF r \in free THEN {"sent"} ELSE {})] : n \in visits}

\* sentinelFailoverDetectEnd: done when every live slave follows, or in time.
sentinelFailoverDetectEnd(v, late) ==
    LET waiting == {r \in v.slaves \ v.s_down : r # v.promoted /\ "done" \notin v.reconf[r]}
    IN  IF v.promoted = NoOne \/ v.promoted \in v.s_down THEN v
        ELSE IF waiting = {} \/ late THEN [v EXCEPT !.failover_state = "update_config"] ELSE v

\* sentinelFailoverReconfNextSlave.
sentinelFailoverReconfNextSlave(v, answering, expired, late) ==
    {sentinelFailoverDetectEnd([v EXCEPT !.reconf = f], late) :
        f \in Reconfigured(v, answering, expired)}

\* sentinelFailoverStateMachine.
sentinelFailoverStateMachine(v, s, answering, expired, late) ==
    CASE v.failover_state = "wait_start" -> sentinelFailoverWaitStart(v, s, late)
      [] v.failover_state = "select_slave" -> sentinelFailoverSelectSlave(v, answering)
      [] v.failover_state = "send_slaveof_noone" ->
            {sentinelFailoverSendSlaveOfNoOne(v, answering, late)}
      [] v.failover_state = "wait_promotion" -> {sentinelFailoverWaitPromotion(v, late)}
      [] v.failover_state = "reconf_slaves" ->
            sentinelFailoverReconfNextSlave(v, answering, expired, late)
      [] OTHER -> {v}

\* The SLAVEOF commands that lead from view v to w; a failover that ends in
\* time orders the slaves it has not reached, the promoted one included.
sentinelSendSlaveOf(v, w, answering, late) ==
    (IF v.failover_state = "send_slaveof_noone" /\ w.failover_state = "wait_promotion"
     THEN {[to |-> w.promoted, of |-> NoOne]} ELSE {})
    \cup {[to |-> r, of |-> w.promoted] :
            r \in {q \in Redis : "sent" \in w.reconf[q] /\ w.reconf[q] # v.reconf[q]}}
    \cup (IF w.failover_state = "update_config" /\ late
          THEN {[to |-> r, of |-> w.promoted] :
                    r \in {q \in w.slaves \cap answering : w.reconf[q] \cap {"sent", "done"} = {}}}
          ELSE {})

\* sentinelFailoverSwitchToPromotedSlave.
sentinelFailoverSwitchToPromotedSlave(v) ==
    IF v.failover_state = "update_config"
    THEN sentinelResetMasterAndChangeAddress(v, v.promoted) ELSE v

-----------------------------------------------------------------------------
Init ==
    /\ view = [s \in Sentinel |->
                createSentinelRedisInstance(FirstMaster, Redis \ {FirstMaster}, Sentinel \ {s})]
    /\ disk = [s \in Sentinel |-> rewriteConfigSentinelOption(view[s])]
    /\ asks = {}
    /\ orders = {}
    /\ role = [r \in Redis |-> IF r = FirstMaster THEN NoOne ELSE FirstMaster]
    /\ up = Redis
    /\ faults = [own |-> 0, down |-> 0, fixes |-> 0]
    /\ ballots = {}
    /\ elected = {}
    /\ disputed = {}

\* Mutant: the configuration is not written.
sentinelFlushConfigNever(s, v, must) == UNCHANGED disk

\* sentinelFlushConfig, where the source calls it.
sentinelFlushConfig(s, v, must) ==
    disk' = IF must THEN [disk EXCEPT ![s] = rewriteConfigSentinelOption(v)] ELSE disk

\* History: s stands by this vote.
RecordVote(s, v) ==
    ballots' = ballots \cup (IF v.leader = NoOne THEN {} ELSE {<<s, v.leader_epoch, v.leader>>})

\* sentinelAskMasterStateToOtherSentinels: old answers are forgotten; while a
\* failover goes on the question about the master comes with a request.
Forgotten(v, old) ==
    [v EXCEPT !.master_down = @ \ old,
              !.votes = [t \in Sentinel |-> IF t \in old THEN NoVote ELSE @[t]]]

sentinelAskMasterStateToOtherSentinels(s, v) ==
    asks' = IF v.addr \in v.s_down /\ v.failover_state # "none"
            THEN asks \cup {[from |-> s, addr |-> v.addr, epoch |-> v.current_epoch]} ELSE asks

(* sentinelHandleRedisInstance for the master, then for its slaves, then    *)
(* the switch to the promoted slave: one run of the timer.                  *)
Handle(s, elapsed, late, old, expired) ==
    LET v == view[s]
        answering == up \ v.s_down
        found == sentinelCheckObjectivelyDown(sentinelCheckSubjectivelyDown(v, {v.addr}, elapsed))
        begun == [sentinelStartFailoverIfNeeded(found, late) EXCEPT !.tilt = FALSE]
        due == late /\ v.failover_state # "none"
    IN  \E w \in sentinelFailoverStateMachine(begun, s, answering, expired, due) :
            LET kept == Forgotten(w, old)
                seen == sentinelCheckSubjectivelyDown(kept, v.slaves, elapsed)
                next == sentinelFailoverSwitchToPromotedSlave(seen)
            IN  /\ view' = [view EXCEPT ![s] = next]
                /\ sentinelAskMasterStateToOtherSentinels(s, kept)
                /\ orders' = orders \cup sentinelSendSlaveOf(begun, w, answering, due)
                /\ sentinelFlushConfig(s, next, next.leader_epoch # v.leader_epoch \/ next.addr # v.addr)
                /\ elected' = IF /\ begun.failover_state = "wait_start" /\ ~begun.force
                                 /\ w.failover_state = "select_slave"
                              THEN elected \cup {<<w.failover_epoch, s, w.current_epoch>>} ELSE elected
                /\ disputed' = disputed \cup {e[1] : e \in {f \in elected' : f[1] # f[3]}}
                /\ RecordVote(s, w)
    /\ UNCHANGED <<role, up>>

\* sentinelTimer, with the times that have passed by then: down_after_period
\* for servers that are down and for a master that reports itself as a slave,
\* and those of the failover, of the answers of other sentinels and of the
\* orders to slaves.
sentinelTimer(s) ==
    LET v == view[s]
        answered == v.master_down \cup {t \in v.sentinels : v.votes[t] # NoVote}
        ordered == {r \in v.slaves : "sent" \in v.reconf[r]}
    IN  \E late, reported \in BOOLEAN, old \in SUBSET answered, expired \in SUBSET ordered :
            /\ reported => v.reports_slave /\ (v.addr \in v.s_down \/ faults.own < MaxFaults)
            /\ v.reports_slave /\ v.addr \in v.s_down => reported
            /\ Handle(s, (Redis \ up) \cup (IF reported THEN {v.addr} ELSE {}), late, old, expired)
            /\ faults' = IF reported /\ v.addr \notin v.s_down
                         THEN [faults EXCEPT !.own = @ + 1] ELSE faults

(* sentinelCheckTiltCondition: the clock jumped. *)
sentinelCheckTiltCondition(s) ==
    /\ faults.own < MaxFaults
    /\ faults' = [faults EXCEPT !.own = @ + 1]
    /\ view' = [view EXCEPT ![s].tilt = TRUE]
    /\ UNCHANGED <<disk, asks, orders, role, up, ballots, elected, disputed>>

-----------------------------------------------------------------------------
(* Commands between sentinels. *)

\* sentinelReceiveIsMasterDownReply: the view of s after the answer of t.
sentinelReceiveIsMasterDownReply(v, t, down, vote) ==
    [v EXCEPT !.master_down = IF down THEN @ \cup {t} ELSE @ \ {t},
              !.votes[t] = IF vote.leader = NoOne THEN @ ELSE vote]

\* SENTINEL is-master-down-by-addr with a request q for the vote of t; the
\* answer comes back or is lost with the connection.
isMasterDownByAddr(q, t, lost) ==
    LET v == view[t]
        known == q.addr = v.addr
        w == IF known THEN sentinelVoteLeader(v, q.epoch, q.from) ELSE v
        down == known /\ ~v.tilt /\ v.addr \in v.s_down
        vote == IF known THEN [leader |-> w.leader, epoch |-> w.leader_epoch] ELSE NoVote
        heard == ~lost /\ t \in view[q.from].sentinels
    IN  /\ t # q.from
        /\ view' = [view EXCEPT ![t] = w,
                    ![q.from] = IF heard THEN sentinelReceiveIsMasterDownReply(@, t, down, vote) ELSE @]
        /\ sentinelFlushConfig(t, w, w # v)
        /\ RecordVote(t, w)
        /\ UNCHANGED <<asks, orders, role, up, faults, elected, disputed>>

\* The same without a request, while s does not fail over.
isMasterDownQuestion(s, t) ==
    LET v == view[t]
        down == view[s].addr = v.addr /\ ~v.tilt /\ v.addr \in v.s_down
    IN  /\ t \in view[s].sentinels
        /\ view[s].addr \in view[s].s_down /\ view[s].failover_state = "none"
        /\ view' = [view EXCEPT ![s] = sentinelReceiveIsMasterDownReply(@, t, down, NoVote)]
        /\ UNCHANGED <<disk, asks, orders, role, up, faults, ballots, elected, disputed>>

\* sentinelSendHello.
sentinelSendHello(s) ==
    [from |-> s, epoch |-> view[s].current_epoch,
     addr |-> sentinelGetCurrentMasterAddress(view[s]), config_epoch |-> view[s].config_epoch]

\* The view of a sentinel after hello h: a sentinel is new, the epoch or the
\* configuration is newer.
HelloView(v, h) ==
    LET w == [v EXCEPT !.sentinels = @ \cup {h.from},
                       !.current_epoch = IF h.epoch > @ THEN h.epoch ELSE @]
        x == [w EXCEPT !.config_epoch = h.config_epoch]
    IN  IF w.config_epoch >= h.config_epoch THEN w
        ELSE IF h.addr = w.addr THEN x
        ELSE sentinelResetMasterAndChangeAddress(x, h.addr)

\* sentinelProcessHelloMessage: a newer configuration epoch alone is not
\* written to the file, nor does it end a failover that goes on.
sentinelProcessHelloMessage(t, h) ==
    LET v == view[t]
        w == HelloView(v, h)
        written == IF w.addr # v.addr THEN w ELSE [w EXCEPT !.config_epoch = v.config_epoch]
    IN  /\ view' = [view EXCEPT ![t] = w]
        /\ sentinelFlushConfig(t, written, w.sentinels # v.sentinels \/ w.current_epoch # v.current_epoch
                                           \/ w.addr # v.addr)
        /\ disputed' = IF w.config_epoch # v.config_epoch /\ sentinelGetCurrentMasterAddress(w) # h.addr
                       THEN disputed \cup {w.config_epoch} ELSE disputed
        /\ UNCHANGED <<asks, orders, role, up, faults, ballots, elected>>


-----------------------------------------------------------------------------
(* Commands to servers, and their INFO. *)

\* What s learns from the INFO of its master, or of a slave r.
InfoOfMaster(v, r) ==
    [v EXCEPT !.slaves = @ \cup ({q \in up : role[q] = r} \ {r}),
              !.reports_slave = role[r] # NoOne]

\* A slave on its way to the promoted one (sent) has it as master (inprog),
\* and is done when it says that the link to its master, whichever, is up.
Progress(v, r, linked) ==
    LET flags == v.reconf[r]
        moved == IF "sent" \in flags /\ role[r] = v.promoted
                 THEN (flags \ {"sent"}) \cup {"inprog"} ELSE flags
    IN  IF "inprog" \in moved /\ linked THEN (moved \ {"inprog"}) \cup {"done"} ELSE moved

InfoOfSlave(v, r, linked) ==
    IF role[r] # NoOne THEN [v EXCEPT !.reconf[r] = Progress(v, r, linked)]
    ELSE IF v.promoted = r /\ v.failover_state = "wait_promotion"
    THEN [v EXCEPT !.config_epoch = v.failover_epoch, !.failover_state = "reconf_slaves"]
    ELSE v

\* The order to a slave that has a wrong master, or none, for a long time.
Fixed(v, r, late) ==
    IF /\ late /\ r # v.addr /\ sentinelMasterLooksSane(v) /\ r \notin v.s_down
       /\ role[r] # v.addr /\ (role[r] = NoOne => r # v.promoted)
    THEN {[to |-> r, of |-> v.addr]} ELSE {}

\* sentinelRefreshInstanceInfo; in tilt mode nothing is done about it.
sentinelRefreshInstanceInfo(s, r, late, linked) ==
    LET v == view[s]
        w == IF r = v.addr THEN InfoOfMaster(v, r) ELSE IF v.tilt THEN v ELSE InfoOfSlave(v, r, linked)
    IN  /\ r \in up \cap (v.slaves \cup {v.addr})
        /\ linked => v.reconf[r] # {}
        /\ view' = [view EXCEPT ![s] = w]
        /\ late => ~v.tilt /\ faults.fixes < MaxFixes /\ Fixed(v, r, late) # {}
        /\ orders' = orders \cup Fixed(v, r, late)
        /\ faults' = IF Fixed(v, r, late) = {} THEN faults ELSE [faults EXCEPT !.fixes = @ + 1]
        /\ sentinelFlushConfig(s, w, w.slaves # v.slaves \/ w.failover_state # v.failover_state)
        /\ UNCHANGED <<asks, role, up, ballots, elected, disputed>>

\* slaveofCommand at a server; the CONFIG REWRITE sent with it makes it last.
ServerObeys(o) ==
    /\ o \in orders /\ o.to \in up
    /\ orders' = orders \ {o}
    /\ role' = [role EXCEPT ![o.to] = o.of]
    /\ UNCHANGED <<view, disk, asks, up, faults, ballots, elected, disputed>>

-----------------------------------------------------------------------------
(* Faults and the operator. *)

ServerDown(r) ==
    /\ faults.down < MaxDown /\ r \in up
    /\ faults' = [faults EXCEPT !.down = @ + 1]
    /\ up' = up \ {r}
    /\ orders' = {o \in orders : o.to # r}
    /\ UNCHANGED <<view, disk, asks, role, ballots, elected, disputed>>

ServerUp(r) ==
    /\ r \notin up
    /\ up' = up \cup {r}
    /\ UNCHANGED <<view, disk, asks, orders, role, faults, ballots, elected, disputed>>

\* A sentinel crashes, also by sentinelSimFailureCrash, and starts again.
Restart(s) ==
    /\ faults.own < MaxFaults
    /\ faults' = [faults EXCEPT !.own = @ + 1]
    /\ view' = [view EXCEPT ![s] = sentinelHandleConfiguration(disk[s])]
    /\ UNCHANGED <<disk, asks, orders, role, up, ballots, elected, disputed>>

\* SENTINEL failover: no election.
sentinelFailoverCommand(s) ==
    /\ faults.own < MaxFaults /\ faults.fixes < MaxFixes /\ view[s].current_epoch < MaxEpoch
    /\ view[s].failover_state = "none"
    /\ sentinelSelectSlave(view[s], up \ view[s].s_down) # {}
    /\ faults' = [faults EXCEPT !.own = @ + 1, !.fixes = @ + 1]
    /\ view' = [view EXCEPT ![s] = [sentinelStartFailover(@) EXCEPT !.force = TRUE]]
    /\ disputed' = disputed \cup {view[s].current_epoch + 1}
    /\ UNCHANGED <<disk, asks, orders, role, up, ballots, elected>>

\* SENTINEL reset.
sentinelResetMastersByPattern(s) ==
    /\ faults.own < MaxFaults
    /\ faults' = [faults EXCEPT !.own = @ + 1]
    /\ view' = [view EXCEPT ![s] = sentinelResetMaster(@, {})]
    /\ disputed' = IF view[s].failover_state = "reconf_slaves"
                 THEN disputed \cup {view[s].config_epoch} ELSE disputed
    /\ UNCHANGED <<disk, asks, orders, role, up, ballots, elected>>

-----------------------------------------------------------------------------
Next ==
    \/ \E s \in Sentinel :
        \/ sentinelTimer(s)
        \/ sentinelCheckTiltCondition(s)
        \/ Restart(s)
        \/ sentinelFailoverCommand(s)
        \/ sentinelResetMastersByPattern(s)
        \/ \E r \in Redis, late, linked \in BOOLEAN : sentinelRefreshInstanceInfo(s, r, late, linked)
        \/ \E t \in Sentinel : isMasterDownQuestion(s, t)
        \/ \E q \in asks, lost \in BOOLEAN : isMasterDownByAddr(q, s, lost)
        \/ \E t \in Sentinel \ {s} : sentinelProcessHelloMessage(s, sentinelSendHello(t))
    \/ \E o \in orders : ServerObeys(o)
    \/ \E r \in Failing : ServerDown(r) \/ ServerUp(r)

Spec == Init /\ [][Next]_vars

-----------------------------------------------------------------------------
(* Properties. *)

TypeOK ==
    /\ \A s \in Sentinel :
        /\ view[s].failover_state \in FailoverState \ {"update_config"}
        /\ view[s].current_epoch \in 0..MaxEpoch
        /\ view[s].addr \in Redis
        /\ view[s].slaves \subseteq Redis \ {view[s].addr}
        /\ view[s].sentinels \subseteq Sentinel \ {s}
        /\ view[s].reconf \in [Redis -> Reconf]
    /\ role \in [Redis -> Redis \cup {NoOne}]
    /\ up \subseteq Redis
    /\ faults \in [own : 0..MaxFaults, down : 0..MaxDown, fixes : 0..MaxFixes]

(* Election: in an epoch at most one sentinel is elected by votes of that  *)
(* epoch, although votes are lost, sentinels crash after voting and         *)
(* operators reset them.                                                   *)
OneLeaderPerEpoch ==
    \A e, f \in elected : e[1] = f[1] /\ e[3] = e[1] /\ f[3] = f[1] => e[2] = f[2]

(* Configurations with the same epoch name the same master, wherever they  *)
(* are kept: sentinelProcessHelloMessage relies on it when it takes only   *)
(* newer epochs.  Excluded are the disputed epochs: of a failover that an  *)
(* operator forced or reset, of a leader elected by votes of a later epoch *)
(* (sentinelGetLeader counts those of the current epoch, not of the one it *)
(* is asked about), and those a sentinel hears of while its own failover,  *)
(* which it then goes on with, has promoted another slave.                 *)
OneConfigPerEpoch ==
    \A s, t \in Sentinel :
        (/\ view[s].config_epoch = view[t].config_epoch
         /\ view[s].config_epoch \notin disputed)
        => sentinelGetCurrentMasterAddress(view[s]) = sentinelGetCurrentMasterAddress(view[t])

(* sentinelRefreshInstanceInfo and sentinelFailoverReconfNextSlave read the *)
(* promoted slave without a check: while they do there is one.              *)
PromotedWhenRead ==
    \A s \in Sentinel :
        /\ view[s].failover_state \in {"send_slaveof_noone", "wait_promotion", "reconf_slaves"}
              => view[s].promoted \in view[s].slaves
        /\ \A r \in view[s].slaves : view[s].reconf[r] \cap {"sent", "inprog"} # {}
              => view[s].promoted # NoOne

(* A sentinel's vote never goes back to an older epoch, not even when it    *)
(* crashes, and its configuration only then, or when the failover it leads  *)
(* ends after it has heard of a newer one.                                  *)
EpochsNeverGoBack ==
    [][\A s \in Sentinel :
        /\ view'[s].leader_epoch >= view[s].leader_epoch
        /\ view'[s].config_epoch < view[s].config_epoch =>
            \/ Restart(s)
            \/ view[s].failover_state = "wait_promotion" /\ view'[s].config_epoch = view[s].failover_epoch]_vars
=============================================================================
