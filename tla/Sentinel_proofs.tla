-------------------------- MODULE Sentinel_proofs --------------------------
(***************************************************************************)
(* Safety of the election and of the failover, for any number of sentinels *)
(* and servers, any epochs and any number of crashes and operator          *)
(* commands.  Two sentinels elected in one epoch would share a voter, for  *)
(* a quorum is more than half of them, and a sentinel votes once in an     *)
(* epoch because the file it restarts from has the epoch of its vote.      *)
(***************************************************************************)
EXTENDS Sentinel, FiniteSetTheorems, TLAPS

Epoch == 0..MaxEpoch
Vote == [leader : Sentinel \cup {NoOne}, epoch : Epoch]

View ==
    [current_epoch : Epoch, config_epoch : Epoch, addr : Redis,
     leader : Sentinel \cup {NoOne}, leader_epoch : Epoch,
     failover_state : FailoverState, failover_epoch : Epoch, force : BOOLEAN,
     promoted : Redis \cup {NoOne}, slaves : SUBSET Redis, reconf : [Redis -> Reconf],
     s_down : SUBSET Redis, o_down : BOOLEAN, reports_slave : BOOLEAN,
     sentinels : SUBSET Sentinel, master_down : SUBSET Sentinel,
     votes : [Sentinel -> Vote], tilt : BOOLEAN]

File ==
    [current_epoch : Epoch, config_epoch : Epoch, leader_epoch : Epoch, addr : Redis,
     slaves : SUBSET Redis, sentinels : SUBSET Sentinel]

Types ==
    /\ view \in [Sentinel -> View]
    /\ disk \in [Sentinel -> File]
    /\ asks \subseteq [from : Sentinel, addr : Redis, epoch : Epoch]
    /\ orders \subseteq [to : Redis, of : Redis \cup {NoOne}]
    /\ role \in [Redis -> Redis \cup {NoOne}]
    /\ up \subseteq Redis
    /\ faults \in [own : 0..MaxFaults, down : 0..MaxDown, fixes : 0..MaxFixes]
    /\ ballots \subseteq Sentinel \X Epoch \X Sentinel
    /\ elected \subseteq Epoch \X Sentinel \X Epoch
    /\ disputed \subseteq Epoch

Promoting == {"send_slaveof_noone", "wait_promotion", "reconf_slaves"}

\* What holds of a view on its own.
Sane(v) ==
    /\ v.failover_state # "update_config"
    /\ v.addr \notin v.slaves
    /\ v.failover_state = "none" => ~v.force
    /\ v.failover_state \in Promoting => v.promoted \in v.slaves
    /\ v.failover_state # "reconf_slaves" => \A r \in Redis : v.reconf[r] = {}
    /\ v.failover_state # "none" => v.failover_epoch > 0
    /\ v.failover_epoch <= v.current_epoch /\ v.config_epoch <= v.current_epoch
    /\ v.leader_epoch <= v.current_epoch

\* What holds of a view v and the file d.
OnDisk(v, d) ==
    /\ d.addr \notin d.slaves
    /\ d.leader_epoch = v.leader_epoch /\ d.leader_epoch <= d.current_epoch
    /\ d.config_epoch <= d.current_epoch /\ d.current_epoch <= v.current_epoch

Views ==
    \A s \in Sentinel :
        /\ Sane(view[s]) /\ OnDisk(view[s], disk[s])
        /\ s \notin view[s].sentinels /\ s \notin disk[s].sentinels

\* Votes: one for an epoch, all votes that anybody knows of were given, and
\* a leader has a quorum of them.
Votes ==
    /\ \A b, c \in ballots : b[1] = c[1] /\ b[2] = c[2] => b[3] = c[3]
    /\ \A b \in ballots : b[2] <= view[b[1]].leader_epoch
    /\ \A s \in Sentinel : view[s].leader # NoOne =>
        <<s, view[s].leader_epoch, view[s].leader>> \in ballots
    /\ \A s, t \in Sentinel : view[s].votes[t].leader # NoOne =>
        <<t, view[s].votes[t].epoch, view[s].votes[t].leader>> \in ballots

Electors(e, s) == {t \in Sentinel : <<t, e, s>> \in ballots}

Elections ==
    \A e \in elected : e[3] = e[1] => Cardinality(Electors(e[1], e[2])) >= Quorum

\* The configurations that sentinels have or would start with.
Address(s) == sentinelGetCurrentMasterAddress(view[s])
Configs == {<<view[s].config_epoch, Address(s)>> : s \in Sentinel}
           \cup {<<disk[s].config_epoch, disk[s].addr>> : s \in Sentinel}

Configurations ==
    /\ \A c, d \in Configs : c[1] = d[1] /\ c[1] \notin disputed => c[2] = d[2]
    /\ \A c \in Configs : c[1] # 0 /\ c[1] \notin disputed => \E s \in Sentinel : <<c[1], s, c[1]>> \in elected
    /\ \A e \in elected : e[3] = e[1] => e[1] <= view[e[2]].leader_epoch
    /\ \A e \in elected : e[3] # e[1] => e[1] \in disputed

\* What the sentinel that leads a failover may rely on.
Leaders ==
    \A s \in Sentinel :
        LET v == view[s]
        IN  /\ v.force => v.failover_epoch \in disputed
            /\ v.failover_state = "wait_start" => <<v.failover_epoch, s, v.failover_epoch>> \notin elected
            /\ v.failover_state \in {"select_slave", "send_slaveof_noone", "wait_promotion"} =>
                \/ v.failover_epoch \in disputed
                \/ /\ <<v.failover_epoch, s, v.failover_epoch>> \in elected
                   /\ \A c \in Configs : c[1] # v.failover_epoch

IInv == Types /\ Views /\ Votes /\ Elections /\ Configurations /\ Leaders

-----------------------------------------------------------------------------
(* Operators on views. *)

LEMMA EpochType == Epoch \subseteq Nat /\ 0 \in Epoch /\ NoVote \in Vote
BY SentinelAssumption DEF Epoch, NoVote, Vote

LEMMA NewInstance ==
    ASSUME NEW addr \in Redis, NEW slaves \in SUBSET Redis, NEW sentinels \in SUBSET Sentinel
    PROVE  createSentinelRedisInstance(addr, slaves, sentinels) \in View
<1>1. [t \in Sentinel |-> NoVote] \in [Sentinel -> Vote] /\ [r \in Redis |-> {}] \in [Redis -> Reconf]
    BY EpochType DEF Reconf
<1> QED
    BY <1>1, EpochType DEF createSentinelRedisInstance, View, FailoverState

(* sentinelResetMaster keeps the epochs and ends the failover. *)
LEMMA ResetMaster ==
    ASSUME NEW v \in View, NEW ss \in SUBSET Sentinel
    PROVE  LET w == sentinelResetMaster(v, ss)
           IN  /\ w \in View
               /\ w.slaves = {} /\ w.sentinels = ss /\ w.leader = NoOne
               /\ w.failover_state = "none" /\ w.promoted = NoOne /\ ~w.force
               /\ \A r \in Redis : w.reconf[r] = {}
               /\ \A t \in Sentinel : w.votes[t] \in {v.votes[t], NoVote}
               /\ w.current_epoch = v.current_epoch /\ w.config_epoch = v.config_epoch
               /\ w.leader_epoch = v.leader_epoch /\ w.failover_epoch = v.failover_epoch
               /\ w.addr = v.addr
<1> DEFINE w == sentinelResetMaster(v, ss)
           votes == [t \in Sentinel |-> IF t \in ss THEN v.votes[t] ELSE NoVote]
           reconf == [r \in Redis |-> {}]
<1>1. v.votes \in [Sentinel -> Vote] /\ v.master_down \in SUBSET Sentinel
    BY DEF View
<1>2. votes \in [Sentinel -> Vote] /\ reconf \in [Redis -> Reconf]
    BY <1>1, EpochType DEF Reconf
<1>3. w = [v EXCEPT !.slaves = {}, !.sentinels = ss, !.leader = NoOne,
              !.failover_state = "none", !.promoted = NoOne, !.force = FALSE,
              !.reconf = reconf, !.s_down = {}, !.o_down = FALSE,
              !.reports_slave = FALSE,
              !.master_down = v.master_down \cap ss,
              !.votes = votes]
    BY DEF sentinelResetMaster
<1>4. \A t \in Sentinel : votes[t] \in {v.votes[t], NoVote}
    OBVIOUS
<1>5. \A r \in Redis : reconf[r] = {}
    OBVIOUS
<1> HIDE DEF w, votes, reconf
<1>6. w \in View
    BY <1>1, <1>2, <1>3 DEF View, FailoverState
<1>7. /\ w.slaves = {} /\ w.sentinels = ss /\ w.leader = NoOne
      /\ w.failover_state = "none" /\ w.promoted = NoOne /\ ~w.force
      /\ w.reconf = reconf /\ w.votes = votes
    BY <1>3 DEF View
<1>8. /\ w.current_epoch = v.current_epoch /\ w.config_epoch = v.config_epoch
      /\ w.leader_epoch = v.leader_epoch /\ w.failover_epoch = v.failover_epoch
      /\ w.addr = v.addr
    BY <1>3 DEF View
<1> QED
    BY <1>4, <1>5, <1>6, <1>7, <1>8 DEF w

LEMMA ChangeAddress ==
    ASSUME NEW v \in View, NEW addr \in Redis
    PROVE  LET w == sentinelResetMasterAndChangeAddress(v, addr)
           IN  /\ w \in View
               /\ w.addr = addr /\ addr \notin w.slaves /\ w.sentinels = v.sentinels /\ w.leader = NoOne
               /\ w.failover_state = "none" /\ w.promoted = NoOne /\ ~w.force
               /\ \A r \in Redis : w.reconf[r] = {}
               /\ \A t \in Sentinel : w.votes[t] \in {v.votes[t], NoVote}
               /\ w.current_epoch = v.current_epoch /\ w.config_epoch = v.config_epoch
               /\ w.leader_epoch = v.leader_epoch /\ w.failover_epoch = v.failover_epoch
<1> DEFINE x == sentinelResetMaster(v, v.sentinels)
           w == sentinelResetMasterAndChangeAddress(v, addr)
           slaves == (v.slaves \cup {v.addr}) \ {addr}
<1>1. v.sentinels \in SUBSET Sentinel /\ slaves \in SUBSET Redis /\ addr \notin slaves
    BY DEF View
<1>2. /\ x \in View
      /\ x.sentinels = v.sentinels /\ x.leader = NoOne
      /\ x.failover_state = "none" /\ x.promoted = NoOne /\ ~x.force
      /\ \A r \in Redis : x.reconf[r] = {}
      /\ \A t \in Sentinel : x.votes[t] \in {v.votes[t], NoVote}
      /\ x.current_epoch = v.current_epoch /\ x.config_epoch = v.config_epoch
      /\ x.leader_epoch = v.leader_epoch /\ x.failover_epoch = v.failover_epoch
    BY <1>1, ResetMaster
<1>3. w = [x EXCEPT !.addr = addr, !.slaves = slaves]
    BY DEF sentinelResetMasterAndChangeAddress
<1> HIDE DEF x, w, slaves
<1>4. w \in View
    BY <1>1, <1>2, <1>3 DEF View
<1>5. /\ w.addr = addr /\ w.slaves = slaves /\ w.sentinels = x.sentinels /\ w.leader = x.leader
      /\ w.failover_state = x.failover_state /\ w.promoted = x.promoted /\ w.force = x.force
      /\ w.reconf = x.reconf /\ w.votes = x.votes
      /\ w.current_epoch = x.current_epoch /\ w.config_epoch = x.config_epoch
      /\ w.leader_epoch = x.leader_epoch /\ w.failover_epoch = x.failover_epoch
    BY <1>2, <1>3 DEF View
<1> QED
    BY <1>1, <1>2, <1>4, <1>5 DEF w

(* Fields that a vote leaves alone. *)
Failover(v, w) ==
    /\ w.config_epoch = v.config_epoch /\ w.failover_epoch = v.failover_epoch /\ w.addr = v.addr
    /\ w.failover_state = v.failover_state /\ w.force = v.force /\ w.promoted = v.promoted
    /\ w.slaves = v.slaves /\ w.reconf = v.reconf /\ w.sentinels = v.sentinels /\ w.votes = v.votes

(* A sentinel votes only in an epoch in which it has not voted, and then   *)
(* that is its current epoch.                                              *)
LEMMA VoteLeader ==
    ASSUME NEW v \in View, NEW e \in Epoch, NEW c \in Sentinel
    PROVE  LET w == sentinelVoteLeader(v, e, c)
           IN  /\ w \in View /\ Failover(v, w)
               /\ w.current_epoch >= v.current_epoch /\ w.current_epoch >= e
               /\ w.current_epoch \in {v.current_epoch, e}
               /\ \/ w.leader = v.leader /\ w.leader_epoch = v.leader_epoch
                  \/ /\ w.leader = c /\ w.leader_epoch = e
                     /\ w.leader_epoch > v.leader_epoch /\ w.current_epoch = e
               /\ w.current_epoch = e => w.leader_epoch >= e
<1> DEFINE w == sentinelVoteLeader(v, e, c)
           cur == IF e > v.current_epoch THEN e ELSE v.current_epoch
           x == [v EXCEPT !.current_epoch = cur]
<1>1. /\ v.current_epoch \in Nat /\ e \in Nat /\ v.leader_epoch \in Nat /\ cur \in Epoch /\ cur \in Nat
      /\ cur >= v.current_epoch /\ cur >= e /\ cur \in {v.current_epoch, e}
    <2>1. v.current_epoch \in Epoch /\ v.leader_epoch \in Epoch
        BY DEF View
    <2>2. v.current_epoch \in Nat /\ e \in Nat /\ v.leader_epoch \in Nat
        BY <2>1, EpochType
    <2>3. cur \in {v.current_epoch, e} /\ cur \in Nat /\ cur >= v.current_epoch /\ cur >= e
        BY <2>2
    <2> QED
        BY <2>1, <2>2, <2>3
<1>2. /\ x \in View /\ x.current_epoch = cur /\ x.leader = v.leader /\ x.leader_epoch = v.leader_epoch
      /\ Failover(v, x)
    <2> HIDE DEF cur
    <2>1. x \in View
        BY <1>1 DEF View
    <2> QED
        BY <1>1, <2>1 DEF View, Failover
<1>3. w = IF x.leader_epoch < e /\ x.current_epoch <= e
          THEN [x EXCEPT !.leader = c, !.leader_epoch = x.current_epoch] ELSE x
    BY DEF sentinelVoteLeader
<1> HIDE DEF w, x, cur
<1>4. CASE x.leader_epoch < e /\ x.current_epoch <= e
    <2>0. cur = e /\ x.current_epoch = e
        BY <1>1, <1>2, <1>4
    <2>1. w = [x EXCEPT !.leader = c, !.leader_epoch = e]
        BY <1>3, <1>4, <2>0
    <2>2. w \in View /\ w.leader = c /\ w.leader_epoch = e /\ w.current_epoch = cur
        BY <1>2, <2>1 DEF View
    <2>3. Failover(v, w)
        BY <1>2, <2>1 DEF View, Failover
    <2> QED
        BY <1>1, <1>2, <1>4, <2>0, <2>2, <2>3 DEF w
<1>5. CASE ~(x.leader_epoch < e /\ x.current_epoch <= e)
    BY <1>1, <1>2, <1>3, <1>5 DEF w
<1> QED
    BY <1>4, <1>5

\* W is a quorum that sentinel s, at view v before and w after, knows to
\* have voted for it.
ElectedBy(v, w, s, W) ==
    /\ Cardinality(W) >= Quorum
    /\ \A t \in W : \/ v.votes[t] = [leader |-> s, epoch |-> v.current_epoch]
                    \/ t = s /\ w.leader = s /\ w.leader_epoch = v.failover_epoch

(* A sentinel that finds itself elected by votes of its current epoch has  *)
(* a quorum of them, its own included only if it has given it to itself.   *)
LEMMA GetLeader ==
    ASSUME NEW v \in View, NEW s \in Sentinel, s \notin v.sentinels, NEW o \in sentinelGetLeader(v, s)
    PROVE  /\ \E c \in Sentinel : o.view = sentinelVoteLeader(v, v.failover_epoch, c)
           /\ o.winner = s => \E W \in SUBSET Sentinel : ElectedBy(v, o.view, s, W)
<1> DEFINE Known(c) == {t \in v.sentinels : v.votes[t] = [leader |-> c, epoch |-> v.current_epoch]}
           w(c) == sentinelVoteLeader(v, v.failover_epoch, IF c = NoOne THEN s ELSE c)
           mine(c) == IF w(c).leader # NoOne /\ w(c).leader_epoch = v.failover_epoch
                      THEN w(c).leader ELSE NoOne
           most(c) == IF c = NoOne THEN 0 ELSE Cardinality(Known(c))
           votes(c) == IF mine(c) = NoOne THEN 0 ELSE Cardinality(Known(mine(c))) + 1
<1> USE SentinelAssumption
<1>1. PICK c \in Sentinel \cup {NoOne} :
        /\ o.view = w(c)
        /\ o.winner = s =>
            \/ votes(c) > most(c) /\ votes(c) >= Quorum /\ mine(c) = s
            \/ ~(votes(c) > most(c)) /\ most(c) >= Quorum /\ c = s
    <2> DEFINE max(c) == IF votes(c) > most(c) THEN votes(c) ELSE most(c)
               enough(c) == max(c) >= (Cardinality(v.sentinels) + 1) \div 2 + 1 /\ max(c) >= Quorum
               outcome(c) == [view |-> w(c),
                              winner |-> IF enough(c) THEN IF votes(c) > most(c) THEN mine(c) ELSE c
                                         ELSE NoOne]
               named == {c \in Sentinel : Cardinality(Known(c)) > 0}
               first == {c \in named : \A d \in named : Cardinality(Known(c)) >= Cardinality(Known(d))}
    <2>1. sentinelGetLeader(v, s) = {outcome(c) : c \in IF first = {} THEN {NoOne} ELSE first}
        BY Zenon DEF sentinelGetLeader, sentinelLeaderIncr
    <2>2. (IF first = {} THEN {NoOne} ELSE first) \subseteq Sentinel \cup {NoOne}
        OBVIOUS
    <2> HIDE DEF first, w, mine, most, votes
    <2>3. PICK c \in Sentinel \cup {NoOne} : o = outcome(c)
        BY <2>1, <2>2
    <2>4. o.view = w(c) /\ o.winner = IF enough(c) THEN IF votes(c) > most(c) THEN mine(c) ELSE c ELSE NoOne
        BY <2>3
    <2>5. o.winner = s => \/ votes(c) > most(c) /\ votes(c) >= Quorum /\ mine(c) = s
                          \/ ~(votes(c) > most(c)) /\ most(c) >= Quorum /\ c = s
        BY <2>4
    <2> QED
        BY <2>4, <2>5
<1>2. \E d \in Sentinel : o.view = sentinelVoteLeader(v, v.failover_epoch, d)
    BY <1>1
<1>3. v.sentinels \in SUBSET Sentinel /\ IsFiniteSet(Known(s)) /\ Cardinality(Known(s)) \in Nat
    <2>1. v.sentinels \in SUBSET Sentinel
        BY DEF View
    <2>2. Known(s) \in SUBSET Sentinel
        BY <2>1
    <2> QED
        BY <2>1, <2>2, FS_Subset, FS_CardinalityType
<1>4. CASE o.winner = s /\ mine(c) = s /\ votes(c) >= Quorum
    <2>1. o.view.leader = s /\ o.view.leader_epoch = v.failover_epoch /\ votes(c) = Cardinality(Known(s)) + 1
        BY <1>1, <1>4
    <2>2. Cardinality(Known(s) \cup {s}) = Cardinality(Known(s)) + 1
        <3> HIDE DEF Known
        <3>1. s \notin Known(s)
            BY DEF Known
        <3> QED
            BY <1>3, <3>1, FS_AddElement
    <2>3. /\ Known(s) \cup {s} \in SUBSET Sentinel
          /\ \A t \in Known(s) \cup {s} : \/ v.votes[t] = [leader |-> s, epoch |-> v.current_epoch]
                                          \/ t = s
        BY <1>3
    <2> HIDE DEF Known, mine, votes
    <2> QED
        BY <1>2, <1>4, <2>1, <2>2, <2>3 DEF ElectedBy
<1>5. CASE o.winner = s /\ c = s /\ most(c) >= Quorum
    <2>1. Cardinality(Known(s)) >= Quorum
        BY <1>5
    <2>2. /\ Known(s) \in SUBSET Sentinel
          /\ \A t \in Known(s) : v.votes[t] = [leader |-> s, epoch |-> v.current_epoch]
        BY <1>3
    <2> HIDE DEF Known
    <2> QED
        BY <1>2, <2>1, <2>2 DEF ElectedBy
<1> QED
    BY <1>1, <1>2, <1>4, <1>5

(* Fields that the steps of a failover after the election leave alone. *)
Standing(v, w) ==
    /\ w.current_epoch = v.current_epoch /\ w.config_epoch = v.config_epoch
    /\ w.leader = v.leader /\ w.leader_epoch = v.leader_epoch
    /\ w.failover_epoch = v.failover_epoch /\ w.addr = v.addr
    /\ w.slaves = v.slaves /\ w.sentinels = v.sentinels /\ w.votes = v.votes

LEMMA AbortFailover ==
    ASSUME NEW v \in View
    PROVE  LET w == sentinelAbortFailover(v)
           IN  /\ w \in View /\ Standing(v, w) /\ w.reconf = v.reconf
               /\ w.failover_state = "none" /\ w.promoted = NoOne /\ w.force = FALSE
<1>1. sentinelAbortFailover(v) \in View
    BY DEF sentinelAbortFailover, View, FailoverState
<1> QED
    BY <1>1 DEF sentinelAbortFailover, View, Standing

(* The failover goes on, ends, or is given up. *)
Continued(v, w) ==
    /\ w \in View /\ Standing(v, w)
    /\ \/ /\ w.failover_state = v.failover_state /\ w.promoted = v.promoted
          /\ w.reconf = v.reconf /\ w.force = v.force
       \/ /\ v.failover_state # "reconf_slaves"
          /\ w.failover_state = "none" /\ w.promoted = NoOne /\ w.reconf = v.reconf /\ w.force = FALSE
       \/ /\ v.failover_state = "select_slave" /\ w.failover_state = "send_slaveof_noone"
          /\ w.promoted \in v.slaves /\ w.reconf = v.reconf /\ w.force = v.force
       \/ /\ v.failover_state = "send_slaveof_noone" /\ w.failover_state = "wait_promotion"
          /\ w.promoted = v.promoted /\ w.reconf = v.reconf /\ w.force = v.force
       \/ /\ v.failover_state = "reconf_slaves" /\ w.failover_state \in {"reconf_slaves", "update_config"}
          /\ w.promoted = v.promoted /\ w.force = v.force

LEMMA ReconfNextSlave ==
    ASSUME NEW v \in View, v.failover_state = "reconf_slaves", NEW answering, NEW expired,
           NEW late \in BOOLEAN, NEW w \in sentinelFailoverReconfNextSlave(v, answering, expired, late)
    PROVE  Continued(v, w)
<1>1. PICK f \in Reconfigured(v, answering, expired) :
        w = sentinelFailoverDetectEnd([v EXCEPT !.reconf = f], late)
    BY DEF sentinelFailoverReconfNextSlave
<1>2. f \in [Redis -> Reconf]
    <2> DEFINE busy == {r \in v.slaves : v.reconf[r] \cap {"sent", "inprog"} # {}}
               open == {r \in v.slaves \ {v.promoted} : "done" \notin v.reconf[r]}
               given == {r \in open \cap expired : "sent" \in v.reconf[r]}
               free == ((open \ busy) \cup given) \cap answering
    <2>1. PICK n : f = [r \in Redis |-> IF r \notin n THEN v.reconf[r]
                                        ELSE (IF r \in given THEN {"done"} ELSE v.reconf[r])
                                             \cup (IF r \in free THEN {"sent"} ELSE {})]
        BY Zenon DEF Reconfigured
    <2> HIDE DEF given, free
    <2>2. v.reconf \in [Redis -> Reconf]
        BY DEF View
    <2> QED
        BY <2>1, <2>2 DEF Reconf
<1> DEFINE x == [v EXCEPT !.reconf = f]
<1>3. /\ x \in View /\ Standing(v, x) /\ x.failover_state = v.failover_state
      /\ x.promoted = v.promoted /\ x.force = v.force
    <2>1. x \in View
        BY <1>2 DEF View
    <2> QED
        BY <2>1 DEF View, Standing
<1>4. w = x \/ w = [x EXCEPT !.failover_state = "update_config"]
    BY <1>1 DEF sentinelFailoverDetectEnd
<1> HIDE DEF x
<1>5. CASE w = x
    BY <1>3, <1>5 DEF Continued
<1>6. CASE w = [x EXCEPT !.failover_state = "update_config"]
    <2>1. w \in View
        BY <1>3, <1>6 DEF View, FailoverState
    <2>2. /\ Standing(x, w) /\ w.failover_state = "update_config"
          /\ w.promoted = x.promoted /\ w.force = x.force
        BY <1>3, <1>6 DEF View, Standing
    <2> QED
        BY <1>3, <2>1, <2>2 DEF Continued, Standing
<1> QED
    BY <1>4, <1>5, <1>6

(* Every state of the failover after the election. *)
LEMMA StateMachine ==
    ASSUME NEW v \in View, v.failover_state # "wait_start", v.failover_state # "update_config",
           NEW s \in Sentinel, NEW answering, NEW expired, NEW late \in BOOLEAN,
           NEW w \in sentinelFailoverStateMachine(v, s, answering, expired, late)
    PROVE  Continued(v, w)
<1>1. v.failover_state \in FailoverState
    BY DEF View
<1>2. Continued(v, v)
    BY DEF Continued, Standing
<1>3. v.failover_state # "reconf_slaves" => Continued(v, sentinelAbortFailover(v))
    BY AbortFailover DEF Continued
<1>4. CASE v.failover_state = "select_slave"
    <2>1. w \in sentinelFailoverSelectSlave(v, answering)
        BY <1>4 DEF sentinelFailoverStateMachine
    <2>2. CASE w = sentinelAbortFailover(v)
        BY <1>3, <1>4, <2>2
    <2>3. ASSUME NEW r \in sentinelSelectSlave(v, answering),
                 w = [v EXCEPT !.promoted = r, !.failover_state = "send_slaveof_noone"]
          PROVE  Continued(v, w)
        <3>1. r \in v.slaves /\ r \in Redis
            BY <2>3 DEF sentinelSelectSlave, View
        <3>2. w \in View
            BY <2>3, <3>1 DEF View, FailoverState
        <3>3. /\ Standing(v, w) /\ w.failover_state = "send_slaveof_noone" /\ w.promoted = r
              /\ w.reconf = v.reconf /\ w.force = v.force
            BY <2>3 DEF View, Standing
        <3> QED
            BY <1>4, <3>1, <3>2, <3>3 DEF Continued
    <2> QED
        BY <2>1, <2>2, <2>3 DEF sentinelFailoverSelectSlave
<1>5. CASE v.failover_state = "send_slaveof_noone"
    <2>1. w = sentinelFailoverSendSlaveOfNoOne(v, answering, late)
        BY <1>5 DEF sentinelFailoverStateMachine
    <2>2. CASE w = [v EXCEPT !.failover_state = "wait_promotion"]
        <3>1. w \in View
            BY <2>2 DEF View, FailoverState
        <3>2. /\ Standing(v, w) /\ w.failover_state = "wait_promotion" /\ w.promoted = v.promoted
              /\ w.reconf = v.reconf /\ w.force = v.force
            BY <2>2 DEF View, Standing
        <3> QED
            BY <1>5, <3>1, <3>2 DEF Continued
    <2> QED
        BY <1>2, <1>3, <1>5, <2>1, <2>2 DEF sentinelFailoverSendSlaveOfNoOne
<1>6. CASE v.failover_state = "wait_promotion"
    BY <1>2, <1>3, <1>6 DEF sentinelFailoverStateMachine, sentinelFailoverWaitPromotion
<1>7. CASE v.failover_state = "reconf_slaves"
    <2>1. w \in sentinelFailoverReconfNextSlave(v, answering, expired, late)
        BY <1>7 DEF sentinelFailoverStateMachine
    <2> QED
        BY <1>7, <2>1, ReconfNextSlave
<1>8. CASE v.failover_state = "none"
    BY <1>2, <1>8 DEF sentinelFailoverStateMachine
<1> QED
    BY <1>1, <1>4, <1>5, <1>6, <1>7, <1>8 DEF FailoverState

-----------------------------------------------------------------------------
(* One leader, and what it takes to keep the invariant. *)

LEMMA OneLeader == ASSUME Types, Votes, Elections PROVE OneLeaderPerEpoch
<1> SUFFICES ASSUME NEW e \in elected, NEW f \in elected, e[1] = f[1], e[3] = e[1], f[3] = f[1]
             PROVE  e[2] = f[2]
    BY DEF OneLeaderPerEpoch
<1> USE SentinelAssumption
<1>1. Electors(e[1], e[2]) \subseteq Sentinel /\ Electors(f[1], f[2]) \subseteq Sentinel
    BY DEF Electors
<1>2. /\ Cardinality(Electors(e[1], e[2])) >= Quorum /\ Cardinality(Electors(f[1], f[2])) >= Quorum
      /\ Cardinality(Electors(e[1], e[2])) \in Nat /\ Cardinality(Electors(f[1], f[2])) \in Nat
      /\ Cardinality(Sentinel) \in Nat
    BY <1>1, FS_Subset, FS_CardinalityType DEF Elections
<1>3. Cardinality(Electors(e[1], e[2])) + Cardinality(Electors(f[1], f[2])) > Cardinality(Sentinel)
    BY <1>2
<1>4. PICK t : t \in Electors(e[1], e[2]) \cap Electors(f[1], f[2])
    BY <1>1, <1>3, FS_MajoritiesIntersect
<1>5. <<t, e[1], e[2]>> \in ballots /\ <<t, e[1], f[2]>> \in ballots
    BY <1>4 DEF Electors
<1> QED
    BY <1>5 DEF Votes

(* Votes that are known stay known, or are forgotten. *)
LEMMA ElectionsKept ==
    ASSUME Types, Types', Elections, ballots \subseteq ballots', elected' = elected
    PROVE  Elections'
<1> SUFFICES ASSUME NEW e \in elected, e[3] = e[1]
             PROVE  Cardinality(Electors(e[1], e[2])') >= Quorum
    BY DEF Elections
<1>1. Electors(e[1], e[2]) \subseteq Electors(e[1], e[2])' /\ Electors(e[1], e[2])' \subseteq Sentinel
    BY DEF Electors
<1>2. IsFiniteSet(Electors(e[1], e[2])') /\ IsFiniteSet(Electors(e[1], e[2]))
    BY <1>1, SentinelAssumption, FS_Subset
<1>3. /\ Cardinality(Electors(e[1], e[2])) <= Cardinality(Electors(e[1], e[2])')
      /\ Cardinality(Electors(e[1], e[2])) \in Nat /\ Cardinality(Electors(e[1], e[2])') \in Nat
    BY <1>1, <1>2, FS_Subset, FS_CardinalityType
<1>4. Cardinality(Electors(e[1], e[2])) >= Quorum
    BY DEF Elections
<1> QED
    BY <1>3, <1>4, SentinelAssumption

LEMMA VotesKept ==
    ASSUME Types, Types', Votes, Elections, ballots' = ballots, elected' = elected,
           \A s \in Sentinel : /\ view'[s].leader_epoch = view[s].leader_epoch
                               /\ view'[s].leader \in {view[s].leader, NoOne}
                               /\ \A t \in Sentinel : view'[s].votes[t] \in {view[s].votes[t], NoVote}
    PROVE  Votes' /\ Elections'
<1>1. \A b \in ballots : b[1] \in Sentinel
    BY DEF Types
<1>2. NoVote.leader = NoOne
    BY DEF NoVote
<1> QED
    BY <1>1, <1>2, ElectionsKept DEF Votes

(* The vote of t in view w is recorded, and perhaps heard by others. *)
VoteStep(t, w) ==
    /\ \A s \in Sentinel \ {t} : /\ view'[s].leader_epoch = view[s].leader_epoch
                                 /\ view'[s].leader = view[s].leader
    /\ view'[t].leader_epoch = w.leader_epoch /\ view'[t].leader \in {w.leader, NoOne}
    /\ \/ w.leader = view[t].leader /\ w.leader_epoch = view[t].leader_epoch
       \/ w.leader_epoch > view[t].leader_epoch
    /\ \A s, x \in Sentinel :
        \/ view'[s].votes[x] \in {view[s].votes[x], NoVote}
        \/ x = t /\ view'[s].votes[x] = [leader |-> w.leader, epoch |-> w.leader_epoch]
    /\ RecordVote(t, w)

LEMMA VoteGiven ==
    ASSUME Types, Types', Votes, NEW t \in Sentinel, NEW w \in View, VoteStep(t, w)
    PROVE  Votes'
<1> USE DEF VoteStep
<1> DEFINE b0 == <<t, w.leader_epoch, w.leader>>
<1>1. /\ w.leader # NoOne => ballots' = ballots \cup {b0}
      /\ w.leader = NoOne => ballots' = ballots
    BY DEF RecordVote
<1>2. \A b \in ballots : b[1] \in Sentinel /\ b[2] \in Nat
    <2>1. \A b \in ballots : b[1] \in Sentinel /\ b[2] \in Epoch
        BY DEF Types
    <2> QED
        BY <2>1, EpochType
<1>3. /\ w.leader_epoch \in Nat /\ view[t].leader_epoch \in Nat
    <2>1. w.leader_epoch \in Epoch /\ view[t].leader_epoch \in Epoch
        BY DEF Types, View
    <2> QED
        BY <2>1, EpochType
<1>4. \A b \in ballots : b[1] = t => b[2] <= view[t].leader_epoch
    BY <1>2 DEF Votes
<1>5. w.leader # NoOne => \A b \in ballots : b[1] = t /\ b[2] = w.leader_epoch => b[3] = w.leader
    <2>1. CASE w.leader = view[t].leader /\ w.leader_epoch = view[t].leader_epoch
        BY <2>1 DEF Votes
    <2>2. CASE w.leader_epoch > view[t].leader_epoch
        BY <1>2, <1>3, <1>4, <2>2
    <2> QED
        BY <2>1, <2>2
<1>6. (\A b, c \in ballots : b[1] = c[1] /\ b[2] = c[2] => b[3] = c[3])'
    <2>1. \A b, c \in ballots : b[1] = c[1] /\ b[2] = c[2] => b[3] = c[3]
        BY DEF Votes
    <2> QED
        BY <1>1, <1>5, <2>1
<1>7. (\A b \in ballots : b[2] <= view[b[1]].leader_epoch)'
    <2>1. \A b \in ballots : b[2] <= view[b[1]].leader_epoch
        BY DEF Votes
    <2>2. \A b \in ballots : b[2] <= view'[b[1]].leader_epoch
        BY <1>2, <1>3, <2>1
    <2> QED
        BY <1>1, <1>3, <2>2
<1>8. (\A s \in Sentinel : view[s].leader # NoOne => <<s, view[s].leader_epoch, view[s].leader>> \in ballots)'
    <2>1. \A s \in Sentinel : view[s].leader # NoOne => <<s, view[s].leader_epoch, view[s].leader>> \in ballots
        BY DEF Votes
    <2> QED
        BY <1>1, <2>1
<1>9. (\A s, x \in Sentinel : view[s].votes[x].leader # NoOne =>
            <<x, view[s].votes[x].epoch, view[s].votes[x].leader>> \in ballots)'
    <2> SUFFICES ASSUME NEW s \in Sentinel, NEW x \in Sentinel, view'[s].votes[x].leader # NoOne
                 PROVE  <<x, view'[s].votes[x].epoch, view'[s].votes[x].leader>> \in ballots'
        OBVIOUS
    <2>1. NoVote.leader = NoOne
        BY DEF NoVote
    <2>2. CASE view'[s].votes[x] = view[s].votes[x]
        BY <1>1, <2>2 DEF Votes
    <2>3. CASE x = t /\ view'[s].votes[x] = [leader |-> w.leader, epoch |-> w.leader_epoch]
        BY <1>1, <2>3
    <2> QED
        BY <2>1, <2>2, <2>3
<1> QED
    BY <1>6, <1>7, <1>8, <1>9 DEF Votes

(* No configuration is new unless its epoch is disputed, and nobody is elected. *)
LEMMA ConfigsKept ==
    ASSUME Types, Types', Configurations, Leaders,
           \A s \in Sentinel :
                /\ <<view'[s].config_epoch, Address(s)'>> \in Configs \/ view'[s].config_epoch \in disputed'
                /\ <<disk'[s].config_epoch, disk'[s].addr>> \in Configs \/ disk'[s].config_epoch \in disputed',
           elected' = elected, disputed \subseteq disputed',
           \A s \in Sentinel :
                /\ view'[s].leader_epoch >= view[s].leader_epoch
                /\ view'[s].force => view'[s].failover_epoch \in disputed'
                /\ view'[s].failover_state = "wait_start" =>
                    \/ /\ view[s].failover_state = "wait_start"
                       /\ view'[s].failover_epoch = view[s].failover_epoch
                    \/ view'[s].failover_epoch > view[s].leader_epoch
                /\ view'[s].failover_state \in {"select_slave", "send_slaveof_noone", "wait_promotion"} =>
                    \/ view'[s].failover_epoch \in disputed'
                    \/ /\ view[s].failover_state \in {"select_slave", "send_slaveof_noone", "wait_promotion"}
                       /\ view'[s].failover_epoch = view[s].failover_epoch
    PROVE  Configurations' /\ Leaders'
<1>1. \A c \in Configs' : c \in Configs \/ c[1] \in disputed'
    BY DEF Configs
<1>2. \A e \in elected : e[1] \in Nat /\ e[2] \in Sentinel
    <2>1. \A e \in elected : e[1] \in Epoch /\ e[2] \in Sentinel
        BY DEF Types
    <2> QED
        BY <2>1, EpochType
<1>3. \A s \in Sentinel : /\ view[s].leader_epoch \in Nat /\ view'[s].leader_epoch \in Nat
                          /\ view'[s].failover_epoch \in Nat
    <2>1. \A s \in Sentinel : /\ view[s].leader_epoch \in Epoch /\ view'[s].leader_epoch \in Epoch
                              /\ view'[s].failover_epoch \in Epoch
        BY DEF Types, View
    <2> QED
        BY <2>1, EpochType
<1>4. \A e \in elected : e[3] = e[1] => e[1] <= view[e[2]].leader_epoch
    BY DEF Configurations
<1>5. Configurations'
    <2>1. (\A c, d \in Configs : c[1] = d[1] /\ c[1] \notin disputed => c[2] = d[2])'
        BY <1>1 DEF Configurations
    <2>2. (\A c \in Configs : c[1] # 0 /\ c[1] \notin disputed => \E s \in Sentinel : <<c[1], s, c[1]>> \in elected)'
        BY <1>1 DEF Configurations
    <2>3. (\A e \in elected : e[3] = e[1] => e[1] <= view[e[2]].leader_epoch)'
        BY <1>2, <1>3, <1>4
    <2>4. (\A e \in elected : e[3] # e[1] => e[1] \in disputed)'
        BY DEF Configurations
    <2> QED
        BY <2>1, <2>2, <2>3, <2>4 DEF Configurations
<1>6. Leaders'
    <2> SUFFICES ASSUME NEW s \in Sentinel
                 PROVE  LET v == view'[s]
                        IN  /\ v.force => v.failover_epoch \in disputed'
                            /\ v.failover_state = "wait_start" => <<v.failover_epoch, s, v.failover_epoch>> \notin elected'
                            /\ v.failover_state \in {"select_slave", "send_slaveof_noone", "wait_promotion"} =>
                                \/ v.failover_epoch \in disputed'
                                \/ /\ <<v.failover_epoch, s, v.failover_epoch>> \in elected'
                                   /\ \A c \in Configs' : c[1] # v.failover_epoch
        BY DEF Leaders
    <2>1. view[s].failover_state = "wait_start" => <<view[s].failover_epoch, s, view[s].failover_epoch>> \notin elected
        BY DEF Leaders
    <2>2. view[s].failover_state \in {"select_slave", "send_slaveof_noone", "wait_promotion"} =>
                \/ view[s].failover_epoch \in disputed
                \/ /\ <<view[s].failover_epoch, s, view[s].failover_epoch>> \in elected
                   /\ \A c \in Configs : c[1] # view[s].failover_epoch
        BY DEF Leaders
    <2>3. ASSUME view'[s].failover_epoch > view[s].leader_epoch
          PROVE  <<view'[s].failover_epoch, s, view'[s].failover_epoch>> \notin elected
        BY <1>3, <1>4, <2>3
    <2> QED
        BY <1>1, <2>1, <2>2, <2>3
<1> QED
    BY <1>5, <1>6

-----------------------------------------------------------------------------
(* The file. *)

LEMMA AddressType ==
    ASSUME NEW v \in View
    PROVE  /\ sentinelGetCurrentMasterAddress(v) \in Redis
           /\ v.failover_state \notin {"reconf_slaves", "update_config"} => sentinelGetCurrentMasterAddress(v) = v.addr
           /\ v.failover_state \in {"reconf_slaves", "update_config"} /\ v.promoted # NoOne =>
                sentinelGetCurrentMasterAddress(v) = v.promoted
BY DEF sentinelGetCurrentMasterAddress, View

LEMMA RewriteConfig ==
    ASSUME NEW v \in View, v.addr \notin v.slaves
    PROVE  LET d == rewriteConfigSentinelOption(v)
           IN  /\ d \in File /\ d.addr \notin d.slaves
               /\ d.current_epoch = v.current_epoch /\ d.config_epoch = v.config_epoch
               /\ d.leader_epoch = v.leader_epoch /\ d.sentinels = v.sentinels
               /\ d.addr = sentinelGetCurrentMasterAddress(v)
<1> DEFINE d == rewriteConfigSentinelOption(v)
           master == sentinelGetCurrentMasterAddress(v)
           slaves == IF master \in v.slaves THEN (v.slaves \ {master}) \cup {v.addr} ELSE v.slaves
<1>1. master \in Redis /\ v.slaves \in SUBSET Redis /\ v.addr \in Redis
    BY AddressType DEF View
<1>2. d = [current_epoch |-> v.current_epoch, config_epoch |-> v.config_epoch,
           leader_epoch |-> v.leader_epoch, addr |-> master, slaves |-> slaves, sentinels |-> v.sentinels]
    BY DEF rewriteConfigSentinelOption
<1> HIDE DEF d, master
<1>3. slaves \in SUBSET Redis /\ master \notin slaves
    BY <1>1
<1> HIDE DEF slaves
<1>4. d \in File
    BY <1>1, <1>2, <1>3 DEF File, View
<1> QED
    BY <1>2, <1>3, <1>4 DEF d, master

(* What the file is after a step from view v to w, when it may be written  *)
(* with a configuration epoch that is not newer.                           *)
LEMMA FlushConfig ==
    ASSUME NEW v \in View, NEW w \in View, NEW x \in View, NEW d \in File, NEW f,
           Sane(w), OnDisk(v, d), w.current_epoch >= v.current_epoch,
           x.addr = w.addr, x.slaves = w.slaves, x.current_epoch = w.current_epoch,
           x.leader_epoch = w.leader_epoch, x.sentinels = w.sentinels, x.config_epoch <= x.current_epoch,
           f = rewriteConfigSentinelOption(x) \/ (f = d /\ w.leader_epoch = v.leader_epoch)
    PROVE  /\ f \in File /\ OnDisk(w, f) /\ f.sentinels \in {w.sentinels, d.sentinels}
           /\ \/ f.config_epoch = x.config_epoch /\ f.addr = sentinelGetCurrentMasterAddress(x)
              \/ f.config_epoch = d.config_epoch /\ f.addr = d.addr
<1>1. /\ w.current_epoch \in Nat /\ v.current_epoch \in Nat /\ d.current_epoch \in Nat
      /\ w.leader_epoch \in Nat /\ x.config_epoch \in Nat
    <2>1. /\ w.current_epoch \in Epoch /\ v.current_epoch \in Epoch /\ d.current_epoch \in Epoch
          /\ w.leader_epoch \in Epoch /\ x.config_epoch \in Epoch
        BY DEF View, File
    <2> QED
        BY <2>1, EpochType
<1>2. CASE f = rewriteConfigSentinelOption(x)
    <2>1. /\ f \in File /\ f.addr \notin f.slaves
          /\ f.current_epoch = x.current_epoch /\ f.config_epoch = x.config_epoch
          /\ f.leader_epoch = x.leader_epoch /\ f.sentinels = x.sentinels
          /\ f.addr = sentinelGetCurrentMasterAddress(x)
        BY <1>2, RewriteConfig DEF Sane
    <2> QED
        BY <1>1, <2>1 DEF Sane, OnDisk
<1>3. CASE f = d /\ w.leader_epoch = v.leader_epoch
    BY <1>1, <1>3 DEF OnDisk
<1> QED
    BY <1>2, <1>3

-----------------------------------------------------------------------------
(* The initial state satisfies the inductive invariant. *)
LEMMA InitInv == Init => IInv
<1> SUFFICES ASSUME Init PROVE IInv
    OBVIOUS
<1> DEFINE none == [t \in Sentinel |-> NoVote]
           no == [r \in Redis |-> {}]
<1>0. FirstMaster \in Redis /\ MaxFaults \in Nat /\ MaxDown \in Nat /\ MaxFixes \in Nat
    BY SentinelAssumption
<1>1. ASSUME NEW s \in Sentinel
      PROVE  view[s] \in View /\ disk[s] = rewriteConfigSentinelOption(view[s])
    <2>1. view[s] = createSentinelRedisInstance(FirstMaster, Redis \ {FirstMaster}, Sentinel \ {s})
        BY DEF Init
    <2> QED
        BY <1>0, <2>1, NewInstance DEF Init
<1>2. ASSUME NEW s \in Sentinel
      PROVE  /\ view[s].current_epoch = 0 /\ view[s].config_epoch = 0 /\ view[s].leader_epoch = 0
             /\ view[s].failover_epoch = 0 /\ view[s].addr = FirstMaster /\ view[s].leader = NoOne
             /\ view[s].failover_state = "none" /\ view[s].force = FALSE
             /\ FirstMaster \notin view[s].slaves /\ s \notin view[s].sentinels
             /\ \A r \in Redis : view[s].reconf[r] = {}
             /\ \A t \in Sentinel : view[s].votes[t] = NoVote
    <2>1. view[s] = createSentinelRedisInstance(FirstMaster, Redis \ {FirstMaster}, Sentinel \ {s})
        BY DEF Init
    <2>2. /\ view[s].current_epoch = 0 /\ view[s].config_epoch = 0 /\ view[s].leader_epoch = 0
          /\ view[s].failover_epoch = 0 /\ view[s].addr = FirstMaster /\ view[s].leader = NoOne
          /\ view[s].failover_state = "none" /\ view[s].force = FALSE
          /\ view[s].slaves = Redis \ {FirstMaster} /\ view[s].sentinels = Sentinel \ {s}
        BY <2>1 DEF createSentinelRedisInstance
    <2>3. view[s].reconf = no /\ view[s].votes = none
        BY <2>1 DEF createSentinelRedisInstance
    <2>4. (\A r \in Redis : no[r] = {}) /\ (\A t \in Sentinel : none[t] = NoVote)
        OBVIOUS
    <2> HIDE DEF no, none
    <2> QED
        BY <2>2, <2>3, <2>4
<1> HIDE DEF no, none
<1>3. ASSUME NEW s \in Sentinel
      PROVE  /\ disk[s] \in File /\ disk[s].addr \notin disk[s].slaves
             /\ disk[s].current_epoch = 0 /\ disk[s].config_epoch = 0 /\ disk[s].leader_epoch = 0
             /\ s \notin disk[s].sentinels /\ disk[s].addr = FirstMaster
             /\ Address(s) = FirstMaster
    <2> DEFINE v == view[s]
               d == rewriteConfigSentinelOption(v)
    <2>1. v \in View /\ disk[s] = d
        BY <1>1
    <2>2. v.addr = FirstMaster /\ v.failover_state = "none" /\ v.addr \notin v.slaves
        BY <1>2
    <2>3. /\ v.current_epoch = 0 /\ v.config_epoch = 0 /\ v.leader_epoch = 0 /\ s \notin v.sentinels
        BY <1>2
    <2>4. Address(s) = sentinelGetCurrentMasterAddress(v)
        BY DEF Address
    <2> HIDE DEF v
    <2>5. sentinelGetCurrentMasterAddress(v) = FirstMaster
        BY <2>1, <2>2, AddressType
    <2>6. /\ d \in File /\ d.addr \notin d.slaves
          /\ d.current_epoch = v.current_epoch /\ d.config_epoch = v.config_epoch
          /\ d.leader_epoch = v.leader_epoch /\ d.sentinels = v.sentinels
          /\ d.addr = sentinelGetCurrentMasterAddress(v)
        BY <2>1, <2>2, RewriteConfig
    <2> HIDE DEF d
    <2> QED
        BY <2>1, <2>3, <2>4, <2>5, <2>6
<1>4. Types
    <2>1. view \in [Sentinel -> View] /\ disk \in [Sentinel -> File]
        BY <1>1, <1>3 DEF Init
    <2>2. faults \in [own : 0..MaxFaults, down : 0..MaxDown, fixes : 0..MaxFixes]
        BY <1>0 DEF Init
    <2>3. role \in [Redis -> Redis \cup {NoOne}]
        BY <1>0 DEF Init
    <2>4. asks = {} /\ orders = {} /\ up = Redis /\ ballots = {} /\ elected = {} /\ disputed = {}
        BY DEF Init
    <2> QED
        BY <2>1, <2>2, <2>3, <2>4 DEF Types
<1>5. Views
    <2> SUFFICES ASSUME NEW s \in Sentinel
                 PROVE  /\ Sane(view[s]) /\ OnDisk(view[s], disk[s])
                        /\ s \notin view[s].sentinels /\ s \notin disk[s].sentinels
        BY DEF Views
    <2> DEFINE v == view[s]
    <2>0. /\ v.current_epoch = 0 /\ v.config_epoch = 0 /\ v.leader_epoch = 0 /\ v.failover_epoch = 0
          /\ v.failover_state = "none" /\ v.force = FALSE /\ v.addr \notin v.slaves
          /\ \A r \in Redis : v.reconf[r] = {}
        BY <1>2
    <2> HIDE DEF v
    <2>1. Sane(v)
        BY <2>0 DEF Sane, Promoting
    <2>2. OnDisk(v, disk[s])
        BY <1>3, <2>0 DEF OnDisk
    <2> QED
        BY <1>2, <1>3, <2>1, <2>2 DEF v
<1>6. Votes /\ Elections
    <2>0. NoVote.leader = NoOne
        BY DEF NoVote
    <2>1. \A s, t \in Sentinel : view[s].votes[t].leader = NoOne
        BY <1>2, <2>0
    <2>2. \A s \in Sentinel : view[s].leader = NoOne
        BY <1>2
    <2>3. ballots = {} /\ elected = {}
        BY DEF Init
    <2> QED
        BY <2>1, <2>2, <2>3 DEF Votes, Elections
<1>7. \A c \in Configs : c = <<0, FirstMaster>>
    BY <1>2, <1>3 DEF Configs
<1>8. Configurations
    BY <1>7 DEF Init, Configurations
<1>9. Leaders
    BY <1>2 DEF Leaders
<1> QED
    BY <1>4, <1>5, <1>6, <1>8, <1>9 DEF IInv

-----------------------------------------------------------------------------
(* The timer: before, in and after the state machine of the failover. *)

Begun(v, elapsed, late) ==
    [sentinelStartFailoverIfNeeded(
        sentinelCheckObjectivelyDown(sentinelCheckSubjectivelyDown(v, {v.addr}, elapsed)), late)
     EXCEPT !.tilt = FALSE]

LEMMA TimerBegins ==
    ASSUME NEW v \in View, NEW elapsed \in SUBSET Redis, NEW late \in BOOLEAN
    PROVE  LET b == Begun(v, elapsed, late)
           IN  /\ b \in View
               /\ b.config_epoch = v.config_epoch /\ b.addr = v.addr
               /\ b.leader = v.leader /\ b.leader_epoch = v.leader_epoch /\ b.force = v.force
               /\ b.promoted = v.promoted /\ b.reconf = v.reconf
               /\ b.slaves = v.slaves /\ b.sentinels = v.sentinels /\ b.votes = v.votes
               /\ \/ /\ b.failover_state = v.failover_state /\ b.failover_epoch = v.failover_epoch
                     /\ b.current_epoch = v.current_epoch
                  \/ /\ v.failover_state = "none" /\ b.failover_state = "wait_start"
                     /\ b.failover_epoch = v.current_epoch + 1 /\ b.current_epoch = v.current_epoch + 1
<1> DEFINE x == sentinelCheckSubjectivelyDown(v, {v.addr}, elapsed)
           y == sentinelCheckObjectivelyDown(x)
           z == sentinelStartFailoverIfNeeded(y, late)
           b == Begun(v, elapsed, late)
           Same(p, q) == /\ q.config_epoch = p.config_epoch /\ q.addr = p.addr
                         /\ q.leader = p.leader /\ q.leader_epoch = p.leader_epoch /\ q.force = p.force
                         /\ q.promoted = p.promoted /\ q.reconf = p.reconf
                         /\ q.slaves = p.slaves /\ q.sentinels = p.sentinels /\ q.votes = p.votes
           Still(p, q) == /\ q.failover_state = p.failover_state /\ q.failover_epoch = p.failover_epoch
                          /\ q.current_epoch = p.current_epoch
<1>1. x \in View /\ Same(v, x) /\ Still(v, x)
    <2>1. (v.s_down \ {v.addr}) \cup ({v.addr} \cap elapsed) \in SUBSET Redis
        BY DEF View
    <2>2. x \in View
        BY <2>1 DEF sentinelCheckSubjectivelyDown, View
    <2> QED
        BY <2>2 DEF sentinelCheckSubjectivelyDown, View
<1> HIDE DEF x
<1>2. y \in View /\ Same(x, y) /\ Still(x, y)
    <2>1. PICK o \in BOOLEAN : y = [x EXCEPT !.o_down = o]
        BY DEF sentinelCheckObjectivelyDown
    <2>2. y \in View
        BY <1>1, <2>1 DEF View
    <2> QED
        BY <1>1, <2>1, <2>2 DEF View
<1> HIDE DEF y
<1>3. /\ z \in View /\ Same(y, z)
      /\ \/ Still(y, z)
         \/ /\ y.failover_state = "none" /\ z.failover_state = "wait_start"
            /\ z.failover_epoch = y.current_epoch + 1 /\ z.current_epoch = y.current_epoch + 1
    <2>1. CASE z = y
        BY <1>2, <2>1
    <2>2. CASE z = sentinelStartFailover(y) /\ y.failover_state = "none" /\ y.current_epoch < MaxEpoch
        <3>1. y.current_epoch + 1 \in Epoch
            BY <1>2, <2>2, SentinelAssumption DEF View, Epoch
        <3>2. z = [y EXCEPT !.failover_state = "wait_start", !.current_epoch = y.current_epoch + 1,
                            !.failover_epoch = y.current_epoch + 1]
            BY <2>2 DEF sentinelStartFailover
        <3> HIDE DEF z
        <3>3. z \in View
            BY <1>2, <3>1, <3>2 DEF View, FailoverState
        <3> QED
            BY <1>2, <2>2, <3>2, <3>3 DEF View
    <2> QED
        BY <2>1, <2>2 DEF sentinelStartFailoverIfNeeded
<1> HIDE DEF z
<1>4. b = [z EXCEPT !.tilt = FALSE]
    BY DEF Begun, x, y, z
<1>5. b \in View /\ Same(z, b) /\ Still(z, b)
    <2>1. b \in View
        BY <1>3, <1>4 DEF View
    <2> QED
        BY <1>3, <1>4, <2>1 DEF View
<1> QED
    BY <1>1, <1>2, <1>3, <1>5

Ended(w, old, instances, elapsed) ==
    sentinelFailoverSwitchToPromotedSlave(sentinelCheckSubjectivelyDown(Forgotten(w, old), instances, elapsed))

Closed(w, n) ==
    /\ n \in View /\ n.current_epoch = w.current_epoch /\ n.config_epoch = w.config_epoch
    /\ n.leader \in {w.leader, NoOne} /\ n.leader_epoch = w.leader_epoch
    /\ n.failover_epoch = w.failover_epoch /\ n.sentinels = w.sentinels
    /\ \A t \in Sentinel : n.votes[t] \in {w.votes[t], NoVote}
    /\ IF w.failover_state = "update_config"
       THEN /\ n.addr = w.promoted /\ n.addr \notin n.slaves /\ n.failover_state = "none"
            /\ n.force = FALSE /\ \A r \in Redis : n.reconf[r] = {}
       ELSE /\ n.addr = w.addr /\ n.slaves = w.slaves /\ n.failover_state = w.failover_state
            /\ n.force = w.force /\ n.reconf = w.reconf /\ n.promoted = w.promoted

LEMMA TimerEnds ==
    ASSUME NEW w \in View, NEW old, NEW instances \in SUBSET Redis, NEW elapsed \in SUBSET Redis,
           w.failover_state = "update_config" => w.promoted \in Redis
    PROVE  /\ Closed(w, Ended(w, old, instances, elapsed))
           /\ Forgotten(w, old) \in View /\ Forgotten(w, old).addr = w.addr
           /\ Forgotten(w, old).current_epoch = w.current_epoch
<1> DEFINE x == Forgotten(w, old)
           y == sentinelCheckSubjectivelyDown(x, instances, elapsed)
           n == Ended(w, old, instances, elapsed)
           Same(p, q) == /\ q.current_epoch = p.current_epoch /\ q.config_epoch = p.config_epoch
                         /\ q.leader = p.leader /\ q.leader_epoch = p.leader_epoch
                         /\ q.failover_epoch = p.failover_epoch /\ q.sentinels = p.sentinels
                         /\ q.addr = p.addr /\ q.slaves = p.slaves /\ q.failover_state = p.failover_state
                         /\ q.force = p.force /\ q.reconf = p.reconf /\ q.promoted = p.promoted
<1>1. x \in View /\ Same(w, x) /\ \A t \in Sentinel : x.votes[t] \in {w.votes[t], NoVote}
    <2> DEFINE votes == [t \in Sentinel |-> IF t \in old THEN NoVote ELSE w.votes[t]]
    <2>1. votes \in [Sentinel -> Vote] /\ \A t \in Sentinel : votes[t] \in {w.votes[t], NoVote}
        BY EpochType DEF View
    <2>2. x = [w EXCEPT !.master_down = w.master_down \ old, !.votes = votes]
        BY DEF Forgotten
    <2> HIDE DEF votes, x
    <2>3. x \in View
        BY <2>1, <2>2 DEF View
    <2>4. Same(w, x) /\ x.votes = votes
        BY <2>2, <2>3 DEF View
    <2> QED
        BY <2>1, <2>3, <2>4
<1> HIDE DEF x
<1>2. y \in View /\ Same(x, y) /\ y.votes = x.votes
    <2>1. (x.s_down \ instances) \cup (instances \cap elapsed) \in SUBSET Redis
        BY <1>1 DEF View
    <2>2. y \in View
        BY <1>1, <2>1 DEF sentinelCheckSubjectivelyDown, View
    <2> QED
        BY <1>1, <2>2 DEF sentinelCheckSubjectivelyDown, View
<1>3. n = IF y.failover_state = "update_config"
          THEN sentinelResetMasterAndChangeAddress(y, y.promoted) ELSE y
    BY DEF Ended, sentinelFailoverSwitchToPromotedSlave, x
<1> HIDE DEF y, n
<1>4. CASE w.failover_state # "update_config"
    <2>1. n = y
        BY <1>1, <1>2, <1>3, <1>4
    <2> QED
        BY <1>1, <1>2, <1>4, <2>1 DEF n, x, Closed
<1>5. CASE w.failover_state = "update_config"
    <2>1. n = sentinelResetMasterAndChangeAddress(y, w.promoted) /\ w.promoted \in Redis
        BY <1>1, <1>2, <1>3, <1>5
    <2>2. /\ n \in View
          /\ n.addr = w.promoted /\ n.addr \notin n.slaves /\ n.sentinels = y.sentinels /\ n.leader = NoOne
          /\ n.failover_state = "none" /\ n.force = FALSE
          /\ \A r \in Redis : n.reconf[r] = {}
          /\ \A t \in Sentinel : n.votes[t] \in {y.votes[t], NoVote}
          /\ n.current_epoch = y.current_epoch /\ n.config_epoch = y.config_epoch
          /\ n.leader_epoch = y.leader_epoch /\ n.failover_epoch = y.failover_epoch
        <3>1. ASSUME NEW u \in View, ~u.force PROVE u.force = FALSE
            BY <3>1 DEF View
        <3> QED
            BY <1>2, <2>1, <3>1, ChangeAddress
    <2> QED
        BY <1>1, <1>2, <1>5, <2>2 DEF n, x, Closed
<1> QED
    BY <1>4, <1>5

(* What one run of the state machine changes in a view: the vote, and the  *)
(* state of the failover.                                                  *)
Voted(v, w) ==
    \/ w.leader = v.leader /\ w.leader_epoch = v.leader_epoch
    \/ w.leader_epoch > v.leader_epoch /\ w.leader_epoch = v.failover_epoch

Moved(v, w) ==
    \/ /\ w.failover_state = v.failover_state /\ w.failover_state # "reconf_slaves"
       /\ w.promoted = v.promoted /\ w.reconf = v.reconf /\ w.force = v.force
    \/ /\ v.failover_state # "reconf_slaves"
       /\ w.failover_state = "none" /\ w.reconf = v.reconf /\ w.force = FALSE
    \/ /\ v.failover_state = "wait_start" /\ w.failover_state = "select_slave"
       /\ w.reconf = v.reconf /\ w.force = v.force
    \/ /\ v.failover_state = "select_slave" /\ w.failover_state = "send_slaveof_noone"
       /\ w.promoted \in v.slaves /\ w.reconf = v.reconf /\ w.force = v.force
    \/ /\ v.failover_state = "send_slaveof_noone" /\ w.failover_state = "wait_promotion"
       /\ w.promoted = v.promoted /\ w.reconf = v.reconf /\ w.force = v.force
    \/ /\ v.failover_state = "reconf_slaves" /\ w.failover_state \in {"reconf_slaves", "update_config"}
       /\ w.promoted = v.promoted /\ w.force = v.force

Run(v, w) ==
    /\ w \in View /\ Voted(v, w) /\ Moved(v, w)
    /\ w.current_epoch = v.current_epoch /\ w.config_epoch = v.config_epoch
    /\ w.failover_epoch = v.failover_epoch /\ w.addr = v.addr
    /\ w.slaves = v.slaves /\ w.sentinels = v.sentinels /\ w.votes = v.votes

LEMMA WaitStart ==
    ASSUME NEW v \in View, NEW s \in Sentinel, s \notin v.sentinels, v.failover_state = "wait_start",
           v.failover_epoch <= v.current_epoch, NEW late \in BOOLEAN,
           NEW w \in sentinelFailoverWaitStart(v, s, late)
    PROVE  /\ Run(v, w)
           /\ v.current_epoch = v.failover_epoch => w.leader_epoch >= v.failover_epoch
           /\ w.failover_state = "select_slave" /\ v.force = FALSE =>
                \E W \in SUBSET Sentinel : ElectedBy(v, w, s, W)
<1>1. PICK o \in sentinelGetLeader(v, s) :
        w = IF o.winner = s \/ o.view.force THEN [o.view EXCEPT !.failover_state = "select_slave"]
            ELSE IF late THEN sentinelAbortFailover(o.view) ELSE o.view
    BY DEF sentinelFailoverWaitStart
<1> DEFINE x == o.view
<1>2. PICK c \in Sentinel : x = sentinelVoteLeader(v, v.failover_epoch, c)
    <2>1. \E c \in Sentinel : o.view = sentinelVoteLeader(v, v.failover_epoch, c)
        BY GetLeader
    <2> QED
        BY <2>1
<1>3. o.winner = s => \E W \in SUBSET Sentinel : ElectedBy(v, x, s, W)
    BY GetLeader
<1> HIDE DEF x
<1>4. /\ v.failover_epoch \in Epoch /\ v.current_epoch \in Nat /\ v.failover_epoch \in Nat
    <2>1. v.failover_epoch \in Epoch /\ v.current_epoch \in Epoch
        BY DEF View
    <2> QED
        BY <2>1, EpochType
<1>5. /\ x \in View /\ Failover(v, x)
      /\ x.current_epoch >= v.current_epoch /\ x.current_epoch >= v.failover_epoch
      /\ x.current_epoch \in {v.current_epoch, v.failover_epoch}
      /\ \/ x.leader = v.leader /\ x.leader_epoch = v.leader_epoch
         \/ x.leader_epoch = v.failover_epoch /\ x.leader_epoch > v.leader_epoch
      /\ x.current_epoch = v.failover_epoch => x.leader_epoch >= v.failover_epoch
    BY <1>2, <1>4, VoteLeader
<1>6. x.current_epoch = v.current_epoch
    BY <1>4, <1>5
<1>7. CASE w = [x EXCEPT !.failover_state = "select_slave"] /\ (o.winner = s \/ x.force)
    <2>1. w \in View
        BY <1>5, <1>7 DEF View, FailoverState
    <2>2. /\ w.failover_state = "select_slave" /\ w.reconf = x.reconf /\ w.force = x.force
          /\ w.current_epoch = x.current_epoch /\ w.config_epoch = x.config_epoch
          /\ w.leader = x.leader /\ w.leader_epoch = x.leader_epoch
          /\ w.failover_epoch = x.failover_epoch /\ w.addr = x.addr
          /\ w.slaves = x.slaves /\ w.sentinels = x.sentinels /\ w.votes = x.votes
        BY <1>5, <1>7 DEF View
    <2>3. Run(v, w)
        BY <1>5, <1>6, <2>1, <2>2 DEF Run, Voted, Moved, Failover
    <2>4. v.force = FALSE => \E W \in SUBSET Sentinel : ElectedBy(v, w, s, W)
        <3>1. v.force = FALSE => o.winner = s
            BY <1>5, <1>7 DEF Failover
        <3> QED
            BY <1>3, <2>2, <3>1 DEF ElectedBy
    <2> QED
        BY <1>5, <1>6, <2>2, <2>3, <2>4
<1>8. CASE w = sentinelAbortFailover(x)
    <2>1. /\ w \in View /\ Standing(x, w) /\ w.reconf = x.reconf
          /\ w.failover_state = "none" /\ w.force = FALSE
        BY <1>5, <1>8, AbortFailover
    <2>2. Run(v, w)
        BY <1>5, <1>6, <2>1 DEF Run, Voted, Moved, Failover, Standing
    <2> QED
        BY <1>5, <1>6, <2>1, <2>2 DEF Standing
<1>9. CASE w = x
    <2>1. Run(v, w)
        BY <1>5, <1>6, <1>9 DEF Run, Voted, Moved, Failover
    <2> QED
        BY <1>5, <1>6, <1>9, <2>1 DEF Failover
<1> QED
    BY <1>1, <1>7, <1>8, <1>9 DEF x

(* One run of the state machine, in any state. *)
LEMMA TimerRuns ==
    ASSUME NEW v \in View, NEW s \in Sentinel, s \notin v.sentinels, v.failover_state # "update_config",
           v.failover_epoch <= v.current_epoch, NEW answering, NEW expired, NEW late \in BOOLEAN,
           NEW w \in sentinelFailoverStateMachine(v, s, answering, expired, late)
    PROVE  /\ Run(v, w)
           /\ v.failover_state = "wait_start" /\ w.failover_state = "select_slave" /\ v.force = FALSE =>
                /\ v.current_epoch = v.failover_epoch => w.leader_epoch >= v.failover_epoch
                /\ \E W \in SUBSET Sentinel : ElectedBy(v, w, s, W)
<1>1. CASE v.failover_state = "wait_start"
    <2>1. w \in sentinelFailoverWaitStart(v, s, late)
        BY <1>1 DEF sentinelFailoverStateMachine
    <2> QED
        BY <1>1, <2>1, WaitStart
<1>2. CASE v.failover_state # "wait_start"
    <2>1. Continued(v, w)
        BY <1>2, StateMachine
    <2>2. Moved(v, w)
        BY <2>1 DEF Continued, Moved
    <2> QED
        BY <1>2, <2>1, <2>2 DEF Continued, Standing, Run, Voted
<1> QED
    BY <1>1, <1>2

-----------------------------------------------------------------------------
(* Steps of one sentinel s that leave it with view n and file f. *)

OneStep(s, n, f) ==
    /\ n \in View /\ f \in File
    /\ view' = [view EXCEPT ![s] = n] /\ disk' = [disk EXCEPT ![s] = f]

LEMMA Updated ==
    ASSUME Types, NEW s \in Sentinel, NEW n, NEW f, OneStep(s, n, f)
    PROVE  /\ view' \in [Sentinel -> View] /\ disk' \in [Sentinel -> File]
           /\ view'[s] = n /\ disk'[s] = f
           /\ \A t \in Sentinel \ {s} : view'[t] = view[t] /\ disk'[t] = disk[t]
<1> USE DEF Types, OneStep
<1> QED
    OBVIOUS

LEMMA ViewsKept ==
    ASSUME Types, Views, NEW s \in Sentinel, NEW n, NEW f, OneStep(s, n, f), Sane(n), OnDisk(n, f),
           s \notin n.sentinels, s \notin f.sentinels
    PROVE  Views'
<1>1. \A t \in Sentinel : t # s => view'[t] = view[t] /\ disk'[t] = disk[t]
    BY Updated
<1>2. view'[s] = n /\ disk'[s] = f
    BY Updated
<1> SUFFICES ASSUME NEW t \in Sentinel
             PROVE  /\ Sane(view'[t]) /\ OnDisk(view'[t], disk'[t])
                    /\ t \notin view'[t].sentinels /\ t \notin disk'[t].sentinels
    BY DEF Views, Sane, OnDisk
<1>3. CASE t = s
    BY <1>2, <1>3
<1>4. CASE t # s
    BY <1>1, <1>4 DEF Views
<1> QED
    BY <1>3, <1>4

\* The configuration of a view, and of a file.
ConfigOf(v) == <<v.config_epoch, sentinelGetCurrentMasterAddress(v)>>
FileConfig(d) == <<d.config_epoch, d.addr>>

\* The part of the invariant about s is kept when its view becomes n.
Legitimate(s, n) ==
    /\ n.force => n.failover_epoch \in disputed'
    /\ n.failover_state = "wait_start" =>
        \/ view[s].failover_state = "wait_start" /\ n.failover_epoch = view[s].failover_epoch
        \/ n.failover_epoch > view[s].leader_epoch
    /\ n.failover_state \in {"select_slave", "send_slaveof_noone", "wait_promotion"} =>
        \/ n.failover_epoch \in disputed'
        \/ /\ view[s].failover_state \in {"select_slave", "send_slaveof_noone", "wait_promotion"}
           /\ n.failover_epoch = view[s].failover_epoch

LEMMA LeadersKept ==
    ASSUME IInv, Types', NEW s \in Sentinel, NEW n, NEW f, OneStep(s, n, f),
           ConfigOf(n) \in Configs \/ n.config_epoch \in disputed',
           FileConfig(f) \in Configs \/ f.config_epoch \in disputed',
           elected' = elected, disputed \subseteq disputed',
           n.leader_epoch >= view[s].leader_epoch, Legitimate(s, n)
    PROVE  Configurations' /\ Leaders'
<1>1. \A t \in Sentinel : t # s => view'[t] = view[t] /\ disk'[t] = disk[t]
    BY Updated DEF IInv
<1>2. view'[s] = n /\ disk'[s] = f
    BY Updated DEF IInv
<1>3. \A t \in Sentinel : /\ view[t].leader_epoch \in Nat
                          /\ view[t].force => view[t].failover_epoch \in disputed
    <2>1. \A t \in Sentinel : view[t].leader_epoch \in Epoch
        BY DEF IInv, Types, View
    <2> QED
        BY <2>1, EpochType DEF IInv, Leaders
<1>4. ASSUME NEW t \in Sentinel
      PROVE  /\ <<view'[t].config_epoch, Address(t)'>> \in Configs \/ view'[t].config_epoch \in disputed'
             /\ <<disk'[t].config_epoch, disk'[t].addr>> \in Configs \/ disk'[t].config_epoch \in disputed'
    <2>1. CASE t = s
        BY <1>2, <2>1 DEF Address, ConfigOf, FileConfig, sentinelGetCurrentMasterAddress
    <2>2. CASE t # s
        <3>1. Address(t)' = Address(t)
            BY <1>1, <2>2 DEF Address, sentinelGetCurrentMasterAddress
        <3> QED
            BY <1>1, <2>2, <3>1 DEF Configs
    <2> QED
        BY <2>1, <2>2
<1>5. ASSUME NEW t \in Sentinel
      PROVE  /\ view'[t].leader_epoch >= view[t].leader_epoch
             /\ view'[t].force => view'[t].failover_epoch \in disputed'
             /\ view'[t].failover_state = "wait_start" =>
                    \/ /\ view[t].failover_state = "wait_start"
                       /\ view'[t].failover_epoch = view[t].failover_epoch
                    \/ view'[t].failover_epoch > view[t].leader_epoch
             /\ view'[t].failover_state \in {"select_slave", "send_slaveof_noone", "wait_promotion"} =>
                    \/ view'[t].failover_epoch \in disputed'
                    \/ /\ view[t].failover_state \in {"select_slave", "send_slaveof_noone", "wait_promotion"}
                       /\ view'[t].failover_epoch = view[t].failover_epoch
    <2>1. CASE t = s
        BY <1>2, <2>1 DEF Legitimate
    <2>2. CASE t # s
        BY <1>1, <1>3, <2>2
    <2> QED
        BY <2>1, <2>2
<1> QED
    BY <1>4, <1>5, ConfigsKept DEF IInv

\* What EpochsNeverGoBack says of a step.
Forward ==
    \A s \in Sentinel :
        /\ view'[s].leader_epoch >= view[s].leader_epoch
        /\ view'[s].config_epoch < view[s].config_epoch =>
            \/ Restart(s)
            \/ view[s].failover_state = "wait_promotion" /\ view'[s].config_epoch = view[s].failover_epoch

LEMMA ForwardStep ==
    ASSUME Types, NEW s \in Sentinel, NEW n, NEW f, OneStep(s, n, f),
           n.leader_epoch >= view[s].leader_epoch,
           \/ n.config_epoch >= view[s].config_epoch
           \/ Restart(s)
           \/ view[s].failover_state = "wait_promotion" /\ n.config_epoch = view[s].failover_epoch
    PROVE  Forward
<1>1. \A t \in Sentinel : t # s => view'[t] = view[t]
    BY Updated
<1>2. view'[s] = n
    BY Updated
<1>3. \A t \in Sentinel : /\ view[t].leader_epoch \in Nat /\ view[t].config_epoch \in Nat
    <2>1. \A t \in Sentinel : view[t].leader_epoch \in Epoch /\ view[t].config_epoch \in Epoch
        BY DEF Types, View
    <2> QED
        BY <2>1, EpochType
<1>4. n.config_epoch \in Nat
    <2>1. n.config_epoch \in Epoch
        BY DEF OneStep, View
    <2> QED
        BY <2>1, EpochType
<1> QED
    BY <1>1, <1>2, <1>3, <1>4 DEF Forward

(* A step of s without a vote and without a new configuration. *)
LEMMA QuietStep ==
    ASSUME IInv, Types', NEW s \in Sentinel, NEW n, NEW f, OneStep(s, n, f), Sane(n), OnDisk(n, f),
           s \notin n.sentinels, s \notin f.sentinels,
           n.leader_epoch = view[s].leader_epoch, n.leader \in {view[s].leader, NoOne},
           \A t \in Sentinel : n.votes[t] \in {view[s].votes[t], NoVote},
           ballots' = ballots, elected' = elected, disputed \subseteq disputed',
           ConfigOf(n) \in Configs \/ n.config_epoch \in disputed',
           FileConfig(f) \in Configs \/ f.config_epoch \in disputed',
           Legitimate(s, n)
    PROVE  IInv'
<1>1. \A t \in Sentinel : t # s => view'[t] = view[t] /\ disk'[t] = disk[t]
    BY Updated DEF IInv
<1>2. view'[s] = n /\ disk'[s] = f
    BY Updated DEF IInv
<1>3. Views'
    BY ViewsKept DEF IInv
<1>4. Votes' /\ Elections'
    BY <1>1, <1>2, VotesKept DEF IInv
<1>5. n.leader_epoch >= view[s].leader_epoch
    <2>1. n.leader_epoch \in Epoch
        BY DEF OneStep, View
    <2>2. n.leader_epoch \in Nat /\ n.leader_epoch = view[s].leader_epoch
        BY <2>1, EpochType
    <2> QED
        BY <2>2
<1>6. Configurations' /\ Leaders'
    BY <1>5, LeadersKept
<1> QED
    BY <1>3, <1>4, <1>6 DEF IInv

-----------------------------------------------------------------------------
(* One lemma for each action: it keeps the invariant and no epoch goes back. *)

LEMMA EpochsOf ==
    ASSUME Types, NEW s \in Sentinel
    PROVE  /\ view[s] \in View /\ disk[s] \in File
           /\ view[s].current_epoch \in Nat /\ view[s].config_epoch \in Nat /\ view[s].leader_epoch \in Nat
           /\ view[s].failover_epoch \in Nat
           /\ disk[s].current_epoch \in Nat /\ disk[s].config_epoch \in Nat /\ disk[s].leader_epoch \in Nat
<1>1. view[s] \in View /\ disk[s] \in File
    BY DEF Types
<1>2. /\ view[s].current_epoch \in Epoch /\ view[s].config_epoch \in Epoch /\ view[s].leader_epoch \in Epoch
      /\ view[s].failover_epoch \in Epoch
    BY <1>1 DEF View
<1>3. disk[s].current_epoch \in Epoch /\ disk[s].config_epoch \in Epoch /\ disk[s].leader_epoch \in Epoch
    BY <1>1 DEF File
<1> QED
    BY <1>1, <1>2, <1>3, EpochType

LEMMA FaultType ==
    ASSUME Types, faults.own < MaxFaults, faults' = [faults EXCEPT !.own = @ + 1]
    PROVE  faults' \in [own : 0..MaxFaults, down : 0..MaxDown, fixes : 0..MaxFixes]
<1>1. MaxFaults \in Nat
    BY SentinelAssumption
<1>2. faults.own \in 0..MaxFaults
    BY DEF Types
<1>3. faults.own + 1 \in 0..MaxFaults
    BY <1>1, <1>2
<1> QED
    BY <1>3 DEF Types

LEMMA InConfigs ==
    ASSUME NEW s \in Sentinel
    PROVE  ConfigOf(view[s]) \in Configs /\ FileConfig(disk[s]) \in Configs
BY DEF ConfigOf, FileConfig, Configs, Address

LEMMA TiltInv ==
    ASSUME IInv, NEW s \in Sentinel, sentinelCheckTiltCondition(s)
    PROVE  IInv' /\ Forward
<1> DEFINE v == view[s]
           n == [v EXCEPT !.tilt = TRUE]
           f == disk[s]
<1>1. /\ faults.own < MaxFaults /\ faults' = [faults EXCEPT !.own = @ + 1]
      /\ view' = [view EXCEPT ![s] = n] /\ disk' = disk
      /\ UNCHANGED <<asks, orders, role, up, ballots, elected, disputed>>
    BY DEF sentinelCheckTiltCondition
<1>2. v \in View /\ f \in File /\ v.leader_epoch \in Nat /\ v.config_epoch \in Nat
    BY EpochsOf DEF IInv
<1>3. /\ Sane(v) /\ OnDisk(v, f) /\ s \notin v.sentinels /\ s \notin f.sentinels
      /\ v.force => v.failover_epoch \in disputed
    BY DEF IInv, Views, Leaders
<1>4. disk' = [disk EXCEPT ![s] = f]
    BY <1>1 DEF IInv, Types
<1>5. n \in View
    BY <1>2 DEF View
<1>6. /\ Standing(v, n) /\ n.failover_state = v.failover_state /\ n.promoted = v.promoted
      /\ n.reconf = v.reconf /\ n.force = v.force
    BY <1>2 DEF View, Standing
<1> HIDE DEF n
<1>7. OneStep(s, n, f)
    BY <1>1, <1>2, <1>4, <1>5 DEF OneStep
<1>8. Types'
    BY <1>1, <1>7, Updated, FaultType DEF IInv, Types
<1>9. Sane(n) /\ OnDisk(n, f)
    BY <1>3, <1>6 DEF Sane, OnDisk, Standing
<1>10. ConfigOf(n) = ConfigOf(v)
    BY <1>6 DEF ConfigOf, sentinelGetCurrentMasterAddress, Standing
<1>11. Legitimate(s, n)
    BY <1>1, <1>3, <1>6 DEF Legitimate, Standing
<1>12. IInv'
    BY <1>1, <1>3, <1>6, <1>7, <1>8, <1>9, <1>10, <1>11, InConfigs, QuietStep DEF Standing
<1>13. n.leader_epoch >= v.leader_epoch /\ n.config_epoch >= v.config_epoch
    BY <1>2, <1>6 DEF Standing
<1> QED
    BY <1>7, <1>12, <1>13, ForwardStep DEF IInv

LEMMA RestartInv ==
    ASSUME IInv, NEW s \in Sentinel, Restart(s)
    PROVE  IInv' /\ Forward
<1> DEFINE v == view[s]
           f == disk[s]
           x == createSentinelRedisInstance(f.addr, f.slaves, f.sentinels)
           n == sentinelHandleConfiguration(f)
<1>1. /\ faults.own < MaxFaults /\ faults' = [faults EXCEPT !.own = @ + 1]
      /\ view' = [view EXCEPT ![s] = n] /\ disk' = disk
      /\ UNCHANGED <<asks, orders, role, up, ballots, elected, disputed>>
    BY DEF Restart
<1>2. v \in View /\ f \in File /\ v.leader_epoch \in Nat /\ f.config_epoch \in Nat /\ f.current_epoch \in Nat
    BY EpochsOf DEF IInv
<1>3. OnDisk(v, f) /\ s \notin f.sentinels
    BY DEF IInv, Views
<1>4. disk' = [disk EXCEPT ![s] = f]
    BY <1>1 DEF IInv, Types
<1>5. /\ f.addr \in Redis /\ f.slaves \in SUBSET Redis /\ f.sentinels \in SUBSET Sentinel
      /\ f.config_epoch \in Epoch /\ f.leader_epoch \in Epoch /\ f.current_epoch \in Epoch
    BY <1>2 DEF File
<1>6. x \in View
    BY <1>5, NewInstance
<1>7. /\ x.failover_state = "none" /\ x.failover_epoch = 0 /\ x.force = FALSE /\ x.promoted = NoOne
      /\ x.addr = f.addr /\ x.slaves = f.slaves /\ x.sentinels = f.sentinels /\ x.leader = NoOne
      /\ x.reconf = [r \in Redis |-> {}] /\ x.votes = [t \in Sentinel |-> NoVote]
    BY DEF createSentinelRedisInstance
<1>8. n = [x EXCEPT !.config_epoch = f.config_epoch, !.leader_epoch = f.leader_epoch,
                    !.current_epoch = f.current_epoch]
    <2>1. (IF f.config_epoch > f.current_epoch THEN f.config_epoch ELSE f.current_epoch) = f.current_epoch
        BY <1>2, <1>3 DEF OnDisk
    <2> HIDE DEF x, f
    <2> QED
        BY <2>1 DEF sentinelHandleConfiguration, x
<1> HIDE DEF x, n
<1>9. n \in View
    BY <1>5, <1>6, <1>8 DEF View
<1>10. /\ n.failover_state = "none" /\ n.failover_epoch = 0 /\ n.force = FALSE /\ n.promoted = NoOne
       /\ n.addr = f.addr /\ n.slaves = f.slaves /\ n.sentinels = f.sentinels /\ n.leader = NoOne
       /\ n.config_epoch = f.config_epoch /\ n.leader_epoch = f.leader_epoch
       /\ n.current_epoch = f.current_epoch /\ n.reconf = x.reconf /\ n.votes = x.votes
    BY <1>6, <1>7, <1>8 DEF View
<1>11. (\A r \in Redis : n.reconf[r] = {}) /\ (\A t \in Sentinel : n.votes[t] = NoVote)
    BY <1>7, <1>10
<1>12. OneStep(s, n, f)
    BY <1>1, <1>2, <1>4, <1>9 DEF OneStep
<1>13. Types'
    BY <1>1, <1>12, Updated, FaultType DEF IInv, Types
<1>14. Sane(n)
    BY <1>2, <1>3, <1>10, <1>11 DEF Sane, OnDisk, Promoting
<1>15. OnDisk(n, f)
    BY <1>2, <1>3, <1>10 DEF OnDisk
<1>16. ConfigOf(n) = FileConfig(f)
    BY <1>9, <1>10, AddressType DEF ConfigOf, FileConfig
<1>17. Legitimate(s, n)
    BY <1>10 DEF Legitimate
<1>18. n.leader_epoch = v.leader_epoch
    BY <1>3, <1>10 DEF OnDisk
<1>19. IInv'
    BY <1>1, <1>3, <1>10, <1>11, <1>12, <1>13, <1>14, <1>15, <1>16, <1>17, <1>18, InConfigs, QuietStep
<1>20. n.leader_epoch >= v.leader_epoch
    BY <1>2, <1>18
<1> QED
    BY <1>12, <1>19, <1>20, ForwardStep DEF IInv

LEMMA FailoverCommandInv ==
    ASSUME IInv, NEW s \in Sentinel, sentinelFailoverCommand(s)
    PROVE  IInv' /\ Forward
<1> DEFINE v == view[s]
           x == sentinelStartFailover(v)
           n == [x EXCEPT !.force = TRUE]
           f == disk[s]
<1>1. /\ faults.own < MaxFaults /\ faults.fixes < MaxFixes
      /\ faults' = [faults EXCEPT !.own = @ + 1, !.fixes = @ + 1]
      /\ view' = [view EXCEPT ![s] = n] /\ disk' = disk
      /\ v.failover_state = "none" /\ v.current_epoch < MaxEpoch
      /\ disputed' = disputed \cup {v.current_epoch + 1}
      /\ UNCHANGED <<asks, orders, role, up, ballots, elected>>
    BY DEF sentinelFailoverCommand
<1>2. /\ v \in View /\ f \in File /\ v.leader_epoch \in Nat /\ v.config_epoch \in Nat
      /\ v.current_epoch \in Nat /\ f.current_epoch \in Nat
    BY EpochsOf DEF IInv
<1>3. Sane(v) /\ OnDisk(v, f) /\ s \notin v.sentinels /\ s \notin f.sentinels
    BY DEF IInv, Views
<1>4. disk' = [disk EXCEPT ![s] = f]
    BY <1>1 DEF IInv, Types
<1>5. v.current_epoch + 1 \in Epoch
    BY <1>1, <1>2, SentinelAssumption DEF Epoch
<1>6. x = [v EXCEPT !.failover_state = "wait_start", !.current_epoch = v.current_epoch + 1,
                    !.failover_epoch = v.current_epoch + 1]
    BY DEF sentinelStartFailover
<1> HIDE DEF x
<1>7. x \in View
    BY <1>2, <1>5, <1>6 DEF View, FailoverState
<1>8. n \in View
    BY <1>7 DEF View
<1>9. /\ n.current_epoch = v.current_epoch + 1 /\ n.failover_epoch = v.current_epoch + 1
      /\ n.failover_state = "wait_start" /\ n.force = TRUE
      /\ n.config_epoch = v.config_epoch /\ n.leader = v.leader /\ n.leader_epoch = v.leader_epoch
      /\ n.addr = v.addr /\ n.slaves = v.slaves /\ n.sentinels = v.sentinels /\ n.votes = v.votes
      /\ n.reconf = v.reconf
    BY <1>2, <1>6, <1>7 DEF View
<1> HIDE DEF n
<1>10. OneStep(s, n, f)
    BY <1>1, <1>2, <1>4, <1>8 DEF OneStep
<1>11. Types'
    <2>1. MaxFaults \in Nat /\ MaxFixes \in Nat /\ faults.own \in 0..MaxFaults /\ faults.fixes \in 0..MaxFixes
        BY SentinelAssumption DEF IInv, Types
    <2>2. faults.own + 1 \in 0..MaxFaults /\ faults.fixes + 1 \in 0..MaxFixes
        BY <1>1, <2>1
    <2>3. faults' \in [own : 0..MaxFaults, down : 0..MaxDown, fixes : 0..MaxFixes]
        BY <1>1, <2>2 DEF IInv, Types
    <2> QED
        BY <1>1, <1>5, <1>10, <2>3, Updated DEF IInv, Types
<1>12. Sane(n)
    BY <1>1, <1>2, <1>3, <1>9 DEF Sane, Promoting
<1>13. OnDisk(n, f)
    BY <1>2, <1>3, <1>9 DEF OnDisk
<1>14. ConfigOf(n) = ConfigOf(v)
    BY <1>1, <1>2, <1>8, <1>9, AddressType DEF ConfigOf
<1>15. n.failover_epoch > v.leader_epoch
    BY <1>2, <1>3, <1>9 DEF Sane
<1>16. Legitimate(s, n)
    BY <1>1, <1>9, <1>15 DEF Legitimate
<1>17. IInv'
    BY <1>1, <1>3, <1>9, <1>10, <1>11, <1>12, <1>13, <1>14, <1>16, InConfigs, QuietStep
<1>18. n.leader_epoch >= v.leader_epoch /\ n.config_epoch >= v.config_epoch
    BY <1>2, <1>9
<1> QED
    BY <1>10, <1>17, <1>18, ForwardStep DEF IInv

LEMMA ResetInv ==
    ASSUME IInv, NEW s \in Sentinel, sentinelResetMastersByPattern(s)
    PROVE  IInv' /\ Forward
<1> DEFINE v == view[s]
           n == sentinelResetMaster(v, {})
           f == disk[s]
<1>1. /\ faults.own < MaxFaults /\ faults' = [faults EXCEPT !.own = @ + 1]
      /\ view' = [view EXCEPT ![s] = n] /\ disk' = disk
      /\ disputed' = IF v.failover_state = "reconf_slaves"
                     THEN disputed \cup {v.config_epoch} ELSE disputed
      /\ UNCHANGED <<asks, orders, role, up, ballots, elected>>
    BY DEF sentinelResetMastersByPattern
<1>2. /\ v \in View /\ f \in File /\ v.leader_epoch \in Nat /\ v.config_epoch \in Nat
      /\ v.config_epoch \in Epoch
    <2>1. v.config_epoch \in Epoch
        BY DEF IInv, Types, View
    <2> QED
        BY <2>1, EpochsOf DEF IInv
<1>3. Sane(v) /\ OnDisk(v, f) /\ s \notin v.sentinels /\ s \notin f.sentinels
    BY DEF IInv, Views
<1>4. disk' = [disk EXCEPT ![s] = f]
    BY <1>1 DEF IInv, Types
<1>5. /\ n \in View
      /\ n.slaves = {} /\ n.sentinels = {} /\ n.leader = NoOne
      /\ n.failover_state = "none" /\ n.promoted = NoOne /\ ~n.force
      /\ \A r \in Redis : n.reconf[r] = {}
      /\ \A t \in Sentinel : n.votes[t] \in {v.votes[t], NoVote}
      /\ n.current_epoch = v.current_epoch /\ n.config_epoch = v.config_epoch
      /\ n.leader_epoch = v.leader_epoch /\ n.failover_epoch = v.failover_epoch
      /\ n.addr = v.addr
    BY <1>2, ResetMaster
<1> HIDE DEF n
<1>6. OneStep(s, n, f)
    BY <1>1, <1>2, <1>4, <1>5 DEF OneStep
<1>7. Types'
    BY <1>1, <1>2, <1>6, Updated, FaultType DEF IInv, Types
<1>8. Sane(n)
    BY <1>3, <1>5 DEF Sane, Promoting
<1>9. OnDisk(n, f)
    BY <1>3, <1>5 DEF OnDisk
<1>10. ConfigOf(n) \in Configs \/ n.config_epoch \in disputed'
    <2>1. CASE v.failover_state = "reconf_slaves"
        BY <1>1, <1>5, <2>1
    <2>2. CASE v.failover_state # "reconf_slaves"
        <3>1. ConfigOf(n) = ConfigOf(v)
            BY <1>2, <1>3, <1>5, <2>2, AddressType DEF ConfigOf, Sane
        <3> QED
            BY <3>1, InConfigs
    <2> QED
        BY <2>1, <2>2
<1>11. Legitimate(s, n) /\ disputed \subseteq disputed'
    BY <1>1, <1>5 DEF Legitimate
<1>12. IInv'
    BY <1>1, <1>3, <1>5, <1>6, <1>7, <1>8, <1>9, <1>10, <1>11, InConfigs, QuietStep
<1>13. n.leader_epoch >= v.leader_epoch /\ n.config_epoch >= v.config_epoch
    BY <1>2, <1>5
<1> QED
    BY <1>6, <1>12, <1>13, ForwardStep DEF IInv

(* The answer of another sentinel changes only what is known of its vote. *)
LEMMA ReceiveReply ==
    ASSUME NEW v \in View, NEW t \in Sentinel, NEW down \in BOOLEAN, NEW vote \in Vote
    PROVE  LET n == sentinelReceiveIsMasterDownReply(v, t, down, vote)
           IN  /\ n \in View /\ n.current_epoch = v.current_epoch /\ n.config_epoch = v.config_epoch
               /\ n.leader = v.leader /\ n.leader_epoch = v.leader_epoch
               /\ n.failover_epoch = v.failover_epoch /\ n.addr = v.addr
               /\ n.slaves = v.slaves /\ n.sentinels = v.sentinels
               /\ n.failover_state = v.failover_state /\ n.promoted = v.promoted
               /\ n.reconf = v.reconf /\ n.force = v.force
               /\ \A x \in Sentinel : \/ n.votes[x] = v.votes[x]
                                      \/ x = t /\ n.votes[x] = vote /\ vote.leader # NoOne
<1> DEFINE n == sentinelReceiveIsMasterDownReply(v, t, down, vote)
           md == IF down THEN v.master_down \cup {t} ELSE v.master_down \ {t}
           got == IF vote.leader = NoOne THEN v.votes[t] ELSE vote
           votes == [v.votes EXCEPT ![t] = got]
<1>1. v.votes \in [Sentinel -> Vote] /\ v.master_down \in SUBSET Sentinel
    BY DEF View
<1>2. votes \in [Sentinel -> Vote] /\ md \in SUBSET Sentinel
    BY <1>1
<1>3. \A x \in Sentinel : \/ votes[x] = v.votes[x]
                          \/ x = t /\ votes[x] = vote /\ vote.leader # NoOne
    BY <1>1
<1>4. n = [v EXCEPT !.master_down = md, !.votes = votes]
    BY <1>1 DEF sentinelReceiveIsMasterDownReply
<1> HIDE DEF n, md, votes
<1>5. n \in View
    BY <1>2, <1>4 DEF View
<1>6. /\ n.current_epoch = v.current_epoch /\ n.config_epoch = v.config_epoch
      /\ n.leader = v.leader /\ n.leader_epoch = v.leader_epoch
      /\ n.failover_epoch = v.failover_epoch /\ n.addr = v.addr
      /\ n.slaves = v.slaves /\ n.sentinels = v.sentinels
      /\ n.failover_state = v.failover_state /\ n.promoted = v.promoted
      /\ n.reconf = v.reconf /\ n.force = v.force /\ n.votes = votes
    BY <1>4 DEF View
<1> QED
    BY <1>3, <1>5, <1>6 DEF n

LEMMA QuestionInv ==
    ASSUME IInv, NEW s \in Sentinel, NEW t \in Sentinel, isMasterDownQuestion(s, t)
    PROVE  IInv' /\ Forward
<1> DEFINE v == view[s]
           down == view[s].addr = view[t].addr /\ ~view[t].tilt /\ view[t].addr \in view[t].s_down
           n == sentinelReceiveIsMasterDownReply(v, t, down, NoVote)
           f == disk[s]
<1>1. /\ view' = [view EXCEPT ![s] = n] /\ disk' = disk
      /\ UNCHANGED <<asks, orders, role, up, faults, ballots, elected, disputed>>
    BY DEF isMasterDownQuestion
<1>2. v \in View /\ f \in File /\ v.leader_epoch \in Nat /\ v.config_epoch \in Nat
    BY EpochsOf DEF IInv
<1>3. /\ Sane(v) /\ OnDisk(v, f) /\ s \notin v.sentinels /\ s \notin f.sentinels
      /\ v.force => v.failover_epoch \in disputed
    BY DEF IInv, Views, Leaders
<1>4. disk' = [disk EXCEPT ![s] = f]
    BY <1>1 DEF IInv, Types
<1>5. down \in BOOLEAN /\ NoVote \in Vote /\ NoVote.leader = NoOne
    BY EpochType DEF NoVote
<1> HIDE DEF down
<1>6. /\ n \in View /\ Standing(v, n) /\ n.failover_state = v.failover_state /\ n.promoted = v.promoted
      /\ n.reconf = v.reconf /\ n.force = v.force
    <2>1. n \in View /\ \A x \in Sentinel : n.votes[x] = v.votes[x]
        BY <1>2, <1>5, ReceiveReply
    <2>2. n.votes = v.votes
        <3>1. n.votes \in [Sentinel -> Vote] /\ v.votes \in [Sentinel -> Vote]
            BY <1>2, <2>1 DEF View
        <3> QED
            BY <2>1, <3>1
    <2> QED
        BY <1>2, <1>5, <2>1, <2>2, ReceiveReply DEF Standing
<1> HIDE DEF n
<1>7. OneStep(s, n, f)
    BY <1>1, <1>2, <1>4, <1>6 DEF OneStep
<1>8. Types'
    BY <1>1, <1>7, Updated DEF IInv, Types
<1>9. Sane(n) /\ OnDisk(n, f)
    BY <1>3, <1>6 DEF Sane, OnDisk, Standing
<1>10. ConfigOf(n) = ConfigOf(v)
    BY <1>6 DEF ConfigOf, sentinelGetCurrentMasterAddress, Standing
<1>11. Legitimate(s, n)
    BY <1>1, <1>3, <1>6 DEF Legitimate, Standing
<1>12. IInv'
    BY <1>1, <1>3, <1>6, <1>7, <1>8, <1>9, <1>10, <1>11, InConfigs, QuietStep DEF Standing
<1>13. n.leader_epoch >= v.leader_epoch /\ n.config_epoch >= v.config_epoch
    BY <1>2, <1>6 DEF Standing
<1> QED
    BY <1>7, <1>12, <1>13, ForwardStep DEF IInv

(* What a sentinel does with the INFO of a server, short of a promotion. *)
LEMMA InfoView ==
    ASSUME Types, NEW v \in View, Sane(v), NEW r \in Redis,
           NEW linked \in BOOLEAN, NEW n, n = v \/ n = InfoOfSlave(v, r, linked) \/ (n = InfoOfMaster(v, r) /\ r = v.addr),
           ~(v.failover_state = "wait_promotion" /\ n.failover_state = "reconf_slaves")
    PROVE  /\ n \in View /\ Sane(n)
           /\ n.current_epoch = v.current_epoch /\ n.config_epoch = v.config_epoch
           /\ n.leader = v.leader /\ n.leader_epoch = v.leader_epoch
           /\ n.failover_epoch = v.failover_epoch /\ n.addr = v.addr
           /\ n.sentinels = v.sentinels /\ n.votes = v.votes
           /\ n.failover_state = v.failover_state /\ n.promoted = v.promoted /\ n.force = v.force
<1>1. CASE n = InfoOfMaster(v, r) /\ r = v.addr
    <2> DEFINE slaves == v.slaves \cup ({q \in up : role[q] = r} \ {r})
               rs == role[r] # NoOne
    <2>1. slaves \in SUBSET Redis /\ v.slaves \subseteq slaves /\ v.addr \notin slaves
        BY <1>1 DEF Types, View, Sane
    <2>2. n = [v EXCEPT !.slaves = slaves, !.reports_slave = rs] /\ rs \in BOOLEAN
        BY <1>1 DEF InfoOfMaster
    <2> HIDE DEF slaves, rs
    <2>3. n \in View
        BY <2>1, <2>2 DEF View
    <2>4. /\ n.slaves = slaves
          /\ n.current_epoch = v.current_epoch /\ n.config_epoch = v.config_epoch
          /\ n.leader = v.leader /\ n.leader_epoch = v.leader_epoch
          /\ n.failover_epoch = v.failover_epoch /\ n.addr = v.addr
          /\ n.sentinels = v.sentinels /\ n.votes = v.votes
          /\ n.failover_state = v.failover_state /\ n.promoted = v.promoted /\ n.force = v.force
          /\ n.reconf = v.reconf
        BY <2>2 DEF View
    <2>5. Sane(n)
        BY <2>1, <2>4 DEF Sane
    <2> QED
        BY <2>3, <2>4, <2>5
<1>2. CASE n = v
    BY <1>2
<1>3. CASE n = [v EXCEPT !.config_epoch = v.failover_epoch, !.failover_state = "reconf_slaves"]
           /\ v.failover_state = "wait_promotion"
    BY <1>3 DEF View
<1>4. ASSUME NEW c, n = [v EXCEPT !.reconf[r] = c], c \in Reconf,
             c # v.reconf[r] => v.reconf[r] # {}
      PROVE  n \in View /\ Sane(n) /\ Standing(v, n)
             /\ n.failover_state = v.failover_state /\ n.promoted = v.promoted /\ n.force = v.force
    <2> DEFINE reconf == [v.reconf EXCEPT ![r] = c]
    <2>1. v.reconf \in [Redis -> Reconf]
        BY DEF View
    <2>2. reconf \in [Redis -> Reconf] /\ \A q \in Redis : reconf[q] = v.reconf[q] \/ (q = r /\ reconf[q] = c)
        BY <1>4, <2>1
    <2>3. n = [v EXCEPT !.reconf = reconf]
        BY <1>4 DEF View
    <2> HIDE DEF reconf
    <2>4. n \in View
        BY <2>2, <2>3 DEF View
    <2>5. /\ Standing(v, n) /\ n.reconf = reconf
          /\ n.failover_state = v.failover_state /\ n.promoted = v.promoted /\ n.force = v.force
        BY <2>3 DEF View, Standing
    <2>6. v.failover_state # "reconf_slaves" => \A q \in Redis : n.reconf[q] = {}
        <3>1. v.failover_state # "reconf_slaves" => \A q \in Redis : v.reconf[q] = {}
            BY DEF Sane
        <3> QED
            BY <1>4, <2>2, <2>5, <3>1
    <2>7. Sane(n)
        BY <2>5, <2>6 DEF Sane, Standing
    <2> QED
        BY <2>4, <2>5, <2>7
<1>5. CASE n = InfoOfSlave(v, r, linked)
    <2>1. CASE role[r] = NoOne
        BY <1>2, <1>3, <1>5, <2>1 DEF InfoOfSlave
    <2>2. CASE role[r] # NoOne
        <3> DEFINE c == Progress(v, r, linked)
        <3>1. v.reconf[r] \in Reconf
            BY DEF View
        <3>2. c \in Reconf /\ (c # v.reconf[r] => v.reconf[r] # {})
            BY <3>1 DEF Progress, Reconf
        <3>3. n = [v EXCEPT !.reconf[r] = c]
            BY <1>5, <2>2 DEF InfoOfSlave, View
        <3> HIDE DEF c
        <3> QED
            BY <1>4, <3>2, <3>3 DEF Standing
    <2> QED
        BY <2>1, <2>2
<1> QED
    BY <1>1, <1>2, <1>5

(* A promotion gives the epoch of the failover its only configuration. *)
LEMMA PromotionInv ==
    ASSUME IInv, Types', Views', NEW s \in Sentinel, NEW n, NEW f, OneStep(s, n, f),
           view[s].failover_state = "wait_promotion", n.failover_state = "reconf_slaves",
           n.config_epoch = view[s].failover_epoch,
           n.leader_epoch = view[s].leader_epoch, n.force = view[s].force,
           n.failover_epoch = view[s].failover_epoch,
           FileConfig(f) \in {ConfigOf(n), FileConfig(disk[s])},
           elected' = elected, disputed' = disputed
    PROVE  Configurations' /\ Leaders'
<1> DEFINE fe == view[s].failover_epoch
<1>0. /\ n.leader_epoch >= view[s].leader_epoch /\ view[s].leader_epoch \in Nat
      /\ view[s].force => fe \in disputed
    <2>1. view[s].leader_epoch \in Nat
        BY EpochsOf DEF IInv
    <2>2. view[s].force => fe \in disputed
        BY DEF IInv, Leaders
    <2> HIDE DEF fe
    <2> QED
        BY <2>1, <2>2
<1>1. CASE fe \in disputed
    <2>1. Legitimate(s, n)
        BY <1>0, <1>1 DEF Legitimate
    <2>2. n.config_epoch \in disputed'
        BY <1>1
    <2>3. FileConfig(f) \in Configs \/ f.config_epoch \in disputed'
        BY <2>2, InConfigs DEF FileConfig, ConfigOf
    <2> QED
        BY <1>0, <2>1, <2>2, <2>3, LeadersKept
<1>2. CASE fe \notin disputed
    <2>1. <<fe, s, fe>> \in elected /\ \A c \in Configs : c[1] # fe
        BY <1>2 DEF IInv, Leaders
    <2>2. \A t \in Sentinel : t # s => view'[t] = view[t] /\ disk'[t] = disk[t]
        BY Updated DEF IInv
    <2>3. view'[s] = n /\ disk'[s] = f
        BY Updated DEF IInv
    <2>4. \A c \in Configs' : c \in Configs \/ c = ConfigOf(n)
        <3>1. \A t \in Sentinel : t # s => <<view'[t].config_epoch, Address(t)'>> \in Configs
            <4> SUFFICES ASSUME NEW t \in Sentinel, t # s
                         PROVE  <<view'[t].config_epoch, Address(t)'>> \in Configs
                OBVIOUS
            <4>1. Address(t)' = Address(t)
                BY <2>2 DEF Address, sentinelGetCurrentMasterAddress
            <4> QED
                BY <2>2, <4>1 DEF Configs
        <3>2. \A t \in Sentinel : t # s => <<disk'[t].config_epoch, disk'[t].addr>> \in Configs
            BY <2>2 DEF Configs
        <3>3. <<view'[s].config_epoch, Address(s)'>> = ConfigOf(n)
            BY <2>3 DEF Address, ConfigOf, sentinelGetCurrentMasterAddress
        <3>4. \/ <<disk'[s].config_epoch, disk'[s].addr>> \in Configs
              \/ <<disk'[s].config_epoch, disk'[s].addr>> = ConfigOf(n)
            BY <2>3, InConfigs DEF FileConfig
        <3> QED
            BY <3>1, <3>2, <3>3, <3>4 DEF Configs
    <2>5. ConfigOf(n)[1] = fe
        BY DEF ConfigOf
    <2>6. Configurations'
        <3>1. (\A c, d \in Configs : c[1] = d[1] /\ c[1] \notin disputed => c[2] = d[2])'
            BY <2>1, <2>4, <2>5 DEF IInv, Configurations
        <3>2. (\A c \in Configs : c[1] # 0 /\ c[1] \notin disputed => \E t \in Sentinel : <<c[1], t, c[1]>> \in elected)'
            BY <2>1, <2>4, <2>5 DEF IInv, Configurations
        <3>3. (\A e \in elected : e[3] = e[1] => e[1] <= view[e[2]].leader_epoch)'
            <4>1. \A e \in elected : e[2] \in Sentinel
                BY DEF IInv, Types
            <4>2. \A t \in Sentinel : view'[t].leader_epoch = view[t].leader_epoch
                BY <2>2, <2>3
            <4> QED
                BY <4>1, <4>2 DEF IInv, Configurations
        <3>4. (\A e \in elected : e[3] # e[1] => e[1] \in disputed)'
            BY DEF IInv, Configurations
        <3> QED
            BY <3>1, <3>2, <3>3, <3>4 DEF Configurations
    <2>7. Leaders'
        <3> SUFFICES ASSUME NEW t \in Sentinel
                     PROVE  LET v == view'[t]
                            IN  /\ v.force => v.failover_epoch \in disputed'
                                /\ v.failover_state = "wait_start" => <<v.failover_epoch, t, v.failover_epoch>> \notin elected'
                                /\ v.failover_state \in {"select_slave", "send_slaveof_noone", "wait_promotion"} =>
                                    \/ v.failover_epoch \in disputed'
                                    \/ /\ <<v.failover_epoch, t, v.failover_epoch>> \in elected'
                                       /\ \A c \in Configs' : c[1] # v.failover_epoch
            BY DEF Leaders
        <3>1. CASE t = s
            BY <1>0, <1>2, <2>3, <3>1
        <3>2. CASE t # s
            <4>1. <<fe, t, fe>> \notin elected
                <5>1. OneLeaderPerEpoch
                    BY OneLeader DEF IInv
                <5> QED
                    BY <2>1, <3>2, <5>1 DEF OneLeaderPerEpoch
            <4> QED
                BY <2>2, <2>4, <2>5, <3>2, <4>1 DEF IInv, Leaders
        <3> QED
            BY <3>1, <3>2
    <2> QED
        BY <2>6, <2>7
<1> QED
    BY <1>1, <1>2

LEMMA RefreshInv ==
    ASSUME IInv, NEW s \in Sentinel, NEW r \in Redis, NEW late \in BOOLEAN, NEW linked \in BOOLEAN,
           sentinelRefreshInstanceInfo(s, r, late, linked)
    PROVE  IInv' /\ Forward
<1> DEFINE v == view[s]
           n == IF r = v.addr THEN InfoOfMaster(v, r) ELSE IF v.tilt THEN v ELSE InfoOfSlave(v, r, linked)
           must == n.slaves # v.slaves \/ n.failover_state # v.failover_state
           f == IF must THEN rewriteConfigSentinelOption(n) ELSE disk[s]
<1>1. /\ view' = [view EXCEPT ![s] = n]
      /\ late => faults.fixes < MaxFixes
      /\ orders' = orders \cup Fixed(v, r, late)
      /\ faults' = IF Fixed(v, r, late) = {} THEN faults ELSE [faults EXCEPT !.fixes = @ + 1]
      /\ disk' = IF must THEN [disk EXCEPT ![s] = rewriteConfigSentinelOption(n)] ELSE disk
      /\ UNCHANGED <<asks, role, up, ballots, elected, disputed>>
    BY Zenon DEF sentinelRefreshInstanceInfo, sentinelFlushConfig
<1>2. /\ v \in View /\ disk[s] \in File /\ v.leader_epoch \in Nat /\ v.config_epoch \in Nat
      /\ v.current_epoch \in Nat /\ v.failover_epoch \in Nat /\ v.addr \in Redis
    <2>1. v.addr \in Redis
        BY DEF IInv, Types, View
    <2> QED
        BY <2>1, EpochsOf DEF IInv
<1>3. /\ Sane(v) /\ OnDisk(v, disk[s]) /\ s \notin v.sentinels /\ s \notin disk[s].sentinels
      /\ v.force => v.failover_epoch \in disputed
    BY DEF IInv, Views, Leaders
<1>4. disk' = [disk EXCEPT ![s] = f]
    <2>1. disk = [disk EXCEPT ![s] = disk[s]]
        BY DEF IInv, Types
    <2> QED
        BY <1>1, <2>1
<1>5. orders' \subseteq [to : Redis, of : Redis \cup {NoOne}]
    <2>1. Fixed(v, r, late) \subseteq [to : Redis, of : Redis \cup {NoOne}]
        BY <1>2 DEF Fixed
    <2> QED
        BY <1>1, <2>1 DEF IInv, Types
<1>6. faults' \in [own : 0..MaxFaults, down : 0..MaxDown, fixes : 0..MaxFixes]
    <2>1. Fixed(v, r, late) # {} => late
        BY DEF Fixed
    <2>2. MaxFixes \in Nat /\ faults.fixes \in 0..MaxFixes
        BY SentinelAssumption DEF IInv, Types
    <2>3. late => faults.fixes + 1 \in 0..MaxFixes
        BY <1>1, <2>2
    <2> QED
        BY <1>1, <2>1, <2>3 DEF IInv, Types
<1>7. n \in {InfoOfMaster(v, r), InfoOfSlave(v, r, linked), v}
    OBVIOUS
<1>8. CASE v.failover_state = "wait_promotion" /\ n.failover_state = "reconf_slaves"
    <2>0. n # v /\ (n = InfoOfMaster(v, r) => n.failover_state = v.failover_state)
        BY <1>2, <1>8 DEF InfoOfMaster, View
    <2>1. n = InfoOfSlave(v, r, linked)
        BY <1>7, <1>8, <2>0
    <2>2. n = [v EXCEPT !.config_epoch = v.failover_epoch, !.failover_state = "reconf_slaves"]
        <3>1. role[r] # NoOne => InfoOfSlave(v, r, linked).failover_state = v.failover_state
            BY <1>2 DEF InfoOfSlave, View
        <3> HIDE DEF n
        <3>2. role[r] = NoOne
            BY <1>8, <2>1, <3>1
        <3> QED
            BY <1>8, <2>0, <2>1, <3>2 DEF InfoOfSlave
    <2> HIDE DEF n
    <2>3. n \in View
        BY <1>2, <2>2 DEF View, FailoverState
    <2>4. /\ n.config_epoch = v.failover_epoch /\ n.failover_state = "reconf_slaves"
          /\ n.current_epoch = v.current_epoch /\ n.leader = v.leader /\ n.leader_epoch = v.leader_epoch
          /\ n.failover_epoch = v.failover_epoch /\ n.addr = v.addr /\ n.slaves = v.slaves
          /\ n.sentinels = v.sentinels /\ n.votes = v.votes
          /\ n.promoted = v.promoted /\ n.force = v.force /\ n.reconf = v.reconf
        BY <1>2, <2>2 DEF View
    <2>5. Sane(n)
        BY <1>3, <1>8, <2>4 DEF Sane, Promoting
    <2>6. /\ f \in File /\ OnDisk(n, f) /\ f.sentinels \in {n.sentinels, disk[s].sentinels}
          /\ \/ f.config_epoch = n.config_epoch /\ f.addr = sentinelGetCurrentMasterAddress(n)
             \/ f.config_epoch = disk[s].config_epoch /\ f.addr = disk[s].addr
        <3>1. f = rewriteConfigSentinelOption(n) \/ (f = disk[s] /\ n.leader_epoch = v.leader_epoch)
            BY <2>4
        <3>2. n.current_epoch >= v.current_epoch /\ n.config_epoch <= n.current_epoch
            BY <1>2, <2>4, <2>5 DEF Sane
        <3> HIDE DEF f, v
        <3> QED
            BY <1>2, <1>3, <2>3, <2>5, <3>1, <3>2, FlushConfig
    <2> HIDE DEF f
    <2>7. OneStep(s, n, f) /\ FileConfig(f) \in {ConfigOf(n), FileConfig(disk[s])}
        BY <1>1, <1>4, <2>3, <2>6 DEF OneStep, FileConfig, ConfigOf
    <2>8. Types'
        BY <1>1, <1>5, <1>6, <2>7, Updated DEF IInv, Types
    <2>9. Views'
        BY <1>3, <2>4, <2>5, <2>6, <2>7, ViewsKept DEF IInv
    <2>10. Votes' /\ Elections'
        <3>1. \A t \in Sentinel : t # s => view'[t] = view[t]
            BY <2>7, Updated DEF IInv
        <3>2. view'[s] = n
            BY <2>7, Updated DEF IInv
        <3> QED
            BY <1>1, <2>4, <2>8, <3>1, <3>2, VotesKept DEF IInv
    <2>11. Configurations' /\ Leaders'
        BY <1>1, <1>8, <2>4, <2>7, <2>8, <2>9, PromotionInv
    <2>12. n.leader_epoch >= v.leader_epoch
        BY <1>2, <2>4
    <2>13. Forward
        BY <1>8, <2>4, <2>7, <2>12, ForwardStep DEF IInv
    <2> QED
        BY <2>8, <2>9, <2>10, <2>11, <2>13 DEF IInv
<1>9. CASE ~(v.failover_state = "wait_promotion" /\ n.failover_state = "reconf_slaves")
    <2>1. /\ n \in View /\ Sane(n)
          /\ n.current_epoch = v.current_epoch /\ n.config_epoch = v.config_epoch
          /\ n.leader = v.leader /\ n.leader_epoch = v.leader_epoch
          /\ n.failover_epoch = v.failover_epoch /\ n.addr = v.addr
          /\ n.sentinels = v.sentinels /\ n.votes = v.votes
          /\ n.failover_state = v.failover_state /\ n.promoted = v.promoted /\ n.force = v.force
        <3>1. n = v \/ n = InfoOfSlave(v, r, linked) \/ (n = InfoOfMaster(v, r) /\ r = v.addr)
            OBVIOUS
        <3> HIDE DEF n, v
        <3> QED
            BY <1>2, <1>3, <1>9, <3>1, InfoView DEF IInv
    <2> HIDE DEF n
    <2>2. /\ f \in File /\ OnDisk(n, f) /\ f.sentinels \in {n.sentinels, disk[s].sentinels}
          /\ \/ f.config_epoch = n.config_epoch /\ f.addr = sentinelGetCurrentMasterAddress(n)
             \/ f.config_epoch = disk[s].config_epoch /\ f.addr = disk[s].addr
        <3>1. f = rewriteConfigSentinelOption(n) \/ (f = disk[s] /\ n.leader_epoch = v.leader_epoch)
            BY <2>1
        <3>2. n.current_epoch >= v.current_epoch /\ n.config_epoch <= n.current_epoch
            BY <1>2, <2>1 DEF Sane
        <3> HIDE DEF f, v
        <3> QED
            BY <1>2, <1>3, <2>1, <3>1, <3>2, FlushConfig
    <2> HIDE DEF f
    <2>3. ConfigOf(n) = ConfigOf(v)
        BY <2>1 DEF ConfigOf, sentinelGetCurrentMasterAddress
    <2>4. OneStep(s, n, f) /\ FileConfig(f) \in {ConfigOf(n), FileConfig(disk[s])}
        BY <1>1, <1>4, <2>1, <2>2 DEF OneStep, FileConfig, ConfigOf
    <2>5. Types'
        BY <1>1, <1>5, <1>6, <2>4, Updated DEF IInv, Types
    <2>6. Legitimate(s, n)
        BY <1>1, <1>3, <2>1 DEF Legitimate
    <2>7. s \notin n.sentinels /\ s \notin f.sentinels
        BY <1>3, <2>1, <2>2
    <2>8. IInv'
        BY <1>1, <2>1, <2>2, <2>3, <2>4, <2>5, <2>6, <2>7, InConfigs, QuietStep
    <2>9. n.leader_epoch >= v.leader_epoch /\ n.config_epoch >= v.config_epoch
        BY <1>2, <2>1
    <2> QED
        BY <2>4, <2>8, <2>9, ForwardStep DEF IInv
<1> QED
    BY <1>8, <1>9

(* A hello makes the receiver know its sender, its epoch, and its          *)
(* configuration if that is newer.                                         *)
Heard(v, h, n) ==
    /\ n \in View /\ n.sentinels = v.sentinels \cup {h.from}
    /\ n.current_epoch >= v.current_epoch /\ n.current_epoch >= h.epoch
    /\ n.leader_epoch = v.leader_epoch /\ n.leader \in {v.leader, NoOne}
    /\ n.failover_epoch = v.failover_epoch
    /\ \A t \in Sentinel : n.votes[t] \in {v.votes[t], NoVote}
    /\ n.config_epoch = v.config_epoch \/ (n.config_epoch = h.config_epoch /\ h.config_epoch > v.config_epoch)
    /\ \/ /\ n.addr = v.addr /\ n.slaves = v.slaves /\ n.failover_state = v.failover_state
          /\ n.promoted = v.promoted /\ n.force = v.force /\ n.reconf = v.reconf
       \/ /\ n.config_epoch = h.config_epoch /\ n.addr = h.addr /\ n.addr # v.addr
          /\ n.addr \notin n.slaves /\ n.failover_state = "none" /\ n.force = FALSE
          /\ \A r \in Redis : n.reconf[r] = {}

LEMMA Hello ==
    ASSUME NEW v \in View, NEW h, h.from \in Sentinel, h.epoch \in Epoch, h.addr \in Redis,
           h.config_epoch \in Epoch
    PROVE  Heard(v, h, HelloView(v, h))
<1> DEFINE n == HelloView(v, h)
           sentinels == v.sentinels \cup {h.from}
           cur == IF h.epoch > v.current_epoch THEN h.epoch ELSE v.current_epoch
           w == [v EXCEPT !.sentinels = sentinels, !.current_epoch = cur]
           x == [w EXCEPT !.config_epoch = h.config_epoch]
<1>1. /\ cur \in Epoch /\ cur >= v.current_epoch /\ cur >= h.epoch /\ v.config_epoch \in Nat
      /\ h.config_epoch \in Nat
    <2>1. v.current_epoch \in Epoch /\ v.config_epoch \in Epoch
        BY DEF View
    <2>2. v.current_epoch \in Nat /\ v.config_epoch \in Nat /\ h.epoch \in Nat /\ h.config_epoch \in Nat
        BY <2>1, EpochType
    <2> QED
        BY <2>1, <2>2
<1>2. sentinels \in SUBSET Sentinel
    BY DEF View
<1>3. n = IF w.config_epoch >= h.config_epoch THEN w
          ELSE IF h.addr = w.addr THEN x ELSE sentinelResetMasterAndChangeAddress(x, h.addr)
    BY DEF HelloView
<1> HIDE DEF n, sentinels, cur
<1>4. w \in View
    BY <1>1, <1>2 DEF View
<1>5. /\ w.sentinels = sentinels /\ w.current_epoch = cur
      /\ w.leader_epoch = v.leader_epoch /\ w.leader = v.leader /\ w.failover_epoch = v.failover_epoch
      /\ w.votes = v.votes /\ w.config_epoch = v.config_epoch
      /\ w.addr = v.addr /\ w.slaves = v.slaves /\ w.failover_state = v.failover_state
      /\ w.promoted = v.promoted /\ w.force = v.force /\ w.reconf = v.reconf
    BY DEF View
<1> HIDE DEF w
<1>6. x \in View
    BY <1>4 DEF View
<1>7. /\ x.sentinels = w.sentinels /\ x.current_epoch = w.current_epoch
      /\ x.leader_epoch = w.leader_epoch /\ x.leader = w.leader /\ x.failover_epoch = w.failover_epoch
      /\ x.votes = w.votes /\ x.config_epoch = h.config_epoch
      /\ x.addr = w.addr /\ x.slaves = w.slaves /\ x.failover_state = w.failover_state
      /\ x.promoted = w.promoted /\ x.force = w.force /\ x.reconf = w.reconf
    BY <1>4 DEF View
<1> HIDE DEF x
<1>8. CASE w.config_epoch >= h.config_epoch
    BY <1>1, <1>3, <1>4, <1>5, <1>8 DEF n, sentinels, Heard
<1>9. CASE ~(w.config_epoch >= h.config_epoch) /\ h.addr = w.addr
    BY <1>1, <1>3, <1>5, <1>6, <1>7, <1>9 DEF n, sentinels, Heard
<1>10. CASE ~(w.config_epoch >= h.config_epoch) /\ h.addr # w.addr
    <2>1. n = sentinelResetMasterAndChangeAddress(x, h.addr)
        BY <1>3, <1>10
    <2>2. /\ n \in View
          /\ n.addr = h.addr /\ h.addr \notin n.slaves /\ n.sentinels = x.sentinels /\ n.leader = NoOne
          /\ n.failover_state = "none" /\ n.promoted = NoOne /\ ~n.force
          /\ \A r \in Redis : n.reconf[r] = {}
          /\ \A t \in Sentinel : n.votes[t] \in {x.votes[t], NoVote}
          /\ n.current_epoch = x.current_epoch /\ n.config_epoch = x.config_epoch
          /\ n.leader_epoch = x.leader_epoch /\ n.failover_epoch = x.failover_epoch
        BY <1>6, <2>1, ChangeAddress
    <2>3. n.force = FALSE
        BY <2>2 DEF View
    <2> QED
        BY <1>1, <1>5, <1>7, <1>10, <2>2, <2>3 DEF n, sentinels, Heard
<1> QED
    BY <1>8, <1>9, <1>10

LEMMA HelloInv ==
    ASSUME IInv, NEW s \in Sentinel, NEW t \in Sentinel \ {s},
           sentinelProcessHelloMessage(s, sentinelSendHello(t))
    PROVE  IInv' /\ Forward
<1> DEFINE v == view[s]
           h == sentinelSendHello(t)
           n == HelloView(v, h)
           x == IF n.addr # v.addr THEN n ELSE [n EXCEPT !.config_epoch = v.config_epoch]
           must == n.sentinels # v.sentinels \/ n.current_epoch # v.current_epoch \/ n.addr # v.addr
           f == IF must THEN rewriteConfigSentinelOption(x) ELSE disk[s]
<1>1. /\ view' = [view EXCEPT ![s] = n]
      /\ disk' = IF must THEN [disk EXCEPT ![s] = rewriteConfigSentinelOption(x)] ELSE disk
      /\ disputed' = IF n.config_epoch # v.config_epoch /\ sentinelGetCurrentMasterAddress(n) # h.addr
                     THEN disputed \cup {n.config_epoch} ELSE disputed
      /\ UNCHANGED <<asks, orders, role, up, faults, ballots, elected>>
    BY Zenon DEF sentinelProcessHelloMessage, sentinelFlushConfig
<1>2. /\ v \in View /\ disk[s] \in File /\ v.leader_epoch \in Nat /\ v.config_epoch \in Nat
      /\ v.current_epoch \in Nat /\ v.failover_epoch \in Nat
    BY EpochsOf DEF IInv
<1>3. /\ Sane(v) /\ OnDisk(v, disk[s]) /\ s \notin v.sentinels /\ s \notin disk[s].sentinels
      /\ v.force => v.failover_epoch \in disputed
    BY DEF IInv, Views, Leaders
<1>4. disk' = [disk EXCEPT ![s] = f]
    <2>1. disk = [disk EXCEPT ![s] = disk[s]]
        BY DEF IInv, Types
    <2> QED
        BY <1>1, <2>1
<1>5. /\ h.from = t /\ h.epoch = view[t].current_epoch /\ h.config_epoch = view[t].config_epoch
      /\ h.addr = sentinelGetCurrentMasterAddress(view[t])
    BY DEF sentinelSendHello
<1> HIDE DEF h
<1>6. /\ h.epoch \in Epoch /\ h.config_epoch \in Epoch /\ h.addr \in Redis /\ h.config_epoch <= h.epoch
      /\ h.config_epoch \in Nat /\ h.epoch \in Nat
    <2>1. view[t] \in View /\ Sane(view[t])
        BY DEF IInv, Types, Views
    <2>2. view[t].current_epoch \in Epoch /\ view[t].config_epoch \in Epoch
        BY <2>1 DEF View
    <2> QED
        BY <1>5, <2>1, <2>2, EpochType, AddressType DEF Sane
<1>7. /\ n \in View /\ n.sentinels = v.sentinels \cup {t}
      /\ n.current_epoch >= v.current_epoch /\ n.current_epoch >= h.epoch
      /\ n.leader_epoch = v.leader_epoch /\ n.leader \in {v.leader, NoOne}
      /\ n.failover_epoch = v.failover_epoch
      /\ \A u \in Sentinel : n.votes[u] \in {v.votes[u], NoVote}
      /\ n.config_epoch = v.config_epoch \/ (n.config_epoch = h.config_epoch /\ h.config_epoch > v.config_epoch)
      /\ \/ /\ n.addr = v.addr /\ n.slaves = v.slaves /\ n.failover_state = v.failover_state
            /\ n.promoted = v.promoted /\ n.force = v.force /\ n.reconf = v.reconf
         \/ /\ n.config_epoch = h.config_epoch /\ n.addr = h.addr /\ n.addr # v.addr
            /\ n.addr \notin n.slaves /\ n.failover_state = "none" /\ n.force = FALSE
            /\ \A r \in Redis : n.reconf[r] = {}
    <2>1. h.from \in Sentinel /\ h.from = t
        BY <1>5
    <2>2. Heard(v, h, n)
        BY <1>2, <1>6, <2>1, Hello
    <2> HIDE DEF v, n
    <2> QED
        BY <2>1, <2>2 DEF Heard
<1> HIDE DEF n
<1>8. n.current_epoch \in Nat /\ n.config_epoch \in Nat /\ n.config_epoch \in Epoch
    <2>1. n.current_epoch \in Epoch /\ n.config_epoch \in Epoch
        BY <1>7 DEF View
    <2> QED
        BY <2>1, EpochType
<1>9. n.config_epoch <= n.current_epoch /\ v.config_epoch <= n.current_epoch
    BY <1>2, <1>3, <1>6, <1>7, <1>8 DEF Sane
<1>10. Sane(n)
    <2>1. n.failover_epoch <= n.current_epoch /\ n.leader_epoch <= n.current_epoch
        BY <1>2, <1>3, <1>7, <1>8 DEF Sane
    <2> QED
        BY <1>3, <1>7, <1>9, <2>1 DEF Sane, Promoting
<1>11. /\ x \in View /\ x.addr = n.addr /\ x.slaves = n.slaves /\ x.current_epoch = n.current_epoch
       /\ x.leader_epoch = n.leader_epoch /\ x.sentinels = n.sentinels
       /\ x.failover_state = n.failover_state /\ x.promoted = n.promoted
       /\ x.config_epoch = IF n.addr # v.addr THEN n.config_epoch ELSE v.config_epoch
    <2>1. v.config_epoch \in Epoch
        BY <1>2 DEF View
    <2>2. x \in View
        BY <1>7, <2>1 DEF View
    <2> QED
        BY <1>7, <2>2 DEF View
<1>12. /\ f \in File /\ OnDisk(n, f) /\ f.sentinels \in {n.sentinels, disk[s].sentinels}
       /\ \/ f.config_epoch = x.config_epoch /\ f.addr = sentinelGetCurrentMasterAddress(x)
          \/ f.config_epoch = disk[s].config_epoch /\ f.addr = disk[s].addr
    <2>1. f = rewriteConfigSentinelOption(x) \/ (f = disk[s] /\ n.leader_epoch = v.leader_epoch)
        BY <1>7
    <2>2. x.config_epoch <= x.current_epoch
        BY <1>9, <1>11
    <2> HIDE DEF f, v, x
    <2> QED
        BY <1>2, <1>3, <1>7, <1>10, <1>11, <2>1, <2>2, FlushConfig
<1> HIDE DEF f, x
<1>13. OneStep(s, n, f)
    BY <1>1, <1>4, <1>7, <1>12 DEF OneStep
<1>14. Types'
    BY <1>1, <1>8, <1>13, Updated DEF IInv, Types
<1>15. ConfigOf(v) \in Configs /\ <<h.config_epoch, h.addr>> \in Configs /\ FileConfig(disk[s]) \in Configs
    <2>1. ConfigOf(view[t]) \in Configs
        BY InConfigs
    <2> QED
        BY <1>5, <2>1, InConfigs DEF ConfigOf
<1>16. ConfigOf(n) \in Configs \/ n.config_epoch \in disputed'
    <2>1. CASE n.config_epoch # v.config_epoch
        <3>1. n.config_epoch = h.config_epoch
            BY <1>7, <2>1
        <3> QED
            BY <1>1, <1>15, <2>1, <3>1 DEF ConfigOf
    <2>2. CASE n.config_epoch = v.config_epoch /\ n.addr = v.addr
        BY <1>7, <1>15, <2>2 DEF ConfigOf, sentinelGetCurrentMasterAddress
    <2>3. CASE n.addr # v.addr
        BY <1>7, <1>15, <2>3, AddressType DEF ConfigOf
    <2> QED
        BY <2>1, <2>2, <2>3
<1>17. FileConfig(f) \in Configs
    <2>1. ConfigOf(x) \in Configs
        <3>1. CASE n.addr # v.addr
            BY <1>7, <1>11, <1>15, <3>1, AddressType DEF ConfigOf
        <3>2. CASE n.addr = v.addr
            BY <1>7, <1>11, <1>15, <3>2 DEF ConfigOf, sentinelGetCurrentMasterAddress
        <3> QED
            BY <3>1, <3>2
    <2> QED
        BY <1>12, <1>15, <2>1 DEF ConfigOf, FileConfig
<1>18. Legitimate(s, n) /\ disputed \subseteq disputed'
    BY <1>1, <1>3, <1>7 DEF Legitimate
<1>19. s \notin n.sentinels /\ s \notin f.sentinels
    BY <1>3, <1>7, <1>12
<1>20. IInv'
    BY <1>1, <1>7, <1>10, <1>12, <1>13, <1>14, <1>16, <1>17, <1>18, <1>19, QuietStep
<1>21. n.leader_epoch >= v.leader_epoch /\ n.config_epoch >= v.config_epoch
    BY <1>2, <1>6, <1>7
<1> QED
    BY <1>13, <1>20, <1>21, ForwardStep DEF IInv

(* A request for a vote: t may vote, and the one who asked may hear of it. *)
LEMMA RequestInv ==
    ASSUME IInv, NEW t \in Sentinel, NEW q \in asks, NEW lost \in BOOLEAN, isMasterDownByAddr(q, t, lost)
    PROVE  IInv' /\ Forward
<1> DEFINE v == view[t]
           u == q.from
           known == q.addr = v.addr
           w == IF known THEN sentinelVoteLeader(v, q.epoch, q.from) ELSE v
           down == known /\ ~v.tilt /\ v.addr \in v.s_down
           vote == IF known THEN [leader |-> w.leader, epoch |-> w.leader_epoch] ELSE NoVote
           heard == ~lost /\ t \in view[q.from].sentinels
           m == IF heard THEN sentinelReceiveIsMasterDownReply(view[u], t, down, vote) ELSE view[u]
           f == IF w # v THEN rewriteConfigSentinelOption(w) ELSE disk[t]
<1>1. /\ t # u
      /\ view' = [view EXCEPT ![t] = w, ![u] = IF heard THEN sentinelReceiveIsMasterDownReply(@, t, down, vote) ELSE @]
      /\ disk' = IF w # v THEN [disk EXCEPT ![t] = rewriteConfigSentinelOption(w)] ELSE disk
      /\ RecordVote(t, w)
      /\ UNCHANGED <<asks, orders, role, up, faults, elected, disputed>>
    BY Zenon DEF isMasterDownByAddr, sentinelFlushConfig
<1>2. u \in Sentinel /\ q.epoch \in Epoch /\ q.epoch \in Nat /\ view \in [Sentinel -> View]
    BY EpochType DEF IInv, Types
<1>3. /\ v \in View /\ disk[t] \in File /\ view[u] \in View
      /\ v.leader_epoch \in Nat /\ v.current_epoch \in Nat /\ v.failover_epoch \in Nat /\ v.config_epoch \in Nat
    BY <1>2, EpochsOf DEF IInv
<1>4. Sane(v) /\ OnDisk(v, disk[t]) /\ t \notin v.sentinels /\ t \notin disk[t].sentinels
    BY DEF IInv, Views
<1>5. /\ w \in View /\ Failover(v, w) /\ w.current_epoch >= v.current_epoch
      /\ \/ w.leader = v.leader /\ w.leader_epoch = v.leader_epoch
         \/ w.leader_epoch > v.leader_epoch /\ w.leader_epoch <= w.current_epoch
    <2>1. CASE known
        <3>1. w = sentinelVoteLeader(v, q.epoch, u)
            BY <2>1
        <3> HIDE DEF w, v, u
        <3>2. /\ w \in View /\ Failover(v, w) /\ w.current_epoch >= v.current_epoch
              /\ \/ w.leader = v.leader /\ w.leader_epoch = v.leader_epoch
                 \/ /\ w.leader_epoch = q.epoch
                    /\ w.leader_epoch > v.leader_epoch /\ w.current_epoch = q.epoch
            BY <1>2, <1>3, <3>1, VoteLeader
        <3> QED
            BY <1>2, <3>2
    <2>2. CASE ~known
        BY <1>3, <2>2 DEF Failover
    <2> QED
        BY <2>1, <2>2
<1>6. /\ m \in View /\ m.current_epoch = view[u].current_epoch /\ m.config_epoch = view[u].config_epoch
      /\ m.leader = view[u].leader /\ m.leader_epoch = view[u].leader_epoch
      /\ m.failover_epoch = view[u].failover_epoch /\ m.addr = view[u].addr
      /\ m.slaves = view[u].slaves /\ m.sentinels = view[u].sentinels
      /\ m.failover_state = view[u].failover_state /\ m.promoted = view[u].promoted
      /\ m.reconf = view[u].reconf /\ m.force = view[u].force
      /\ \A x \in Sentinel : \/ m.votes[x] = view[u].votes[x]
                             \/ x = t /\ m.votes[x] = [leader |-> w.leader, epoch |-> w.leader_epoch]
    <2>1. vote \in Vote /\ down \in BOOLEAN
        <3> HIDE DEF w
        <3> QED
            BY <1>5, EpochType DEF View, Vote
    <2>2. vote.leader # NoOne => vote = [leader |-> w.leader, epoch |-> w.leader_epoch]
        BY DEF NoVote
    <2> HIDE DEF vote, down, w, heard
    <2>3. CASE heard
        <3>1. m = sentinelReceiveIsMasterDownReply(view[u], t, down, vote)
            BY <2>3
        <3> HIDE DEF m, u
        <3> QED
            BY <1>3, <2>1, <2>2, <3>1, ReceiveReply
    <2>4. CASE ~heard
        BY <1>3, <2>4
    <2> QED
        BY <2>3, <2>4
<1>7. /\ view' \in [Sentinel -> View] /\ view'[t] = w /\ view'[u] = m
      /\ \A x \in Sentinel : x # t /\ x # u => view'[x] = view[x]
    <2>1. view' = [view EXCEPT ![t] = w, ![u] = m]
        <3> HIDE DEF w, heard, down, vote
        <3> QED
            BY <1>1, <1>2
    <2> HIDE DEF w, m, u
    <2> QED
        BY <1>1, <1>2, <1>5, <1>6, <2>1
<1>8. disk' = [disk EXCEPT ![t] = f]
    <2>1. disk = [disk EXCEPT ![t] = disk[t]]
        BY DEF IInv, Types
    <2> QED
        BY <1>1, <2>1
<1>9. w.current_epoch \in Nat /\ w.leader_epoch \in Nat
    <2> HIDE DEF w
    <2>1. w.current_epoch \in Epoch /\ w.leader_epoch \in Epoch
        BY <1>5 DEF View
    <2> QED
        BY <2>1, EpochType
<1> HIDE DEF m
<1>10. Sane(w)
    <2> HIDE DEF w
    <2>1. /\ w.failover_epoch <= w.current_epoch /\ w.config_epoch <= w.current_epoch
          /\ w.leader_epoch <= w.current_epoch
        BY <1>3, <1>4, <1>5, <1>9 DEF Sane, Failover
    <2> QED
        BY <1>4, <1>5, <2>1 DEF Sane, Failover
<1>11. /\ f \in File /\ OnDisk(w, f) /\ f.sentinels \in {w.sentinels, disk[t].sentinels}
       /\ \/ f.config_epoch = w.config_epoch /\ f.addr = sentinelGetCurrentMasterAddress(w)
          \/ f.config_epoch = disk[t].config_epoch /\ f.addr = disk[t].addr
    <2>1. f = rewriteConfigSentinelOption(w) \/ (f = disk[t] /\ w.leader_epoch = v.leader_epoch)
        <3> HIDE DEF w
        <3> QED
            OBVIOUS
    <2> HIDE DEF f, v, w
    <2> QED
        BY <1>3, <1>4, <1>5, <1>10, <2>1, FlushConfig DEF Sane
<1> HIDE DEF f, w, u, vote, heard, down, known
<1>12. /\ disk' \in [Sentinel -> File] /\ disk'[t] = f
       /\ \A x \in Sentinel : x # t => disk'[x] = disk[x]
    BY <1>8, <1>11 DEF IInv, Types
<1>13. Types'
    <2>1. ballots' \subseteq Sentinel \X Epoch \X Sentinel
        <3>1. w.leader \in Sentinel \cup {NoOne} /\ w.leader_epoch \in Epoch
            BY <1>5 DEF View
        <3>2. ballots \subseteq Sentinel \X Epoch \X Sentinel
            BY DEF IInv, Types
        <3> QED
            BY <1>1, <3>1, <3>2 DEF RecordVote
    <2> QED
        BY <1>1, <1>7, <1>12, <2>1 DEF IInv, Types
<1>14. Views'
    <2> SUFFICES ASSUME NEW x \in Sentinel
                 PROVE  /\ Sane(view'[x]) /\ OnDisk(view'[x], disk'[x])
                        /\ x \notin view'[x].sentinels /\ x \notin disk'[x].sentinels
        BY DEF Views, Sane, OnDisk
    <2>1. CASE x = t
        BY <1>4, <1>5, <1>7, <1>10, <1>11, <1>12, <2>1 DEF Failover
    <2>2. CASE x = u
        <3>1. /\ Sane(view[u]) /\ OnDisk(view[u], disk[u])
              /\ u \notin view[u].sentinels /\ u \notin disk[u].sentinels
            BY <1>2 DEF IInv, Views
        <3>2. Sane(m)
            BY <1>6, <3>1 DEF Sane
        <3>3. OnDisk(m, disk[u])
            BY <1>6, <3>1 DEF OnDisk
        <3> QED
            BY <1>1, <1>2, <1>6, <1>7, <1>12, <2>2, <3>1, <3>2, <3>3
    <2>3. CASE x # t /\ x # u
        BY <1>7, <1>12, <2>3 DEF IInv, Views
    <2> QED
        BY <2>1, <2>2, <2>3
<1>15. Votes'
    <2>1. \A s, x \in Sentinel : \/ view'[s].votes[x] \in {view[s].votes[x], NoVote}
                                 \/ x = t /\ view'[s].votes[x] = [leader |-> w.leader, epoch |-> w.leader_epoch]
        <3> SUFFICES ASSUME NEW s \in Sentinel, NEW x \in Sentinel
                     PROVE  \/ view'[s].votes[x] = view[s].votes[x]
                            \/ x = t /\ view'[s].votes[x] = [leader |-> w.leader, epoch |-> w.leader_epoch]
            OBVIOUS
        <3>1. CASE s = t
            BY <1>5, <1>7, <3>1 DEF Failover
        <3>2. CASE s = u
            BY <1>6, <1>7, <3>2
        <3>3. CASE s # t /\ s # u
            BY <1>7, <3>3
        <3> QED
            BY <3>1, <3>2, <3>3
    <2>2. \A s \in Sentinel \ {t} : /\ view'[s].leader_epoch = view[s].leader_epoch
                                    /\ view'[s].leader = view[s].leader
        BY <1>6, <1>7
    <2>3. view'[t].leader_epoch = w.leader_epoch /\ view'[t].leader = w.leader
        BY <1>7
    <2> HIDE DEF v
    <2>4. \/ w.leader = view[t].leader /\ w.leader_epoch = view[t].leader_epoch
          \/ w.leader_epoch > view[t].leader_epoch
        BY <1>5 DEF v
    <2>5. view'[t].leader \in {w.leader, NoOne} /\ Types /\ Votes /\ RecordVote(t, w) /\ w \in View
        BY <1>1, <1>5, <2>3 DEF IInv
    <2>6. VoteStep(t, w)
        BY <2>1, <2>2, <2>3, <2>4, <2>5 DEF VoteStep
    <2> QED
        BY <1>13, <2>5, <2>6, VoteGiven
<1>16. Elections'
    <2>1. ballots \subseteq ballots'
        BY <1>1 DEF RecordVote
    <2> QED
        BY <1>1, <1>13, <2>1, ElectionsKept DEF IInv
<1>17. w.leader_epoch >= v.leader_epoch
    BY <1>3, <1>5, <1>9
<1>18. \A x \in Sentinel :
        /\ view'[x].failover_state = view[x].failover_state /\ view'[x].failover_epoch = view[x].failover_epoch
        /\ view'[x].force = view[x].force /\ view'[x].config_epoch = view[x].config_epoch
        /\ view'[x].promoted = view[x].promoted /\ view'[x].addr = view[x].addr
    BY <1>5, <1>6, <1>7 DEF Failover
<1>19. \A x \in Sentinel : /\ view'[x].leader_epoch >= view[x].leader_epoch
                           /\ view[x].config_epoch \in Nat
    <2>1. \A x \in Sentinel : view[x].leader_epoch \in Nat /\ view[x].config_epoch \in Nat
        BY EpochsOf DEF IInv
    <2> QED
        BY <1>6, <1>7, <1>17, <2>1
<1>20. Configurations' /\ Leaders'
    <2>1. \A x \in Sentinel : Address(x)' = Address(x)
        BY <1>18 DEF Address, sentinelGetCurrentMasterAddress
    <2>2. \A x \in Sentinel : <<view'[x].config_epoch, Address(x)'>> \in Configs
        BY <1>18, <2>1 DEF Configs
    <2>3. \A x \in Sentinel : <<disk'[x].config_epoch, disk'[x].addr>> \in Configs
        <3>1. <<f.config_epoch, f.addr>> \in Configs
            <4>1. sentinelGetCurrentMasterAddress(w) = sentinelGetCurrentMasterAddress(v)
                BY <1>5 DEF Failover, sentinelGetCurrentMasterAddress
            <4> QED
                BY <1>5, <1>11, <4>1 DEF Failover, Configs, Address
        <3> QED
            BY <1>12, <3>1 DEF Configs
    <2>4. \A x \in Sentinel : view[x].force => view[x].failover_epoch \in disputed
        BY DEF IInv, Leaders
    <2>5. ASSUME NEW x \in Sentinel
          PROVE  /\ view'[x].leader_epoch >= view[x].leader_epoch
                 /\ view'[x].force => view'[x].failover_epoch \in disputed'
                 /\ view'[x].failover_state = "wait_start" =>
                    \/ /\ view[x].failover_state = "wait_start"
                       /\ view'[x].failover_epoch = view[x].failover_epoch
                    \/ view'[x].failover_epoch > view[x].leader_epoch
                 /\ view'[x].failover_state \in {"select_slave", "send_slaveof_noone", "wait_promotion"} =>
                    \/ view'[x].failover_epoch \in disputed'
                    \/ /\ view[x].failover_state \in {"select_slave", "send_slaveof_noone", "wait_promotion"}
                       /\ view'[x].failover_epoch = view[x].failover_epoch
        <3>1. disputed' = disputed
            BY <1>1
        <3> QED
            BY <1>18, <1>19, <2>4, <3>1
    <2>6. Types /\ Configurations /\ Leaders /\ elected' = elected /\ disputed \subseteq disputed'
        BY <1>1 DEF IInv
    <2> QED
        BY <1>13, <2>2, <2>3, <2>5, <2>6, ConfigsKept
<1>21. Forward
    BY <1>18, <1>19 DEF Forward
<1> QED
    BY <1>13, <1>14, <1>15, <1>16, <1>20, <1>21 DEF IInv

-----------------------------------------------------------------------------
(* The timer. *)

(* The view of a sentinel after its timer. *)
Handled(s, v, b, w, n) ==
    /\ b \in View /\ Sane(b) /\ Run(b, w)
    /\ n \in View /\ Sane(n) /\ n.sentinels = v.sentinels /\ s \notin n.sentinels
    /\ n.current_epoch >= v.current_epoch /\ ConfigOf(n) = ConfigOf(v)
    /\ n.config_epoch = v.config_epoch
    /\ n.leader \in {w.leader, NoOne} /\ n.leader_epoch = w.leader_epoch
    /\ \/ w.leader = v.leader /\ w.leader_epoch = v.leader_epoch
       \/ w.leader_epoch > v.leader_epoch
    /\ \A t \in Sentinel : n.votes[t] \in {v.votes[t], NoVote}
    /\ b.votes = v.votes /\ b.force = v.force
    /\ n.failover_epoch = b.failover_epoch /\ w.current_epoch = b.current_epoch
    /\ n.force = TRUE => v.force = TRUE
    /\ v.force = TRUE => n.failover_epoch = v.failover_epoch
    /\ b.failover_state = "wait_start" =>
        \/ v.failover_state = "wait_start" /\ b.failover_epoch = v.failover_epoch
        \/ b.failover_epoch > v.leader_epoch
    /\ n.failover_state = "wait_start" => b.failover_state = "wait_start"
    /\ w.failover_state = "select_slave" => n.failover_state = "select_slave"
    /\ n.failover_state \in {"select_slave", "send_slaveof_noone", "wait_promotion"} =>
        \/ b.failover_state = "wait_start" /\ w.failover_state = "select_slave"
        \/ /\ v.failover_state \in {"select_slave", "send_slaveof_noone", "wait_promotion"}
           /\ n.failover_epoch = v.failover_epoch

LEMMA TimerView ==
    ASSUME NEW s \in Sentinel, NEW v \in View, Sane(v), s \notin v.sentinels,
           NEW elapsed \in SUBSET Redis, NEW late \in BOOLEAN, NEW old, NEW due \in BOOLEAN, NEW answering, NEW expired,
           NEW w \in sentinelFailoverStateMachine(Begun(v, elapsed, late), s, answering, expired, due)
    PROVE  /\ Handled(s, v, Begun(v, elapsed, late), w, Ended(w, old, v.slaves, elapsed))
           /\ LET b == Begun(v, elapsed, late)
              IN  b.failover_state = "wait_start" /\ w.failover_state = "select_slave" /\ b.force = FALSE =>
                    /\ b.current_epoch = b.failover_epoch => w.leader_epoch >= b.failover_epoch
                    /\ \E W \in SUBSET Sentinel : ElectedBy(b, w, s, W)
<1> DEFINE b == Begun(v, elapsed, late)
           n == Ended(w, old, v.slaves, elapsed)
<1>1. /\ b \in View
      /\ b.config_epoch = v.config_epoch /\ b.addr = v.addr
      /\ b.leader = v.leader /\ b.leader_epoch = v.leader_epoch /\ b.force = v.force
      /\ b.promoted = v.promoted /\ b.reconf = v.reconf
      /\ b.slaves = v.slaves /\ b.sentinels = v.sentinels /\ b.votes = v.votes
      /\ \/ /\ b.failover_state = v.failover_state /\ b.failover_epoch = v.failover_epoch
            /\ b.current_epoch = v.current_epoch
         \/ /\ v.failover_state = "none" /\ b.failover_state = "wait_start"
            /\ b.failover_epoch = v.current_epoch + 1 /\ b.current_epoch = v.current_epoch + 1
    BY TimerBegins
<1>2. w \in sentinelFailoverStateMachine(b, s, answering, expired, due)
    OBVIOUS
<1> HIDE DEF b
<1>3. /\ v.current_epoch \in Nat /\ v.leader_epoch \in Nat /\ v.failover_epoch \in Nat /\ v.config_epoch \in Nat
    <2>1. v.current_epoch \in Epoch /\ v.leader_epoch \in Epoch /\ v.failover_epoch \in Epoch /\ v.config_epoch \in Epoch
        BY DEF View
    <2> QED
        BY <2>1, EpochType
<1>4. v.force \in BOOLEAN /\ (v.failover_state = "none" => v.force = FALSE)
    BY DEF View, Sane
<1>5. Sane(b) /\ b.current_epoch >= v.current_epoch /\ b.failover_epoch <= b.current_epoch
    <2>1. CASE b.failover_state = v.failover_state /\ b.failover_epoch = v.failover_epoch
               /\ b.current_epoch = v.current_epoch
        BY <1>1, <1>3, <2>1 DEF Sane
    <2>2. CASE v.failover_state = "none" /\ b.failover_state = "wait_start"
               /\ b.failover_epoch = v.current_epoch + 1 /\ b.current_epoch = v.current_epoch + 1
        <3>1. /\ b.failover_epoch > 0 /\ b.failover_epoch <= b.current_epoch /\ b.config_epoch <= b.current_epoch
              /\ b.leader_epoch <= b.current_epoch /\ b.current_epoch >= v.current_epoch
            BY <1>1, <1>3, <2>2 DEF Sane
        <3> QED
            BY <1>1, <2>2, <3>1 DEF Sane, Promoting
    <2> QED
        BY <1>1, <2>1, <2>2
<1>6. /\ Run(b, w)
      /\ b.failover_state = "wait_start" /\ w.failover_state = "select_slave" /\ b.force = FALSE =>
            /\ b.current_epoch = b.failover_epoch => w.leader_epoch >= b.failover_epoch
            /\ \E W \in SUBSET Sentinel : ElectedBy(b, w, s, W)
    <2>1. b.failover_state # "update_config" /\ s \notin b.sentinels
        BY <1>1, <1>5 DEF Sane
    <2> QED
        BY <1>1, <1>2, <1>5, <2>1, TimerRuns
<1>7. v.slaves \in SUBSET Redis /\ NoOne \notin Redis
    BY SentinelAssumption DEF View
<1>8. w.failover_state \in {"reconf_slaves", "update_config"} =>
        /\ b.failover_state = "reconf_slaves" /\ v.failover_state = "reconf_slaves"
        /\ w.promoted = v.promoted /\ w.promoted \in v.slaves /\ w.promoted \in Redis /\ w.promoted # NoOne
    <2>1. w.failover_state \in {"reconf_slaves", "update_config"} =>
            b.failover_state = "reconf_slaves" /\ w.promoted = b.promoted
        BY <1>5, <1>6 DEF Run, Moved, Sane
    <2> QED
        BY <1>1, <1>7, <2>1 DEF Sane, Promoting
<1>9. /\ n \in View /\ n.current_epoch = w.current_epoch /\ n.config_epoch = w.config_epoch
      /\ n.leader \in {w.leader, NoOne} /\ n.leader_epoch = w.leader_epoch
      /\ n.failover_epoch = w.failover_epoch /\ n.sentinels = w.sentinels
      /\ \A t \in Sentinel : n.votes[t] \in {w.votes[t], NoVote}
      /\ IF w.failover_state = "update_config"
         THEN /\ n.addr = w.promoted /\ n.addr \notin n.slaves /\ n.failover_state = "none"
              /\ n.force = FALSE /\ \A r \in Redis : n.reconf[r] = {}
         ELSE /\ n.addr = w.addr /\ n.slaves = w.slaves /\ n.failover_state = w.failover_state
              /\ n.force = w.force /\ n.reconf = w.reconf /\ n.promoted = w.promoted
    <2>1. w \in View /\ (w.failover_state = "update_config" => w.promoted \in Redis)
        BY <1>6, <1>8 DEF Run
    <2>2. Closed(w, n)
        BY <1>7, <2>1, TimerEnds
    <2> HIDE DEF n
    <2> QED
        BY <2>2 DEF Closed
<1> HIDE DEF n
<1>10. /\ w.current_epoch = b.current_epoch /\ w.config_epoch = b.config_epoch
       /\ w.failover_epoch = b.failover_epoch /\ w.addr = b.addr
       /\ w.slaves = b.slaves /\ w.sentinels = b.sentinels /\ w.votes = b.votes
       /\ \/ w.leader = b.leader /\ w.leader_epoch = b.leader_epoch
          \/ w.leader_epoch > b.leader_epoch /\ w.leader_epoch = b.failover_epoch
    BY <1>6 DEF Run, Voted
<1>11. /\ n.failover_epoch <= n.current_epoch /\ n.config_epoch <= n.current_epoch
       /\ n.leader_epoch <= n.current_epoch
    BY <1>5, <1>9, <1>10 DEF Sane
<1>12. Sane(n)
    <2>1. CASE w.failover_state = "update_config"
        BY <1>9, <1>11, <2>1 DEF Sane, Promoting
    <2>2. CASE w.failover_state # "update_config"
        <3>1. n.addr \notin n.slaves /\ n.failover_state # "update_config"
            BY <1>5, <1>9, <1>10, <2>2 DEF Sane
        <3>2. n.failover_state \in Promoting => n.promoted \in n.slaves
            BY <1>1, <1>5, <1>6, <1>8, <1>9, <1>10, <2>2 DEF Sane, Promoting, Run, Moved
        <3>3. n.failover_state # "reconf_slaves" => \A r \in Redis : n.reconf[r] = {}
            BY <1>5, <1>6, <1>9, <2>2 DEF Sane, Run, Moved
        <3>4. n.failover_state = "none" => ~n.force
            BY <1>5, <1>6, <1>9, <2>2 DEF Sane, Run, Moved
        <3>5. n.failover_state # "none" => n.failover_epoch > 0
            BY <1>5, <1>6, <1>9, <1>10, <2>2 DEF Sane, Run, Moved
        <3> QED
            BY <1>11, <3>1, <3>2, <3>3, <3>4, <3>5 DEF Sane
    <2> QED
        BY <2>1, <2>2
<1>13. ConfigOf(n) = ConfigOf(v)
    <2>1. CASE w.failover_state = "update_config"
        BY <1>1, <1>8, <1>9, <1>10, <2>1, AddressType DEF ConfigOf
    <2>2. CASE w.failover_state = "reconf_slaves"
        BY <1>1, <1>8, <1>9, <1>10, <2>2, AddressType DEF ConfigOf
    <2>3. CASE w.failover_state \notin {"reconf_slaves", "update_config"}
        <3>1. b.failover_state # "reconf_slaves"
            BY <1>6, <2>3 DEF Run, Moved
        <3>2. v.failover_state \notin {"reconf_slaves", "update_config"}
            BY <1>1, <3>1 DEF Sane
        <3> QED
            BY <1>1, <1>9, <1>10, <2>3, <3>2, AddressType DEF ConfigOf
    <2> QED
        BY <2>1, <2>2, <2>3
<1>14. /\ n.current_epoch >= v.current_epoch /\ n.config_epoch = v.config_epoch
       /\ n.sentinels = v.sentinels /\ n.failover_epoch = b.failover_epoch
       /\ \A t \in Sentinel : n.votes[t] \in {v.votes[t], NoVote}
       /\ \/ w.leader = v.leader /\ w.leader_epoch = v.leader_epoch
          \/ w.leader_epoch > v.leader_epoch
    BY <1>1, <1>5, <1>9, <1>10
<1>15. b.failover_state = "wait_start" =>
        \/ v.failover_state = "wait_start" /\ b.failover_epoch = v.failover_epoch
        \/ b.failover_epoch > v.leader_epoch
    BY <1>1, <1>3 DEF Sane
<1>16. /\ n.force = TRUE => v.force = TRUE
       /\ v.force = TRUE => n.failover_epoch = v.failover_epoch
    <2>1. n.force = TRUE => b.force = TRUE
        BY <1>6, <1>9 DEF Run, Moved
    <2> QED
        BY <1>1, <1>4, <1>14, <2>1
<1>17. /\ n.failover_state = "wait_start" => b.failover_state = "wait_start"
       /\ w.failover_state = "select_slave" => n.failover_state = "select_slave"
    BY <1>6, <1>9 DEF Run, Moved
<1>18. n.failover_state \in {"select_slave", "send_slaveof_noone", "wait_promotion"} =>
        \/ b.failover_state = "wait_start" /\ w.failover_state = "select_slave"
        \/ /\ v.failover_state \in {"select_slave", "send_slaveof_noone", "wait_promotion"}
           /\ n.failover_epoch = v.failover_epoch
    <2>1. n.failover_state \in {"select_slave", "send_slaveof_noone", "wait_promotion"} =>
        \/ b.failover_state = "wait_start" /\ w.failover_state = "select_slave"
        \/ b.failover_state \in {"select_slave", "send_slaveof_noone", "wait_promotion"}
        BY <1>6, <1>9 DEF Run, Moved
    <2> QED
        BY <1>1, <1>14, <2>1
<1>19. Handled(s, v, b, w, n)
    BY <1>1, <1>5, <1>6, <1>9, <1>10, <1>12, <1>13, <1>14, <1>15, <1>16, <1>17, <1>18 DEF Handled
<1> QED
    BY <1>6, <1>19 DEF b, n

LEMMA SlaveOfType ==
    ASSUME NEW b \in View, NEW w \in View, Sane(b), Moved(b, w), NEW answering, NEW late
    PROVE  sentinelSendSlaveOf(b, w, answering, late) \subseteq [to : Redis, of : Redis \cup {NoOne}]
<1>1. w.promoted \in Redis \cup {NoOne} /\ w.slaves \in SUBSET Redis /\ b.slaves \in SUBSET Redis
    BY DEF View
<1>2. b.failover_state = "send_slaveof_noone" /\ w.failover_state = "wait_promotion" => w.promoted \in Redis
    BY <1>1 DEF Moved, Sane, Promoting
<1> QED
    BY <1>1, <1>2 DEF sentinelSendSlaveOf

(* A quorum of known votes makes an election. *)
LEMMA Enough ==
    ASSUME NEW e, NEW s, NEW W \in SUBSET Sentinel, Cardinality(W) >= Quorum,
           \A t \in W : <<t, e, s>> \in ballots'
    PROVE  Cardinality(Electors(e, s)') >= Quorum
<1> DEFINE E == Electors(e, s)'
<1>1. W \subseteq E /\ E \subseteq Sentinel
    BY DEF Electors
<1>2. IsFiniteSet(E) /\ IsFiniteSet(W)
    BY <1>1, SentinelAssumption, FS_Subset
<1>3. Cardinality(W) <= Cardinality(E) /\ Cardinality(W) \in Nat /\ Cardinality(E) \in Nat
    BY <1>1, <1>2, FS_Subset, FS_CardinalityType
<1> QED
    BY <1>3, SentinelAssumption

(* Sentinel s is elected in epoch e, with votes of epoch c. *)
LEMMA ElectionInv ==
    ASSUME IInv, Types', Votes', NEW s \in Sentinel, NEW n, NEW f, OneStep(s, n, f),
           NEW e \in Epoch, NEW c \in Epoch, e # 0,
           <<e, s, e>> \notin elected, elected' = elected \cup {<<e, s, c>>},
           disputed \subseteq disputed', c # e => e \in disputed',
           ballots \subseteq ballots',
           c = e => e <= n.leader_epoch /\ Cardinality(Electors(e, s)') >= Quorum,
           ConfigOf(n) \in Configs, FileConfig(f) \in Configs,
           n.leader_epoch >= view[s].leader_epoch, n.force = FALSE,
           n.failover_state = "select_slave", n.failover_epoch = e
    PROVE  Elections' /\ Configurations' /\ Leaders'
<1> DEFINE new == <<e, s, c>>
<1>1. \A t \in Sentinel : t # s => view'[t] = view[t] /\ disk'[t] = disk[t]
    BY Updated DEF IInv
<1>2. view'[s] = n /\ disk'[s] = f
    BY Updated DEF IInv
<1>3. Elections'
    <2> SUFFICES ASSUME NEW g \in elected', g[3] = g[1]
                 PROVE  Cardinality(Electors(g[1], g[2])') >= Quorum
        BY DEF Elections
    <2>1. CASE g = new
        BY <2>1
    <2>2. CASE g \in elected
        <3>1. Cardinality(Electors(g[1], g[2])) >= Quorum
            BY <2>2 DEF IInv, Elections
        <3>2. /\ Electors(g[1], g[2]) \in SUBSET Sentinel
              /\ \A t \in Electors(g[1], g[2]) : <<t, g[1], g[2]>> \in ballots'
            BY DEF Electors
        <3> QED
            BY <3>1, <3>2, Enough
    <2> QED
        BY <2>1, <2>2
<1>4. OneLeaderPerEpoch'
    BY <1>3, OneLeader, PTL DEF IInv
<1>5. \A d \in Configs' : d \in Configs
    <2>1. \A t \in Sentinel : t # s => <<view'[t].config_epoch, Address(t)'>> \in Configs
        <3> SUFFICES ASSUME NEW t \in Sentinel, t # s
                     PROVE  <<view'[t].config_epoch, Address(t)'>> \in Configs
            OBVIOUS
        <3>1. Address(t)' = Address(t)
            BY <1>1 DEF Address, sentinelGetCurrentMasterAddress
        <3> QED
            BY <1>1, <3>1 DEF Configs
    <2>2. \A t \in Sentinel : t # s => <<disk'[t].config_epoch, disk'[t].addr>> \in Configs
        BY <1>1 DEF Configs
    <2>3. <<view'[s].config_epoch, Address(s)'>> = ConfigOf(n)
        BY <1>2 DEF Address, ConfigOf, sentinelGetCurrentMasterAddress
    <2>4. <<disk'[s].config_epoch, disk'[s].addr>> = FileConfig(f)
        BY <1>2 DEF FileConfig
    <2> QED
        BY <2>1, <2>2, <2>3, <2>4 DEF Configs
<1>6. \A d \in Configs : d[1] # 0 /\ d[1] \notin disputed => \E t \in Sentinel : <<d[1], t, d[1]>> \in elected
    BY DEF IInv, Configurations
<1>7. \A d \in Configs' : d[1] = e => e \in disputed'
    <2> SUFFICES ASSUME NEW d \in Configs', d[1] = e, e \notin disputed'
                 PROVE  FALSE
        OBVIOUS
    <2>1. PICK t \in Sentinel : <<e, t, e>> \in elected
        BY <1>5, <1>6
    <2>2. <<e, t, e>> \in elected' /\ <<e, s, e>> \in elected'
        BY <2>1
    <2>3. t = s
        BY <1>4, <2>2 DEF OneLeaderPerEpoch
    <2> QED
        BY <2>1, <2>3
<1>8. Configurations'
    <2>1. (\A d, g \in Configs : d[1] = g[1] /\ d[1] \notin disputed => d[2] = g[2])'
        BY <1>5 DEF IInv, Configurations
    <2>2. (\A d \in Configs : d[1] # 0 /\ d[1] \notin disputed => \E t \in Sentinel : <<d[1], t, d[1]>> \in elected)'
        BY <1>5, <1>6
    <2>3. (\A g \in elected : g[3] = g[1] => g[1] <= view[g[2]].leader_epoch)'
        <3>1. \A g \in elected : g[3] = g[1] => g[1] <= view[g[2]].leader_epoch
            BY DEF IInv, Configurations
        <3>2. \A g \in elected : g[2] \in Sentinel /\ g[1] \in Nat
            <4>1. \A g \in elected : g[2] \in Sentinel /\ g[1] \in Epoch
                BY DEF IInv, Types
            <4> QED
                BY <4>1, EpochType
        <3>3. \A t \in Sentinel : view[t].leader_epoch \in Nat
            BY EpochsOf DEF IInv
        <3>4. n.leader_epoch \in Nat
            <4>1. n.leader_epoch \in Epoch
                BY DEF OneStep, View
            <4> QED
                BY <4>1, EpochType
        <3>5. \A g \in elected : g[3] = g[1] => g[1] <= view'[g[2]].leader_epoch
            BY <1>1, <1>2, <3>1, <3>2, <3>3, <3>4
        <3>6. new[3] = new[1] => new[1] <= view'[new[2]].leader_epoch
            BY <1>2
        <3> HIDE DEF new
        <3>7. elected' = elected \cup {new}
            BY DEF new
        <3> QED
            BY <3>5, <3>6, <3>7
    <2>4. (\A g \in elected : g[3] # g[1] => g[1] \in disputed)'
        BY DEF IInv, Configurations
    <2> QED
        BY <2>1, <2>2, <2>3, <2>4 DEF Configurations
<1>9. Leaders'
    <2> SUFFICES ASSUME NEW t \in Sentinel
                 PROVE  LET v == view'[t]
                        IN  /\ v.force => v.failover_epoch \in disputed'
                            /\ v.failover_state = "wait_start" => <<v.failover_epoch, t, v.failover_epoch>> \notin elected'
                            /\ v.failover_state \in {"select_slave", "send_slaveof_noone", "wait_promotion"} =>
                                \/ v.failover_epoch \in disputed'
                                \/ /\ <<v.failover_epoch, t, v.failover_epoch>> \in elected'
                                   /\ \A d \in Configs' : d[1] # v.failover_epoch
        BY DEF Leaders
    <2>1. CASE t = s
        BY <1>2, <1>7, <2>1
    <2>2. CASE t # s
        <3>1. \A x : <<x, t, x>> \in elected' <=> <<x, t, x>> \in elected
            BY <2>2
        <3> QED
            BY <1>1, <1>5, <2>2, <3>1 DEF IInv, Leaders
    <2> QED
        BY <2>1, <2>2
<1> QED
    BY <1>3, <1>8, <1>9

LEMMA HandleInv ==
    ASSUME IInv, NEW s \in Sentinel, NEW elapsed \in SUBSET Redis, NEW late \in BOOLEAN, NEW old, NEW expired,
           Handle(s, elapsed, late, old, expired),
           faults' \in [own : 0..MaxFaults, down : 0..MaxDown, fixes : 0..MaxFixes]
    PROVE  IInv' /\ Forward
<1> DEFINE v == view[s]
           answering == up \ v.s_down
           b == Begun(v, elapsed, late)
           due == late /\ v.failover_state # "none"
<1>1. PICK w \in sentinelFailoverStateMachine(b, s, answering, expired, due) :
        LET n == Ended(w, old, v.slaves, elapsed)
        IN  /\ view' = [view EXCEPT ![s] = n]
            /\ sentinelAskMasterStateToOtherSentinels(s, Forgotten(w, old))
            /\ orders' = orders \cup sentinelSendSlaveOf(b, w, answering, due)
            /\ sentinelFlushConfig(s, n, n.leader_epoch # v.leader_epoch \/ n.addr # v.addr)
            /\ elected' = IF /\ b.failover_state = "wait_start" /\ ~b.force
                             /\ w.failover_state = "select_slave"
                          THEN elected \cup {<<w.failover_epoch, s, w.current_epoch>>} ELSE elected
            /\ disputed' = disputed \cup {e[1] : e \in {g \in elected' : g[1] # g[3]}}
            /\ RecordVote(s, w)
    BY Zenon DEF Handle, Begun, Ended
<1> DEFINE n == Ended(w, old, v.slaves, elapsed)
           must == n.leader_epoch # v.leader_epoch \/ n.addr # v.addr
           f == IF must THEN rewriteConfigSentinelOption(n) ELSE disk[s]
           won == b.failover_state = "wait_start" /\ ~b.force /\ w.failover_state = "select_slave"
<1>2. UNCHANGED <<role, up>>
    BY DEF Handle
<1>3. /\ v \in View /\ disk[s] \in File /\ v.leader_epoch \in Nat /\ v.config_epoch \in Nat
      /\ v.current_epoch \in Nat /\ v.failover_epoch \in Nat
    BY EpochsOf DEF IInv
<1>4. /\ Sane(v) /\ OnDisk(v, disk[s]) /\ s \notin v.sentinels /\ s \notin disk[s].sentinels
      /\ v.force => v.failover_epoch \in disputed
    BY DEF IInv, Views, Leaders
<1>5. Handled(s, v, b, w, n)
    BY <1>3, <1>4, TimerView
<1>6. b.failover_state = "wait_start" /\ w.failover_state = "select_slave" /\ b.force = FALSE =>
        /\ b.current_epoch = b.failover_epoch => w.leader_epoch >= b.failover_epoch
        /\ \E W \in SUBSET Sentinel : ElectedBy(b, w, s, W)
    BY <1>3, <1>4, TimerView
<1>7. asks' \subseteq [from : Sentinel, addr : Redis, epoch : Epoch]
    <2>1. w \in View
        BY <1>5 DEF Handled, Run
    <2>2. /\ Forgotten(w, old).addr = w.addr /\ Forgotten(w, old).current_epoch = w.current_epoch
        BY <2>1 DEF Forgotten, View
    <2>3. Forgotten(w, old).addr \in Redis /\ Forgotten(w, old).current_epoch \in Epoch
        BY <2>1, <2>2 DEF View
    <2> QED
        BY <1>1, <2>3 DEF sentinelAskMasterStateToOtherSentinels, IInv, Types
<1>8. orders' \subseteq [to : Redis, of : Redis \cup {NoOne}]
    <2>1. sentinelSendSlaveOf(b, w, answering, due) \subseteq [to : Redis, of : Redis \cup {NoOne}]
        BY <1>5, SlaveOfType DEF Handled, Run
    <2> QED
        BY <1>1, <2>1 DEF IInv, Types
<1>9. /\ view' = [view EXCEPT ![s] = n] /\ RecordVote(s, w)
      /\ disk' = IF must THEN [disk EXCEPT ![s] = rewriteConfigSentinelOption(n)] ELSE disk
      /\ elected' = IF won THEN elected \cup {<<w.failover_epoch, s, w.current_epoch>>} ELSE elected
      /\ disputed' = disputed \cup {e[1] : e \in {g \in elected' : g[1] # g[3]}}
    BY <1>1, Zenon DEF sentinelFlushConfig
<1> HIDE DEF n, b
<1>10. disk' = [disk EXCEPT ![s] = f]
    <2>1. disk = [disk EXCEPT ![s] = disk[s]]
        BY DEF IInv, Types
    <2> QED
        BY <1>9, <2>1
<1> HIDE DEF v
<1>11. /\ f \in File /\ OnDisk(n, f) /\ f.sentinels \in {n.sentinels, disk[s].sentinels}
       /\ FileConfig(f) \in {ConfigOf(n), FileConfig(disk[s])}
    <2>1. f = rewriteConfigSentinelOption(n) \/ (f = disk[s] /\ n.leader_epoch = v.leader_epoch)
        OBVIOUS
    <2> HIDE DEF f
    <2>2. n \in View /\ Sane(n) /\ n.current_epoch >= v.current_epoch /\ n.config_epoch <= n.current_epoch
        BY <1>5 DEF Handled, Sane
    <2>3. /\ f \in File /\ OnDisk(n, f) /\ f.sentinels \in {n.sentinels, disk[s].sentinels}
          /\ \/ f.config_epoch = n.config_epoch /\ f.addr = sentinelGetCurrentMasterAddress(n)
             \/ f.config_epoch = disk[s].config_epoch /\ f.addr = disk[s].addr
        BY <1>3, <1>4, <2>1, <2>2, FlushConfig
    <2> QED
        BY <2>3 DEF FileConfig, ConfigOf
<1> HIDE DEF f, must, won
<1>12. OneStep(s, n, f)
    BY <1>5, <1>9, <1>10, <1>11 DEF OneStep, Handled
<1>13. ConfigOf(n) \in Configs /\ FileConfig(f) \in Configs
    <2>1. ConfigOf(v) \in Configs /\ FileConfig(disk[s]) \in Configs
        BY InConfigs DEF v
    <2> QED
        BY <1>5, <1>11, <2>1 DEF Handled
<1>14. w.failover_epoch \in Epoch /\ w.current_epoch \in Epoch /\ w.leader_epoch \in Epoch
       /\ w.leader \in Sentinel \cup {NoOne} /\ w \in View
    <2>1. w \in View
        BY <1>5 DEF Handled, Run
    <2> QED
        BY <2>1 DEF View
<1>15. elected' \subseteq Epoch \X Sentinel \X Epoch
    BY <1>9, <1>14 DEF IInv, Types
<1>16. Types'
    <2>1. ballots' \subseteq Sentinel \X Epoch \X Sentinel
        <3>1. ballots \subseteq Sentinel \X Epoch \X Sentinel
            BY DEF IInv, Types
        <3> QED
            BY <1>9, <1>14, <3>1 DEF RecordVote
    <2>2. disputed' \subseteq Epoch
        <3>1. disputed \subseteq Epoch
            BY DEF IInv, Types
        <3>2. \A e \in elected' : e[1] \in Epoch
            BY <1>15
        <3> QED
            BY <1>9, <3>1, <3>2
    <2>3. view' \in [Sentinel -> View] /\ disk' \in [Sentinel -> File]
        BY <1>12, Updated DEF IInv
    <2>4. /\ role' \in [Redis -> Redis \cup {NoOne}] /\ up' \subseteq Redis
          /\ faults' \in [own : 0..MaxFaults, down : 0..MaxDown, fixes : 0..MaxFixes]
        BY <1>2 DEF IInv, Types
    <2> QED
        BY <1>7, <1>8, <1>15, <2>1, <2>2, <2>3, <2>4 DEF Types
<1>17. Views'
    <2>1. s \notin n.sentinels /\ s \notin f.sentinels /\ Sane(n)
        BY <1>4, <1>5, <1>11 DEF Handled
    <2> QED
        BY <1>11, <1>12, <2>1, ViewsKept DEF IInv
<1>18. /\ view'[s] = n /\ \A t \in Sentinel : t # s => view'[t] = view[t]
    BY <1>12, Updated DEF IInv
<1>19. Votes'
    <2>1. VoteStep(s, w)
        <3>1. \A t, x \in Sentinel : view'[t].votes[x] \in {view[t].votes[x], NoVote}
            BY <1>5, <1>18 DEF Handled, v
        <3>2. \A t \in Sentinel \ {s} : /\ view'[t].leader_epoch = view[t].leader_epoch
                                        /\ view'[t].leader = view[t].leader
            BY <1>18
        <3>3. /\ view'[s].leader_epoch = w.leader_epoch /\ view'[s].leader \in {w.leader, NoOne}
              /\ \/ w.leader = view[s].leader /\ w.leader_epoch = view[s].leader_epoch
                 \/ w.leader_epoch > view[s].leader_epoch
            BY <1>5, <1>18 DEF Handled, v
        <3> QED
            BY <1>9, <3>1, <3>2, <3>3 DEF VoteStep
    <2> QED
        BY <1>14, <1>16, <2>1, VoteGiven DEF IInv
<1>20. ballots \subseteq ballots' /\ disputed \subseteq disputed'
    BY <1>9 DEF RecordVote
<1>21. n.leader_epoch >= v.leader_epoch /\ n.config_epoch >= v.config_epoch
    <2>1. w.leader_epoch \in Nat
        BY <1>14, EpochType
    <2> QED
        BY <1>3, <1>5, <2>1 DEF Handled
<1>22. n.force \in BOOLEAN /\ v.force \in BOOLEAN /\ b.force \in BOOLEAN
    BY <1>3, <1>5 DEF Handled, View
<1>23. Elections' /\ Configurations' /\ Leaders'
    <2>1. CASE ~won
        <3>1. elected' = elected
            BY <1>9, <2>1
        <3>2. Elections'
            BY <1>16, <1>20, <3>1, ElectionsKept DEF IInv
        <3>3. n.force => n.failover_epoch \in disputed'
            BY <1>4, <1>5, <1>20, <1>22 DEF Handled
        <3>4. v.force = TRUE => n.failover_epoch \in disputed'
            BY <1>4, <1>5, <1>20 DEF Handled
        <3>5. Legitimate(s, n)
            <4>1. n.failover_state = "wait_start" =>
                    \/ v.failover_state = "wait_start" /\ n.failover_epoch = v.failover_epoch
                    \/ n.failover_epoch > v.leader_epoch
                BY <1>5 DEF Handled
            <4>2. n.failover_state \in {"select_slave", "send_slaveof_noone", "wait_promotion"} =>
                    \/ n.failover_epoch \in disputed'
                    \/ /\ v.failover_state \in {"select_slave", "send_slaveof_noone", "wait_promotion"}
                       /\ n.failover_epoch = v.failover_epoch
                BY <1>5, <1>22, <2>1, <3>4 DEF Handled, won
            <4> QED
                BY <3>3, <4>1, <4>2 DEF Legitimate, v
        <3> QED
            BY <1>12, <1>13, <1>16, <1>20, <1>21, <3>1, <3>2, <3>5, LeadersKept DEF v
    <2>2. CASE won
        <3> DEFINE e == w.failover_epoch
                   c == w.current_epoch
        <3>1. /\ b.failover_state = "wait_start" /\ b.force = FALSE /\ w.failover_state = "select_slave"
              /\ n.failover_state = "select_slave" /\ n.failover_epoch = e /\ b.failover_epoch = e
              /\ b.current_epoch = c /\ n.force = FALSE /\ n.leader_epoch = w.leader_epoch /\ b.votes = v.votes
            BY <1>5, <1>22, <2>2 DEF won, Handled, Run
        <3>2. e # 0 /\ e \in Nat /\ e \in Epoch /\ c \in Epoch
            <4>1. e \in Nat /\ e \in Epoch /\ c \in Epoch
                BY <1>14, EpochType
            <4>2. b.failover_epoch > 0
                BY <1>5, <3>1 DEF Handled, Sane
            <4> HIDE DEF e
            <4> QED
                BY <3>1, <4>1, <4>2
        <3>3. <<e, s, e>> \notin elected
            <4>1. CASE v.failover_state = "wait_start" /\ b.failover_epoch = v.failover_epoch
                BY <3>1, <4>1 DEF IInv, Leaders, v
            <4>2. CASE b.failover_epoch > v.leader_epoch
                <5>1. <<e, s, e>> \in elected => e <= v.leader_epoch
                    BY DEF IInv, Configurations, v
                <5> HIDE DEF e
                <5> QED
                    BY <1>3, <3>1, <3>2, <4>2, <5>1
            <4> QED
                BY <1>5, <3>1, <4>1, <4>2 DEF Handled
        <3>4. elected' = elected \cup {<<e, s, c>>}
            BY <1>9, <2>2
        <3>5. c # e => e \in disputed'
            <4>1. \A g \in elected' : g[1] # g[3] => g[1] \in disputed'
                BY <1>9
            <4> DEFINE g == <<e, s, c>>
            <4> HIDE DEF e, c
            <4>2. g \in elected' /\ g[1] = e /\ g[3] = c
                BY <3>4
            <4> HIDE DEF g
            <4> QED
                BY <4>1, <4>2
        <3>6. c = e => e <= n.leader_epoch /\ Cardinality(Electors(e, s)') >= Quorum
            <4> SUFFICES ASSUME c = e PROVE e <= n.leader_epoch /\ Cardinality(Electors(e, s)') >= Quorum
                OBVIOUS
            <4>1. PICK W \in SUBSET Sentinel : ElectedBy(b, w, s, W)
                BY <1>6, <3>1
            <4>2. w.leader_epoch >= e /\ w.leader_epoch \in Nat
                BY <1>6, <1>14, <3>1, EpochType
            <4>3. \A t \in W : <<t, e, s>> \in ballots'
                <5> SUFFICES ASSUME NEW t \in W PROVE <<t, e, s>> \in ballots'
                    OBVIOUS
                <5>1. s # NoOne
                    BY SentinelAssumption
                <5>2. CASE v.votes[t] = [leader |-> s, epoch |-> e]
                    <6>1. v.votes[t].leader = s /\ v.votes[t].epoch = e
                        BY <5>2
                    <6> QED
                        BY <1>20, <5>1, <6>1 DEF IInv, Votes, v
                <5>3. CASE t = s /\ w.leader = s /\ w.leader_epoch = e
                    BY <1>9, <5>1, <5>3 DEF RecordVote
                <5> QED
                    BY <3>1, <4>1, <5>2, <5>3 DEF ElectedBy
            <4>4. Cardinality(W) >= Quorum
                BY <4>1 DEF ElectedBy
            <4>5. Cardinality(Electors(e, s)') >= Quorum
                <5> HIDE DEF e
                <5> QED
                    BY <4>3, <4>4, Enough
            <4>6. e <= n.leader_epoch
                <5> HIDE DEF e
                <5> QED
                    BY <3>1, <3>2, <4>2
            <4> QED
                BY <4>5, <4>6
        <3> HIDE DEF e, c
        <3>7. n.leader_epoch >= view[s].leader_epoch
            BY <1>21 DEF v
        <3> QED
            BY <1>12, <1>13, <1>16, <1>19, <1>20, <3>1, <3>2, <3>3, <3>4, <3>5, <3>6, <3>7, ElectionInv
    <2> QED
        BY <2>1, <2>2
<1>24. Forward
    BY <1>12, <1>21, ForwardStep DEF IInv, v
<1> QED
    BY <1>16, <1>17, <1>19, <1>23, <1>24 DEF IInv

-----------------------------------------------------------------------------
(* Servers. *)

LEMMA ServersInv ==
    ASSUME IInv, Types', UNCHANGED <<view, disk, ballots, elected, disputed>>
    PROVE  IInv' /\ Forward
<1>1. Views'
    BY DEF IInv, Views, Sane, OnDisk
<1>2. Votes' /\ Elections'
    BY VotesKept DEF IInv
<1>3. Configs' = Configs
    BY DEF Configs, Address, sentinelGetCurrentMasterAddress
<1>4. Configurations' /\ Leaders'
    BY <1>3 DEF IInv, Configurations, Leaders
<1>5. \A s \in Sentinel : view[s].leader_epoch \in Nat /\ view[s].config_epoch \in Nat
    BY EpochsOf DEF IInv
<1>6. Forward
    BY <1>5 DEF Forward
<1> QED
    BY <1>1, <1>2, <1>4, <1>6 DEF IInv

LEMMA ServerObeysInv ==
    ASSUME IInv, NEW o \in orders, ServerObeys(o)
    PROVE  IInv' /\ Forward
<1>1. o.to \in Redis /\ o.of \in Redis \cup {NoOne}
    BY DEF IInv, Types
<1>2. Types'
    BY <1>1 DEF IInv, Types, ServerObeys
<1> QED
    BY <1>2, ServersInv DEF ServerObeys

LEMMA ServerDownInv ==
    ASSUME IInv, NEW r \in Failing, ServerDown(r)
    PROVE  IInv' /\ Forward
<1>1. MaxDown \in Nat /\ faults.down \in 0..MaxDown
    BY SentinelAssumption DEF IInv, Types
<1>2. faults.down + 1 \in 0..MaxDown
    BY <1>1 DEF ServerDown
<1>3. faults' \in [own : 0..MaxFaults, down : 0..MaxDown, fixes : 0..MaxFixes]
    BY <1>2 DEF ServerDown, IInv, Types
<1>4. Types'
    BY <1>3 DEF IInv, Types, ServerDown
<1> QED
    BY <1>4, ServersInv DEF ServerDown

LEMMA ServerUpInv ==
    ASSUME IInv, NEW r \in Failing, ServerUp(r)
    PROVE  IInv' /\ Forward
<1>1. Types'
    BY SentinelAssumption DEF IInv, Types, ServerUp
<1> QED
    BY <1>1, ServersInv DEF ServerUp

-----------------------------------------------------------------------------
(* Every step keeps the inductive invariant, and no epoch goes back. *)
LEMMA NextInv == ASSUME IInv, [Next]_vars PROVE IInv' /\ Forward
<1>1. ASSUME NEW s \in Sentinel, sentinelTimer(s) PROVE IInv' /\ Forward
    <2>1. PICK late \in BOOLEAN, reported \in BOOLEAN,
              old \in SUBSET (view[s].master_down \cup {t \in view[s].sentinels : view[s].votes[t] # NoVote}),
              expired \in SUBSET {r \in view[s].slaves : "sent" \in view[s].reconf[r]} :
            /\ reported => view[s].reports_slave /\ (view[s].addr \in view[s].s_down \/ faults.own < MaxFaults)
            /\ Handle(s, (Redis \ up) \cup (IF reported THEN {view[s].addr} ELSE {}), late, old, expired)
            /\ faults' = IF reported /\ view[s].addr \notin view[s].s_down
                         THEN [faults EXCEPT !.own = @ + 1] ELSE faults
        BY <1>1, Zenon DEF sentinelTimer
    <2>2. (Redis \ up) \cup (IF reported THEN {view[s].addr} ELSE {}) \in SUBSET Redis
        BY DEF IInv, Types, View
    <2>3. faults' \in [own : 0..MaxFaults, down : 0..MaxDown, fixes : 0..MaxFixes]
        <3>1. CASE reported /\ view[s].addr \notin view[s].s_down
            BY <2>1, <3>1, FaultType DEF IInv
        <3>2. CASE ~(reported /\ view[s].addr \notin view[s].s_down)
            BY <2>1, <3>2 DEF IInv, Types
        <3> QED
            BY <3>1, <3>2
    <2> QED
        BY <2>1, <2>2, <2>3, HandleInv
<1>2. ASSUME NEW s \in Sentinel, sentinelCheckTiltCondition(s) PROVE IInv' /\ Forward
    BY <1>2, TiltInv
<1>3. ASSUME NEW s \in Sentinel, Restart(s) PROVE IInv' /\ Forward
    BY <1>3, RestartInv
<1>4. ASSUME NEW s \in Sentinel, sentinelFailoverCommand(s) PROVE IInv' /\ Forward
    BY <1>4, FailoverCommandInv
<1>5. ASSUME NEW s \in Sentinel, sentinelResetMastersByPattern(s) PROVE IInv' /\ Forward
    BY <1>5, ResetInv
<1>6. ASSUME NEW s \in Sentinel, NEW r \in Redis, NEW late \in BOOLEAN, NEW linked \in BOOLEAN,
             sentinelRefreshInstanceInfo(s, r, late, linked)
      PROVE  IInv' /\ Forward
    BY <1>6, RefreshInv
<1>7. ASSUME NEW s \in Sentinel, NEW t \in Sentinel, isMasterDownQuestion(s, t) PROVE IInv' /\ Forward
    BY <1>7, QuestionInv
<1>8. ASSUME NEW s \in Sentinel, NEW q \in asks, NEW lost \in BOOLEAN, isMasterDownByAddr(q, s, lost)
      PROVE  IInv' /\ Forward
    BY <1>8, RequestInv
<1>9. ASSUME NEW s \in Sentinel, NEW t \in Sentinel \ {s}, sentinelProcessHelloMessage(s, sentinelSendHello(t))
      PROVE  IInv' /\ Forward
    BY <1>9, HelloInv
<1>10. ASSUME NEW o \in orders, ServerObeys(o) PROVE IInv' /\ Forward
    BY <1>10, ServerObeysInv
<1>11. ASSUME NEW r \in Failing, ServerDown(r) \/ ServerUp(r) PROVE IInv' /\ Forward
    BY <1>11, ServerDownInv, ServerUpInv
<1>12. CASE UNCHANGED vars
    <2>1. Types'
        BY <1>12 DEF IInv, Types, vars
    <2> QED
        BY <1>12, <2>1, ServersInv DEF vars
<1> QED
    BY <1>1, <1>2, <1>3, <1>4, <1>5, <1>6, <1>7, <1>8, <1>9, <1>10, <1>11, <1>12 DEF Next

-----------------------------------------------------------------------------
(* The inductive invariant holds in every reachable state of sentinel.c as *)
(* modelled, for any sentinels, servers and bounds.                        *)
THEOREM Invariance == Spec => []IInv
<1>1. Init => IInv
    BY InitInv
<1>2. IInv /\ [Next]_vars => IInv'
    BY NextInv
<1> QED
    BY <1>1, <1>2, PTL DEF Spec

(* Every variable keeps the values its declaration in sentinel.c allows,   *)
(* no sentinel knows itself, and the master is never one of its slaves.    *)
THEOREM TypeCorrect == Spec => []TypeOK
<1>1. IInv => TypeOK
    <2> SUFFICES ASSUME IInv PROVE TypeOK
        OBVIOUS
    <2>1. ASSUME NEW s \in Sentinel
          PROVE  /\ view[s].failover_state \in FailoverState \ {"update_config"}
                 /\ view[s].current_epoch \in 0..MaxEpoch
                 /\ view[s].addr \in Redis
                 /\ view[s].slaves \subseteq Redis \ {view[s].addr}
                 /\ view[s].sentinels \subseteq Sentinel \ {s}
                 /\ view[s].reconf \in [Redis -> Reconf]
        <3>1. view[s] \in View /\ Sane(view[s]) /\ s \notin view[s].sentinels
            BY DEF IInv, Types, Views
        <3> QED
            BY <3>1 DEF View, Sane, Epoch
    <2> QED
        BY <2>1 DEF IInv, Types, TypeOK
<1> QED
    BY <1>1, Invariance, PTL

(* sentinelGetLeader never elects two sentinels by votes of one epoch,     *)
(* because each election has a quorum of votes, which are never given      *)
(* twice, not even by a sentinel that crashed after sentinelVoteLeader.    *)
THEOREM OneLeaderPerEpochHolds == Spec => []OneLeaderPerEpoch
<1>1. IInv => OneLeaderPerEpoch
    BY OneLeader DEF IInv
<1> QED
    BY <1>1, Invariance, PTL

(* Two sentinels with the same configuration epoch announce the same       *)
(* master by sentinelSendHello, unless the epoch is disputed.              *)
THEOREM OneConfigPerEpochHolds == Spec => []OneConfigPerEpoch
<1>1. IInv => OneConfigPerEpoch
    <2> SUFFICES ASSUME IInv, NEW s \in Sentinel, NEW t \in Sentinel,
                        view[s].config_epoch = view[t].config_epoch, view[s].config_epoch \notin disputed
                 PROVE  sentinelGetCurrentMasterAddress(view[s]) = sentinelGetCurrentMasterAddress(view[t])
        BY DEF OneConfigPerEpoch
    <2> DEFINE c == ConfigOf(view[s])
               d == ConfigOf(view[t])
    <2>1. c \in Configs /\ d \in Configs
        BY InConfigs
    <2>2. /\ c[1] = view[s].config_epoch /\ c[2] = sentinelGetCurrentMasterAddress(view[s])
          /\ d[1] = view[t].config_epoch /\ d[2] = sentinelGetCurrentMasterAddress(view[t])
        BY DEF ConfigOf
    <2> HIDE DEF c, d
    <2> QED
        BY <2>1, <2>2 DEF IInv, Configurations
<1> QED
    BY <1>1, Invariance, PTL

(* sentinelFailoverSendSlaveOfNoOne, sentinelRefreshInstanceInfo and       *)
(* sentinelFailoverReconfNextSlave never read a promoted slave that is     *)
(* not there.                                                              *)
THEOREM PromotedWhenReadHolds == Spec => []PromotedWhenRead
<1>1. IInv => PromotedWhenRead
    <2> SUFFICES ASSUME IInv, NEW s \in Sentinel
                 PROVE  /\ view[s].failover_state \in Promoting => view[s].promoted \in view[s].slaves
                        /\ \A r \in view[s].slaves : view[s].reconf[r] \cap {"sent", "inprog"} # {}
                              => view[s].promoted # NoOne
        BY DEF PromotedWhenRead, Promoting
    <2>1. Sane(view[s]) /\ view[s].slaves \in SUBSET Redis /\ NoOne \notin Redis
        BY SentinelAssumption DEF IInv, Types, Views, View
    <2> QED
        BY <2>1 DEF Sane, Promoting
<1> QED
    BY <1>1, Invariance, PTL

(* The epoch of a sentinel's vote never goes back, not even by a crash;    *)
(* its configuration only by a crash or when its own failover ends.        *)
THEOREM EpochsNeverGoBackHolds == Spec => EpochsNeverGoBack
<1>1. IInv /\ [Next]_vars =>
        [\A s \in Sentinel :
            /\ view'[s].leader_epoch >= view[s].leader_epoch
            /\ view'[s].config_epoch < view[s].config_epoch =>
                \/ Restart(s)
                \/ view[s].failover_state = "wait_promotion" /\ view'[s].config_epoch = view[s].failover_epoch]_vars
    <2> SUFFICES ASSUME IInv, [Next]_vars PROVE Forward
        BY Zenon DEF Forward
    <2> QED
        BY NextInv
<1> QED
    BY <1>1, Invariance, PTL DEF Spec, EpochsNeverGoBack
=============================================================================
