---------------------------- MODULE BERcon_proofs ----------------------------
(***************************************************************************)
(* Proofs about BERcon, for every set of rcons, every list of jobs and     *)
(* every limit on the login attempts: its safety properties, and that it   *)
(* implements the supervised links of RconLink (without fairness).         *)
(***************************************************************************)
EXTENDS BERcon, TLAPS

(* The initial state satisfies the inductive invariant. *)
LEMMA InitInv == RconInit => RconInv
<1> SUFFICES ASSUME RconInit PROVE RconInv
    OBVIOUS
<1>1. RconTypeOK
    BY DEF RconInit, RconTypeOK, NodeState
<1>2. OneReconnectPath /\ CronExactlyWhileUp
    BY DEF RconInit, OneReconnectPath, Waiting, CronExactlyWhileUp
<1>3. FailureBudget /\ CounterInv /\ HoleInv
    BY AttemptsAssumption DEF RconInit, FailureBudget, CounterInv, HoleInv, GaveUp, Waiting
<1> QED
    BY <1>1, <1>2, <1>3 DEF RconInv

(* A step of one rcon changes that rcon only, so the invariant, which      *)
(* speaks of the rcons one by one, is checked for the rcon that steps.     *)
LEMMA EventInv ==
    ASSUME RconInv, NEW r \in Rcon,
           \/ LoginError(r) \/ LoginOk(r) \/ LoginRefused(r)
           \/ Disconnected(r) \/ RetryTimer(r) \/ RedialTimer(r)
    PROVE  RconInv'
<1> USE AttemptsAssumption DEF RconInv
<1>0. Schedulable \in SUBSET Jobs
    BY DEF Schedulable
<1>1. CASE LoginError(r)
    <2>1. RconTypeOK'
        BY <1>1 DEF LoginError, RconTypeOK, NodeState
    <2>2. OneReconnectPath'
        BY <1>1 DEF LoginError, RconTypeOK, OneReconnectPath, Waiting
    <2>3. CronExactlyWhileUp'
        BY <1>1 DEF LoginError, RconTypeOK, CronExactlyWhileUp, Schedulable
    <2>4. FailureBudget'
        <3>1. /\ bnode' = [bnode EXCEPT ![r] = "dead"]
              /\ failures' = [failures EXCEPT ![r] = failures[r] + 1]
              /\ redial' = redial /\ attempts' = attempts /\ holed' = holed
              /\ failures[r] = attempts[r] /\ retry[r] = 0 /\ redial[r] = 0
            BY <1>1 DEF LoginError, RconTypeOK, OneReconnectPath, FailureBudget, Waiting
        <3>2. CASE attempts[r] < MaxLoginAttempts
            <4>1. retry' = [retry EXCEPT ![r] = 1]
                BY <1>1, <3>1, <3>2 DEF LoginError, RconTypeOK
            <4> QED
                BY <3>1, <3>2, <4>1 DEF RconTypeOK, FailureBudget, GaveUp, Waiting
        <3>3. CASE ~(attempts[r] < MaxLoginAttempts)
            <4>1. retry' = retry /\ attempts[r] = MaxLoginAttempts
                BY <1>1, <3>3 DEF LoginError, RconTypeOK, CounterInv
            <4> QED
                BY <3>1, <4>1 DEF RconTypeOK, FailureBudget, GaveUp, Waiting
        <3> QED
            BY <3>2, <3>3
    <2>5. CounterInv'
        BY <1>1 DEF LoginError, RconTypeOK, CounterInv
    <2>6. HoleInv'
        BY <1>1 DEF LoginError, RconTypeOK, HoleInv, Waiting, Rejectable, Schedulable
    <2> QED
        BY <2>1, <2>2, <2>3, <2>4, <2>5, <2>6
<1>2. CASE LoginOk(r)
    <2> PICK rejected \in SUBSET Rejectable :
            /\ cron' = [cron EXCEPT ![r] = Schedulable \ rejected]
            /\ holed' = IF rejected = {} THEN holed ELSE holed \cup {r}
        BY <1>2 DEF LoginOk, HoleInv, initCronJobs
    <2>0. /\ bnode[r] = "pending" /\ r \notin holed
          /\ bnode' = [bnode EXCEPT ![r] = "up"]
          /\ attempts' = [attempts EXCEPT ![r] = 0]
          /\ failures' = [failures EXCEPT ![r] = 0]
          /\ UNCHANGED <<retry, redial, bercons>>
        BY <1>2 DEF LoginOk, HoleInv
    <2>1. RconTypeOK'
        BY <2>0, <1>0 DEF RconTypeOK, NodeState
    <2>2. OneReconnectPath'
        BY <2>0 DEF RconTypeOK, OneReconnectPath, Waiting
    <2>3. CronExactlyWhileUp'
        BY <2>0 DEF RconTypeOK, CronExactlyWhileUp, Schedulable
    <2>4. FailureBudget'
        BY <2>0 DEF RconTypeOK, OneReconnectPath, FailureBudget, CounterInv, GaveUp, Waiting
    <2>5. CounterInv'
        BY <2>0 DEF RconTypeOK, OneReconnectPath, CounterInv, Waiting
    <2>6. HoleInv'
        BY <2>0 DEF RconTypeOK, OneReconnectPath, HoleInv, Waiting, Rejectable, Schedulable
    <2> QED
        BY <2>1, <2>2, <2>3, <2>4, <2>5, <2>6
<1>3. CASE LoginRefused(r)
    <2>1. RconTypeOK'
        BY <1>3 DEF LoginRefused, RconTypeOK, NodeState
    <2>2. OneReconnectPath'
        BY <1>3 DEF LoginRefused, RconTypeOK, OneReconnectPath, Waiting
    <2>3. CronExactlyWhileUp'
        BY <1>3 DEF LoginRefused, RconTypeOK, CronExactlyWhileUp, Schedulable
    <2>4. FailureBudget'
        BY <1>3 DEF LoginRefused, RconTypeOK, FailureBudget, GaveUp, Waiting
    <2>5. CounterInv'
        BY <1>3 DEF LoginRefused, RconTypeOK, CounterInv
    <2>6. HoleInv'
        BY <1>3 DEF LoginRefused, RconTypeOK, HoleInv, Waiting, Rejectable, Schedulable
    <2> QED
        BY <2>1, <2>2, <2>3, <2>4, <2>5, <2>6
<1>4. CASE Disconnected(r)
    <2>1. RconTypeOK'
        BY <1>4 DEF Disconnected, RconTypeOK, NodeState, cancelCronJobs
    <2>2. OneReconnectPath'
        BY <1>4 DEF Disconnected, RconTypeOK, OneReconnectPath, Waiting
    <2>3. CronExactlyWhileUp'
        BY <1>4 DEF Disconnected, RconTypeOK, CronExactlyWhileUp, cancelCronJobs, Schedulable
    <2>4. FailureBudget'
        BY <1>4 DEF Disconnected, RconTypeOK, OneReconnectPath, FailureBudget, CounterInv,
                    GaveUp, Waiting
    <2>5. CounterInv'
        BY <1>4 DEF Disconnected, RconTypeOK, CounterInv
    <2>6. HoleInv'
        BY <1>4 DEF Disconnected, RconTypeOK, HoleInv, Waiting, Rejectable, Schedulable
    <2> QED
        BY <2>1, <2>2, <2>3, <2>4, <2>5, <2>6
<1>5. CASE RetryTimer(r)
    <2>1. RconTypeOK'
        BY <1>5 DEF RetryTimer, RconTypeOK, NodeState, reInit
    <2>2. OneReconnectPath'
        BY <1>5 DEF RetryTimer, RconTypeOK, OneReconnectPath, Waiting, reInit
    <2>3. CronExactlyWhileUp'
        BY <1>5 DEF RetryTimer, RconTypeOK, OneReconnectPath, Waiting, CronExactlyWhileUp,
                    reInit, Schedulable
    <2>4. FailureBudget'
        BY <1>5 DEF RetryTimer, RconTypeOK, OneReconnectPath, FailureBudget, CounterInv,
                    GaveUp, Waiting, reInit
    <2>5. CounterInv'
        BY <1>5 DEF RetryTimer, RconTypeOK, OneReconnectPath, CounterInv, Waiting, reInit
    <2>6. HoleInv'
        BY <1>5 DEF RetryTimer, RconTypeOK, HoleInv, Waiting, Rejectable, Schedulable, reInit
    <2> QED
        BY <2>1, <2>2, <2>3, <2>4, <2>5, <2>6
<1>6. CASE RedialTimer(r)
    <2>1. RconTypeOK'
        BY <1>6 DEF RedialTimer, RconTypeOK, NodeState, reInit
    <2>2. OneReconnectPath'
        BY <1>6 DEF RedialTimer, RconTypeOK, OneReconnectPath, Waiting, reInit
    <2>3. CronExactlyWhileUp'
        BY <1>6 DEF RedialTimer, RconTypeOK, OneReconnectPath, Waiting, CronExactlyWhileUp,
                    reInit, Schedulable
    <2>4. FailureBudget'
        BY <1>6 DEF RedialTimer, RconTypeOK, OneReconnectPath, FailureBudget, CounterInv,
                    GaveUp, Waiting, reInit
    <2>5. CounterInv'
        BY <1>6 DEF RedialTimer, RconTypeOK, CounterInv, reInit
    <2>6. HoleInv'
        BY <1>6 DEF RedialTimer, RconTypeOK, HoleInv, Waiting, Rejectable, Schedulable, reInit
    <2> QED
        BY <2>1, <2>2, <2>3, <2>4, <2>5, <2>6
<1> QED
    BY <1>1, <1>2, <1>3, <1>4, <1>5, <1>6

(* So does a call of the owner, which may close and make any number.       *)
LEMMA OwnerInv ==
    ASSUME RconInv, Owner
    PROVE  RconInv'
<1> USE AttemptsAssumption DEF RconInv
<1> PICK closed \in SUBSET (Closable \ holed), broken \in SUBSET (Closable \cap holed),
         made \in SUBSET Unborn :
        \E dialing \in bindChannels(made) : initBERcon(closed, broken, made, dialing)
    BY DEF Owner
<1> PICK dialing \in SUBSET made : initBERcon(closed, broken, made, dialing)
    BY DEF bindChannels
<1>1. RconTypeOK'
    BY DEF initBERcon, init, RconTypeOK, NodeState, Unborn
<1>2. OneReconnectPath'
    BY DEF initBERcon, init, RconTypeOK, OneReconnectPath, Waiting, Unborn
<1>3. CronExactlyWhileUp'
    BY DEF initBERcon, init, RconTypeOK, CronExactlyWhileUp, Unborn, Closable, Schedulable
<1>4. FailureBudget'
    BY DEF initBERcon, init, RconTypeOK, OneReconnectPath, FailureBudget, CounterInv, GaveUp,
           Waiting, Unborn
<1>5. CounterInv'
    BY DEF initBERcon, init, RconTypeOK, CounterInv, Unborn
<1>6. HoleInv'
    BY DEF initBERcon, RconTypeOK, HoleInv, Waiting, Unborn, Rejectable, Schedulable
<1> QED
    BY <1>1, <1>2, <1>3, <1>4, <1>5, <1>6

(* Every step preserves the inductive invariant. *)
LEMMA NextInv == RconInv /\ [RconNext]_rconVars => RconInv'
<1> SUFFICES ASSUME RconInv, [RconNext]_rconVars PROVE RconInv'
    OBVIOUS
<1>1. CASE RconEvent
    BY <1>1, EventInv DEF RconEvent
<1>2. CASE Owner
    BY <1>2, OwnerInv
<1>3. CASE UNCHANGED rconVars
    BY <1>3 DEF rconVars, RconInv, RconTypeOK, OneReconnectPath, CronExactlyWhileUp,
                FailureBudget, CounterInv, HoleInv, GaveUp, Waiting, Schedulable, Rejectable
<1> QED
    BY <1>1, <1>2, <1>3 DEF RconNext

(* The invariant holds in every reachable state. *)
THEOREM RconInvariant == RconSafety => []RconInv
    BY InitInv, NextInv, PTL DEF RconSafety

(* Every variable keeps its type. *)
THEOREM RconTypeCorrect == RconSafety => []RconTypeOK
    BY RconInvariant, PTL DEF RconInv

(* At most one timer of an rcon is pending, and none while its node is     *)
(* logging in or logged in: reInit never replaces a live node.             *)
THEOREM RconOneReconnectPath == RconSafety => []OneReconnectPath
    BY RconInvariant, PTL DEF RconInv

(* The jobs of a server are scheduled exactly while its rcon is logged in, *)
(* unless the scheduler rejected one of them.                              *)
THEOREM RconCron == RconSafety => []CronExactlyWhileUp
    BY RconInvariant, PTL DEF RconInv

(* An rcon gives up after exactly MaxLoginAttempts + 1 failures in a row,  *)
(* unless the scheduler rejected one of its jobs.                          *)
THEOREM RconFailureBudget == RconSafety => []FailureBudget
    BY RconInvariant, PTL DEF RconInv

-----------------------------------------------------------------------------
(* Refinement of RconLink. *)

\* The link of one rcon, case by case.
LinkFact(r) ==
    /\ linkOf[r] = "absent" <=> bnode[r] = "unborn"
    /\ bnode[r] = "fresh" => linkOf[r] = "idle"
    /\ linkOf[r] = "dialing" <=> bnode[r] = "pending" \/ Waiting(r)
    /\ linkOf[r] = "up" <=> bnode[r] = "up"
    /\ bnode[r] = "null" /\ ~Waiting(r) => linkOf[r] = "closed"
    /\ bnode[r] = "refused" \/ GaveUp(r) => linkOf[r] = "down"

LinkFacts == \A r \in Rcon : LinkFact(r)

(* The mapping, case by case: what a link is, from the node and the timers. *)
LEMMA LinkCases == RconInv => LinkFacts
<1> SUFFICES ASSUME RconInv, NEW r \in Rcon PROVE LinkFact(r)
    BY DEF LinkFacts
<1>1. Waiting(r) => bnode[r] \in {"dead", "null"}
    BY DEF RconInv, OneReconnectPath
<1>2. bnode[r] \in NodeState
    BY DEF RconInv, RconTypeOK
<1> QED
    BY <1>1, <1>2 DEF NodeState, linkOf, linkState, GaveUp, LinkFact

(* The same in the next state. *)
LEMMA LinkCasesNext == RconInv' => LinkFacts'
    BY LinkCases, PTL

\* What is left alone keeps its link.
LEMMA LinkSame ==
    ASSUME NEW r \in Rcon, bnode'[r] = bnode[r], retry'[r] = retry[r],
           redial'[r] = redial[r]
    PROVE  linkOf'[r] = linkOf[r]
    BY DEF linkOf, linkState, Waiting

(* A step of one rcon resolves or loses its link, or leaves it dialing. *)
LEMMA EventLink ==
    ASSUME Rejectable = {}, RconInv, RconInv', NEW r \in Rcon,
           \/ LoginError(r) \/ LoginOk(r) \/ LoginRefused(r)
           \/ Disconnected(r) \/ RetryTimer(r) \/ RedialTimer(r)
    PROVE  [Link!LinkNext]_(Link!linkVars)
<1> DEFINE s == linkOf'[r]
<1>1. /\ bercons' = bercons
      /\ \A q \in Rcon \ {r} :
            bnode'[q] = bnode[q] /\ retry'[q] = retry[q] /\ redial'[q] = redial[q]
    BY DEF RconInv, RconTypeOK, LoginError, LoginOk, LoginRefused, Disconnected, RetryTimer,
           RedialTimer, reInit
<1>2. linkOf' = [linkOf EXCEPT ![r] = s]
    <2>1. \A q \in Rcon \ {r} : linkOf'[q] = linkOf[q]
        BY <1>1, LinkSame
    <2>2. linkOf = [q \in Rcon |-> linkOf[q]] /\ linkOf' = [q \in Rcon |-> linkOf'[q]]
        BY DEF linkOf
    <2> QED
        BY <2>1, <2>2
<1>3. CASE linkOf[r] = "dialing" /\ s \in {"up", "down"}
    <2>1. Link!Resolve(r)
        BY <1>1, <1>2, <1>3 DEF Link!Resolve
    <2> QED
        BY <2>1 DEF Link!LinkNext
<1>4. CASE linkOf[r] = "up" /\ s = "dialing"
    <2>1. Link!Lose(r)
        BY <1>1, <1>2, <1>4 DEF Link!Lose
    <2> QED
        BY <2>1 DEF Link!LinkNext
<1>5. CASE s = linkOf[r]
    <2>1. linkOf' = linkOf
        BY <1>2, <1>5 DEF linkOf
    <2> QED
        BY <2>1, <1>1 DEF Link!linkVars
<1>6. \/ linkOf[r] = "dialing" /\ s \in {"up", "down", "dialing"}
      \/ linkOf[r] = "up" /\ s = "dialing"
    <2>1. CASE bnode[r] = "pending" /\ bnode'[r] \in {"dead", "up", "refused"}
        BY <2>1, LinkCases, LinkCasesNext DEF LinkFacts, LinkFact, GaveUp
    <2>2. CASE bnode[r] = "up" /\ Waiting(r)'
        BY <2>2, LinkCases, LinkCasesNext DEF LinkFacts, LinkFact
    <2>3. CASE Waiting(r) /\ bnode'[r] = "pending"
        BY <2>3, LinkCases, LinkCasesNext DEF LinkFacts, LinkFact
    <2>4. \/ bnode[r] = "pending" /\ bnode'[r] \in {"dead", "up", "refused"}
          \/ bnode[r] = "up" /\ Waiting(r)'
          \/ Waiting(r) /\ bnode'[r] = "pending"
        BY DEF RconInv, RconTypeOK, HoleInv, LoginError, LoginOk, LoginRefused,
               Disconnected, RetryTimer, RedialTimer, reInit, Waiting
    <2> QED
        BY <2>1, <2>2, <2>3, <2>4
<1> QED
    BY <1>3, <1>4, <1>5, <1>6

(* A call of the owner closes and makes the same links; the rcons closed   *)
(* while a timer was pending are the deaf ones.                            *)
LEMMA OwnerLink ==
    ASSUME Rejectable = {}, RconInv, RconInv', Owner
    PROVE  Link!LinkNext
<1> PICK closed \in SUBSET (Closable \ holed), broken \in SUBSET (Closable \cap holed),
         made \in SUBSET Unborn :
        \E dialing \in bindChannels(made) : initBERcon(closed, broken, made, dialing)
    BY DEF Owner
<1> PICK dialing \in SUBSET made : initBERcon(closed, broken, made, dialing)
    BY DEF bindChannels
<1>0. broken = {}
    BY DEF RconInv, HoleInv
<1> DEFINE deaf == {r \in closed : Waiting(r)}
<1>1. closed \in SUBSET {r \in Rcon : linkOf[r] # "absent"}
    BY LinkCases DEF LinkFacts, LinkFact, Closable
<1>2. made \in SUBSET {r \in Rcon : linkOf[r] = "absent"}
    BY LinkCases DEF LinkFacts, LinkFact, Unborn
<1>3. deaf \in SUBSET {r \in closed : linkOf[r] = "dialing"}
    BY LinkCases DEF LinkFacts, LinkFact, Closable
<1>4. \A r \in Rcon : linkOf'[r] =
            IF r \in made THEN IF r \in dialing THEN "dialing" ELSE "idle"
            ELSE IF r \in closed \ deaf THEN "closed" ELSE linkOf[r]
    <2> SUFFICES ASSUME NEW r \in Rcon
                 PROVE  linkOf'[r] =
                            IF r \in made THEN IF r \in dialing THEN "dialing" ELSE "idle"
                            ELSE IF r \in closed \ deaf THEN "closed" ELSE linkOf[r]
        OBVIOUS
    <2>0. retry' = retry /\ redial' = redial /\ (Waiting(r)' <=> Waiting(r))
        BY DEF initBERcon, Waiting
    <2>1. CASE r \in made
        <3>1. bnode'[r] = IF r \in dialing THEN "pending" ELSE "fresh"
            BY <2>1 DEF initBERcon, init
        <3> QED
            BY <2>1, <3>1, LinkCasesNext DEF LinkFacts, LinkFact
    <2>2. CASE r \notin made /\ r \in closed \ deaf
        <3>1. bnode'[r] = "null" /\ ~Waiting(r)'
            BY <2>0, <2>2 DEF initBERcon
        <3> QED
            BY <2>2, <3>1, LinkCasesNext DEF LinkFacts, LinkFact
    <2>3. CASE r \notin made /\ r \in deaf
        BY <2>0, <2>3, LinkCases, LinkCasesNext DEF LinkFacts, LinkFact
    <2>4. CASE r \notin made /\ r \notin closed
        <3>1. bnode'[r] = bnode[r]
            BY <1>0, <2>4 DEF initBERcon
        <3> QED
            BY <2>0, <2>4, <3>1, LinkSame
    <2> QED
        BY <2>1, <2>2, <2>3, <2>4
<1>5. linkOf' = [r \in Rcon |->
            IF r \in made THEN IF r \in dialing THEN "dialing" ELSE "idle"
            ELSE IF r \in closed \ deaf THEN "closed" ELSE linkOf[r]]
    BY <1>4 DEF linkOf
<1>6. bercons' = (bercons \ closed) \cup made
    BY DEF initBERcon
<1>7. Link!Own(closed, made, dialing)
    BY <1>3, <1>5, <1>6 DEF Link!Own
<1> QED
    BY <1>1, <1>2, <1>7 DEF Link!LinkNext

(* The rcons implement the supervised links when no job can be rejected:   *)
(* whatever the timers and the nodes do, a user sees links that are made,  *)
(* dial, come up, are lost and go down only in the ways RconLink allows.   *)
THEOREM RconImplementsLink ==
    ASSUME Rejectable = {}
    PROVE  RconSafety => Link!LinkSafety
<1>1. RconInit => Link!LinkInit
    BY DEF RconInit, linkOf, linkState, Waiting, Link!LinkInit
<1>2. RconInv /\ RconInv' /\ [RconNext]_rconVars => [Link!LinkNext]_(Link!linkVars)
    <2> SUFFICES ASSUME RconInv, RconInv', [RconNext]_rconVars
                 PROVE  [Link!LinkNext]_(Link!linkVars)
        OBVIOUS
    <2>1. CASE RconEvent
        BY <2>1, EventLink DEF RconEvent
    <2>2. CASE Owner
        BY <2>2, OwnerLink
    <2>3. CASE UNCHANGED rconVars
        BY <2>3 DEF rconVars, linkOf, linkState, Waiting, Link!linkVars
    <2> QED
        BY <2>1, <2>2, <2>3 DEF RconNext
<1> QED
    BY <1>1, <1>2, RconInvariant, PTL DEF RconSafety, Link!LinkSafety
=============================================================================
