------------------------------- MODULE BERcon -------------------------------
(***************************************************************************)
(* The connection life cycle of the rcons of the bot                       *)
(* (lib/modules/z-bot-be-rcon/bercon.js): construction, login, the retry   *)
(* of a failed login, the redial after a lost connection, the scheduled    *)
(* jobs of a connected server, and the teardown done by ZBot.initBERcon.   *)
(*                                                                         *)
(* Every handler runs to completion on the one thread of Node, so one      *)
(* handler is one action; the interleavings are those of the events of     *)
(* BattleNode, of the timers and of the owner's calls.                     *)
(*                                                                         *)
(* BattleNode is an external library.  What is assumed of it: login() is   *)
(* answered by exactly one 'login' event; 'disconnected' comes at most     *)
(* once, after a successful login; a node that was closed emits nothing.   *)
(* Another is node-schedule: scheduleJob returns null for a time it cannot *)
(* parse and for a date that has passed.                                   *)
(***************************************************************************)
EXTENDS Naturals

CONSTANTS
    Rcon,               \* every BERcon object that can ever be constructed
    Jobs,               \* the entries of a server's "jobs" list
    MaxLoginAttempts    \* retries after a failed login; 60 in the code

\* time, text: given and not empty; certain: the time is a recurring one that
\* the scheduler takes whenever it is asked.
ASSUME JobsAssumption ==
    \A j \in Jobs : j.time \in BOOLEAN /\ j.text \in BOOLEAN /\ j.certain \in BOOLEAN
ASSUME AttemptsAssumption == MaxLoginAttempts \in Nat

VARIABLES
    bnode,      \* state of the BattleNode that _bnode holds
    retry,      \* timers pending after a failed login
    redial,     \* timers pending after a lost connection
    attempts,   \* _loginAttempts
    cron,       \* the jobs that are scheduled
    holed,      \* the rcons whose _cronJobs holds a null beside them
    failures,   \* history: failed logins since the last successful one
    bercons     \* ZBot._bercons: the rcons that are handed chat commands

rconVars == <<bnode, retry, redial, attempts, cron, holed, failures, bercons>>

\* "unborn": not constructed; "null": set to null by the teardown; "fresh":
\* constructed, login() not called; "pending": login() called; "up": logged
\* in; "refused": login answered, password wrong; "dead": login failed with
\* an error, or connection lost.
NodeState == {"unborn", "null", "fresh", "pending", "up", "refused", "dead"}

(* One type invariant: the shape of every variable. *)
RconTypeOK ==
    /\ bnode \in [Rcon -> NodeState]
    /\ retry \in [Rcon -> Nat]
    /\ redial \in [Rcon -> Nat]
    /\ attempts \in [Rcon -> Nat]
    /\ cron \in [Rcon -> SUBSET Jobs]
    /\ holed \subseteq Rcon
    /\ failures \in [Rcon -> Nat]
    /\ bercons \subseteq Rcon

RconInit ==
    /\ bnode = [r \in Rcon |-> "unborn"]
    /\ retry = [r \in Rcon |-> 0]
    /\ redial = [r \in Rcon |-> 0]
    /\ attempts = [r \in Rcon |-> 0]
    /\ cron = [r \in Rcon |-> {}]
    /\ holed = {}
    /\ failures = [r \in Rcon |-> 0]
    /\ bercons = {}

-----------------------------------------------------------------------------
(* Helpers of the class. *)

\* Only a job with both a time and a text is given to the scheduler, which
\* may turn down those whose time is not certain.
Schedulable == {j \in Jobs : j.time /\ j.text}
Rejectable == {j \in Schedulable : ~j.certain}

\* The jobs are cancelled in the order of the list and the list is emptied;
\* a null ends this with an exception: the jobs behind it are kept, and so is
\* the list.
cancelCronJobs(r) ==
    IF r \in holed
    THEN \E kept \in SUBSET Jobs : cron' = [cron EXCEPT ![r] = @ \cap kept]
    ELSE cron' = [cron EXCEPT ![r] = {}]

\* initCronJobs cancels what is scheduled and schedules the list anew; a null
\* is put into the list for a job that was rejected.
initCronJobs(r) ==
    IF r \in holed
    THEN cancelCronJobs(r) /\ UNCHANGED holed
    ELSE \E rejected \in SUBSET Rejectable :
            /\ cron' = [cron EXCEPT ![r] = Schedulable \ rejected]
            /\ holed' = IF rejected = {} THEN holed ELSE holed \cup {r}

\* The rcons among those made whose guild has their default text channel:
\* any of them, the channels of a guild being up to its members.
bindChannels(made) == SUBSET made

\* init gives a new rcon its node, which logs in when the channel was found.
init(bound) == IF bound THEN "pending" ELSE "fresh"

\* A new BattleNode replaces the old one, whatever that one is doing, and
\* is told to log in.
reInit(r) == bnode' = [bnode EXCEPT ![r] = "pending"]

-----------------------------------------------------------------------------
(* Events of BattleNode. *)

(* loginAction(err): wait and retry, or give up after the last attempt. *)
LoginError(r) ==
    /\ bnode[r] = "pending"
    /\ bnode' = [bnode EXCEPT ![r] = "dead"]
    /\ failures' = [failures EXCEPT ![r] = @ + 1]
    /\ IF attempts[r] < MaxLoginAttempts
       THEN retry' = [retry EXCEPT ![r] = @ + 1]
       ELSE UNCHANGED retry
    /\ UNCHANGED <<redial, attempts, cron, holed, bercons>>

\* Mutant: the counter is not reset.
LoginOkKeepsAttempts(r) ==
    /\ bnode[r] = "pending"
    /\ bnode' = [bnode EXCEPT ![r] = "up"]
    /\ failures' = [failures EXCEPT ![r] = 0]
    /\ initCronJobs(r)
    /\ UNCHANGED <<retry, redial, attempts, bercons>>

(* loginAction(null, true): connected. *)
LoginOk(r) ==
    /\ bnode[r] = "pending"
    /\ bnode' = [bnode EXCEPT ![r] = "up"]
    /\ attempts' = [attempts EXCEPT ![r] = 0]
    /\ failures' = [failures EXCEPT ![r] = 0]
    /\ initCronJobs(r)
    /\ UNCHANGED <<retry, redial, bercons>>

(* loginAction(null, false): wrong password; nothing is tried again. *)
LoginRefused(r) ==
    /\ bnode[r] = "pending"
    /\ bnode' = [bnode EXCEPT ![r] = "refused"]
    /\ UNCHANGED <<retry, redial, attempts, cron, holed, failures, bercons>>

\* Mutant: the jobs of a lost server stay scheduled.
DisconnectedKeepsJobs(r) ==
    /\ bnode[r] = "up"
    /\ bnode' = [bnode EXCEPT ![r] = "dead"]
    /\ redial' = [redial EXCEPT ![r] = @ + 1]
    /\ UNCHANGED <<retry, attempts, cron, holed, failures, bercons>>

(* 'disconnected' without "stop": the server went away.  When cancelling   *)
(* the jobs throws, the timer is not started.                              *)
Disconnected(r) ==
    /\ bnode[r] = "up"
    /\ bnode' = [bnode EXCEPT ![r] = "dead"]
    /\ cancelCronJobs(r)
    /\ redial' = IF r \in holed THEN redial ELSE [redial EXCEPT ![r] = @ + 1]
    /\ UNCHANGED <<retry, attempts, holed, failures, bercons>>

-----------------------------------------------------------------------------
(* Timers.  Neither is ever cancelled. *)

\* Mutant: setInterval in place of setTimeout.
RetryInterval(r) ==
    /\ retry[r] > 0
    /\ attempts' = [attempts EXCEPT ![r] = @ + 1]
    /\ reInit(r)
    /\ UNCHANGED <<retry, redial, cron, holed, failures, bercons>>

(* The timer of a failed login: one more attempt. *)
RetryTimer(r) ==
    /\ retry[r] > 0
    /\ retry' = [retry EXCEPT ![r] = @ - 1]
    /\ attempts' = [attempts EXCEPT ![r] = @ + 1]
    /\ reInit(r)
    /\ UNCHANGED <<redial, cron, holed, failures, bercons>>

(* The timer of a lost connection: dial again, no attempt is counted. *)
RedialTimer(r) ==
    /\ redial[r] > 0
    /\ redial' = [redial EXCEPT ![r] = @ - 1]
    /\ reInit(r)
    /\ UNCHANGED <<retry, attempts, cron, holed, failures, bercons>>

-----------------------------------------------------------------------------
(* Calls of the owner. *)

\* Mutant: a closed rcon stays in _bercons.
initBERconKeepsRegistered(closed, broken, made, dialing) ==
    /\ bnode' = [r \in Rcon |->
                    IF r \in made THEN init(r \in dialing)
                    ELSE IF r \in closed THEN "null"
                    ELSE IF r \in broken THEN "dead" ELSE bnode[r]]
    /\ \E kept \in SUBSET Jobs :
          cron' = [r \in Rcon |->
                    IF r \in closed THEN {}
                    ELSE IF r \in broken THEN cron[r] \cap kept ELSE cron[r]]
    /\ bercons' = bercons \cup made
    /\ UNCHANGED <<retry, redial, attempts, holed, failures>>

(* What one call of ZBot.initBERcon does to the rcons.  Each rcon that is  *)
(* closed has its node closed, gets 'disconnected' with "stop" (its jobs   *)
(* are cancelled, its timers are not), loses its node and leaves _bercons. *)
(* One that is broken has its node closed, but cancelling its jobs throws: *)
(* it keeps the useless node and its place in _bercons.  Each rcon that is *)
(* made gets a node and joins _bercons, and those that find their default  *)
(* text channel log in.                                                    *)
initBERcon(closed, broken, made, dialing) ==
    /\ bnode' = [r \in Rcon |->
                    IF r \in made THEN init(r \in dialing)
                    ELSE IF r \in closed THEN "null"
                    ELSE IF r \in broken THEN "dead" ELSE bnode[r]]
    /\ \E kept \in SUBSET Jobs :
          cron' = [r \in Rcon |->
                    IF r \in closed THEN {}
                    ELSE IF r \in broken THEN cron[r] \cap kept ELSE cron[r]]
    /\ bercons' = (bercons \ closed) \cup made
    /\ UNCHANGED <<retry, redial, attempts, holed, failures>>

\* Teardown skips an rcon without a node.
Closable == {r \in Rcon : bnode[r] \notin {"unborn", "null"}}
Unborn == {r \in Rcon : bnode[r] = "unborn"}

Owner ==
    \E closed \in SUBSET (Closable \ holed), broken \in SUBSET (Closable \cap holed),
       made \in SUBSET Unborn :
        \E dialing \in bindChannels(made) : initBERcon(closed, broken, made, dialing)

-----------------------------------------------------------------------------
LoginOutcome(r) == LoginError(r) \/ LoginOk(r) \/ LoginRefused(r)

RconEvent ==
    \E r \in Rcon :
        \/ LoginError(r)
        \/ LoginOk(r)
        \/ LoginRefused(r)
        \/ Disconnected(r)
        \/ RetryTimer(r)
        \/ RedialTimer(r)

RconNext == RconEvent \/ Owner

RconSafety == RconInit /\ [][RconNext]_rconVars

(* BattleNode answers or times out every login, and Node runs every timer  *)
(* that is due; nothing makes a server go away or the owner act.           *)
RconFairness ==
    \A r \in Rcon :
        /\ WF_rconVars(LoginOutcome(r))
        /\ WF_rconVars(RetryTimer(r))
        /\ WF_rconVars(RedialTimer(r))

RconSpec == RconSafety /\ RconFairness

-----------------------------------------------------------------------------
(* Properties. *)

Waiting(r) == retry[r] + redial[r] > 0
GaveUp(r) == bnode[r] = "dead" /\ ~Waiting(r)

(* Whatever the order of login answers, losses, timers and teardowns, an   *)
(* rcon has at most one timer pending, and only while it has no working    *)
(* node: a timer never replaces a node that is logging in or logged in, so *)
(* one BERcon never holds two open sockets to its server.                  *)
OneReconnectPath ==
    \A r \in Rcon :
        /\ retry[r] + redial[r] <= 1
        /\ Waiting(r) => bnode[r] \in {"dead", "null"}

(* The scheduled broadcasts of a server run exactly while its rcon is      *)
(* logged in: none survives a loss, a give-up or a teardown, and every     *)
(* login brings all of them back, unless the scheduler rejected one.       *)
CronExactlyWhileUp ==
    \A r \in Rcon \ holed : cron[r] = IF bnode[r] = "up" THEN Schedulable ELSE {}

(* The attempt counter and the failures that really happened agree: an     *)
(* outage starts with the whole budget, the counter lags the failures by   *)
(* the one whose timer has not fired, and an rcon gives up after           *)
(* MaxLoginAttempts + 1 failed logins in a row, never earlier or later,    *)
(* unless a rejected job made its loss or its teardown throw.              *)
FailureBudget ==
    \A r \in Rcon :
        /\ failures[r] <= MaxLoginAttempts + 1
        /\ redial[r] > 0 => attempts[r] = 0 /\ failures[r] = 0
        /\ retry[r] > 0 => failures[r] = attempts[r] + 1
        /\ bnode[r] = "pending" => failures[r] = attempts[r]
        /\ GaveUp(r) /\ r \notin holed => failures[r] = MaxLoginAttempts + 1

(* What the three invariants above rest on: the counter never exceeds its  *)
(* limit, is below it while a retry is due, and is zero before the first   *)
(* login and after a successful one.  With them it is inductive.           *)
CounterInv ==
    \A r \in Rcon :
        /\ attempts[r] <= MaxLoginAttempts
        /\ retry[r] > 0 => attempts[r] < MaxLoginAttempts
        /\ bnode[r] \in {"unborn", "up"} => attempts[r] = 0 /\ failures[r] = 0

(* A rejected job is final: an rcon that has one was logged in with it and *)
(* never dials again, so no login finds a null in the list.                *)
HoleInv ==
    \A r \in holed : Rejectable # {} /\ bnode[r] \in {"up", "dead"} /\ ~Waiting(r)

RconInv ==
    /\ RconTypeOK /\ OneReconnectPath /\ CronExactlyWhileUp /\ FailureBudget
    /\ CounterInv /\ HoleInv

(* The rcons implement the supervised links of RconLink: a link is dialing *)
(* while its login is pending or a timer will start one.                   *)
linkState(r) ==
    CASE bnode[r] = "unborn" -> "absent"
      [] bnode[r] = "fresh" -> "idle"
      [] bnode[r] = "pending" \/ Waiting(r) -> "dialing"
      [] bnode[r] = "up" -> "up"
      [] bnode[r] = "null" /\ ~Waiting(r) -> "closed"
      [] OTHER -> "down"

linkOf == [r \in Rcon |-> linkState(r)]

Link == INSTANCE RconLink WITH link <- linkOf, registered <- bercons

(* As long as no job can be rejected, every behaviour of the rcons is a    *)
(* behaviour of supervised links, fairness included.                       *)
ImplementsRconLink == Link!LinkSpec
=============================================================================
