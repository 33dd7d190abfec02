------------------------------ MODULE RconLink ------------------------------
(***************************************************************************)
(* What an rcon promises to the rest of the bot: a supervised link to one  *)
(* game server.  A link that is made dials until it is up or goes down for *)
(* good; a link that is lost dials again; only the owner (ZBot.initBERcon) *)
(* makes links and closes them.  Everything about timers, attempt counters *)
(* and BattleNode objects is left to BERcon, which implements this module. *)
(***************************************************************************)

CONSTANT Rcon           \* every BERcon object that can ever be constructed

VARIABLES
    link,               \* what a user of the rcon can tell about it
    registered          \* the rcons the bot hands commands to

linkVars == <<link, registered>>

\* "idle": no default text channel, so the rcon never dials; "down": refused
\* or given up, nothing will dial again; "closed": closed by the owner.
LinkState == {"absent", "idle", "dialing", "up", "down", "closed"}

LinkTypeOK ==
    /\ link \in [Rcon -> LinkState]
    /\ registered \subseteq Rcon

LinkInit ==
    /\ link = [r \in Rcon |-> "absent"]
    /\ registered = {}

(* A dialing link ends up connected or down. *)
Resolve(r) ==
    /\ link[r] = "dialing"
    /\ \E s \in {"up", "down"} : link' = [link EXCEPT ![r] = s]
    /\ UNCHANGED registered

(* The server goes away: the link dials again. *)
Lose(r) ==
    /\ link[r] = "up"
    /\ link' = [link EXCEPT ![r] = "dialing"]
    /\ UNCHANGED registered

(* The owner closes some rcons and makes new ones.  Closing is only sure   *)
(* to work on a link that is not dialing: "deaf" are the closed rcons that *)
(* were waiting to dial and will do so all the same.                       *)
Own(closed, made, dialing) ==
    \E deaf \in SUBSET {r \in closed : link[r] = "dialing"} :
        /\ link' = [r \in Rcon |->
                        IF r \in made
                        THEN IF r \in dialing THEN "dialing" ELSE "idle"
                        ELSE IF r \in closed \ deaf THEN "closed" ELSE link[r]]
        /\ registered' = (registered \ closed) \cup made

LinkNext ==
    \/ \E r \in Rcon : Resolve(r) \/ Lose(r)
    \/ \E closed \in SUBSET {r \in Rcon : link[r] # "absent"},
          made \in SUBSET {r \in Rcon : link[r] = "absent"} :
            \E dialing \in SUBSET made : Own(closed, made, dialing)

LinkSafety == LinkInit /\ [][LinkNext]_linkVars

LinkSpec == LinkSafety /\ \A r \in Rcon : WF_linkVars(Resolve(r))
=============================================================================
