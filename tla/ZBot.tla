-------------------------------- MODULE ZBot --------------------------------
(***************************************************************************)
(* The bot's registry of guilds and rcons (lib/modules/z-bot-module/       *)
(* zbot.js, with the Discord events of lib/modules/z-bot-events/events.js  *)
(* that reach it): startup, guilds that join and leave, the configurations *)
(* kept in redis by the web panel and read with asynchronous commands, and *)
(* initBERcon, which makes and closes the rcons of BERcon.                 *)
(*                                                                         *)
(* An exception thrown by a handler ends that handler at that point and    *)
(* nothing else: events.js installs an uncaughtException handler.          *)
(***************************************************************************)
EXTENDS BERcon, Sequences, FiniteSets

CONSTANTS
    Guild,          \* Discord guilds
    MaxServers,     \* most game servers in one configuration
    MaxCalls,       \* bound: calls that may lead to initBERcon
    Setups          \* the installations: see SetupType

\* form: "unparsable" (not JSON), "shapeless" (JSON without bercon) or "ok";
\* enabled: bercon.enabled is true or 'on'; servers: how many are listed;
\* bad: the first one whose constructor throws (no channels), 0 for none.
ConfigType ==
    [form : {"ok", "unparsable", "shapeless"}, enabled : BOOLEAN,
     servers : 0..MaxServers, bad : 0..MaxServers]

\* guilds: the ones that can have the bot; redis: useRedis of config.js;
\* default: the configuration there, which a guild has until it is given one;
\* configs: the ones the web panel can save; saves, calls: bounds on the saves
\* per guild and on the calls.
SetupType ==
    [guilds : SUBSET Guild, redis : BOOLEAN, default : ConfigType,
     configs : SUBSET ConfigType, saves : Nat, calls : 0..MaxCalls]

ASSUME ConfigAssumption ==
    /\ MaxServers \in Nat /\ MaxCalls \in Nat
    /\ Setups \subseteq SetupType
    /\ \A s \in Setups : s.default.form = "ok"

\* The rcon of a guild's s-th server made by the n-th call.
ASSUME RconAssumption == Rcon = Guild \X (1..MaxServers) \X (1..MaxCalls)

VARIABLES
    setup,      \* the installation
    guilds,     \* bot.guilds: where the bot is a member (Discord's side)
    running,    \* _running
    known,      \* the keys of _data
    config,     \* _data[g].config.specific, with the version it was saved as
    beRcons,    \* _data[g].beRcons, in the order of the array
    db,         \* the keys guild:* of redis, with the version of each save
    requests,   \* redis commands sent and not executed, oldest first
    replies,    \* redis answers not yet handed to their callback, oldest first
    calls,      \* calls so far that may lead to initBERcon
    overwritten \* history: guilds whose entry in _data was overwritten

botVars == <<setup, guilds, running, known, config, beRcons, db, requests,
             replies, calls, overwritten>>
vars == <<rconVars, botVars>>

\* Stands for the value of a key that redis does not have.
None == [form |-> "none", enabled |-> FALSE, servers |-> 0, bad |-> 0]

Default == [cfg |-> setup.default, ver |-> 0]
Versions == 0..setup.saves
Call == 1..MaxCalls

Request ==
    [op : {"keys"}, n : Call]
        \cup [op : {"mget"}, n : Call, keys : SUBSET Guild]
        \cup [op : {"get"}, n : Call, guild : Guild]

ZBotTypeOK ==
    /\ RconTypeOK
    /\ setup \in Setups
    /\ guilds \subseteq Guild
    /\ running \in BOOLEAN
    /\ known \subseteq Guild
    /\ config \in [Guild -> [cfg : setup.configs \cup {setup.default}, ver : Versions]]
    /\ beRcons \in [Guild -> Seq(Rcon)]
    /\ db \in [Guild -> [cfg : setup.configs \cup {None}, ver : Versions]]
    /\ requests \in Seq(Request)
    /\ \A i \in DOMAIN replies : replies[i].request \in Request
    /\ calls \in 0..MaxCalls
    /\ overwritten \subseteq Guild

ZBotInit ==
    /\ RconInit
    /\ setup \in Setups
    /\ guilds \in SUBSET setup.guilds
    /\ running = FALSE
    /\ known = {}
    /\ config = [g \in Guild |-> Default]
    /\ beRcons = [g \in Guild |-> <<>>]
    /\ db = [g \in Guild |-> [cfg |-> None, ver |-> 0]]
    /\ requests = <<>>
    /\ replies = <<>>
    /\ calls = 0
    /\ overwritten = {}

-----------------------------------------------------------------------------
(* initBERcon: what is made, and where an exception ends it. *)

\* Reading the configuration or constructing one of its servers throws.
Throws(c) == c.form = "shapeless" \/ (c.enabled /\ c.bad > 0)

\* How many servers are constructed before that.
Count(c) ==
    IF c.form = "ok" /\ c.enabled
    THEN IF c.bad > 0 THEN c.bad - 1 ELSE c.servers
    ELSE 0

\* Mutant: an rcon made before is constructed again in its place.
NewRconsReused(g, c, n) == [s \in 1..Count(c) |-> <<g, s, 1>>]

\* The rcons call n makes for guild g under configuration c, in order.
NewRcons(g, c, n) == [s \in 1..Count(c) |-> <<g, s, n>>]

Elements(seq) == {seq[i] : i \in DOMAIN seq}

\* The rcons of a list that have a node: the teardown skips the others.
WithNode(seq) == {r \in Elements(seq) : bnode[r] # "null"}

\* Closing the socket of a node that has no live connection can throw.
MayThrow(r) == bnode[r] \in {"fresh", "refused", "dead"}

(* initBERcon(null): rcons are made for every guild in ids, none is closed. *)
(* The guilds come in the order of _data's keys, and the first one that     *)
(* throws ends the loop: "done" are the guilds reached by then.             *)
initAll(ids, cfgs, lists, n) ==
    LET faulty == {g \in ids : Throws(cfgs[g].cfg)}
    IN  \E done \in SUBSET ids :
            /\ IF faulty = {} THEN done = ids ELSE Cardinality(done \cap faulty) = 1
            /\ LET New(g) == IF g \in done THEN NewRcons(g, cfgs[g].cfg, n) ELSE <<>>
                   made == UNION {Elements(New(g)) : g \in Guild}
               IN  /\ beRcons' = [g \in Guild |-> lists[g] \o New(g)]
                   /\ \E dialing \in bindChannels(made) : initBERcon({}, {}, made, dialing)

\* Mutant: the list is emptied although closing threw.
initGuildForgets(g, c, n) ==
    \E i \in DOMAIN beRcons[g] :
        /\ MayThrow(beRcons[g][i])
        /\ initBERcon(WithNode(SubSeq(beRcons[g], 1, i - 1)), {}, {}, {})
        /\ beRcons' = [beRcons EXCEPT ![g] = <<>>]

(* initBERcon(guild): close the guild's rcons one by one, then make the     *)
(* ones of its configuration.  When closing a socket throws, or cancelling  *)
(* the jobs after it, the rcons before it are closed, the list is kept and  *)
(* nothing is made.                                                         *)
initGuild(g, c, n) ==
    \/ LET made == Elements(NewRcons(g, c, n))
       IN  /\ WithNode(beRcons[g]) \cap holed = {}
           /\ beRcons' = [beRcons EXCEPT ![g] = NewRcons(g, c, n)]
           /\ \E dialing \in bindChannels(made) :
                initBERcon(WithNode(beRcons[g]), {}, made, dialing)
    \/ \E i \in DOMAIN beRcons[g] :
           LET r == beRcons[g][i]
               before == WithNode(SubSeq(beRcons[g], 1, i - 1))
           IN  /\ before \cap holed = {}
               /\ \/ MayThrow(r) /\ initBERcon(before, {}, {}, {})
                  \/ r \in holed /\ initBERcon(before, {r}, {}, {})
               /\ UNCHANGED beRcons

-----------------------------------------------------------------------------
(* The redis connection: commands are executed and answered in order. *)

Send(request) == requests' = Append(requests, request)

(* The web panel stores a configuration. *)
Save(g, c) ==
    /\ db[g].ver < setup.saves
    /\ db' = [db EXCEPT ![g] = [cfg |-> c, ver |-> @.ver + 1]]
    /\ UNCHANGED <<rconVars, setup, guilds, running, known, config, beRcons, requests,
                   replies, calls, overwritten>>

Answer(request) ==
    CASE request.op = "keys" -> {g \in Guild : db[g].cfg # None}
      [] request.op = "mget" -> [g \in request.keys |-> db[g]]
      [] request.op = "get"  -> db[request.guild]

\* Mutant: an answer overtakes the ones before it.
ExecuteOvertaking ==
    /\ requests # <<>>
    /\ requests' = Tail(requests)
    /\ replies' = <<[request |-> Head(requests), failed |-> FALSE,
                     answer |-> Answer(Head(requests))]>> \o replies
    /\ UNCHANGED <<rconVars, setup, guilds, running, known, config, beRcons, db, calls,
                   overwritten>>

(* Redis executes the oldest command.  When the command fails its answer is *)
(* never looked at.                                                         *)
Execute ==
    /\ requests # <<>>
    /\ requests' = Tail(requests)
    /\ \E failed \in BOOLEAN :
          replies' = Append(replies, [request |-> Head(requests), failed |-> failed,
                                      answer |-> Answer(Head(requests))])
    /\ UNCHANGED <<rconVars, setup, guilds, running, known, config, beRcons, db, calls,
                   overwritten>>

-----------------------------------------------------------------------------
(* Startup and guild membership. *)

\* What _data holds once the entries of the guilds gs are written: findAll-
\* ActiveGuilds and addActiveGuild both put the default configuration and an
\* empty list there, whatever was there before.
DefaultsFor(gs) == [g \in Guild |-> IF g \in gs THEN Default ELSE config[g]]
EmptyFor(gs) == [g \in Guild |-> IF g \in gs THEN <<>> ELSE beRcons[g]]

(* 'ready' for the first time: _data is filled with every guild; then the   *)
(* configurations are asked for, or the default one is started.  _running   *)
(* is set last, so not when the start throws.                               *)
Ready ==
    /\ ~running
    /\ calls < setup.calls
    /\ calls' = calls + 1
    /\ known' = known \cup guilds
    /\ config' = DefaultsFor(guilds)
    /\ IF setup.redis
       THEN /\ beRcons' = EmptyFor(guilds)
            /\ Send([op |-> "keys", n |-> calls + 1])
            /\ running' = TRUE
            /\ UNCHANGED rconVars
       ELSE /\ initAll(known', config', EmptyFor(guilds), calls + 1)
            /\ running' = \A g \in known' : ~Throws(config'[g].cfg)
            /\ UNCHANGED requests
    /\ overwritten' = overwritten \cup (known \cap guilds)
    /\ UNCHANGED <<setup, guilds, db, replies>>

(* 'guildCreate', like every event below, comes only after 'ready'.         *)
(* addActiveGuild overwrites whatever _data has for the guild (its test     *)
(* asks for the key "key"), then newGuildAction loads the guild's           *)
(* configuration, or starts every guild.                                    *)
GuildCreate(g) ==
    /\ calls > 0
    /\ g \notin guilds
    /\ calls < setup.calls
    /\ calls' = calls + 1
    /\ guilds' = guilds \cup {g}
    /\ known' = known \cup {g}
    /\ overwritten' = overwritten \cup (known \cap {g})
    /\ config' = DefaultsFor({g})
    /\ IF setup.redis
       THEN /\ beRcons' = EmptyFor({g})
            /\ Send([op |-> "get", n |-> calls + 1, guild |-> g])
            /\ UNCHANGED rconVars
       ELSE /\ initAll(known', config', EmptyFor({g}), calls + 1)
            /\ UNCHANGED requests
    /\ UNCHANGED <<setup, running, db, replies>>

(* 'guildDelete': the handler is empty; data and rcons stay. *)
GuildDelete(g) ==
    /\ calls > 0
    /\ g \in guilds
    /\ guilds' = guilds \ {g}
    /\ UNCHANGED <<rconVars, setup, running, known, config, beRcons, db, requests,
                   replies, calls, overwritten>>

(* The command "reload", which any member of the guild may give. *)
Reload(g) ==
    /\ calls > 0
    /\ g \in guilds
    /\ calls < setup.calls
    /\ calls' = calls + 1
    /\ Send([op |-> "get", n |-> calls + 1, guild |-> g])
    /\ UNCHANGED <<rconVars, setup, guilds, running, known, config, beRcons, db,
                   replies, overwritten>>

-----------------------------------------------------------------------------
(* Callbacks of the redis commands. *)

Arrived(op) == replies # <<>> /\ Head(replies).request.op = op

\* Applying a configuration to a guild that is known throws when it is not
\* JSON, and, once it is stored, when it has no list of servers.
Unusable(c) == c.form # "ok"
Stored(old, entry) == IF entry.cfg.form = "unparsable" THEN old ELSE entry

(* keys("guild:*"): ask for the values of the keys found. *)
DeliverKeys ==
    /\ Arrived("keys")
    /\ replies' = Tail(replies)
    /\ IF Head(replies).failed
       THEN UNCHANGED requests
       ELSE Send([op |-> "mget", n |-> Head(replies).request.n,
                  keys |-> Head(replies).answer])
    /\ UNCHANGED <<rconVars, setup, guilds, running, known, config, beRcons, db, calls,
                   overwritten>>

(* mget: applyConfigs goes through the keys until one throws, and only when *)
(* none does are the rcons started.  Without an answer the first known key  *)
(* throws.                                                                  *)
DeliverMget ==
    LET request == Head(replies).request
        failed == Head(replies).failed
        entries == Head(replies).answer
        mine == request.keys \cap known
        bad == IF failed THEN mine
               ELSE {g \in mine : Unusable(entries[g].cfg)}
        Apply(gs) == [g \in Guild |->
                        IF g \in gs THEN Stored(config[g], entries[g]) ELSE config[g]]
    IN  /\ Arrived("mget")
        /\ replies' = Tail(replies)
        /\ IF bad = {}
           THEN /\ config' = Apply(mine)
                /\ initAll(known, Apply(mine), beRcons, request.n)
           ELSE /\ IF failed
                   THEN UNCHANGED config
                   ELSE \E gs \in SUBSET mine :
                            /\ Cardinality(gs \cap bad) = 1
                            /\ config' = Apply(gs)
                /\ UNCHANGED <<rconVars, beRcons>>
        /\ UNCHANGED <<setup, guilds, running, known, db, requests, calls, overwritten>>

(* get: apply the configuration and restart the guild's rcons, unless there *)
(* is none or it throws.                                                    *)
DeliverGet ==
    LET request == Head(replies).request
        entry == Head(replies).answer
    IN  /\ Arrived("get")
        /\ replies' = Tail(replies)
        /\ IF Head(replies).failed \/ entry.cfg = None
           THEN UNCHANGED <<rconVars, config, beRcons>>
           ELSE /\ config' = [config EXCEPT ![request.guild] = Stored(@, entry)]
                /\ IF Unusable(entry.cfg)
                   THEN UNCHANGED <<rconVars, beRcons>>
                   ELSE initGuild(request.guild, entry.cfg, request.n)
        /\ UNCHANGED <<setup, guilds, running, known, db, requests, calls, overwritten>>

-----------------------------------------------------------------------------
ZBotNext ==
    \/ Ready
    \/ \E g \in setup.guilds : GuildCreate(g) \/ GuildDelete(g) \/ Reload(g)
    \/ \E g \in setup.guilds, c \in setup.configs : Save(g, c)
    \/ Execute
    \/ DeliverKeys
    \/ DeliverMget
    \/ DeliverGet
    \/ RconEvent /\ UNCHANGED botVars

ZBotSpec == ZBotInit /\ [][ZBotNext]_vars

-----------------------------------------------------------------------------
(* Properties. *)

(* The bot's registry and the guilds' own lists agree: an rcon that is     *)
(* handed commands is also in its guild's list, where the teardown of      *)
(* initBERcon looks for it, unless the guild's entry in _data was          *)
(* overwritten while it had rcons.                                         *)
OrphansOnlyAfterOverwrite ==
    \A r \in bercons : r \in Elements(beRcons[r[1]]) \/ r[1] \in overwritten

(* The configuration in memory never goes back to an older save, although  *)
(* the startup load and any number of reloads are in flight together.      *)
NeverBackToOlderConfig ==
    [][\A g \in Guild :
            config'[g] = Default \/ config'[g].ver >= config[g].ver]_vars
=============================================================================
