-------------------------------- MODULE Relay --------------------------------
(***************************************************************************)
(* The traffic between Discord and the game servers: the admin commands a  *)
(* Discord user gives (ZBot.checkMessageAction, BERcon.checkAdminCommand   *)
(* and the cmd* methods), the answers of the server, the game chat relayed *)
(* to Discord (chatMessagesAction) and the replies the bot gives by itself *)
(* (checkMessageForCommand).  Everything the bot posts comes back to it as *)
(* a Discord message, and everything it says on a server comes back as a   *)
(* game message: the module is about these two loops.                      *)
(*                                                                         *)
(* A text is the sequence of the commands and triggers it contains.        *)
(***************************************************************************)
EXTENDS Naturals, Sequences, SequencesExt

CONSTANTS
    Rcon,           \* the rcons in ZBot._bercons, all logged in
    Channel,        \* Discord text channels
    CommandChannel, \* [Rcon -> Channel \cup {NoChannel}]: _commandChannel
    DefaultChannel, \* [Rcon -> Channel]: _defaultChannel
    Route,          \* [Rcon -> [Prefix -> Channel \cup {NoChannel}]]
    Show,           \* [Prefix -> BOOLEAN]: showChannels
    NoChannel,      \* a channel that was not found
    Role,           \* roles of Discord members
    Permissions,    \* [Key -> Role \cup {NoRole}]: role needed per command
    NoRole,         \* a command without an entry in permissions
    Actions,        \* automatic replies: [command, reply, discordReply]
    UserTexts,      \* what a Discord user can write
    GameTexts,      \* what a player can write, or a server answer
    MaxPosts,       \* bound: messages of users
    MaxChats        \* bound: messages of players

\* First words of a game message, and "default" for every other message.
Prefix == {"side", "group", "direct", "vehicle", "global", "admin", "joins", "default"}

(* The switch of checkAdminCommand, in order.  do: "ask" sends a command    *)
(* and posts its answer, "announce" is the same after a post of its own,    *)
(* "tell" sends without a callback; "missing" calls a method that does not  *)
(* exist, "query" is a Steam query that posts nothing, "help" lists the     *)
(* commands in two posts (the first is bundled as in LongMessage).          *)
Case(name, key, do) == [name |-> name, key |-> key, do |-> do]
NoKey == "none"

Cases == <<
    Case("teststeam",    NoKey,            "query"),
    Case("steam",        "steam",          "missing"),
    Case("players+",     "players",        "ask"),
    Case("players",      "players",        "ask"),
    Case("admins",       "admins",         "ask"),
    Case("bans",         "bans",           "ask"),
    Case("load scripts", "loadScripts",    "tell"),
    Case("load events",  "loadEvents",     "tell"),
    Case("say all",      "say",            "tell"),
    Case("say",          "say",            "tell"),
    Case("missions",     "missions",       "ask"),
    Case("version",      "version",        "ask"),
    Case("update",       "update",         "ask"),
    Case("loadBans",     "loadBans",       "ask"),
    Case("writeBans",    "writeBans",      "ask"),
    Case("removeBan",    "removeBan",      "ask"),
    Case("ban",          "ban",            "ask"),
    Case("addBan",       "addBan",         "ask"),
    Case("MaxPing",      "MaxPing",        "ask"),
    Case("kick",         "kick",           "ask"),
    Case("disconnect",   "disconnect",     "announce"),
    Case("exit",         "exit",           "announce"),
    Case("#",            "serverCommands", "ask"),
    Case("rcon",         NoKey,            "help") >>

Names == {Cases[i].name : i \in DOMAIN Cases}
Key == {Cases[i].key : i \in DOMAIN Cases} \ {NoKey}

\* A written command contains itself and the shorter ones it starts with.
Spells(word, name) ==
    \/ word = name
    \/ word = "players+" /\ name = "players"
    \/ word = "say all" /\ name = "say"
    \/ word \in Names /\ name = "rcon"

Includes(text, name) == \E i \in DOMAIN text : Spells(text[i], name)

Matching(text) == {i \in DOMAIN Cases : Includes(text, Cases[i].name)}

VARIABLES
    inbox,      \* Discord messages not yet handed to the bot, oldest first
    commands,   \* per rcon, commands sent to the server and not yet run
    feed,       \* per rcon, game messages not yet handed to the bot
    posts,      \* messages written by users so far
    chats       \* messages written by players so far

relayVars == <<inbox, commands, feed, posts, chats>>

Author == {"user", "bot"}
Triggers == {Actions[i].command : i \in DOMAIN Actions}
RelayTexts == Seq(Names \cup Triggers)

ASSUME RelayAssumption ==
    /\ IsFiniteSet(Rcon)
    /\ CommandChannel \in [Rcon -> Channel \cup {NoChannel}]
    /\ DefaultChannel \in [Rcon -> Channel]
    /\ Route \in [Rcon -> [Prefix -> Channel \cup {NoChannel}]]
    /\ Actions \in Seq([command : Triggers, reply : RelayTexts, discordReply : BOOLEAN])
    /\ UserTexts \subseteq RelayTexts /\ GameTexts \subseteq RelayTexts
    /\ MaxPosts \in Nat /\ MaxChats \in Nat

RelayTypeOK ==
    /\ \A i \in DOMAIN inbox :
          /\ inbox[i].author \in Author
          /\ inbox[i].channel \in Channel
          /\ inbox[i].text \in RelayTexts
          /\ inbox[i].roles \subseteq Role
    /\ \A r \in Rcon : \A i \in DOMAIN commands[r] :
          /\ commands[r][i].name \in Names
          /\ commands[r][i].by \in Author \cup {"action"}
          /\ commands[r][i].text \in RelayTexts
    /\ \A r \in Rcon : \A i \in DOMAIN feed[r] :
          feed[r][i].prefix \in Prefix /\ feed[r][i].text \in RelayTexts
    /\ posts \in 0..MaxPosts
    /\ chats \in 0..MaxChats

RelayInit ==
    /\ inbox = <<>>
    /\ commands = [r \in Rcon |-> <<>>]
    /\ feed = [r \in Rcon |-> <<>>]
    /\ posts = 0
    /\ chats = 0

-----------------------------------------------------------------------------
(* What the methods do. *)

NoText == <<>>

\* sendTextMessage: the post is a Discord message of the bot, a member of the
\* guild that may hold every role; without a channel there is no post.
Post(channel, text) ==
    IF channel = NoChannel THEN <<>>
    ELSE <<[author |-> "bot", channel |-> channel, text |-> text, roles |-> Role]>>

\* The first case of the switch that the text includes.
Dispatch(text) == Cases[CHOOSE i \in Matching(text) : \A j \in Matching(text) : i <= j]

\* hasCorrectRole.
Permitted(case, roles) == case.key # NoKey => Permissions[case.key] \in roles

\* cmdSay...: the command itself is cut out of the text that is said.
Command(case, m) ==
    [name |-> case.name, do |-> case.do, by |-> m.author,
     text |-> IF case.name \in {"say", "say all"} THEN RemoveFirst(m.text, case.name) ELSE NoText]

\* The rcons that take a message for theirs: several servers of a guild can
\* share a command channel.
Listening(m) == {r \in Rcon : CommandChannel[r] = m.channel}

\* One post in the channel for each of n rcons.
Each(n, channel, text) == FlattenSeq([k \in 1..n |-> Post(channel, text)])

(* checkAdminCommand of every rcon that listens, for the text of m. *)
checkAdminCommand(m) ==
    LET case == Dispatch(m.text)
        n == Cardinality(Listening(m))
        send == commands' = [r \in Rcon |->
                    IF r \in Listening(m) THEN Append(commands[r], Command(case, m))
                    ELSE commands[r]]
        post(text) == inbox' = Tail(inbox) \o Each(n, m.channel, text)
        quiet == inbox' = Tail(inbox)
    IN  \/ /\ ~Permitted(case, m.roles)
           /\ post(NoText) /\ UNCHANGED commands
        \/ /\ Permitted(case, m.roles)
           /\ \/ case.do \in {"tell", "ask"} /\ send /\ quiet
              \/ case.do = "announce" /\ send /\ post(NoText)
              \/ /\ case.do = "help"
                 /\ inbox' = Tail(inbox) \o Each(2 * n, m.channel, <<"rcon">>)
                 /\ UNCHANGED commands
              \/ \* the query posts nothing; the method that is missing throws
                 /\ case.do \in {"query", "missing"}
                 /\ quiet /\ UNCHANGED commands

-----------------------------------------------------------------------------
(* Discord. *)

(* A user writes a message. *)
UserPosts(channel, text, roles) ==
    /\ posts < MaxPosts
    /\ posts' = posts + 1
    /\ inbox' = Append(inbox, [author |-> "user", channel |-> channel, text |-> text,
                               roles |-> roles])
    /\ UNCHANGED <<commands, feed, chats>>

\* Mutant: messages of bots are commands too.
OnMessageAnyAuthor ==
    /\ inbox # <<>>
    /\ LET m == Head(inbox)
       IN  IF Listening(m) # {} /\ Matching(m.text) # {}
           THEN checkAdminCommand(m)
           ELSE /\ inbox' = Tail(inbox)
                /\ UNCHANGED commands
    /\ UNCHANGED <<feed, posts, chats>>

(* 'message': messages of bots are left alone, the bot's own included. *)
OnMessage ==
    /\ inbox # <<>>
    /\ LET m == Head(inbox)
       IN  IF m.author # "bot" /\ Listening(m) # {} /\ Matching(m.text) # {}
           THEN checkAdminCommand(m)
           ELSE /\ inbox' = Tail(inbox)
                /\ UNCHANGED commands
    /\ UNCHANGED <<feed, posts, chats>>

-----------------------------------------------------------------------------
(* Game servers. *)

(* A server runs the oldest command.  What is said comes back as a message *)
(* of an rcon admin.  An answer is posted in the command channel by the    *)
(* callback; when the answer is empty or lost nothing is posted (the       *)
(* callbacks that do not check for an empty answer end with an exception,  *)
(* having nothing else to do).                                             *)
ServerRuns(r) ==
    /\ commands[r] # <<>>
    /\ LET c == Head(commands[r])
       IN  /\ commands' = [commands EXCEPT ![r] = Tail(@)]
           /\ feed' = IF c.name \in {"say", "say all"}
                      THEN [feed EXCEPT ![r] = Append(@, [prefix |-> "admin", text |-> c.text])]
                      ELSE feed
           /\ \/ UNCHANGED inbox
              \/ /\ c.do \in {"ask", "announce"}
                 /\ \E text \in GameTexts : inbox' = inbox \o Post(CommandChannel[r], text)
    /\ UNCHANGED <<posts, chats>>

(* A player writes, joins or leaves, or the server itself reports. *)
PlayerChats(r, prefix, text) ==
    /\ prefix # "admin"
    /\ chats < MaxChats
    /\ chats' = chats + 1
    /\ feed' = [feed EXCEPT ![r] = Append(@, [prefix |-> prefix, text |-> text])]
    /\ UNCHANGED <<inbox, commands, posts>>

\* chatMessagesAction: the posts of a game message.
Relayed(r, m) ==
    LET channel == IF m.prefix = "default" THEN DefaultChannel[r] ELSE Route[r][m.prefix]
    IN  IF m.prefix # "default" /\ ~Show[m.prefix] THEN <<>>
        ELSE IF channel # NoChannel THEN Post(channel, m.text)
        ELSE Post(DefaultChannel[r], NoText) \o Post(DefaultChannel[r], m.text)

\* Mutant: what the bot itself says sets off actions too.
TriggeredByAll(m, a) == Includes(m.text, a.command)

\* checkMessageForCommand: whether a game message sets off the action.
Triggered(m, a) == m.prefix # "admin" /\ Includes(m.text, a.command)

\* What the actions say on the server and post in the admin channel, in order.
Said(m) ==
    FlattenSeq([k \in DOMAIN Actions |->
        IF Triggered(m, Actions[k]) /\ Actions[k].reply # NoText
        THEN <<[name |-> "say all", do |-> "tell", by |-> "action", text |-> Actions[k].reply]>>
        ELSE <<>>])

Notices(r, m) ==
    FlattenSeq([k \in DOMAIN Actions |->
        IF Triggered(m, Actions[k]) /\ Actions[k].discordReply
        THEN Post(Route[r]["admin"], m.text) \o Post(Route[r]["admin"], NoText)
        ELSE <<>>])

(* 'message' of BattleNode: relay the game message, then act on it. *)
ChatMessage(r) ==
    /\ feed[r] # <<>>
    /\ LET m == Head(feed[r])
       IN  /\ feed' = [feed EXCEPT ![r] = Tail(@)]
           /\ inbox' = inbox \o Relayed(r, m) \o Notices(r, m)
           /\ commands' = [commands EXCEPT ![r] = @ \o Said(m)]
    /\ UNCHANGED <<posts, chats>>

-----------------------------------------------------------------------------
RelayNext ==
    \/ \E channel \in Channel, text \in UserTexts, roles \in SUBSET Role :
            UserPosts(channel, text, roles)
    \/ OnMessage
    \/ \E r \in Rcon : ServerRuns(r) \/ ChatMessage(r)
    \/ \E r \in Rcon, prefix \in Prefix, text \in GameTexts : PlayerChats(r, prefix, text)

(* Events are handed over and commands are run sooner or later; nobody has *)
(* to write anything.                                                      *)
RelayFairness ==
    /\ WF_relayVars(OnMessage)
    /\ \A r \in Rcon : WF_relayVars(ServerRuns(r)) /\ WF_relayVars(ChatMessage(r))

RelaySpec == RelayInit /\ [][RelayNext]_relayVars /\ RelayFairness

-----------------------------------------------------------------------------
(* Properties. *)

(* Only what a Discord user wrote, or an automatic reply, is sent to a     *)
(* server: a player whose chat or name contains a command, relayed to the  *)
(* command channel by the bot, commands nothing.                           *)
GameTextNeverCommands ==
    \A r \in Rcon : \A i \in DOMAIN commands[r] : commands[r][i].by # "bot"

(* The bot falls silent: however its posts, its replies on the servers and *)
(* the answers feed each other, once users and players stop writing every  *)
(* queue runs dry and stays so.                                            *)
Silent == inbox = <<>> /\ \A r \in Rcon : commands[r] = <<>> /\ feed[r] = <<>>

EventuallySilent == <>[]Silent
=============================================================================
