----------------------------- MODULE MCMessages -----------------------------
(* What the bot sends, on two kinds of input.  Texts of up to four lines    *)
(* with lengths at and around the limits (1979 and 1999 fill a message with *)
(* their newline, 1980 and 2000 do not fit, 4100 needs three pieces), each  *)
(* printed by one of the functions of LongMessage.  And the traffic of      *)
(* Relay on two servers that share a command channel: side chat is relayed  *)
(* into that channel, vehicle chat and the admin messages of r2 into one    *)
(* that does not exist, group chat nowhere; one automatic reply repeats the *)
(* word that sets it off.                                                   *)
EXTENDS LongMessage, Relay

CONSTANTS r1, r2, cmd, chat, admin

Lengths == {0, 1, 600, 1379, 1979, 1980, 1999, 2000}
MCLines == UNION {[1..n -> Lengths] : n \in 1..4} \cup {<<1985>>, <<1998>>, <<4100>>, <<3998>>}

Text(lines, break) ==
    [lines |-> lines, length |-> FoldSeq(+, 0, lines) + break * (Len(lines) - 1)]

MCTexts == {Text(lines, break) : lines \in MCLines, break \in {1, 2}}

MCRcon == {r1, r2}
MCChannel == {cmd, chat}
MCCommandChannel == [r \in MCRcon |-> cmd]
MCDefaultChannel == [r \in MCRcon |-> chat]
MCRoute ==
    [r \in MCRcon |->
        [p \in Prefix |-> CASE p = "side" -> cmd
                            [] p = "vehicle" -> NoChannel
                            [] p = "admin" /\ r = r2 -> NoChannel
                            [] OTHER -> chat]]
MCShow == [p \in Prefix |-> p # "group"]
MCPermissions == [k \in Key |-> IF k = "exit" THEN NoRole ELSE admin]
MCActions ==
    <<[command |-> "!rules", reply |-> <<"!rules">>, discordReply |-> FALSE],
      [command |-> "!admin", reply |-> <<>>, discordReply |-> TRUE]>>
MCUserTexts ==
    {<<n>> : n \in Names}
        \cup {<<>>, <<"say all", "!rules">>, <<"kick", "players">>, <<"say", "say all">>}
MCGameTexts == {<<"kick">>, <<"!rules">>, <<"!admin", "rcon">>}

\* A text is printed while nobody writes, or nothing is printed.
Printing == 
    /\ Init
    /\ inbox = <<>> /\ commands = [r \in Rcon |-> <<>>] /\ feed = [r \in Rcon |-> <<>>]
    /\ posts = MaxPosts /\ chats = MaxChats
Relaying ==
    /\ RelayInit
    /\ style = "plain" /\ messages = <<>> /\ textLength = 0 /\ index = 0
    /\ bundledMessage = <<>> /\ bundledLength = 0 /\ newLength = 0 /\ sent = <<>>

MessagesNext ==
    \/ Next /\ UNCHANGED relayVars
    \/ RelayNext /\ UNCHANGED vars

MessagesSpec ==
    /\ Printing \/ Relaying
    /\ [][MessagesNext]_<<vars, relayVars>>
    /\ RelayFairness
=============================================================================
