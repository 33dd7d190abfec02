----------------------------- MODULE ZBot_proofs -----------------------------
(***************************************************************************)
(* Proofs about ZBot, for every set of guilds, every installation and any  *)
(* number of servers, saves and calls: the bot drives its rcons only as    *)
(* BERcon allows, so that the results of BERcon_proofs hold of the whole   *)
(* bot; the registry and the lists of the guilds agree; and configurations *)
(* never go back.                                                          *)
(***************************************************************************)
EXTENDS ZBot, BERcon_proofs

-----------------------------------------------------------------------------
(* The inductive invariant. *)

Entry == [cfg : setup.configs \cup {None}, ver : Versions]
Answers == (SUBSET Guild) \cup Entry \cup UNION {[K -> Entry] : K \in SUBSET Guild}
Reply == [request : Request, failed : BOOLEAN, answer : Answers]

\* The answers in flight are what redis gives to such a command.
Types ==
    /\ ZBotTypeOK
    /\ replies \in Seq(Reply)
    /\ \A i \in DOMAIN replies :
          /\ replies[i].request.op = "keys" => replies[i].answer \in SUBSET Guild
          /\ replies[i].request.op = "mget" =>
                replies[i].answer \in [replies[i].request.keys -> Entry]
          /\ replies[i].request.op = "get" => replies[i].answer \in Entry

\* A call that may still make rcons has its number to itself, and the number
\* is not that of an rcon there is.
Numbered ==
    /\ \A i \in DOMAIN requests : requests[i].n <= calls
    /\ \A i \in DOMAIN replies : replies[i].request.n <= calls
    /\ \A i, j \in DOMAIN requests : requests[i].n = requests[j].n => i = j
    /\ \A i, j \in DOMAIN replies : replies[i].request.n = replies[j].request.n => i = j
    /\ \A i \in DOMAIN requests, j \in DOMAIN replies :
          requests[i].n # replies[j].request.n
    /\ \A r \in Rcon : bnode[r] # "unborn" =>
          /\ r[3] <= calls
          /\ \A i \in DOMAIN requests : requests[i].n # r[3]
          /\ \A i \in DOMAIN replies : replies[i].request.n # r[3]

\* What is in flight for a guild is about one the bot knows, and redis has
\* every key that was found there.
Asked(request, gs, saved) ==
    /\ request.op = "get" => request.guild \in gs
    /\ request.op = "mget" => \A g \in request.keys : saved[g].cfg # None

InFlight ==
    /\ calls > 0 => guilds \subseteq known
    /\ \A i \in DOMAIN requests : Asked(requests[i], known, db)
    /\ \A i \in DOMAIN replies :
          /\ Asked(replies[i].request, known, db)
          /\ replies[i].request.op = "keys" =>
                \A g \in replies[i].answer : db[g].cfg # None
          /\ replies[i].request.op = "mget" =>
                \A g \in replies[i].request.keys : replies[i].answer[g].cfg # None

\* The lists hold rcons of their guild; a closed rcon is not registered; and
\* what is registered is listed, or was when its guild was overwritten.
Registry ==
    /\ overwritten \subseteq known
    /\ \A g \in Guild : \A r \in Elements(beRcons[g]) :
          r[1] = g /\ g \in known /\ bnode[r] # "unborn"
    /\ \A r \in bercons : bnode[r] # "null"
    /\ OrphansOnlyAfterOverwrite

\* The configuration of a guild that an answer carries.
Carries(p, g) ==
    \/ p.request.op = "get" /\ p.request.guild = g
    \/ p.request.op = "mget" /\ g \in p.request.keys
Carried(p, g) == IF p.request.op = "get" THEN p.answer ELSE p.answer[g]

\* Memory, the answers in flight from the oldest to the youngest, and redis
\* have versions that grow in this order.
Growing ==
    /\ \A g \in Guild : config[g].ver <= db[g].ver
    /\ \A i \in DOMAIN replies : \A g \in Guild : Carries(replies[i], g) =>
          /\ config[g].ver <= Carried(replies[i], g).ver
          /\ Carried(replies[i], g).ver <= db[g].ver
    /\ \A i, j \in DOMAIN replies : \A g \in Guild :
          i < j /\ Carries(replies[i], g) /\ Carries(replies[j], g)
             => Carried(replies[i], g).ver <= Carried(replies[j], g).ver

IInv == RconInv /\ Types /\ Numbered /\ InFlight /\ Registry /\ Growing

-----------------------------------------------------------------------------
(* Sequences and rcons. *)

\* A queue to which an element is added.
LEMMA Appended ==
    ASSUME NEW S, NEW s \in Seq(S), NEW e \in S
    PROVE  /\ Append(s, e) \in Seq(S)
           /\ Len(s) \in Nat /\ DOMAIN s = 1..Len(s)
           /\ DOMAIN Append(s, e) = 1..(Len(s) + 1)
           /\ \A i \in DOMAIN s : Append(s, e)[i] = s[i]
           /\ Append(s, e)[Len(s) + 1] = e
    OBVIOUS

\* A queue whose oldest element is taken.
LEMMA Taken ==
    ASSUME NEW S, NEW s \in Seq(S), s # <<>>
    PROVE  /\ Tail(s) \in Seq(S)
           /\ Head(s) = s[1] /\ 1 \in DOMAIN s /\ s[1] \in S
           /\ Len(s) \in Nat /\ DOMAIN s = 1..Len(s)
           /\ DOMAIN Tail(s) = 1..(Len(s) - 1)
           /\ \A i \in DOMAIN Tail(s) : i + 1 \in DOMAIN s /\ Tail(s)[i] = s[i + 1]
    OBVIOUS

\* The elements of lists.
LEMMA ElementsOf ==
    ASSUME NEW S, NEW s \in Seq(S), NEW t \in Seq(S)
    PROVE  /\ Elements(s) \subseteq S
           /\ s \o t \in Seq(S)
           /\ Elements(s \o t) = Elements(s) \cup Elements(t)
           /\ \A i \in DOMAIN s : Elements(SubSeq(s, 1, i - 1)) \subseteq Elements(s)
<1>1. Elements(s) \subseteq S
    BY DEF Elements
<1>2. s \o t \in Seq(S) /\ Elements(s \o t) = Elements(s) \cup Elements(t)
    <2>1. /\ s \o t \in Seq(S) /\ Len(s) \in Nat /\ Len(t) \in Nat
          /\ DOMAIN s = 1..Len(s) /\ DOMAIN t = 1..Len(t)
          /\ DOMAIN (s \o t) = 1..(Len(s) + Len(t))
          /\ \A i \in 1..Len(s) : (s \o t)[i] = s[i]
          /\ \A i \in 1..Len(t) : (s \o t)[Len(s) + i] = t[i]
        OBVIOUS
    <2>2. ASSUME NEW x \in Elements(s \o t) PROVE x \in Elements(s) \cup Elements(t)
        <3> PICK i \in 1..(Len(s) + Len(t)) : (s \o t)[i] = x
            BY <2>1 DEF Elements
        <3>1. CASE i <= Len(s)
            BY <2>1, <3>1 DEF Elements
        <3>2. CASE i > Len(s)
            <4>1. i - Len(s) \in 1..Len(t) /\ Len(s) + (i - Len(s)) = i
                BY <2>1, <3>2
            <4> QED
                BY <2>1, <4>1 DEF Elements
        <3> QED
            BY <2>1, <3>1, <3>2
    <2>3. ASSUME NEW x \in Elements(s) PROVE x \in Elements(s \o t)
        BY <2>1 DEF Elements
    <2>4. ASSUME NEW x \in Elements(t) PROVE x \in Elements(s \o t)
        <3> PICK i \in 1..Len(t) : t[i] = x
            BY <2>1 DEF Elements
        <3>1. Len(s) + i \in DOMAIN (s \o t) /\ (s \o t)[Len(s) + i] = x
            BY <2>1
        <3> QED
            BY <3>1 DEF Elements
    <2> QED
        BY <2>1, <2>2, <2>3, <2>4
<1>3. ASSUME NEW i \in DOMAIN s PROVE Elements(SubSeq(s, 1, i - 1)) \subseteq Elements(s)
    <2>1. DOMAIN SubSeq(s, 1, i - 1) \subseteq DOMAIN s
        OBVIOUS
    <2>2. \A k \in DOMAIN SubSeq(s, 1, i - 1) : SubSeq(s, 1, i - 1)[k] = s[k]
        OBVIOUS
    <2> QED
        BY <2>1, <2>2 DEF Elements
<1> QED
    BY <1>1, <1>2, <1>3

\* The rcons a call makes are numbered after it.
LEMMA RconsMade ==
    ASSUME NEW g \in Guild, NEW c \in ConfigType, NEW n \in Call
    PROVE  /\ NewRcons(g, c, n) \in Seq(Rcon)
           /\ \A r \in Elements(NewRcons(g, c, n)) : r \in Rcon /\ r[1] = g /\ r[3] = n
<1>1. Count(c) \in 0..MaxServers
    BY ConfigAssumption DEF Count, ConfigType
<1>2. \A s \in 1..Count(c) : <<g, s, n>> \in Rcon
    BY <1>1, RconAssumption, ConfigAssumption DEF Call
<1>3. NewRcons(g, c, n) \in Seq(Rcon)
    BY <1>1, <1>2, ConfigAssumption DEF NewRcons
<1> QED
    BY <1>2, <1>3 DEF NewRcons, Elements

LEMMA RconParts ==
    ASSUME NEW r \in Rcon
    PROVE  r[1] \in Guild /\ r[3] \in 1..MaxCalls
    BY RconAssumption

-----------------------------------------------------------------------------
(* initBERcon. *)

\* No rcon was made under the number n.
Unused(n) == \A r \in Rcon : r[3] = n => bnode[r] = "unborn"

\* Those of the rcons rs that are of guild g.
OfGuild(rs, g) == {r \in rs : r[1] = g}

\* The two uses of initBERcon make the rcons "made", all numbered n, and close
\* those in "closed"; nothing else is born, and nothing else loses its node.
RconsChange(closed, made, n) ==
    /\ made \subseteq Rcon /\ \A r \in made : r[3] = n
    /\ bercons' = (bercons \ closed) \cup made
    /\ \A r \in closed : bnode[r] # "null"
    /\ \A r \in made : bnode'[r] \notin {"null", "unborn"}
    /\ \A r \in Rcon \ made :
          /\ bnode'[r] = "unborn" => bnode[r] = "unborn"
          /\ bnode'[r] # "unborn" => bnode[r] # "unborn"
          /\ bnode'[r] = "null" => bnode[r] = "null" \/ r \in closed

LEMMA initBERconChange ==
    ASSUME NEW closed \in SUBSET Rcon, NEW broken \in SUBSET Rcon,
           NEW made \in SUBSET Rcon, NEW dialing, NEW n,
           \A r \in made : r[3] = n,
           \A r \in closed \cup broken : bnode[r] \notin {"null", "unborn"},
           initBERcon(closed, broken, made, dialing)
    PROVE  RconsChange(closed, made, n)
    BY DEF initBERcon, RconsChange, init

(* Starting all guilds is a call the owner of the rcons may make, and each *)
(* new rcon joins the list of its guild.                                   *)
LEMMA StartAll ==
    ASSUME RconTypeOK, NEW ids \in SUBSET Guild,
           NEW cfgs, \A g \in Guild : cfgs[g].cfg \in ConfigType,
           NEW lists \in [Guild -> Seq(Rcon)], NEW n \in Call, Unused(n),
           initAll(ids, cfgs, lists, n)
    PROVE  /\ Owner
           /\ beRcons' \in [Guild -> Seq(Rcon)]
           /\ \E made : /\ RconsChange({}, made, n)
                        /\ \A g \in Guild : Elements(beRcons'[g])
                              = Elements(lists[g]) \cup OfGuild(made, g)
                        /\ \A r \in made : r[1] \in ids
<1> PICK done \in SUBSET ids :
        LET New(g) == IF g \in done THEN NewRcons(g, cfgs[g].cfg, n) ELSE <<>>
            made == UNION {Elements(New(g)) : g \in Guild}
        IN  /\ beRcons' = [g \in Guild |-> lists[g] \o New(g)]
            /\ \E dialing \in bindChannels(made) : initBERcon({}, {}, made, dialing)
    BY DEF initAll
<1> DEFINE New(g) == IF g \in done THEN NewRcons(g, cfgs[g].cfg, n) ELSE <<>>
           made == UNION {Elements(New(g)) : g \in Guild}
<1>1. ASSUME NEW g \in Guild
      PROVE  /\ New(g) \in Seq(Rcon)
             /\ \A r \in Elements(New(g)) :
                   r \in Rcon /\ r[1] = g /\ r[3] = n /\ g \in ids
    <2>1. CASE g \in done
        BY <2>1, RconsMade
    <2>2. CASE g \notin done
        BY <2>2 DEF Elements
    <2> QED
        BY <2>1, <2>2
<1>2. made \in SUBSET Rcon /\ \A r \in made : r[3] = n /\ r[1] \in ids
    BY <1>1
<1>3. made \in SUBSET Unborn
    BY <1>2 DEF Unused, Unborn
<1> PICK dialing \in bindChannels(made) : initBERcon({}, {}, made, dialing)
    OBVIOUS
<1>4. Owner
    BY <1>3 DEF Owner
<1>5. RconsChange({}, made, n)
    BY <1>2, initBERconChange
<1>6. beRcons' = [g \in Guild |-> lists[g] \o New(g)]
    OBVIOUS
<1>7. ASSUME NEW g \in Guild
      PROVE  /\ beRcons'[g] \in Seq(Rcon)
             /\ Elements(beRcons'[g]) = Elements(lists[g]) \cup Elements(New(g))
    <2> HIDE DEF New
    <2>1. lists[g] \in Seq(Rcon) /\ New(g) \in Seq(Rcon)
        BY <1>1
    <2>2. beRcons'[g] = lists[g] \o New(g)
        BY <1>6
    <2> QED
        BY <2>1, <2>2, ElementsOf
<1>8. \A g \in Guild : Elements(New(g)) = OfGuild(made, g)
    <2> HIDE DEF New
    <2> QED
        BY <1>1 DEF OfGuild
<1>9. beRcons' \in [Guild -> Seq(Rcon)]
    BY <1>6, <1>7
<1> HIDE DEF made, New
<1> QED
    BY <1>2, <1>4, <1>5, <1>7, <1>8, <1>9

(* Restarting one guild is a call the owner may make.  Either its list is  *)
(* replaced by the new rcons and all of the old ones that had a node are   *)
(* closed, or the list is kept, some of it closed, and nothing made.       *)
LEMMA RestartGuild ==
    ASSUME RconInv, beRcons \in [Guild -> Seq(Rcon)], Registry,
           NEW g \in Guild, NEW c \in ConfigType, NEW n \in Call, Unused(n),
           initGuild(g, c, n)
    PROVE  /\ Owner
           /\ beRcons' \in [Guild -> Seq(Rcon)]
           /\ \E closed, made :
                 /\ RconsChange(closed, made, n)
                 /\ \A r \in made : r[1] = g
                 /\ \/ /\ closed = WithNode(beRcons[g])
                       /\ Elements(beRcons'[g]) = made
                       /\ \A h \in Guild \ {g} : beRcons'[h] = beRcons[h]
                    \/ beRcons' = beRcons /\ made = {}
<1>0. /\ beRcons[g] \in Seq(Rcon)
      /\ Elements(beRcons[g]) \subseteq Rcon
      /\ \A r \in Elements(beRcons[g]) : bnode[r] # "unborn"
    BY ElementsOf DEF Registry
<1>1. ASSUME NEW seq, Elements(seq) \subseteq Elements(beRcons[g])
      PROVE  WithNode(seq) \in SUBSET Closable
    BY <1>0, <1>1 DEF WithNode, Closable
<1>2. CASE /\ WithNode(beRcons[g]) \cap holed = {}
           /\ beRcons' = [beRcons EXCEPT ![g] = NewRcons(g, c, n)]
           /\ \E dialing \in bindChannels(Elements(NewRcons(g, c, n))) :
                initBERcon(WithNode(beRcons[g]), {}, Elements(NewRcons(g, c, n)), dialing)
    <2> DEFINE made == Elements(NewRcons(g, c, n))
               closed == WithNode(beRcons[g])
    <2>1. NewRcons(g, c, n) \in Seq(Rcon) /\ made \in SUBSET Rcon
          /\ \A r \in made : r[1] = g /\ r[3] = n
        BY RconsMade
    <2>2. made \in SUBSET Unborn
        BY <2>1 DEF Unused, Unborn
    <2>3. closed \in SUBSET (Closable \ holed)
        BY <1>1, <1>2
    <2> PICK dialing \in bindChannels(made) : initBERcon(closed, {}, made, dialing)
        BY <1>2
    <2>4. Owner
        BY <2>2, <2>3 DEF Owner
    <2>5. RconsChange(closed, made, n)
        BY <2>1, <2>3, initBERconChange DEF Closable
    <2>6. /\ beRcons' \in [Guild -> Seq(Rcon)]
          /\ Elements(beRcons'[g]) = made
          /\ \A h \in Guild \ {g} : beRcons'[h] = beRcons[h]
        BY <1>2, <2>1
    <2> QED
        BY <2>1, <2>4, <2>5, <2>6
<1>3. ASSUME NEW i \in DOMAIN beRcons[g], beRcons' = beRcons,
             WithNode(SubSeq(beRcons[g], 1, i - 1)) \cap holed = {},
             \/ initBERcon(WithNode(SubSeq(beRcons[g], 1, i - 1)), {}, {}, {})
             \/ /\ beRcons[g][i] \in holed
                /\ initBERcon(WithNode(SubSeq(beRcons[g], 1, i - 1)), {beRcons[g][i]}, {}, {})
      PROVE  Owner /\ \E closed : RconsChange(closed, {}, n)
    <2> DEFINE closed == WithNode(SubSeq(beRcons[g], 1, i - 1))
    <2>1. closed \in SUBSET (Closable \ holed)
        BY <1>0, <1>1, <1>3, ElementsOf
    <2>2. PICK broken \in SUBSET (Closable \cap holed) : initBERcon(closed, broken, {}, {})
        <3>1. CASE initBERcon(closed, {}, {}, {})
            BY <3>1
        <3>2. CASE beRcons[g][i] \in holed /\ initBERcon(closed, {beRcons[g][i]}, {}, {})
            <4>1. {beRcons[g][i]} \in SUBSET (Closable \cap holed)
                BY <1>0, <3>2 DEF Closable, RconInv, HoleInv
            <4> QED
                BY <3>2, <4>1
        <3> QED
            BY <1>3, <3>1, <3>2
    <2>3. Owner
        <3>1. {} \in SUBSET Unborn /\ {} \in bindChannels({})
            BY DEF bindChannels
        <3> QED
            BY <2>1, <2>2, <3>1 DEF Owner
    <2>4. RconsChange(closed, {}, n)
        BY <2>1, <2>2, initBERconChange DEF Closable
    <2> QED
        BY <2>3, <2>4
<1> QED
    BY <1>2, <1>3 DEF initGuild

-----------------------------------------------------------------------------
(* The registry. *)

(* The entries of the guilds gs are written anew and rcons are made: a      *)
(* guild that loses its list had no rcons, or was known and is noted.       *)
LEMMA RegistryGrows ==
    ASSUME Registry, bercons \subseteq Rcon, NEW gs \in SUBSET Guild, NEW made, NEW n,
           RconsChange({}, made, n),
           \A r \in made : r[1] \in known',
           \A g \in Guild : Elements(beRcons'[g])
              = (IF g \in gs THEN {} ELSE Elements(beRcons[g])) \cup OfGuild(made, g),
           \A g \in Guild : Elements(beRcons[g]) \subseteq Rcon,
           known' = known \cup gs,
           overwritten' = overwritten \cup (known \cap gs)
    PROVE  Registry'
<1>1. (overwritten \subseteq known)'
    BY DEF Registry
<1>2. ASSUME NEW g \in Guild, NEW r \in Elements(beRcons'[g])
      PROVE  r[1] = g /\ g \in known' /\ bnode'[r] # "unborn"
    <2>1. CASE r \in made /\ r[1] = g
        BY <2>1 DEF RconsChange
    <2>2. CASE r \notin made /\ r \in Elements(beRcons[g])
        BY <2>2 DEF RconsChange, Registry
    <2>3. CASE r \in made /\ r \in Elements(beRcons[g])
        BY <2>3 DEF RconsChange, Registry
    <2> QED
        BY <2>1, <2>2, <2>3 DEF OfGuild
<1>3. ASSUME NEW r \in bercons' PROVE bnode'[r] # "null"
    BY DEF RconsChange, Registry
<1>4. ASSUME NEW r \in bercons'
      PROVE  r \in Elements(beRcons'[r[1]]) \/ r[1] \in overwritten'
    <2>1. CASE r \in made
        BY <2>1, RconParts DEF RconsChange, OfGuild
    <2>2. CASE r \notin made
        <3>1. r \in bercons /\ r \in Rcon
            BY <2>2 DEF RconsChange
        <3>2. CASE r \in Elements(beRcons[r[1]])
            BY <3>1, <3>2, RconParts DEF Registry
        <3>3. CASE r[1] \in overwritten
            BY <3>3
        <3> QED
            BY <3>1, <3>2, <3>3 DEF Registry, OrphansOnlyAfterOverwrite
    <2> QED
        BY <2>1, <2>2
<1> QED
    BY <1>1, <1>2, <1>3, <1>4 DEF Registry, OrphansOnlyAfterOverwrite

(* The rcons of one guild are restarted: those that leave the list without  *)
(* being closed had no node, and such an rcon is not registered.            *)
LEMMA RegistryRestarts ==
    ASSUME Registry, bercons \subseteq Rcon, NEW g \in known, known \subseteq Guild,
           \A h \in Guild : Elements(beRcons[h]) \subseteq Rcon,
           NEW closed, NEW made, NEW n, RconsChange(closed, made, n),
           \A r \in made : r[1] = g,
           \/ /\ closed = WithNode(beRcons[g])
              /\ Elements(beRcons'[g]) = made
              /\ \A h \in Guild \ {g} : beRcons'[h] = beRcons[h]
           \/ beRcons' = beRcons /\ made = {},
           known' = known, overwritten' = overwritten
    PROVE  Registry'
<1>2. ASSUME NEW h \in Guild, NEW r \in Elements(beRcons'[h])
      PROVE  r[1] = h /\ h \in known' /\ bnode'[r] # "unborn"
    <2>1. CASE r \in made /\ h = g
        BY <2>1 DEF RconsChange
    <2>2. CASE r \notin made \/ h # g
        <3>1. r \in Elements(beRcons[h])
            BY <2>2
        <3>2. r \in Rcon /\ r[1] = h /\ h \in known /\ bnode[r] # "unborn"
            BY <3>1 DEF Registry
        <3> QED
            BY <3>2 DEF RconsChange
    <2> QED
        BY <2>1, <2>2
<1>3. ASSUME NEW r \in bercons' PROVE bnode'[r] # "null"
    BY DEF RconsChange, Registry
<1>4. ASSUME NEW r \in bercons'
      PROVE  r \in Elements(beRcons'[r[1]]) \/ r[1] \in overwritten'
    <2>1. CASE r \in made
        BY <2>1 DEF RconsChange
    <2>2. CASE r \notin made
        <3>1. r \in bercons \ closed /\ r \in Rcon /\ r[1] \in Guild
            BY <2>2, RconParts DEF RconsChange
        <3>2. CASE r \in Elements(beRcons[r[1]])
            <4>1. CASE beRcons' = beRcons
                BY <3>2, <4>1
            <4>2. CASE closed = WithNode(beRcons[g])
                       /\ \A h \in Guild \ {g} : beRcons'[h] = beRcons[h]
                BY <3>1, <3>2, <4>2 DEF WithNode, Registry
            <4> QED
                BY <4>1, <4>2
        <3>3. CASE r[1] \in overwritten
            BY <3>3
        <3> QED
            BY <3>1, <3>2, <3>3 DEF Registry, OrphansOnlyAfterOverwrite
    <2> QED
        BY <2>1, <2>2
<1> QED
    BY <1>2, <1>3, <1>4 DEF Registry, OrphansOnlyAfterOverwrite

(* An event of an rcon: no rcon is born by it, and none loses its node. *)
LEMMA EventNodes ==
    ASSUME RconInv, RconEvent
    PROVE  /\ bercons' = bercons
           /\ \A r \in Rcon :
                 /\ bnode'[r] = "unborn" <=> bnode[r] = "unborn"
                 /\ bnode'[r] = "null" => bnode[r] = "null"
<1> PICK r \in Rcon :
        \/ LoginError(r) \/ LoginOk(r) \/ LoginRefused(r)
        \/ Disconnected(r) \/ RetryTimer(r) \/ RedialTimer(r)
    BY DEF RconEvent
<1>1. bnode[r] # "unborn"
    BY DEF RconInv, RconTypeOK, OneReconnectPath, Waiting, LoginError, LoginOk, LoginRefused,
           Disconnected, RetryTimer, RedialTimer
<1>2. bercons' = bercons /\ \E s \in {"dead", "up", "refused", "pending"} :
            bnode' = [bnode EXCEPT ![r] = s]
    BY DEF LoginError, LoginOk, LoginRefused, Disconnected, RetryTimer, RedialTimer, reInit
<1> QED
    BY <1>1, <1>2 DEF RconInv, RconTypeOK

-----------------------------------------------------------------------------
(* The numbers of the calls. *)

Queues == requests \in Seq(Request) /\ replies \in Seq(Reply)

\* Requests and answers carry the number of a call.
LEMMA RequestNumber ==
    ASSUME Queues, calls \in Nat
    PROVE  /\ \A i \in DOMAIN requests : requests[i] \in Request /\ requests[i].n \in Call
           /\ \A i \in DOMAIN replies :
                 replies[i].request \in Request /\ replies[i].request.n \in Call
<1>1. \A q \in Request : q.n \in Call
    BY DEF Request
<1>2. \A i \in DOMAIN requests : requests[i] \in Request
    BY DEF Queues
<1>3. \A i \in DOMAIN replies : replies[i] \in Reply
    BY DEF Queues
<1>4. \A p \in Reply : p.request \in Request
    BY DEF Reply
<1> QED
    BY <1>1, <1>2, <1>3, <1>4

(* A new call sends a command. *)
LEMMA NumberedSend ==
    ASSUME Numbered, Queues, calls \in 0..MaxCalls, NEW q \in Request, q.n = calls + 1,
           calls' = calls + 1, Send(q), UNCHANGED <<replies, bnode>>
    PROVE  Numbered'
<1>1. /\ DOMAIN requests = 1..Len(requests) /\ Len(requests) \in Nat
      /\ DOMAIN requests' = 1..(Len(requests) + 1)
      /\ \A i \in DOMAIN requests : requests'[i] = requests[i]
      /\ requests'[Len(requests) + 1] = q
    BY Appended DEF Send, Queues
<1>2. /\ \A i \in DOMAIN requests : requests[i].n \in Nat
      /\ \A i \in DOMAIN replies : replies[i].request.n \in Nat
    BY RequestNumber, ConfigAssumption DEF Call
<1>3. \A r \in Rcon : r[3] \in Nat
    BY RconParts, ConfigAssumption
<1>4. calls \in Nat /\ q.n > calls
    BY ConfigAssumption
<1>5. \A i \in DOMAIN requests' : i \in DOMAIN requests \/ (i = Len(requests) + 1 /\ requests'[i].n = q.n)
    BY <1>1
<1>6. \A i \in DOMAIN requests' : requests'[i].n <= calls'
    BY <1>1, <1>2, <1>4, <1>5 DEF Numbered
<1>7. \A i, j \in DOMAIN requests' : requests'[i].n = requests'[j].n => i = j
    BY <1>1, <1>2, <1>4, <1>5 DEF Numbered
<1>8. \A i \in DOMAIN replies : replies[i].request.n <= calls' /\ replies[i].request.n # q.n
    BY <1>2, <1>4 DEF Numbered
<1>9. \A i \in DOMAIN requests', j \in DOMAIN replies : requests'[i].n # replies[j].request.n
    BY <1>1, <1>5, <1>8 DEF Numbered
<1>10. \A r \in Rcon : bnode[r] # "unborn" =>
          r[3] <= calls' /\ \A i \in DOMAIN requests' : requests'[i].n # r[3]
    BY <1>1, <1>3, <1>4, <1>5 DEF Numbered
<1> QED
    BY <1>6, <1>7, <1>8, <1>9, <1>10 DEF Numbered

(* A new call makes its rcons at once. *)
LEMMA NumberedDirect ==
    ASSUME Numbered, Queues, calls \in 0..MaxCalls, NEW made,
           RconsChange({}, made, calls + 1), calls' = calls + 1,
           UNCHANGED <<requests, replies>>
    PROVE  Numbered'
<1>2. /\ \A i \in DOMAIN requests : requests[i].n \in Nat
      /\ \A i \in DOMAIN replies : replies[i].request.n \in Nat
    BY RequestNumber, ConfigAssumption DEF Call
<1>3. \A r \in Rcon : r[3] \in Nat
    BY RconParts, ConfigAssumption
<1>4. \A r \in Rcon : bnode'[r] # "unborn" => bnode[r] # "unborn" \/ r[3] = calls + 1
    BY DEF RconsChange
<1> QED
    BY <1>2, <1>3, <1>4, ConfigAssumption DEF Numbered

(* Redis answers the oldest command. *)
LEMMA NumberedExecute ==
    ASSUME Numbered, Queues, requests # <<>>, requests' = Tail(requests),
           NEW p \in Reply, p.request = Head(requests), replies' = Append(replies, p),
           UNCHANGED <<calls, bnode>>
    PROVE  Numbered'
<1>1. /\ DOMAIN replies = 1..Len(replies) /\ Len(replies) \in Nat
      /\ DOMAIN replies' = 1..(Len(replies) + 1)
      /\ \A i \in DOMAIN replies : replies'[i] = replies[i]
      /\ replies'[Len(replies) + 1] = p
    BY Appended DEF Queues
<1>2. /\ Head(requests) = requests[1] /\ 1 \in DOMAIN requests
      /\ Len(requests) \in Nat /\ DOMAIN requests = 1..Len(requests)
      /\ DOMAIN requests' = 1..(Len(requests) - 1)
      /\ \A i \in DOMAIN requests' : i + 1 \in DOMAIN requests /\ requests'[i] = requests[i + 1]
    BY Taken DEF Queues
<1> DEFINE n == requests[1].n
<1>3. /\ n <= calls /\ \A j \in DOMAIN replies : replies[j].request.n # n
      /\ \A i \in DOMAIN requests' : requests'[i].n <= calls /\ requests'[i].n # n
      /\ \A i, j \in DOMAIN requests' : requests'[i].n = requests'[j].n => i = j
    BY <1>2 DEF Numbered
<1>4. \A i \in DOMAIN replies' :
         \/ i \in DOMAIN replies /\ replies'[i] = replies[i]
         \/ i = Len(replies) + 1 /\ replies'[i].request.n = n
    <2>1. \A i \in DOMAIN replies' : i \in DOMAIN replies \/ i = Len(replies) + 1
        BY <1>1
    <2>2. replies'[Len(replies) + 1].request.n = n
        BY <1>1, <1>2
    <2> QED
        BY <1>1, <2>1, <2>2
<1>5. /\ \A i \in DOMAIN replies' : replies'[i].request.n <= calls
      /\ \A i, j \in DOMAIN replies' : replies'[i].request.n = replies'[j].request.n => i = j
    BY <1>3, <1>4 DEF Numbered
<1>6. \A i \in DOMAIN requests', j \in DOMAIN replies' : requests'[i].n # replies'[j].request.n
    BY <1>2, <1>3, <1>4 DEF Numbered
<1>7. ASSUME NEW r \in Rcon, bnode[r] # "unborn"
      PROVE  /\ r[3] <= calls
             /\ \A i \in DOMAIN requests' : requests'[i].n # r[3]
             /\ \A i \in DOMAIN replies' : replies'[i].request.n # r[3]
    BY <1>2, <1>4, <1>7 DEF Numbered
<1> QED
    BY <1>3, <1>5, <1>6, <1>7 DEF Numbered

(* The oldest answer is handled; the call goes on with another command, or *)
(* ends, having made rcons or not.                                         *)
LEMMA NumberedDeliver ==
    ASSUME Numbered, Queues, replies # <<>>, replies' = Tail(replies),
           calls' = calls, NEW closed, NEW made,
           RconsChange(closed, made, Head(replies).request.n),
           \/ requests' = requests
           \/ /\ made = {}
              /\ \E q \in Request : q.n = Head(replies).request.n /\ Send(q)
    PROVE  Numbered'
<1>1. /\ Head(replies) = replies[1] /\ 1 \in DOMAIN replies
      /\ Len(replies) \in Nat /\ DOMAIN replies = 1..Len(replies)
      /\ DOMAIN replies' = 1..(Len(replies) - 1)
      /\ \A i \in DOMAIN replies' : i + 1 \in DOMAIN replies /\ replies'[i] = replies[i + 1]
    BY Taken DEF Queues
<1> DEFINE n == replies[1].request.n
<1>2. /\ n <= calls
      /\ \A i \in DOMAIN replies' : replies'[i].request.n <= calls /\ replies'[i].request.n # n
      /\ \A i, j \in DOMAIN replies' : replies'[i].request.n = replies'[j].request.n => i = j
    BY <1>1 DEF Numbered
<1>3. \A r \in Rcon : bnode'[r] # "unborn" =>
         bnode[r] # "unborn" \/ (r[3] = n /\ made # {})
    BY <1>1 DEF RconsChange
<1>4. CASE requests' = requests
    BY <1>1, <1>2, <1>3, <1>4 DEF Numbered
<1>5. CASE made = {} /\ \E q \in Request : q.n = n /\ Send(q)
    <2> PICK q \in Request : q.n = n /\ Send(q)
        BY <1>5
    <2>1. /\ DOMAIN requests = 1..Len(requests) /\ Len(requests) \in Nat
          /\ DOMAIN requests' = 1..(Len(requests) + 1)
          /\ \A i \in DOMAIN requests : requests'[i] = requests[i]
          /\ requests'[Len(requests) + 1] = q
        BY Appended DEF Send, Queues
    <2>2. \A r \in Rcon : bnode'[r] # "unborn" => r[3] # n
        BY <1>1, <1>3, <1>5 DEF Numbered
    <2>3. \A i \in DOMAIN requests : requests[i].n # n
        BY <1>1 DEF Numbered
    <2>4. \A i \in DOMAIN requests' :
             \/ i \in DOMAIN requests /\ requests'[i] = requests[i]
             \/ i = Len(requests) + 1 /\ requests'[i].n = n
        <3>1. \A i \in DOMAIN requests' : i \in DOMAIN requests \/ i = Len(requests) + 1
            BY <2>1
        <3> QED
            BY <2>1, <3>1
    <2>5. /\ \A i \in DOMAIN requests' : requests'[i].n <= calls
          /\ \A i, j \in DOMAIN requests' : requests'[i].n = requests'[j].n => i = j
        BY <1>2, <2>3, <2>4 DEF Numbered
    <2>6. \A i \in DOMAIN requests', j \in DOMAIN replies' : requests'[i].n # replies'[j].request.n
        BY <1>1, <1>2, <2>4 DEF Numbered
    <2>7. ASSUME NEW r \in Rcon, bnode'[r] # "unborn"
          PROVE  /\ r[3] <= calls
                 /\ \A i \in DOMAIN requests' : requests'[i].n # r[3]
                 /\ \A i \in DOMAIN replies' : replies'[i].request.n # r[3]
        BY <1>1, <1>3, <1>5, <2>2, <2>4, <2>7 DEF Numbered
    <2> QED
        BY <1>2, <2>5, <2>6, <2>7 DEF Numbered
<1> QED
    BY <1>1, <1>4, <1>5

-----------------------------------------------------------------------------
(* Commands and answers in flight. *)

LEMMA Installation ==
    ASSUME setup \in Setups
    PROVE  /\ setup.guilds \subseteq Guild /\ setup.configs \subseteq ConfigType
           /\ setup.default \in ConfigType /\ setup.saves \in Nat
           /\ setup.calls \in 0..MaxCalls
           /\ None \notin ConfigType
    BY ConfigAssumption DEF SetupType, ConfigType, None

\* Versions are numbers, in memory, in redis and on the way.
LEMMA VersionTypes ==
    ASSUME Types
    PROVE  /\ \A g \in Guild : config[g].ver \in Nat /\ db[g].ver \in Nat
           /\ \A i \in DOMAIN replies : \A g \in Guild : Carries(replies[i], g) =>
                 /\ Carried(replies[i], g) \in Entry
                 /\ Carried(replies[i], g).ver \in Nat
<1>1. \A g \in Guild : config[g].ver \in Nat /\ db[g].ver \in Nat
    BY Installation DEF Types, ZBotTypeOK, Versions
<1>2. \A i \in DOMAIN replies : \A g \in Guild :
         Carries(replies[i], g) => Carried(replies[i], g) \in Entry
    BY DEF Types, ZBotTypeOK, Carries, Carried, Request
<1>3. \A e \in Entry : e.ver \in Nat
    BY Installation DEF Entry, Versions, Types, ZBotTypeOK
<1> QED
    BY <1>1, <1>2, <1>3

(* Commands are added by the bot, whose entries for some guilds may have   *)
(* been written anew.                                                      *)
LEMMA SendQueue ==
    ASSUME IInv, RconTypeOK', beRcons' \in [Guild -> Seq(Rcon)],
           UNCHANGED <<setup, db, replies>>,
           guilds' \subseteq Guild, running' \in BOOLEAN, known' \subseteq Guild,
           calls' \in 0..MaxCalls, overwritten' \subseteq Guild,
           (calls > 0 => guilds \subseteq known)', known \subseteq known',
           NEW gs, config' = DefaultsFor(gs),
           requests' = requests \/ \E q \in Request : Asked(q, known', db') /\ Send(q)
    PROVE  Types' /\ InFlight' /\ Growing'
<1> USE DEF IInv
<1>1. /\ Default.ver = 0 /\ Default.cfg = setup.default
      /\ \A g \in Guild : config'[g] = config[g] \/ config'[g] = Default
      /\ config' \in [Guild -> [cfg : setup.configs \cup {setup.default}, ver : Versions]]
    BY Installation DEF Types, ZBotTypeOK, DefaultsFor, Default, Versions
<1>2. /\ \A i \in DOMAIN requests' : Asked(requests'[i], known', db')
      /\ requests' \in Seq(Request)
    <2>1. CASE requests' = requests
        BY <2>1 DEF Types, ZBotTypeOK, InFlight, Asked
    <2>2. CASE \E q \in Request : Asked(q, known', db') /\ Send(q)
        <3> PICK q \in Request : Asked(q, known', db') /\ Send(q)
            BY <2>2
        <3>1. /\ DOMAIN requests = 1..Len(requests) /\ Len(requests) \in Nat
              /\ DOMAIN requests' = 1..(Len(requests) + 1)
              /\ \A i \in DOMAIN requests : requests'[i] = requests[i]
              /\ requests'[Len(requests) + 1] = q
              /\ requests' \in Seq(Request)
            BY Appended DEF Send, Types, ZBotTypeOK
        <3>2. \A i \in DOMAIN requests' : i \in DOMAIN requests \/ i = Len(requests) + 1
            BY <3>1
        <3>3. \A i \in DOMAIN requests : Asked(requests[i], known', db')
            BY DEF InFlight, Asked
        <3> QED
            BY <3>1, <3>2, <3>3 DEF Asked
    <2> QED
        BY <2>1, <2>2
<1>3. Types'
    BY <1>1, <1>2 DEF Types, ZBotTypeOK, Versions, Entry, Answers, Reply
<1>4. InFlight'
    <2>1. \A i \in DOMAIN replies : Asked(replies[i].request, known', db')
        BY DEF InFlight, Asked
    <2> QED
        BY <1>2, <2>1 DEF InFlight
<1>5. Growing'
    <2>1. \A g \in Guild : config[g].ver \in Nat /\ db[g].ver \in Nat
        BY VersionTypes
    <2>2. \A g \in Guild : config'[g].ver \in Nat /\ config'[g].ver <= config[g].ver
        BY <1>1, <2>1
    <2>3. \A i \in DOMAIN replies : \A g \in Guild :
                Carries(replies[i], g) => Carried(replies[i], g).ver \in Nat
        BY VersionTypes
    <2> QED
        BY <2>1, <2>2, <2>3 DEF Growing
<1> QED
    BY <1>3, <1>4, <1>5

(* The oldest answer is handled: what it may put into memory is not older  *)
(* than what was there, and not younger than what the next answers carry.  *)
LEMMA DeliverQueue ==
    ASSUME IInv, RconTypeOK', beRcons' \in [Guild -> Seq(Rcon)], replies # <<>>,
           replies' = Tail(replies),
           UNCHANGED <<setup, guilds, running, known, db, calls, overwritten>>,
           config' \in [Guild -> [cfg : setup.configs \cup {setup.default}, ver : Versions]],
           \A g \in Guild : \/ config'[g] = config[g]
                            \/ /\ Carries(Head(replies), g)
                               /\ config'[g] = Carried(Head(replies), g),
           requests' = requests \/ \E q \in Request : Asked(q, known, db) /\ Send(q)
    PROVE  /\ Types' /\ InFlight' /\ Growing'
           /\ \A g \in Guild : config'[g].ver >= config[g].ver
<1> USE DEF IInv
<1>1. /\ Head(replies) = replies[1] /\ 1 \in DOMAIN replies
      /\ Len(replies) \in Nat /\ DOMAIN replies = 1..Len(replies)
      /\ DOMAIN replies' = 1..(Len(replies) - 1)
      /\ \A i \in DOMAIN replies' : i + 1 \in DOMAIN replies /\ replies'[i] = replies[i + 1]
      /\ replies' \in Seq(Reply)
    BY Taken DEF Types
<1>2. /\ \A i \in DOMAIN requests' : Asked(requests'[i], known, db)
      /\ requests' \in Seq(Request)
    <2>1. CASE requests' = requests
        BY <2>1 DEF Types, ZBotTypeOK, InFlight
    <2>2. CASE \E q \in Request : Asked(q, known, db) /\ Send(q)
        <3> PICK q \in Request : Asked(q, known, db) /\ Send(q)
            BY <2>2
        <3>1. /\ DOMAIN requests = 1..Len(requests) /\ Len(requests) \in Nat
              /\ DOMAIN requests' = 1..(Len(requests) + 1)
              /\ \A i \in DOMAIN requests : requests'[i] = requests[i]
              /\ requests'[Len(requests) + 1] = q
              /\ requests' \in Seq(Request)
            BY Appended DEF Send, Types, ZBotTypeOK
        <3>2. \A i \in DOMAIN requests' : i \in DOMAIN requests \/ i = Len(requests) + 1
            BY <3>1
        <3> QED
            BY <3>1, <3>2 DEF InFlight
    <2> QED
        BY <2>1, <2>2
<1>3. Types'
    <2>1. ZBotTypeOK'
        <3>1. \A i \in DOMAIN replies' : replies'[i].request \in Request
            BY <1>1 DEF Types, ZBotTypeOK
        <3> QED
            BY <1>2, <3>1 DEF Types, ZBotTypeOK, Versions
    <2>2. /\ \A i \in DOMAIN replies' :
             /\ replies'[i].request.op = "keys" => replies'[i].answer \in SUBSET Guild
             /\ replies'[i].request.op = "mget" =>
                   replies'[i].answer \in [replies'[i].request.keys -> Entry]
             /\ replies'[i].request.op = "get" => replies'[i].answer \in Entry
        BY <1>1 DEF Types
    <2>3. Entry' = Entry /\ Reply' = Reply
        BY DEF Entry, Reply, Answers, Versions
    <2> QED
        BY <1>1, <2>1, <2>2, <2>3 DEF Types
<1>4. InFlight'
    BY <1>1, <1>2 DEF InFlight
<1>5. \A g \in Guild : config'[g].ver >= config[g].ver
    <2> TAKE g \in Guild
    <2>1. config[g].ver \in Nat
        BY VersionTypes
    <2>2. CASE config'[g] = config[g]
        BY <2>1, <2>2
    <2>3. CASE Carries(replies[1], g) /\ config'[g] = Carried(replies[1], g)
        <3>1. config[g].ver <= config'[g].ver /\ config'[g].ver \in Nat
            BY <1>1, <2>3, VersionTypes DEF Growing
        <3> QED
            BY <2>1, <3>1
    <2> QED
        BY <1>1, <2>2, <2>3
<1>6. Growing'
    <2>1. \A g \in Guild : config'[g].ver <= db[g].ver
        BY <1>1 DEF Growing
    <2>2. ASSUME NEW i \in DOMAIN replies', NEW g \in Guild, Carries(replies'[i], g)
          PROVE  /\ config'[g].ver <= Carried(replies'[i], g).ver
                 /\ Carried(replies'[i], g).ver <= db[g].ver
        <3>1. i + 1 \in DOMAIN replies /\ replies'[i] = replies[i + 1] /\ 1 < i + 1
            BY <1>1
        <3> QED
            BY <1>1, <2>2, <3>1 DEF Growing
    <2>3. ASSUME NEW i \in DOMAIN replies', NEW j \in DOMAIN replies', NEW g \in Guild,
                 i < j, Carries(replies'[i], g), Carries(replies'[j], g)
          PROVE  Carried(replies'[i], g).ver <= Carried(replies'[j], g).ver
        <3>1. /\ i + 1 \in DOMAIN replies /\ replies'[i] = replies[i + 1]
              /\ j + 1 \in DOMAIN replies /\ replies'[j] = replies[j + 1] /\ i + 1 < j + 1
            BY <1>1, <2>3
        <3> QED
            BY <2>3, <3>1 DEF Growing
    <2> QED
        BY <2>1, <2>2, <2>3 DEF Growing, Carries, Carried
<1> QED
    BY <1>3, <1>4, <1>5, <1>6

(* A save makes the version in redis grow, and no key goes away. *)
LEMMA SaveQueue ==
    ASSUME IInv, NEW g \in setup.guilds, NEW c \in setup.configs, Save(g, c)
    PROVE  Types' /\ InFlight' /\ Growing'
<1> USE DEF IInv
<1>1. /\ g \in Guild /\ c # None /\ setup.saves \in Nat
    BY Installation DEF Types, ZBotTypeOK
<1>2. /\ db[g].ver \in Nat /\ db[g].ver + 1 \in Versions
      /\ db' = [db EXCEPT ![g] = [cfg |-> c, ver |-> db[g].ver + 1]]
    BY <1>1 DEF Save, Types, ZBotTypeOK, Versions
<1>3. Types'
    <2>1. db' \in [Guild -> [cfg : setup.configs \cup {None}, ver : Versions]]
        BY <1>1, <1>2 DEF Types, ZBotTypeOK
    <2>2. Entry' = Entry /\ Reply' = Reply
        BY DEF Entry, Reply, Answers, Versions, Save
    <2>3. ZBotTypeOK'
        BY <2>1 DEF Types, ZBotTypeOK, Save, Versions, RconTypeOK, rconVars
    <2> QED
        BY <2>2, <2>3 DEF Types, Save
<1>4. \A h \in Guild : /\ db'[h].cfg = None => db[h].cfg = None
                       /\ db[h].ver <= db'[h].ver
                       /\ db[h].ver \in Nat /\ db'[h].ver \in Nat
    <2> TAKE h \in Guild
    <2>1. db[h].ver \in Nat
        BY VersionTypes
    <2>2. CASE h = g
        BY <1>1, <1>2, <2>2 DEF Types, ZBotTypeOK
    <2>3. CASE h # g
        BY <1>1, <1>2, <2>1, <2>3 DEF Types, ZBotTypeOK
    <2> QED
        BY <2>2, <2>3
<1>5. InFlight'
    <2>1. \A q \in Request : Asked(q, known, db) => Asked(q, known', db')
        BY <1>4 DEF Asked, Request, Save
    <2>2. /\ \A i \in DOMAIN requests : requests[i] \in Request
          /\ \A i \in DOMAIN replies : replies[i].request \in Request
        BY DEF Types, ZBotTypeOK
    <2>3. \A i \in DOMAIN replies :
             replies[i].request.op = "keys" => replies[i].answer \subseteq Guild
        BY DEF Types
    <2> QED
        BY <1>4, <2>1, <2>2, <2>3 DEF InFlight, Save
<1>6. Growing'
    <2>1. UNCHANGED <<config, replies>>
        BY DEF Save
    <2> QED
        BY <1>4, <2>1, VersionTypes DEF Growing, Carries, Carried
<1> QED
    BY <1>3, <1>5, <1>6

(* Redis answers with the youngest versions there are. *)
LEMMA ExecuteQueue ==
    ASSUME IInv, Execute
    PROVE  Types' /\ InFlight' /\ Growing' /\ Numbered'
<1> USE DEF IInv
<1> DEFINE q == Head(requests)
<1>1. PICK failed \in BOOLEAN :
         replies' = Append(replies, [request |-> q, failed |-> failed, answer |-> Answer(q)])
    BY DEF Execute
<1> DEFINE p == [request |-> q, failed |-> failed, answer |-> Answer(q)]
<1>2. /\ q = requests[1] /\ 1 \in DOMAIN requests
      /\ Len(requests) \in Nat /\ DOMAIN requests = 1..Len(requests)
      /\ DOMAIN requests' = 1..(Len(requests) - 1)
      /\ \A i \in DOMAIN requests' : i + 1 \in DOMAIN requests /\ requests'[i] = requests[i + 1]
      /\ requests' \in Seq(Request) /\ q \in Request
    BY Taken DEF Execute, Types, ZBotTypeOK
<1>3. /\ UNCHANGED <<setup, guilds, running, known, config, beRcons, db, calls, overwritten>>
      /\ UNCHANGED rconVars /\ requests # <<>> /\ requests' = Tail(requests)
    BY DEF Execute
<1> HIDE DEF q
<1>4. /\ q.op \in {"keys", "mget", "get"}
      /\ q.op = "mget" => q.keys \in SUBSET Guild
      /\ q.op = "get" => q.guild \in Guild
    BY <1>2 DEF Request
<1>5. /\ q.op = "keys" => Answer(q) = {g \in Guild : db[g].cfg # None}
      /\ q.op = "mget" => Answer(q) = [g \in q.keys |-> db[g]]
      /\ q.op = "get" => Answer(q) = db[q.guild]
    BY <1>4 DEF Answer
<1>6. \A g \in Guild : db[g] \in Entry
    BY DEF Types, ZBotTypeOK, Entry
<1>7. /\ q.op = "keys" => Answer(q) \in SUBSET Guild
      /\ q.op = "mget" => Answer(q) \in [q.keys -> Entry]
      /\ q.op = "get" => Answer(q) \in Entry
    BY <1>4, <1>5, <1>6
<1>8. Answer(q) \in Answers
    BY <1>4, <1>7 DEF Answers
<1>9. p \in Reply /\ p.request = q /\ p.answer = Answer(q)
    BY <1>2, <1>8 DEF Reply
<1> HIDE DEF p
<1>10. replies' = Append(replies, p)
    BY <1>1 DEF p
<1>11. /\ DOMAIN replies = 1..Len(replies) /\ Len(replies) \in Nat
       /\ DOMAIN replies' = 1..(Len(replies) + 1)
       /\ \A i \in DOMAIN replies : replies'[i] = replies[i]
       /\ replies'[Len(replies) + 1] = p
       /\ replies' \in Seq(Reply)
    BY <1>9, <1>10, Appended DEF Types
<1>12. \A i \in DOMAIN replies' :
          \/ i \in DOMAIN replies /\ replies'[i] = replies[i]
          \/ i = Len(replies) + 1 /\ replies'[i] = p
    <2>1. \A i \in DOMAIN replies' : i \in DOMAIN replies \/ i = Len(replies) + 1
        BY <1>11
    <2> QED
        BY <1>11, <2>1
<1>13. Types'
    <2>1. Entry' = Entry /\ Reply' = Reply
        BY <1>3 DEF Entry, Reply, Answers, Versions
    <2>2. \A i \in DOMAIN replies' : replies'[i].request \in Request
        BY <1>2, <1>9, <1>12 DEF Types, ZBotTypeOK
    <2>3. ZBotTypeOK'
        BY <1>2, <1>3, <2>2 DEF Types, ZBotTypeOK, Versions, RconTypeOK, rconVars
    <2>4. \A i \in DOMAIN replies' :
             /\ replies'[i].request.op = "keys" => replies'[i].answer \in SUBSET Guild
             /\ replies'[i].request.op = "mget" =>
                   replies'[i].answer \in [replies'[i].request.keys -> Entry]
             /\ replies'[i].request.op = "get" => replies'[i].answer \in Entry
        BY <1>7, <1>9, <1>12 DEF Types
    <2> QED
        BY <1>11, <2>1, <2>3, <2>4 DEF Types
<1>14. InFlight'
    <2>1. Asked(q, known, db)
        BY <1>2 DEF InFlight
    <2>2. \A i \in DOMAIN requests' : Asked(requests'[i], known, db)
        BY <1>2 DEF InFlight
    <2>3. /\ q.op = "keys" => \A g \in Answer(q) : db[g].cfg # None
          /\ q.op = "mget" => \A g \in q.keys : Answer(q)[g].cfg # None
        BY <1>5, <2>1 DEF Asked
    <2>4. \A i \in DOMAIN replies' :
             /\ Asked(replies'[i].request, known, db)
             /\ replies'[i].request.op = "keys" =>
                   \A g \in replies'[i].answer : db[g].cfg # None
             /\ replies'[i].request.op = "mget" =>
                   \A g \in replies'[i].request.keys : replies'[i].answer[g].cfg # None
        BY <1>9, <1>12, <2>1, <2>3 DEF InFlight
    <2> QED
        BY <1>3, <2>2, <2>4 DEF InFlight
<1>15. Growing'
    <2>1. \A g \in Guild : Carries(p, g) => Carried(p, g) = db[g]
        BY <1>4, <1>5, <1>9 DEF Carries, Carried
    <2>2. ASSUME NEW i \in DOMAIN replies', NEW g \in Guild, Carries(replies'[i], g)
          PROVE  /\ config[g].ver <= Carried(replies'[i], g).ver
                 /\ Carried(replies'[i], g).ver <= db[g].ver
        <3>1. CASE i \in DOMAIN replies /\ replies'[i] = replies[i]
            BY <2>2, <3>1 DEF Growing
        <3>2. CASE replies'[i] = p
            BY <2>1, <2>2, <3>2, VersionTypes DEF Growing
        <3> QED
            BY <1>12, <3>1, <3>2
    <2>3. ASSUME NEW i \in DOMAIN replies', NEW j \in DOMAIN replies', NEW g \in Guild,
                 i < j, Carries(replies'[i], g), Carries(replies'[j], g)
          PROVE  Carried(replies'[i], g).ver <= Carried(replies'[j], g).ver
        <3>1. i \in DOMAIN replies /\ replies'[i] = replies[i]
            BY <1>11, <2>3
        <3>2. CASE j \in DOMAIN replies /\ replies'[j] = replies[j]
            BY <2>3, <3>1, <3>2 DEF Growing
        <3>3. CASE replies'[j] = p
            BY <2>1, <2>3, <3>1, <3>3 DEF Growing
        <3> QED
            BY <1>12, <3>2, <3>3
    <2> QED
        BY <1>3, <2>2, <2>3 DEF Growing, Carries, Carried
<1>16. Numbered'
    <2>1. Queues /\ UNCHANGED <<calls, bnode>>
        BY <1>3 DEF Queues, Types, ZBotTypeOK, rconVars
    <2> QED
        BY <1>3, <1>9, <1>10, <2>1, NumberedExecute DEF q
<1> QED
    BY <1>13, <1>14, <1>15, <1>16

-----------------------------------------------------------------------------
(* The actions. *)

\* What every step is shown to do: the rcons step as in BERcon or not at all,
\* the invariant is kept, and no configuration goes back.
StepOK ==
    /\ RconNext \/ UNCHANGED rconVars
    /\ IInv'
    /\ \A g \in Guild : config'[g] = Default \/ config'[g].ver >= config[g].ver

\* Rcons that are left alone.
LEMMA NothingMade ==
    ASSUME IInv, UNCHANGED rconVars, NEW n
    PROVE  RconInv' /\ RconsChange({}, {}, n)
<1>1. RconInv'
    BY NextInv DEF IInv
<1> QED
    BY <1>1 DEF RconsChange, rconVars

LEMMA Listed ==
    ASSUME IInv
    PROVE  /\ \A g \in Guild : Elements(beRcons[g]) \subseteq Rcon
           /\ Queues /\ calls \in 0..MaxCalls /\ calls \in Nat /\ bercons \subseteq Rcon
           /\ Default.ver = 0
           /\ \A g \in Guild : config[g].cfg \in ConfigType
    BY ElementsOf, ConfigAssumption, Installation
       DEF IInv, Types, ZBotTypeOK, Queues, Default, RconTypeOK

\* There is a number for one more call.
LEMMA NextCall ==
    ASSUME IInv, calls < setup.calls
    PROVE  calls \in Nat /\ calls + 1 \in Call /\ calls + 1 \in 0..MaxCalls
<1>1. calls \in Nat /\ MaxCalls \in Nat /\ setup.calls \in 0..MaxCalls
    BY Listed, Installation, ConfigAssumption DEF IInv, Types, ZBotTypeOK
<1> QED
    BY <1>1 DEF Call

(* A call that writes the entries of the guilds gs anew and then either    *)
(* asks redis or starts every guild: 'ready' and 'guildCreate'.            *)
LEMMA StartInv ==
    ASSUME IInv, NEW gs \in SUBSET Guild,
           calls < setup.calls, calls' = calls + 1,
           known' = known \cup gs, guilds' \subseteq known \cup gs,
           overwritten' = overwritten \cup (known \cap gs),
           config' = DefaultsFor(gs), running' \in BOOLEAN,
           \/ /\ beRcons' = EmptyFor(gs)
              /\ \E q \in Request : q.n = calls + 1 /\ Asked(q, known', db) /\ Send(q)
              /\ UNCHANGED rconVars
           \/ /\ initAll(known', config', EmptyFor(gs), calls + 1)
              /\ UNCHANGED requests,
           UNCHANGED <<setup, db, replies>>
    PROVE  StepOK
<1> DEFINE n == calls + 1
<1>0. /\ calls \in Nat /\ n \in Call /\ calls' \in 0..MaxCalls
      /\ known' \in SUBSET Guild /\ overwritten' \subseteq Guild /\ guilds' \subseteq Guild
    BY NextCall DEF IInv, Types, ZBotTypeOK
<1>1. \A g \in Guild : /\ config'[g].cfg \in ConfigType
                       /\ config'[g] = Default \/ config'[g] = config[g]
    BY Listed, Installation DEF DefaultsFor, Default, IInv, Types, ZBotTypeOK
<1>2. /\ EmptyFor(gs) \in [Guild -> Seq(Rcon)]
      /\ \A g \in Guild : Elements(EmptyFor(gs)[g]) = IF g \in gs THEN {} ELSE Elements(beRcons[g])
    BY DEF EmptyFor, Elements, IInv, Types, ZBotTypeOK
<1>3. \A g \in Guild : config'[g] = Default \/ config'[g].ver >= config[g].ver
    BY <1>1, VersionTypes DEF IInv
<1>4. CASE /\ beRcons' = EmptyFor(gs)
           /\ \E q \in Request : q.n = calls + 1 /\ Asked(q, known', db) /\ Send(q)
           /\ UNCHANGED rconVars
    <2> PICK q \in Request : q.n = calls + 1 /\ Asked(q, known', db) /\ Send(q)
        BY <1>4
    <2>1. RconInv' /\ RconsChange({}, {}, n) /\ UNCHANGED bnode
        BY <1>4, NothingMade DEF rconVars
    <2>2. Registry'
        <3>1. \A g \in Guild : Elements(beRcons'[g])
                 = (IF g \in gs THEN {} ELSE Elements(beRcons[g])) \cup OfGuild({}, g)
            BY <1>2, <1>4 DEF OfGuild
        <3> QED
            BY <2>1, <3>1, Listed, RegistryGrows DEF IInv
    <2>3. Numbered'
        BY <2>1, Listed, NumberedSend DEF IInv
    <2>4. Types' /\ InFlight' /\ Growing'
        <3>1. RconTypeOK'
            BY <2>1 DEF RconInv
        <3> QED
            BY <1>0, <1>2, <1>4, <3>1, SendQueue
    <2> QED
        BY <1>3, <1>4, <2>1, <2>2, <2>3, <2>4 DEF StepOK, IInv
<1>5. CASE initAll(known', config', EmptyFor(gs), n) /\ UNCHANGED requests
    <2>1. Unused(n)
        BY <1>0, RconParts, ConfigAssumption DEF Unused, IInv, Numbered
    <2>2. RconTypeOK
        BY DEF IInv, RconInv
    <2>3. /\ Owner
          /\ beRcons' \in [Guild -> Seq(Rcon)]
          /\ \E made : /\ RconsChange({}, made, n)
                       /\ \A g \in Guild : Elements(beRcons'[g])
                             = Elements(EmptyFor(gs)[g]) \cup OfGuild(made, g)
                       /\ \A r \in made : r[1] \in known'
        <3>1. PICK cfgs, ids, lists : cfgs = config' /\ ids = known' /\ lists = EmptyFor(gs)
            OBVIOUS
        <3>2. /\ initAll(ids, cfgs, lists, n) /\ ids \in SUBSET Guild
              /\ \A g \in Guild : cfgs[g].cfg \in ConfigType
              /\ lists \in [Guild -> Seq(Rcon)] /\ n \in Call
            BY <1>0, <1>1, <1>2, <1>5, <3>1
        <3> HIDE DEF n
        <3>3. /\ Owner
              /\ beRcons' \in [Guild -> Seq(Rcon)]
              /\ \E made : /\ RconsChange({}, made, n)
                           /\ \A g \in Guild : Elements(beRcons'[g])
                                 = Elements(lists[g]) \cup OfGuild(made, g)
                           /\ \A r \in made : r[1] \in ids
            BY <2>1, <2>2, <3>2, StartAll
        <3> QED
            BY <3>1, <3>3
    <2> PICK made : /\ RconsChange({}, made, n)
                    /\ \A g \in Guild : Elements(beRcons'[g])
                          = Elements(EmptyFor(gs)[g]) \cup OfGuild(made, g)
                    /\ \A r \in made : r[1] \in known'
        BY <2>3
    <2>4. RconInv'
        BY <2>3, OwnerInv DEF IInv
    <2>5. Registry'
        <3>1. \A g \in Guild : Elements(beRcons'[g])
                 = (IF g \in gs THEN {} ELSE Elements(beRcons[g])) \cup OfGuild(made, g)
            BY <1>2
        <3> QED
            BY <3>1, Listed, RegistryGrows DEF IInv
    <2>6. Numbered'
        BY <1>5, Listed, NumberedDirect DEF IInv
    <2>7. Types' /\ InFlight' /\ Growing'
        <3>1. RconTypeOK'
            BY <2>4 DEF RconInv
        <3> QED
            BY <1>0, <1>5, <2>3, <3>1, SendQueue
    <2> QED
        BY <1>3, <2>3, <2>4, <2>5, <2>6, <2>7 DEF StepOK, IInv, RconNext
<1> QED
    BY <1>4, <1>5

LEMMA ReadyInv ==
    ASSUME IInv, Ready
    PROVE  StepOK
<1>1. /\ calls < setup.calls /\ calls' = calls + 1 /\ known' = known \cup guilds
      /\ guilds' = guilds /\ config' = DefaultsFor(guilds) /\ running' \in BOOLEAN
      /\ overwritten' = overwritten \cup (known \cap guilds)
      /\ UNCHANGED <<setup, db, replies>>
    BY DEF Ready
<1>2. guilds \in SUBSET Guild
    BY DEF IInv, Types, ZBotTypeOK
<1>3. CASE setup.redis
    <2>1. /\ beRcons' = EmptyFor(guilds) /\ UNCHANGED rconVars
          /\ Send([op |-> "keys", n |-> calls + 1])
        BY <1>3 DEF Ready
    <2>2. [op |-> "keys", n |-> calls + 1] \in Request
        BY <1>1, NextCall DEF Request
    <2>3. Asked([op |-> "keys", n |-> calls + 1], known', db)
        BY DEF Asked
    <2> QED
        BY <1>1, <1>2, <2>1, <2>2, <2>3, StartInv
<1>4. CASE ~setup.redis
    <2>1. initAll(known', config', EmptyFor(guilds), calls + 1) /\ UNCHANGED requests
        BY <1>4 DEF Ready
    <2> QED
        BY <1>1, <1>2, <2>1, StartInv
<1> QED
    BY <1>3, <1>4

LEMMA GuildCreateInv ==
    ASSUME IInv, NEW g \in setup.guilds, GuildCreate(g)
    PROVE  StepOK
<1>1. /\ calls < setup.calls /\ calls' = calls + 1 /\ known' = known \cup {g}
      /\ guilds' = guilds \cup {g} /\ config' = DefaultsFor({g}) /\ running' = running
      /\ overwritten' = overwritten \cup (known \cap {g}) /\ calls > 0
      /\ UNCHANGED <<setup, db, replies>>
    BY DEF GuildCreate
<1>2. {g} \in SUBSET Guild /\ running' \in BOOLEAN /\ guilds' \subseteq known \cup {g}
    BY <1>1, Installation DEF IInv, Types, ZBotTypeOK, InFlight
<1>3. CASE setup.redis
    <2> DEFINE q == [op |-> "get", n |-> calls + 1, guild |-> g]
    <2>1. /\ beRcons' = EmptyFor({g}) /\ UNCHANGED rconVars /\ Send(q)
        BY <1>3 DEF GuildCreate
    <2>2. q \in Request /\ q.n = calls + 1
        BY <1>1, <1>2, NextCall DEF Request
    <2>3. Asked(q, known', db)
        BY <1>1 DEF Asked
    <2> HIDE DEF q
    <2> QED
        BY <1>1, <1>2, <2>1, <2>2, <2>3, StartInv
<1>4. CASE ~setup.redis
    <2>1. initAll(known', config', EmptyFor({g}), calls + 1) /\ UNCHANGED requests
        BY <1>4 DEF GuildCreate
    <2> QED
        BY <1>1, <1>2, <2>1, StartInv
<1> QED
    BY <1>3, <1>4

\* A step that leaves the rcons, the lists and the entries alone.
LEMMA RegistrySame ==
    ASSUME IInv, UNCHANGED <<rconVars, known, beRcons, overwritten>>
    PROVE  Registry'
    BY DEF IInv, Registry, OrphansOnlyAfterOverwrite, rconVars

LEMMA GuildDeleteInv ==
    ASSUME IInv, NEW g \in setup.guilds, GuildDelete(g)
    PROVE  StepOK
<1>1. /\ UNCHANGED <<rconVars, setup, running, known, config, beRcons, db, requests,
                    replies, calls, overwritten>>
      /\ guilds' = guilds \ {g}
    BY DEF GuildDelete
<1>2. RconInv' /\ UNCHANGED bnode
    BY <1>1, NothingMade DEF rconVars
<1>3. Registry'
    BY <1>1, RegistrySame
<1>4. Numbered'
    BY <1>1, <1>2 DEF IInv, Numbered
<1>5. Types'
    BY <1>1, <1>2 DEF IInv, Types, ZBotTypeOK, Versions, Entry, Answers, Reply, RconInv
<1>6. InFlight' /\ Growing'
    BY <1>1 DEF IInv, InFlight, Growing, Carries, Carried
<1>7. \A h \in Guild : config'[h].ver >= config[h].ver
    BY <1>1, VersionTypes DEF IInv
<1> QED
    BY <1>1, <1>2, <1>3, <1>4, <1>5, <1>6, <1>7 DEF StepOK, IInv

LEMMA ReloadInv ==
    ASSUME IInv, NEW g \in setup.guilds, Reload(g)
    PROVE  StepOK
<1> DEFINE q == [op |-> "get", n |-> calls + 1, guild |-> g]
<1>1. /\ UNCHANGED <<rconVars, setup, guilds, running, known, config, beRcons, db,
                    replies, overwritten>>
      /\ calls > 0 /\ calls < setup.calls /\ calls' = calls + 1 /\ g \in guilds
      /\ Send(q)
    BY DEF Reload
<1>2. q \in Request /\ q.n = calls + 1 /\ Asked(q, known', db') /\ calls' \in 0..MaxCalls
    BY <1>1, NextCall DEF Request, Asked, IInv, Types, ZBotTypeOK, InFlight
<1> HIDE DEF q
<1>3. RconInv' /\ RconTypeOK' /\ UNCHANGED bnode
    BY <1>1, NothingMade DEF rconVars, RconInv
<1>4. Registry'
    BY <1>1, RegistrySame
<1>5. Numbered'
    BY <1>1, <1>2, <1>3, Listed, NumberedSend DEF IInv
<1>6. Types' /\ InFlight' /\ Growing'
    <2>1. config' = DefaultsFor({})
        BY <1>1 DEF DefaultsFor, IInv, Types, ZBotTypeOK
    <2>2. /\ beRcons' \in [Guild -> Seq(Rcon)] /\ guilds' \subseteq Guild
          /\ running' \in BOOLEAN /\ known' \subseteq Guild /\ overwritten' \subseteq Guild
          /\ (calls > 0 => guilds \subseteq known)'
        BY <1>1 DEF IInv, Types, ZBotTypeOK, InFlight
    <2> QED
        BY <1>1, <1>2, <1>3, <2>1, <2>2, SendQueue
<1>7. \A h \in Guild : config'[h].ver >= config[h].ver
    BY <1>1, VersionTypes DEF IInv
<1> QED
    BY <1>1, <1>3, <1>4, <1>5, <1>6, <1>7 DEF StepOK, IInv

LEMMA SaveInv ==
    ASSUME IInv, NEW g \in setup.guilds, NEW c \in setup.configs, Save(g, c)
    PROVE  StepOK
<1>1. UNCHANGED <<rconVars, known, config, beRcons, requests, replies, calls, overwritten>>
    BY DEF Save
<1>2. RconInv' /\ UNCHANGED bnode
    BY <1>1, NothingMade DEF rconVars
<1>3. Numbered'
    BY <1>1, <1>2 DEF IInv, Numbered
<1>4. \A h \in Guild : config'[h].ver >= config[h].ver
    BY <1>1, VersionTypes DEF IInv
<1> QED
    BY <1>1, <1>2, <1>3, <1>4, RegistrySame, SaveQueue DEF StepOK, IInv

LEMMA ExecuteInv ==
    ASSUME IInv, Execute
    PROVE  StepOK
<1>1. UNCHANGED <<rconVars, known, config, beRcons, overwritten>>
    BY DEF Execute
<1>2. RconInv'
    BY <1>1, NothingMade
<1>3. \A h \in Guild : config'[h].ver >= config[h].ver
    BY <1>1, VersionTypes DEF IInv
<1> QED
    BY <1>1, <1>2, <1>3, RegistrySame, ExecuteQueue DEF StepOK, IInv

LEMMA DeliverKeysInv ==
    ASSUME IInv, DeliverKeys
    PROVE  StepOK
<1> DEFINE n == Head(replies).request.n
           q == [op |-> "mget", n |-> n, keys |-> Head(replies).answer]
<1>1. /\ UNCHANGED <<rconVars, setup, guilds, running, known, config, beRcons, db, calls,
                     overwritten>>
      /\ replies # <<>> /\ replies' = Tail(replies) /\ Head(replies).request.op = "keys"
      /\ requests' = requests \/ Send(q)
    BY DEF DeliverKeys, Arrived
<1>2. Head(replies) = replies[1] /\ 1 \in DOMAIN replies
    BY <1>1, Taken DEF IInv, Types
<1>3. q \in Request /\ q.n = n /\ Asked(q, known, db)
    <2>1. Head(replies).answer \in SUBSET Guild
        BY <1>1, <1>2 DEF IInv, Types
    <2>2. n \in Call
        BY <1>2, Listed, RequestNumber
    <2>3. \A g \in Head(replies).answer : db[g].cfg # None
        BY <1>1, <1>2 DEF IInv, InFlight
    <2> QED
        BY <2>1, <2>2, <2>3 DEF Request, Asked
<1>4. RconInv' /\ RconTypeOK' /\ RconsChange({}, {}, n)
    BY <1>1, NothingMade DEF RconInv
<1>5. Registry'
    BY <1>1, RegistrySame
<1> HIDE DEF q
<1>6. Numbered'
    BY <1>1, <1>3, <1>4, Listed, NumberedDeliver DEF IInv
<1>7. /\ Types' /\ InFlight' /\ Growing'
      /\ \A g \in Guild : config'[g].ver >= config[g].ver
    <2>1. /\ beRcons' \in [Guild -> Seq(Rcon)]
          /\ config' \in [Guild -> [cfg : setup.configs \cup {setup.default}, ver : Versions]]
        BY <1>1 DEF IInv, Types, ZBotTypeOK
    <2> QED
        BY <1>1, <1>3, <1>4, <2>1, DeliverQueue
<1> QED
    BY <1>1, <1>4, <1>5, <1>6, <1>7 DEF StepOK, IInv

\* The number of an answer in flight has made no rcon yet.
LEMMA NumberUnused ==
    ASSUME IInv, replies # <<>>
    PROVE  Unused(Head(replies).request.n) /\ Head(replies).request.n \in Call
<1>1. Head(replies) = replies[1] /\ 1 \in DOMAIN replies
    BY Taken DEF IInv, Types
<1>2. Head(replies).request.n \in Call
    BY <1>1, Listed, RequestNumber
<1> QED
    BY <1>1, <1>2 DEF IInv, Numbered, Unused

LEMMA DeliverMgetInv ==
    ASSUME IInv, DeliverMget
    PROVE  StepOK
<1> DEFINE p == Head(replies)
           n == p.request.n
           mine == p.request.keys \cap known
           Apply(gs) == [g \in Guild |->
                           IF g \in gs THEN Stored(config[g], p.answer[g]) ELSE config[g]]
<1>1. /\ UNCHANGED <<setup, guilds, running, known, db, requests, calls, overwritten>>
      /\ replies # <<>> /\ replies' = Tail(replies) /\ p.request.op = "mget"
    BY DEF DeliverMget, Arrived
<1>2. p = replies[1] /\ 1 \in DOMAIN replies
    BY <1>1, Taken DEF IInv, Types
<1>3. PICK gs \in SUBSET mine :
         /\ config' = Apply(gs)
         /\ \/ initAll(known, config', beRcons, n)
            \/ UNCHANGED <<rconVars, beRcons>>
    <2>1. CASE initAll(known, Apply(mine), beRcons, n) /\ config' = Apply(mine)
        BY <2>1
    <2>2. CASE UNCHANGED <<rconVars, beRcons>> /\ config' = config
        <3>1. Apply({}) = config
            BY DEF IInv, Types, ZBotTypeOK
        <3>2. {} \in SUBSET mine
            OBVIOUS
        <3> HIDE DEF Apply, mine
        <3> QED
            BY <2>2, <3>1, <3>2
    <2>3. CASE UNCHANGED <<rconVars, beRcons>> /\ \E gs \in SUBSET mine : config' = Apply(gs)
        BY <2>3
    <2> QED
        BY <2>1, <2>2, <2>3 DEF DeliverMget
<1>4. /\ p.request.keys \in SUBSET Guild
      /\ p.answer \in [p.request.keys -> Entry]
      /\ \A g \in p.request.keys : p.answer[g].cfg # None
    BY <1>1, <1>2 DEF IInv, Types, ZBotTypeOK, Request, InFlight
<1>5. ASSUME NEW g \in Guild
      PROVE  /\ config'[g] = config[g] \/ (Carries(p, g) /\ config'[g] = Carried(p, g))
             /\ config'[g] \in [cfg : setup.configs \cup {setup.default}, ver : Versions]
    <2>1. config[g] \in [cfg : setup.configs \cup {setup.default}, ver : Versions]
        BY DEF IInv, Types, ZBotTypeOK
    <2>4. config'[g] = IF g \in gs THEN Stored(config[g], p.answer[g]) ELSE config[g]
        BY <1>3
    <2>5. gs \subseteq p.request.keys
        OBVIOUS
    <2>2. CASE g \in gs
        <3>1. p.answer[g] \in Entry /\ p.answer[g].cfg # None
            BY <1>4, <2>2, <2>5
        <3>2. p.answer[g] \in [cfg : setup.configs \cup {setup.default}, ver : Versions]
            BY <3>1 DEF Entry
        <3>3. config'[g] = config[g] \/ config'[g] = p.answer[g]
            BY <2>2, <2>4 DEF Stored
        <3>4. Carries(p, g) /\ Carried(p, g) = p.answer[g]
            BY <1>1, <2>2, <2>5 DEF Carries, Carried
        <3> QED
            BY <2>1, <3>2, <3>3, <3>4
    <2>3. CASE g \notin gs
        BY <2>1, <2>3, <2>4
    <2> QED
        BY <2>2, <2>3
<1>6. config' \in [Guild -> [cfg : setup.configs \cup {setup.default}, ver : Versions]]
    <2>1. config' = [g \in Guild |-> config'[g]]
        BY <1>3
    <2> QED
        BY <1>5, <2>1
<1>7. \A g \in Guild : config'[g].cfg \in ConfigType
    BY <1>5, Installation DEF IInv, Types, ZBotTypeOK
<1> HIDE DEF p, n, mine, Apply
<1>8. /\ RconNext \/ UNCHANGED rconVars
      /\ RconInv' /\ beRcons' \in [Guild -> Seq(Rcon)] /\ Registry'
      /\ \E made : RconsChange({}, made, n)
    <2>1. CASE initAll(known, config', beRcons, n)
        <3>1. PICK cfgs : cfgs = config'
            OBVIOUS
        <3>2. /\ initAll(known, cfgs, beRcons, n) /\ \A g \in Guild : cfgs[g].cfg \in ConfigType
              /\ known \in SUBSET Guild /\ beRcons \in [Guild -> Seq(Rcon)] /\ RconTypeOK
            BY <1>7, <2>1, <3>1 DEF IInv, Types, ZBotTypeOK
        <3>3. Unused(n) /\ n \in Call
            BY <1>1, NumberUnused DEF n, p
        <3>4. /\ Owner
              /\ beRcons' \in [Guild -> Seq(Rcon)]
              /\ \E made : /\ RconsChange({}, made, n)
                           /\ \A g \in Guild : Elements(beRcons'[g])
                                 = Elements(beRcons[g]) \cup OfGuild(made, g)
                           /\ \A r \in made : r[1] \in known
            BY <3>2, <3>3, StartAll
        <3>5. PICK made : /\ RconsChange({}, made, n)
                          /\ \A g \in Guild : Elements(beRcons'[g])
                                = Elements(beRcons[g]) \cup OfGuild(made, g)
                          /\ \A r \in made : r[1] \in known
            BY <3>4
        <3>6. /\ {} \in SUBSET Guild /\ known' = known \cup {}
              /\ overwritten' = overwritten \cup (known \cap {})
              /\ \A g \in Guild : Elements(beRcons'[g])
                    = (IF g \in {} THEN {} ELSE Elements(beRcons[g])) \cup OfGuild(made, g)
            BY <1>1, <3>5
        <3>7. \A r \in made : r[1] \in known'
            BY <1>1, <3>5
        <3>8. Registry'
            BY <3>5, <3>6, <3>7, Listed, RegistryGrows DEF IInv
        <3> QED
            BY <3>4, <3>5, <3>8, OwnerInv DEF IInv, RconNext
    <2>2. CASE UNCHANGED <<rconVars, beRcons>>
        BY <1>1, <2>2, NothingMade, RegistrySame DEF IInv, Types, ZBotTypeOK
    <2> QED
        BY <1>3, <2>1, <2>2
<1>9. Numbered'
    <2>1. \E made : RconsChange({}, made, Head(replies).request.n)
        BY <1>8 DEF n, p
    <2> QED
        BY <1>1, <2>1, Listed, NumberedDeliver DEF IInv
<1>10. /\ Types' /\ InFlight' /\ Growing'
       /\ \A g \in Guild : config'[g].ver >= config[g].ver
    BY <1>1, <1>5, <1>6, <1>8, DeliverQueue DEF p, RconInv
<1> QED
    BY <1>8, <1>9, <1>10 DEF StepOK, IInv

LEMMA DeliverGetInv ==
    ASSUME IInv, DeliverGet
    PROVE  StepOK
<1> DEFINE p == Head(replies)
           n == p.request.n
           g == p.request.guild
<1>1. /\ UNCHANGED <<setup, guilds, running, known, db, requests, calls, overwritten>>
      /\ replies # <<>> /\ replies' = Tail(replies) /\ p.request.op = "get"
    BY DEF DeliverGet, Arrived
<1>2. p = replies[1] /\ 1 \in DOMAIN replies
    BY <1>1, Taken DEF IInv, Types
<1>3. /\ g \in known /\ g \in Guild /\ p.answer \in Entry
    BY <1>1, <1>2 DEF IInv, Types, ZBotTypeOK, Request, InFlight, Asked
<1>4. \/ UNCHANGED <<rconVars, config, beRcons>>
      \/ /\ p.answer.cfg # None
         /\ config' = [config EXCEPT ![g] = Stored(config[g], p.answer)]
         /\ UNCHANGED <<rconVars, beRcons>> \/ initGuild(g, p.answer.cfg, n)
    BY DEF DeliverGet
<1>5. /\ config' \in [Guild -> [cfg : setup.configs \cup {setup.default}, ver : Versions]]
      /\ \A h \in Guild : \/ config'[h] = config[h]
                          \/ Carries(p, h) /\ config'[h] = Carried(p, h)
    <2>1. config \in [Guild -> [cfg : setup.configs \cup {setup.default}, ver : Versions]]
        BY DEF IInv, Types, ZBotTypeOK
    <2>2. CASE p.answer.cfg # None /\ config' = [config EXCEPT ![g] = Stored(config[g], p.answer)]
        <3>1. p.answer \in [cfg : setup.configs \cup {setup.default}, ver : Versions]
            BY <1>3, <2>2 DEF Entry
        <3>2. config' = config \/ config' = [config EXCEPT ![g] = p.answer]
            BY <2>1, <2>2 DEF Stored
        <3> QED
            BY <1>1, <1>3, <2>1, <3>1, <3>2 DEF Carries, Carried
    <2> QED
        BY <1>4, <2>1, <2>2
<1>6. p.answer.cfg # None => p.answer.cfg \in ConfigType
    BY <1>3, Installation DEF Entry, IInv, Types, ZBotTypeOK
<1> HIDE DEF p, n, g
<1>7. /\ RconNext \/ UNCHANGED rconVars
      /\ RconInv' /\ beRcons' \in [Guild -> Seq(Rcon)] /\ Registry'
      /\ \E closed, made : RconsChange(closed, made, n)
    <2>1. CASE p.answer.cfg # None /\ initGuild(g, p.answer.cfg, n)
        <3>1. Unused(n) /\ n \in Call
            BY <1>1, NumberUnused DEF n, p
        <3>2. PICK c \in ConfigType : initGuild(g, c, n)
            BY <1>6, <2>1
        <3>3. RconInv /\ beRcons \in [Guild -> Seq(Rcon)] /\ Registry /\ known \subseteq Guild
            BY DEF IInv, Types, ZBotTypeOK
        <3>4. /\ Owner
              /\ beRcons' \in [Guild -> Seq(Rcon)]
              /\ \E closed, made :
                    /\ RconsChange(closed, made, n)
                    /\ \A r \in made : r[1] = g
                    /\ \/ /\ closed = WithNode(beRcons[g])
                          /\ Elements(beRcons'[g]) = made
                          /\ \A h \in Guild \ {g} : beRcons'[h] = beRcons[h]
                       \/ beRcons' = beRcons /\ made = {}
            BY <1>3, <3>1, <3>2, <3>3, RestartGuild
        <3>5. PICK closed, made :
                    /\ RconsChange(closed, made, n)
                    /\ \A r \in made : r[1] = g
                    /\ \/ /\ closed = WithNode(beRcons[g])
                          /\ Elements(beRcons'[g]) = made
                          /\ \A h \in Guild \ {g} : beRcons'[h] = beRcons[h]
                       \/ beRcons' = beRcons /\ made = {}
            BY <3>4
        <3>6. Registry'
            BY <1>1, <1>3, <3>3, <3>5, Listed, RegistryRestarts
        <3> QED
            BY <3>3, <3>4, <3>5, <3>6, OwnerInv DEF RconNext
    <2>2. CASE UNCHANGED <<rconVars, beRcons>>
        BY <1>1, <2>2, NothingMade, RegistrySame DEF IInv, Types, ZBotTypeOK
    <2> QED
        BY <1>4, <2>1, <2>2
<1>8. Numbered'
    <2>1. \E closed, made : RconsChange(closed, made, Head(replies).request.n)
        BY <1>7 DEF n, p
    <2> QED
        BY <1>1, <2>1, Listed, NumberedDeliver DEF IInv
<1>9. /\ Types' /\ InFlight' /\ Growing'
      /\ \A h \in Guild : config'[h].ver >= config[h].ver
    BY <1>1, <1>5, <1>7, DeliverQueue DEF p, RconInv
<1> QED
    BY <1>7, <1>8, <1>9 DEF StepOK, IInv

LEMMA RconEventInv ==
    ASSUME IInv, RconEvent, UNCHANGED botVars
    PROVE  StepOK
<1>1. UNCHANGED <<setup, guilds, running, known, config, beRcons, db, requests, replies,
                  calls, overwritten>>
    BY DEF botVars
<1>2. RconNext /\ RconInv'
    BY NextInv DEF RconNext, IInv
<1>3. /\ bercons' = bercons
      /\ \A r \in Rcon : /\ bnode'[r] = "unborn" <=> bnode[r] = "unborn"
                         /\ bnode'[r] = "null" => bnode[r] = "null"
    BY EventNodes DEF IInv
<1>4. Types'
    BY <1>1, <1>2 DEF IInv, Types, ZBotTypeOK, Versions, Entry, Answers, Reply, RconInv
<1>5. InFlight' /\ Growing'
    BY <1>1 DEF IInv, InFlight, Growing, Carries, Carried
<1>6. Numbered'
    BY <1>1, <1>3 DEF IInv, Numbered
<1>7. Registry'
    BY <1>1, <1>3, Listed DEF IInv, Registry, OrphansOnlyAfterOverwrite
<1>8. \A h \in Guild : config'[h].ver >= config[h].ver
    BY <1>1, VersionTypes DEF IInv
<1> QED
    BY <1>2, <1>4, <1>5, <1>6, <1>7, <1>8 DEF StepOK, IInv

LEMMA StutterInv ==
    ASSUME IInv, UNCHANGED vars
    PROVE  StepOK
<1>1. UNCHANGED <<setup, guilds, running, known, config, beRcons, db, requests, replies,
                  calls, overwritten>>
    BY DEF vars, botVars
<1>2. UNCHANGED rconVars /\ UNCHANGED bnode
    BY DEF vars, rconVars
<1>3. RconInv'
    BY <1>2, NothingMade
<1>4. Types'
    BY <1>1, <1>3 DEF IInv, Types, ZBotTypeOK, Versions, Entry, Answers, Reply, RconInv
<1>5. InFlight' /\ Growing'
    BY <1>1 DEF IInv, InFlight, Growing, Carries, Carried
<1>6. Numbered'
    BY <1>1, <1>2 DEF IInv, Numbered
<1>7. Registry'
    BY <1>1, <1>2, RegistrySame
<1>8. \A h \in Guild : config'[h].ver >= config[h].ver
    BY <1>1, VersionTypes DEF IInv
<1> QED
    BY <1>2, <1>3, <1>4, <1>5, <1>6, <1>7, <1>8 DEF StepOK, IInv

(* Every step, of the bot, of redis or of an rcon. *)
LEMMA StepInv == IInv /\ [ZBotNext]_vars => StepOK
<1> SUFFICES ASSUME IInv, [ZBotNext]_vars PROVE StepOK
    OBVIOUS
<1>1. CASE Ready
    BY <1>1, ReadyInv
<1>2. ASSUME NEW g \in setup.guilds, GuildCreate(g) \/ GuildDelete(g) \/ Reload(g)
      PROVE  StepOK
    BY <1>2, GuildCreateInv, GuildDeleteInv, ReloadInv
<1>3. ASSUME NEW g \in setup.guilds, NEW c \in setup.configs, Save(g, c)
      PROVE  StepOK
    BY <1>3, SaveInv
<1>4. CASE Execute
    BY <1>4, ExecuteInv
<1>5. CASE DeliverKeys
    BY <1>5, DeliverKeysInv
<1>6. CASE DeliverMget
    BY <1>6, DeliverMgetInv
<1>7. CASE DeliverGet
    BY <1>7, DeliverGetInv
<1>8. CASE RconEvent /\ UNCHANGED botVars
    BY <1>8, RconEventInv
<1>9. CASE UNCHANGED vars
    BY <1>9, StutterInv
<1> QED
    BY <1>1, <1>2, <1>3, <1>4, <1>5, <1>6, <1>7, <1>8, <1>9 DEF ZBotNext

LEMMA ZBotInitInv == ZBotInit => IInv
<1> SUFFICES ASSUME ZBotInit PROVE IInv
    OBVIOUS
<1>1. RconInv /\ RconTypeOK
    BY InitInv DEF ZBotInit, RconInv
<1>2. Types
    <2>1. setup \in Setups /\ guilds \subseteq Guild
        BY Installation DEF ZBotInit
    <2>2. /\ config \in [Guild -> [cfg : setup.configs \cup {setup.default}, ver : Versions]]
          /\ db \in [Guild -> [cfg : setup.configs \cup {None}, ver : Versions]]
        BY <2>1, Installation DEF ZBotInit, Default, Versions
    <2>3. /\ beRcons \in [Guild -> Seq(Rcon)] /\ requests \in Seq(Request)
          /\ replies \in Seq(Reply) /\ replies = <<>> /\ calls \in 0..MaxCalls
        BY ConfigAssumption DEF ZBotInit
    <2>4. running \in BOOLEAN /\ known \subseteq Guild /\ overwritten \subseteq Guild
        BY DEF ZBotInit
    <2> QED
        BY <1>1, <2>1, <2>2, <2>3, <2>4 DEF Types, ZBotTypeOK
<1>3. Numbered
    BY DEF ZBotInit, RconInit, Numbered
<1>4. InFlight
    BY DEF ZBotInit, InFlight
<1>5. Registry
    BY DEF ZBotInit, RconInit, Registry, OrphansOnlyAfterOverwrite, Elements
<1>6. Growing
    BY DEF ZBotInit, Growing, Default
<1> QED
    BY <1>1, <1>2, <1>3, <1>4, <1>5, <1>6 DEF IInv

-----------------------------------------------------------------------------
(* The theorems. *)

(* The inductive invariant holds in every reachable state of the bot. *)
THEOREM ZBotInvariant == ZBotSpec => []IInv
<1>1. IInv /\ [ZBotNext]_vars => IInv'
    BY StepInv DEF StepOK
<1> QED
    BY ZBotInitInv, <1>1, PTL DEF ZBotSpec

(* Every variable of the bot keeps its type. *)
THEOREM ZBotTypeCorrect == ZBotSpec => []ZBotTypeOK
<1>1. IInv => ZBotTypeOK
    BY DEF IInv, Types
<1> QED
    BY ZBotInvariant, <1>1, PTL

(* Startup, joins, reloads and teardowns that throw half way drive the     *)
(* rcons only as the owner of BERcon may: what is made was never made      *)
(* before, what is closed has a node and no null among its jobs.           *)
THEOREM ZBotDrivesRcons == ZBotSpec => RconSafety
<1>1. ZBotInit => RconInit
    BY DEF ZBotInit
<1>2. IInv /\ [ZBotNext]_vars => [RconNext]_rconVars
    BY StepInv DEF StepOK
<1> QED
    BY ZBotInvariant, <1>1, <1>2, PTL DEF ZBotSpec, RconSafety

(* So the rcons of a running bot, whatever its guilds and the web panel do, *)
(* have one reconnect path, their jobs exactly while logged in, and the     *)
(* whole budget of failures.                                                *)
THEOREM ZBotRcons == ZBotSpec => [](OneReconnectPath /\ CronExactlyWhileUp /\ FailureBudget)
    BY ZBotDrivesRcons, RconOneReconnectPath, RconCron, RconFailureBudget, PTL

(* An rcon that is handed commands is in the list of its guild, where the  *)
(* teardown finds it, unless the guild's entry was overwritten.            *)
THEOREM OrphansOnlyAfterOverwriteHolds == ZBotSpec => []OrphansOnlyAfterOverwrite
<1>1. IInv => OrphansOnlyAfterOverwrite
    BY DEF IInv, Registry
<1> QED
    BY ZBotInvariant, <1>1, PTL

(* However many loads and reloads are in flight, the configuration in      *)
(* memory never goes back to an older save.                                *)
THEOREM NeverBackToOlderConfigHolds == ZBotSpec => NeverBackToOlderConfig
<1>1. IInv /\ [ZBotNext]_vars =>
         [\A g \in Guild : config'[g] = Default \/ config'[g].ver >= config[g].ver]_vars
    BY StepInv DEF StepOK
<1> QED
    BY ZBotInvariant, <1>1, PTL DEF ZBotSpec, NeverBackToOlderConfig
=============================================================================
