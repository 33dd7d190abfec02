----------------------------- MODULE Networking -----------------------------
(* The clients of a redis server and the lists that refer to them, as the   *)
(* functions of networking.c, multi.c (MULTI, EXEC, DISCARD and WATCH) and  *)
(* pubsub.c change them.  The server is a record: every function takes the  *)
(* server it finds and returns the one it leaves.  Keys hold a list of      *)
(* values, a string or nothing; replies are counted.                        *)
EXTENDS Naturals, SequencesExt, FiniteSets

CONSTANTS Clients,    \* the sockets
          Keys, Channels, Patterns,
          Matches(_, _),   \* stringmatchlen: pattern, channel
          OutLimit,   \* client-output-buffer-limit, in replies
          NULL

ASSUME NetworkingAssumption ==
    /\ OutLimit \in Nat \ {0}
    /\ NULL \notin Clients \cup Keys

None == [t |-> "none", v |-> <<>>]
List(v) == [t |-> "list", v |-> v]
Str == [t |-> "string", v |-> <<>>]

(* A command: its name, key or keys, timeout, value and one more argument. *)
Command == [op |-> "none", k |-> NULL, ks |-> <<>>, timeout |-> FALSE, v |-> 0, arg |-> NULL]

(* createClient: n counts the commands the client has issued, answers the  *)
(* ones it got a reply to; stale and broken record what EXEC must not miss. *)
createClient ==
    [state |-> "open", querybuf |-> <<>>, flags |-> {}, mstate |-> <<>>,
     watched_keys |-> <<>>, bpop |-> [keys |-> {}, target |-> NULL, timeout |-> FALSE],
     lastcmd |-> "none", channels |-> {}, patterns |-> <<>>, pending |-> 0,
     handler |-> FALSE, n |-> 0, answers |-> <<>>, muted |-> FALSE,
     stale |-> {}, refused |-> FALSE, broken |-> FALSE]

(* What is left of a client once its memory is released.                   *)
Released(c) == [createClient EXCEPT !.state = "freed", !.broken = c.broken,
                                    !.n = c.n, !.answers = c.answers]

NotYet == [createClient EXCEPT !.state = "new"]

Has(s, c, f) == f \in s.cl[c].flags
Set(s, c, f) == [s EXCEPT !.cl[c].flags = @ \cup {f}]
Clear(s, c, fs) == [s EXCEPT !.cl[c].flags = @ \ fs]

(* The function f with the values of g, where g has one.                   *)
Overlay(f, g) ==
    LET h == [x \in DOMAIN f |-> IF x \in DOMAIN g THEN g[x] ELSE f[x]]
    IN IF h = f THEN f ELSE h

(* The flag f for all the clients in C.                                    *)
SetAll(s, C, f) ==
    [s EXCEPT !.cl = Overlay(@, [c \in C |-> [s.cl[c] EXCEPT !.flags = @ \cup {f}]])]

(* listDelNode(l, listSearchKey(l,x)): the first occurrence.               *)
Without(l, x) ==
    IF ~Contains(l, x) THEN l
    ELSE RemoveAt(l, CHOOSE i \in 1..Len(l) : l[i] = x /\ \A j \in 1..(i - 1) : l[j] # x)

(* The list l without the elements in S.                                   *)
Filtered(l, S) ==
    LET kept[n \in 0..Len(l)] ==
            IF n = 0 THEN <<>>
            ELSE IF l[n] \in S THEN kept[n - 1] ELSE Append(kept[n - 1], l[n])
    IN kept[Len(l)]

----------------------------------------------------------------------------

freeClientAsync(s, c) ==
    IF Has(s, c, "CLOSE_ASAP") THEN s
    ELSE [Set(s, c, "CLOSE_ASAP") EXCEPT !.clients_to_close = Append(@, c)]

asyncCloseClientOnOutputBufferLimitReached(s, c) ==
    IF s.cl[c].pending >= OutLimit THEN freeClientAsync(s, c) ELSE s

(* CLIENT REPLY OFF and SKIP drop the reply; a client that has nothing     *)
(* pending is put at the head of the list that beforeSleep writes.         *)
Muted(s, c) == Has(s, c, "REPLY_OFF") \/ Has(s, c, "REPLY_SKIP")

prepareClientToWrite(s, c) ==
    IF s.cl[c].pending = 0 /\ ~Has(s, c, "PENDING_WRITE")
    THEN [Set(s, c, "PENDING_WRITE") EXCEPT !.clients_pending_write = <<c>> \o @]
    ELSE s

(* One more item in the output of c.                                       *)
addReply(s, c) ==
    IF Muted(s, c) THEN s
    ELSE LET q == prepareClientToWrite(s, c)
         IN IF Has(q, c, "CLOSE_AFTER_REPLY") THEN q
            ELSE asyncCloseClientOnOutputBufferLimitReached(
                     [q EXCEPT !.cl[c].pending = @ + 1], c)

(* The reply to the command c is executing; the replies to the commands of *)
(* a transaction are elements of the reply to EXEC.                        *)
Answer(s, c) ==
    IF s.executing \/ Muted(s, c) \/ Has(s, c, "CLOSE_AFTER_REPLY") THEN addReply(s, c)
    ELSE [addReply(s, c) EXCEPT !.cl[c].answers = Append(@, s.cl[c].n)]

resetClient(s, c) ==
    LET q == Clear(s, c, {"REPLY_SKIP", "REPLY_SKIP_NEXT"})
    IN IF Has(s, c, "REPLY_SKIP_NEXT") THEN Set(q, c, "REPLY_SKIP") ELSE q

----------------------------------------------------------------------------

(* A client that was just unblocked stays in the list of those.            *)
unlinkClientKeepsUnblocked(s, c) ==
    [Clear(s, c, {"PENDING_WRITE", "UNBLOCKED"}) EXCEPT
        !.clients = Without(@, c),
        !.clients_pending_write = IF Has(s, c, "PENDING_WRITE") THEN Without(@, c) ELSE @]

unlinkClient(s, c) ==
    [Clear(s, c, {"PENDING_WRITE", "UNBLOCKED"}) EXCEPT
        !.clients = Without(@, c),
        !.clients_pending_write = IF Has(s, c, "PENDING_WRITE") THEN Without(@, c) ELSE @,
        !.unblocked_clients = IF Has(s, c, "UNBLOCKED") THEN Without(@, c) ELSE @]

pauseClients(s, over) ==
    [s EXCEPT !.clients_paused = TRUE,
              !.pause_over = IF s.clients_paused THEN @ /\ over ELSE over]

(* The end of the pause is found out by whoever asks: every client is      *)
(* queued so that what it sent in the meantime is processed, and a client  *)
(* that is in the queue already is queued twice (history: twice).          *)
PauseEnds(s) == s.clients_paused /\ s.pause_over

Requeued(s, c) ==
    IF Has(s, c, "BLOCKED") THEN s
    ELSE [Set(s, c, "UNBLOCKED") EXCEPT
            !.unblocked_clients = Append(@, c),
            !.twice = IF Has(s, c, "UNBLOCKED") THEN @ \cup {c} ELSE @]

clientsArePaused(s) ==
    LET over[n \in 0..Len(s.clients)] ==
            IF n = 0 THEN [s EXCEPT !.clients_paused = FALSE]
            ELSE Requeued(over[n - 1], s.clients[n])
    IN IF PauseEnds(s) THEN over[Len(s.clients)] ELSE s

----------------------------------------------------------------------------

watchForKey(s, c, k) ==
    IF Contains(s.cl[c].watched_keys, k) THEN s
    ELSE [s EXCEPT !.watched_keys[k] = Append(@, c),
                   !.cl[c].watched_keys = Append(@, k)]

unwatchAllKeys(s, c) ==
    [s EXCEPT !.watched_keys =
                  Overlay(@, [k \in ToSet(s.cl[c].watched_keys) |->
                                 Without(s.watched_keys[k], c)]),
              !.cl[c].watched_keys = <<>>, !.cl[c].stale = {}]

touchWatchedKey(s, k) == SetAll(s, ToSet(s.watched_keys[k]), "DIRTY_CAS")

(* FLUSHALL only disturbs those who watch a key that exists.               *)
touchWatchedKeysOnFlush(s) ==
    SetAll(s, {c \in ToSet(s.clients) :
                  \E k \in ToSet(s.cl[c].watched_keys) : s.db[k] # None}, "DIRTY_CAS")

queueMultiCommand(s, c, cmd) == [s EXCEPT !.cl[c].mstate = Append(@, cmd)]

flagTransaction(s, c) == IF Has(s, c, "MULTI") THEN Set(s, c, "DIRTY_EXEC") ELSE s

discardTransaction(s, c) ==
    unwatchAllKeys([Clear(s, c, {"MULTI", "DIRTY_CAS", "DIRTY_EXEC"})
                        EXCEPT !.cl[c].mstate = <<>>, !.cl[c].refused = FALSE], c)

(* MULTI calls can not be nested.                                          *)
multiCommand(s, c) ==
    Answer(IF Has(s, c, "MULTI") THEN s ELSE Set(s, c, "MULTI"), c)

discardCommand(s, c) ==
    Answer(IF Has(s, c, "MULTI") THEN discardTransaction(s, c) ELSE s, c)

watchCommand(s, c, k) ==
    Answer(IF Has(s, c, "MULTI") THEN s ELSE watchForKey(s, c, k), c)

unwatchCommand(s, c) == Answer(Clear(unwatchAllKeys(s, c), c, {"DIRTY_CAS"}), c)

----------------------------------------------------------------------------

clientSubscriptionsCount(s, c) ==
    Cardinality(s.cl[c].channels) + Len(s.cl[c].patterns)

(* The confirmations of one command are one answer here.                   *)
pubsubSubscribeChannel(s, c, ch) ==
    IF ch \in s.cl[c].channels THEN s
    ELSE [s EXCEPT !.cl[c].channels = @ \cup {ch},
                   !.pubsub_channels[ch] = Append(@, c)]

pubsubUnsubscribeAllChannels(s, c) ==
    [s EXCEPT !.pubsub_channels =
                  Overlay(@, [ch \in s.cl[c].channels |-> Without(s.pubsub_channels[ch], c)]),
              !.cl[c].channels = {}]

pubsubSubscribePattern(s, c, p) ==
    IF Contains(s.cl[c].patterns, p) THEN s
    ELSE [s EXCEPT !.cl[c].patterns = Append(@, p),
                   !.pubsub_patterns = Append(@, <<c, p>>)]

pubsubUnsubscribeAllPatterns(s, c) ==
    [s EXCEPT !.pubsub_patterns = Filtered(@, {<<c, p>> : p \in ToSet(s.cl[c].patterns)}),
              !.cl[c].patterns = <<>>]

(* One message for each subscription that matches, also to a client with   *)
(* several.                                                                 *)
Direct(s, ch) ==
    LET told[n \in 0..Len(s.pubsub_channels[ch])] ==
            IF n = 0 THEN s ELSE addReply(told[n - 1], s.pubsub_channels[ch][n])
    IN told[Len(s.pubsub_channels[ch])]

IfMatching(s, e, ch) == IF Matches(e[2], ch) THEN addReply(s, e[1]) ELSE s

pubsubPublishMessage(s, ch) ==
    LET told[n \in 0..Len(s.pubsub_patterns)] ==
            IF n = 0 THEN Direct(s, ch)
            ELSE IfMatching(told[n - 1], s.pubsub_patterns[n], ch)
    IN told[Len(s.pubsub_patterns)]

subscribeCommand(s, c, ch) ==
    Set(Answer(pubsubSubscribeChannel(s, c, ch), c), c, "PUBSUB")

psubscribeCommand(s, c, p) ==
    Set(Answer(pubsubSubscribePattern(s, c, p), c), c, "PUBSUB")

LeaveMode(s, c) ==
    IF clientSubscriptionsCount(s, c) = 0 THEN Clear(s, c, {"PUBSUB"}) ELSE s

unsubscribeCommand(s, c) == LeaveMode(Answer(pubsubUnsubscribeAllChannels(s, c), c), c)

punsubscribeCommand(s, c) == LeaveMode(Answer(pubsubUnsubscribeAllPatterns(s, c), c), c)

publishCommand(s, c, ch) == Answer(pubsubPublishMessage(s, ch), c)

=============================================================================
