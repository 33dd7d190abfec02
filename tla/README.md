# ZBot-Discord: TLA+ models of the bot and of the Redis server it ships with

The repository holds two programs. ZBot (`src/lib`) is a Node.js bot that serves
many Discord guilds: for every game server a guild has configured it keeps an RCON
connection, relays the game chat to Discord and runs the commands that members write
there. Its configurations are kept in Redis, and Redis 3.2.6 is in the repository as
C source (`src/redis/src`), with sentinel and cluster. This directory holds modules
translated from both, TLC runs over small instances, and TLAPS proofs for all
instances of eight of them: `BERcon`, `ZBot`, `LongMessage`, `Relay`, `Sentinel`,
`Resharding`, `Persistence` and `Clients`.

## 1. Inventory

### The bot

Single-threaded: each event handler, timer and callback runs to completion, so a
handler is one action. What is hard is the order of events: BattleNode events, timers
that are never cancelled, redis answers, Discord events, and exceptions, which
`events.js` catches globally, so that they end one handler half way and nothing else.

| Component | State | Operations | Hard part | Module |
|---|---|---|---|---|
| rcon connection (`bercon.js`) | `_bnode`, `_loginAttempts`, `_cronJobs`, two kinds of timers | construct, `init`, `reInit`, `loginAction`, 'disconnected', job scheduling | timers against teardown, attempt count, rejected jobs | `BERcon` |
| what an rcon promises | link state, registered | dial, lose, close | | `RconLink` |
| guild registry (`zbot.js`), redis access (`redis.js`) | `_data`, `_bercons`, `_running`, commands and answers in flight | `initAfterReady`, `newGuildAction`, `reloadSpecificConfig`, `getAllSpecificConfigs`, `initBERcon` | loads in flight, throws half way, overwritten entries | `ZBot` |
| admin commands, chat relay, automatic replies | queues between Discord, bot and servers | `checkAdminCommand`, `cmd*`, `chatMessagesAction`, `checkMessageForCommand` | feedback loops | `Relay` |
| long messages | the loop's two strings | `printLong*` | lengths at the limits | `LongMessage` |

### Redis

One thread executes commands; around it are a thread that calls fsync, child
processes that write files, other servers, and sentinels and cluster nodes that
exchange messages which may be late or lost.

| Component | State | Operations | Hard part | Module |
|---|---|---|---|---|
| sentinel | per sentinel: epochs, vote, master, slaves, failover state; its file | timers, INFO, hello, is-master-down, RESET, FAILOVER | late votes, crashes, an operator in the middle | `Sentinel` |
| cluster bus | per node: epochs, flags, slots, votes; its file | ping/pong, FAIL, auth request and ack, UPDATE, MFSTART, cron, CLUSTER FAILOVER | epochs that collide, lost messages | `Cluster` |
| resharding | slot states, keys at two nodes, redirected clients | SETSLOT, MIGRATE, getNodeByQuery | partial failure of MIGRATE, circles of redirections | `Resharding` |
| key space and types | keys, times, what a command leaves to propagate | the commands of every type, expiry | delayed execution elsewhere, encodings at their limits, signals | `Db`, `TString`, `TList`, `THash`, `TSet`, `TZset`, `Sort`, `Disk`, `Keyspace` |
| data structures | tables, nodes, spans, bytes | the calls the types make | rehashing under SCAN, cascades, splits, upgrades | `Dict`, `Skiplist`, `Intset`, `Ziplist`, `Quicklist`, `Hll` |
| clients | client records and every table that names them | read, execute, block, serve, write, free | freeing and unblocking from elsewhere, pipelining | `Networking`, `Blocked`, `Clients` |
| replication | per server: role, offset, backlog, slaves, save in progress; connections | PSYNC, SYNC, saves, ACK, WAIT, SLAVEOF, cron | joining a stream in flight, offsets | `Replication` |
| durability | buffer, file, synced prefix, child, rewrite buffers, RDB file | flush, fsync, rewrite, BGSAVE, shutdown | order of steps against power loss | `Persistence` |

What makes each part correct, and where it can go wrong, is the list of hazards in
`PROJECT.json`; each names its line and its properties.

## 2. Modules and their correspondence to the code

Operators keep the names of the functions they translate; `PROJECT.json` ("map") gives
the lines.

**`BERcon`**. `bnode[r]` is what `_bnode` holds; `retry[r]` and `redial[r]` count the
pending timers of `loginAction` and of the 'disconnected' handler; `attempts[r]` is
`_loginAttempts`; `cron[r]` are the scheduled jobs and `holed` the rcons whose
`_cronJobs` contains a null; `bercons` is `ZBot._bercons`; `failures[r]` is a history
variable. A closed rcon keeps its timers, as in the code. **`RconLink`** is the abstract
specification (absent, idle, dialing, up, down, closed); `BERcon` refines it through
`linkOf` as long as no job can be rejected.

**`ZBot`** extends `BERcon`: `known`, `config`, `beRcons` are `_data`; `requests` and
`replies` are the redis connection; `setup` is the instance: with or without redis,
which configurations are saved, how often. Exceptions are modelled where they happen
(in `applyConfigs`, in a constructor, in the teardown).

**`LongMessage`**: one behaviour is one call of one of the four functions; text is
line numbers and lengths. **`Relay`**: text is the sequence of commands and triggers it
contains; `Cases` is the switch of `checkAdminCommand` in its order. `MCMessages` runs
both, one or the other per behaviour.

**`Sentinel`**: `view[s]` is one sentinel's record of the master; the file is a second
record that `sentinelFlushConfig` writes and `Restart` reads. Requests for votes stay in
a set and may arrive late, again or never. Times are left out: each timer run chooses
which of its timeouts have passed (that of the failover, those of the answers of other
sentinels, those of the orders to slaves, that of a master which reports to be a slave),
so every timing is covered; only a server that is down is found down by the next run. Three history variables: `ballots` are
the votes given; `elected` the leaders, each with the epoch it stood for and the epoch of
the votes it counted, which need not be the same; `disputed` the epochs in which the code
allows two configurations (section 4).

**`Cluster`**: `view[n]` is a node's knowledge; nodes are numbered in the order of their
names, which decides collisions. A layout says who is whose slave, which links exist
and what an operator may do. A request for votes goes to every node with a link, in
separate messages. An action is one turn of the event loop: the handler, then
`clusterBeforeSleep`, in which the size of the cluster, and with it the quorum, is
counted anew; a master that has restarted counts itself alone until
`CLUSTER_WRITABLE_DELAY` is over. Slots that are being imported (`cluster.c:1474`) are the
subject of `Resharding`; the keys of a slot that is lost are not part of `Cluster`.
`waived` is a history variable: epochs whose vote a crash erased (the
vote is not saved, `cluster.c:2561-2562`), which a takeover used, or whose attempt began
with a late vote of the attempt before (section 4).

**`Resharding`**: the order is that of redis-trib's `move_slot` (SETSLOT importing,
SETSLOT migrating, MIGRATE until GETKEYSINSLOT is empty, SETSLOT node). A value is the
number of its write. MIGRATE chooses which keys reached the target and for which an
answer came back, in the first attempt and in the one `migrateCommand` makes itself.
redis-trib exits at the first error (`redis-trib.rb:939-947`); an operator may then run
`fix`, which answers BUSYKEY by calling again with REPLACE. Its constants need no definitions of their own, so the run is on the
module itself (`Resharding.cfg`).

**`Db`** and the modules of the types make a command an operator from a server to a
server. **`Keyspace`** executes a command on the master, then what the master propagated
on the slave, and what `Disk` makes of it on the reader of the append only file, both
`lag` later. The snapshot and the rewritten file of `Disk` are evaluated in invariants, on
every state. A replica's keys are compared by value and time, not by encoding. INCRBYFLOAT
and HINCRBYFLOAT add integers, with an infinity past the limit; fractions are left out.

**`Dict`**, **`Skiplist`**, **`Intset`**, **`Ziplist`**, **`Quicklist`**, **`Hll`**: the structure
beside the abstract value it should have (`zlref`, `hllref`...). Sizes are counted in
bytes, with thresholds as constants (254 is `BigLen`, 65535 is `LenMax`, 8 KB is
`SafetyLimit`, 32 is `ValMaxValue`...), so that TLC crosses each of them. From the moment a
structure is corrupt (section 4) nothing more is said of it. A write over
part of an intset value destroys it, as in memory.

**`Networking`** (`networking.c`, `multi.c`, `pubsub.c`) and **`Blocked`** (`blocked.c`, `t_list.c`)
are operators on a server record; **`Clients`** is the event loop over them, with the phases
of `aeProcessEvents` and `beforeSleep`. A freed client's place is not used again. A loop of
the code over a list is a recursive function of its turns. History: `n` and `answers` number
a client's commands and replies; `twice` are the clients that the end of a pause has queued
once too often; `stale` are the keys that have changed since the client
watched them and `refused` a command refused since MULTI; `broken` says that EXEC ran anyway.
Of the refusals of `processCommand`, an unknown command stands for all that flag the
transaction (arity, NOAUTH, OOM, MISCONF, NOREPLICAS, a stale slave, a slow script) and a
write at a read-only slave for those that do not (READONLY, LOADING). Protected mode is left out.

**`Replication`**: every server is the whole program. The data set is the sequence of
the writes applied; a command of the stream counts one in the offsets; the backlog is
the circular buffer of the code with its indexes. A connection is two queues; what was
not read is lost when it breaks, and each end notices in its own time. A slave counts what
it reads, and executes it unless its clients are paused; `getack` is sent before the master
sleeps. All slaves tell the same capabilities (`replication.c:646`).

**`Persistence`**: `file` is the append only file, `synced` how much of it survives a
loss of power; a rewrite is the child's file, the pipe, the buffers of the parent and
the acknowledgement. `Loading(f)` is what loading has come to after each entry of the file
`f`. `acked` counts the writes answered. A restart syncs nothing. A write that fails while
CONFIG SET turns the file off leaves its buffer behind; that the number of a closed file may
be given to another one, which the fsync thread then syncs, is not modelled.

### External code and what is assumed of it

* BattleNode answers every `login()` with exactly one 'login' event, emits 'disconnected'
  at most once and only after a successful login, and nothing after its socket was
  closed. Closing a socket that is not open may throw; both outcomes are allowed.
* node-schedule's `scheduleJob` returns null for a time it cannot parse or a past date.
* Discord hands over 'ready' before every other event of the bot; it may come again.
* For the bot, redis answers the commands of one connection in order; any may fail.
  (`AnsweredInOrder` is the same statement about the server.)
* The operating system: a write that succeeds is lost with the power unless fsync
  returned; `rename` is atomic.

## 3. Runs

| Run | Instance | What it shows |
|---|---|---|
| `bercon` | 2 rcons, limit 3, 3 jobs | one reconnect path, jobs exactly while up, exact failure budget, refinement of `RconLink` with fairness |
| `registry` | redis with 2 guilds; redis with 1 guild, 2 servers and bad configurations; no redis with 2 guilds | registry and lists agree, configurations never go back, `ZBot` implements `RconSafety` |
| `messages` | up to 4 lines of 8 lengths, 4 styles; 2 servers on one command channel, 1 user and 1 game message | nothing lost, everything fits, bundled to the max; no relayed text commands; both loops end |
| `sentinel` | 2 sentinels, quorum 2, 3 servers, 1 fault (a crash of a sentinel, a command of an operator, a tilt or a master that reports to be a slave for too long), 1 correction of a slave, epochs 0 and 1 | one leader by the votes of an epoch, one configuration per undisputed epoch; votes survive crashes; a promoted slave whenever one is read |
| `cluster` | 4 nodes in 5 layouts, 2 messages in flight | one winner per epoch; rival claims have different epochs |
| `resharding` | 2 nodes, 2 keys, 2 clients, 2 writes, 1 failed MIGRATE | requests see the newest values; no key lost; every request is served, those for several keys unless redis-trib has given up |
| `keyspace` | 2 keys, 2 databases, 3 elements, a workload per type and one of the generic commands, lag 0 or 1 | replicas, files and reads agree with the master; changes are signalled; objects are sound |
| `structures` | 6 structures with scaled limits | contents and bookkeeping agree; walks are complete but for what `dictScan` passes over; searches agree |
| `clients` | 3 clients, 2 keys, 6 workloads | tables agree; nobody misses a list; answers in order; transactions isolated; replica agrees |
| `replication` | 3 servers, 14 scenarios, a backlog of 2 | online slaves are in step; WAIT is honest; slaves are tended |
| `persistence` | 7 configurations with budgets of writes, rewrites, errors and ends | the file is the data; fsync always is durable; a restart never skips a write |
| `one_second` (violation) | everysec, 2 writes, no faults | see section 4 |

**Bounds.** What a bound must allow is that each thing meets itself once. Two sentinels
that are both needed for a quorum are the smallest in which votes compete; epoch 1 is
one election with a losing side, and a reset or a crash in the middle of it. The cluster
layouts each contain one way to gain an epoch and a rival for it; in the last one a slave
has two attempts, so that a vote for the first can meet the second. In `keyspace` a workload keeps a type's commands together, with LMax 2 so
that `INCRBY` overflows, element lengths on both sides of the compact limits, and time
to live 1 with a clock up to 2, so that keys expire before and after the replicas
execute; a rewrite emits two elements per command, so that batches are full and partly
filled. In `structures` the hashes collide in the smaller tables; with tables of 2, 4 and 8
buckets and a minimal fill of 20 % a table that still holds keys shrinks to a quarter at
least, as with 4 and 10 % in the server; ziplists hold entries of two bytes to more than
`BigLen`; five list entries are
two full nodes and a split, a skip list has three levels, five registers are several opcodes of
each kind. A backlog of 2 wraps with three commands. Two databases make a missing SELECT
visible.

**Deadlock** is not checked in runs whose budgets (writes, faults, errors, saves) or
whose single call end; `bercon`, `structures` and `clients` check it.

**Fairness.** `BERcon`: every login is answered and every due timer fires. `Relay`:
queued events are handed over and servers run their commands. `Resharding`: redis-trib
goes on with its loop until an error ends it, clients follow redirections and are served
when they can be; nobody need call `fix`, and nodes need not write. `Persistence`: the event loop turns (`beforeSleep`), the clock
ticks and the fsync thread works; nobody need write. Everything else is checked for
safety only.

## 4. Findings

`one_second`: with `appendfsync everysec`, `flushAppendOnlyFile` returns at once when the
buffer is empty, so a write made in the second of the last fsync stays unsynced until
another write follows; `redis.conf` promises "just one second".

What the passing properties leave out by name, because the code does otherwise:

* `BERcon`/`ZBot`: an rcon with a job the scheduler rejected (`bercon.js:183`) is not
  dialed again; timers of a closed rcon are not cancelled (`bercon.js:233`, `262`); a join
  without redis starts every guild again (`zbot.js:526`); one bad configuration ends the
  startup of all guilds (`zbot.js:159`). A line longer than a message is sent as it is
  (`bercon.js:979`), and `steam` calls a method that does not exist (`bercon.js:447`).
* `Sentinel`: an overtaken election. `sentinelGetLeader` counts the votes of
  `sentinel.current_epoch` (`sentinel.c:3683`), not those of the epoch it was asked about,
  though the comment at 3658-3663 speaks of "the specified epoch". A sentinel that learns of a
  newer epoch while it waits can be elected by the votes of that epoch and lead the
  failover of the older one; two sentinels, two epochs and one failed master are enough
  (`\A e \in elected : e[1] = e[3]` does not hold). `OneLeaderPerEpoch` is about the
  leaders whose two epochs agree.
* `Sentinel`: a split configuration. A sentinel in `reconf_slaves` that hears a newer
  configuration with the address it still has takes the epoch and goes on announcing its
  own promoted slave (`sentinel.c:2392-2410`); it takes three sentinels. A promotion sets
  `config_epoch = failover_epoch` even if a newer one was taken meanwhile (2157), and
  failovers that an operator forced or reset have no votes behind them. These epochs are
  `disputed`, and `OneConfigPerEpoch` leaves them out.
* `Cluster`: a vote that a crash erased, `cluster.c:2561` (the vote is sent and never
  saved), and epochs used by TAKEOVER.
* `Cluster`: a late vote. The handler of an acknowledgement asks only for
  `senderCurrentEpoch >= failover_auth_epoch` (1933-1935). Between the restart of an election,
  which sets the count to zero (2771-2790), and the new request, which sets the epoch
  (2837), a vote of the attempt before is counted for the coming one; another slave can get
  the vote of the same master for that epoch. Both then claim the slots with one epoch, until
  `clusterHandleConfigEpochCollision` gives one of them another. Without the exception TLC
  finds it in the layout `Rivals`. `OneWinnerPerEpoch` is also per master: slaves of
  different masters can win the same epoch, since a winner has not voted in its own epoch
  and as a master may vote for another; the comment at 994-996 says that "it is not
  possible that different slaves get the same config epoch during a failover election".
* `Resharding`: keys that a failed MIGRATE left at both nodes, and a request for several
  keys with ASKING at the target. After a failed MIGRATE redis-trib exits and leaves the slot
  open; requests for several keys may then be told TRYAGAIN for ever, and
  `EveryRequestServed` excepts them (`GivenUp`).
* `Dict`: SCAN while the table is moved to one of a quarter of its size or less. The loop of
  `dictScan` over the larger table (`dict.c:896-908`) counts up from the cursor's bucket and
  stops when the bits between the masks are zero, while the cursor counts these bits from
  the other end: from 16 to 4 buckets with cursor 8, it visits 8 and 12 and never 4. The
  comment at `dict.c:777` says that all elements are returned. `HASHTABLE_MIN_FILL` is 10 %, so
  every shrink of a table with keys left is of this kind. `WalksAreComplete` excepts the keys in
  the buckets passed over (`PassedOver`), and no others.
* `Ziplist`: a torn tail. After a deletion an entry may keep five bytes for a length that needs
  one. Inserting an entry of less than four bytes in front of it makes `nextdiff` -4 and the
  list shorter than before; `ziplistResize` then cuts the tail off before `memmove` reads it
  (`ziplist.c:624-634`). `ZiplistIsSound` excepts such a list (`IsTorn`).
* `Quicklist`: LINDEX and LTRIM leave a node decompressed with its `recompress` mark; when it has
  become an end node, a later LSET compresses it, though `redis.conf:933-939` says the ends are
  never compressed, and the next push takes it for a ziplist. `QuicklistIsSound` excepts ends
  that such a mark compressed, and torn nodes. LINSERT releases an iterator that may stand on
  a node which a merge has freed; the model takes that as without effect.
* `Clients`: a list stored over another value wakes nobody (`dbOverwrite`); after CLIENT
  PAUSE a client that was just unblocked is queued twice and removed once
  (`networking.c:1898-1902`, `778-783`), so that a freed client may stay in the queue.
  `TablesAgree` is exact for every list and excepts these clients (`twice`) in this one.
* `Replication`: SLAVEOF restarts the offsets under the same run id
  (`replication.c:1737`), though the comment at 82-85 says old slaves cannot resume; SYNC
  after a refused PSYNC leaves the offset unknown (968-980); WAIT with offset 0 counts a
  slave that has acknowledged nothing; rings of slaves. A slave whose clients are paused
  acknowledges what it has read and not executed (`networking.c:1265` and `1349`), though the
  comment at `replication.c:1869-1871` calls it the processed offset: `WaitIsHonest` is about
  what has been read.
* `Persistence`: when the write of CONFIG SET appendonly no fails, the rest of the buffer stays and
  the server refuses writes. A BGREWRITEAOF saves the data of these entries; CONFIG SET
  appendonly yes appends them to that file again, where they stay until the rewrite it starts
  has ended. `StartsFromThePast` excepts this time (`twice`); TLC finds the exception necessary.
* `Keyspace`: HINCRBY and HINCRBYFLOAT never call `hashTypeTryConversion` (`t_hash.c:538-606`), so a
  long field, or a long number, stays in a ziplist past `hash-max-ziplist-value`; `Compact`
  excepts it. INCRBYFLOAT is propagated as a SET, which takes the time to live from the key at
  the replicas and in the file while the master keeps it (`t_string.c:426-432`);
  `ReplicasConverge` and `ReadsAgree` except these keys (`untimed`). MOVE signals nothing (`db.c:781-834`); SET with EX is written verbatim to the
  append only file (`aof.c:526-543`), which is why a replica's times may be later, never
  earlier; ties in SORT BY are in no particular order (`sort.c:156-176`).

Seen while modelling, outside any property: after a failed write and a successful
rewrite, `aof_last_write_status` stays `C_ERR` and writes are refused (`aof.c:1466`, against
the comment at `server.c:1255`); `prepareForShutdown` syncs the file without flushing the
buffer (`server.c:2588`); `startAppendOnly` leaves its descriptor when it is refused
(`aof.c:257-260`); the rewritten file is renamed before the parent's fsync
(`aof.c:1434-1458`); commands refused by READONLY or LOADING do not call
`flagTransaction` (`server.c:2468-2503`) although `multi.c:78-80` says errors abort EXEC;
EXISTS on a slave ignores expiry (`db.c:362-371`); RANDOMKEY may loop while all keys have
expired on a slave (`db.c:206`).

## 5. Proofs

Everything in `BERcon_proofs` holds for every set of rcons, every job list and every
limit in `Nat` (`JobsAssumption`, `AttemptsAssumption`).

* `RconInvariant`: `RconSafety => []RconInv`. The invariants are not inductive alone.
  `FailureBudget` needs `CounterInv` (below the limit while a retry is due, zero while
  logged in) and `OneReconnectPath`, because a timer firing while another login is
  pending would break the equation between counter and failures. With rejectable jobs,
  `HoleInv` is needed: an rcon with a null in its list has no timer and is not logging
  in. One case per action, one step per conjunct.
* `RconTypeCorrect`, `RconOneReconnectPath`, `RconCron`, `RconFailureBudget` follow.
* `RconImplementsLink`: if no job is rejectable, `RconSafety => Link!LinkSafety`. An event
  of one rcon resolves or loses its link or leaves it unchanged (`EventLink`); a call of
  the owner is `Own`, with the rcons closed while waiting as the deaf ones (`OwnerLink`).

`Messages_proofs` is about `LongMessage` and `Relay`. The first part holds for every set of
texts (`TextsAssumption`).

* `LongMessageInvariant`: `LongMessageInv` adds `BundleInv`: the two strings of the loop
  have the same length, at most the limit if every line fits, the bundle is not empty
  after the first line, and the last message sent could not have taken the first line of
  the present bundle. `MessagesFitAlways` and `BundledToTheMaxAlways` follow.
* `NothingLostEver`: the messages sent and the open bundle are `Parts`; every line read so
  far occurs in them, nothing else does, and the line numbers grow within and across
  parts. This is inductive together with `BundleInv`; `PartsOfLine` says what a turn of the
  loop does to `Parts`, and is all that the proof uses of it.

The second part holds for every finite set of rcons, every wiring of their channels and
every list of automatic replies (`RelayAssumption`).

* `RelayInvariant`: `RelayInv` says what the queues hold; above all, that every command to a
  server comes from a user's post or from a configured reply. That a post of the bot does
  not become a command is the guard of `OnMessage`; that game text goes to Discord only, and
  what it triggers is the configured reply, is `ChatMessageInv`. The replies to one message
  are a flattened sequence of sequences; `FlattenType` says what its elements are, by
  induction over its length.
* `GameTextNeverCommandsHolds` follows.

`ZBot_proofs` holds for every set of guilds, every number of servers, calls and saves and
every installation (`ConfigAssumption`: the default configuration is usable;
`RconAssumption`: an rcon is a guild, a server and the number of the call that made it).

* `ZBotInvariant`: `IInv` is `RconInv` and five parts. `Types` adds that an answer has the
  form its command asks for. `Numbered`: calls in flight have numbers of their own, which no
  rcon has yet; without it a late answer could make an rcon that exists. `InFlight`: a
  reload in flight is for a guild the bot knows, and redis has the keys it listed; without
  it applying an answer could name an entry that is not there. `Registry`: lists hold
  rcons of their guild, and a closed rcon is not registered. `Growing`: versions grow from
  memory over the answers in flight, oldest first, to redis.
* `ZBotDrivesRcons`: `ZBotSpec => RconSafety`. A start of a guild makes new rcons only
  (`Numbered`) and a teardown closes rcons that exist, so each step of the bot is an
  `Owner` step of `BERcon` or leaves the rcons alone. Hence `ZBotRcons`: the theorems of
  `BERcon_proofs` hold of the whole bot.
* `OrphansOnlyAfterOverwriteHolds` is part of `Registry`; `NeverBackToOlderConfigHolds` follows
  from `Growing`, since an answer replaces memory only when it is the oldest in flight.

`Sentinel_proofs` holds for every finite set of sentinels, any servers, epochs, crashes and
operator commands. `SentinelAssumption` asks for a configured quorum of more than half of
all sentinels. A winner also needs the majority of the sentinels that the counting one
knows (`sentinel.c:3719-3720`), but RESET forgets sentinels, so that majority alone may be a
minority of all: with a smaller quorum the property is not the code's to give.

* `Invariance`: `Views` (what one record and its file must satisfy: the file has the epoch of
  the last vote, the failover states have a promoted slave that is known), `Votes` (one vote
  per sentinel and epoch, and every vote that anybody counts was given), `Elections` (a
  leader had a quorum), `Configurations` (configurations of an undisputed epoch, in memory or
  in a file, are equal and come from a leader of that epoch), `Leaders` (while a leader has
  not promoted yet, nobody has a configuration of its epoch).
* `OneLeaderPerEpochHolds`: two quorums share a sentinel, and it voted once. That a crash does
  not let it vote again is `Views`: the file is written before the vote is answered.
* `OneConfigPerEpochHolds`, `PromotedWhenReadHolds` and the action property
  `EpochsNeverGoBackHolds` follow from `Configurations` and `Views`.

The first attempt at these proofs failed at `OneLeaderPerEpoch`, and TLC then showed the two
behaviours of section 4 on larger instances; the history variables state what holds.

`Resharding_proofs` holds for any number of masters, keys and clients, and for either order
of the two epochs (`ReshardingAssumption`: nodes are numbered by their first epoch, and
there is room for at least one write).

* `Invariance`: `Ownership` (who believes to own the slot and which flags are set, for each
  stage of `move_slot`), `Epochs` (only the target's epoch changes, nobody knows an epoch above
  its current one, and when the target owns the slot its epoch is above the source's), `Keys` (the newest
  value of a key is at the source as long as the source has the key, else at the target;
  `AttemptKeeps` is that for one attempt of MIGRATE, whatever it reaches, so that the second
  attempt needs no proof of its own),
  `Clients` (a client with ASKING is at the target, for keys of which one has left).
* `ServedFromNewestHolds`, `NoKeyLostHolds` and `TargetKeepsSlot` (the target never gives the
  slot back, although it took its epoch without asking anybody) follow.

`Persistence_proofs` holds for any databases, any number of writes, rewrites, saves, errors
and ends, and every configuration (`PersistenceAssumption`: NULL, the mark of an unknown
database, is not a database).

* Loading is a recursive function of the file. `LoadingEquations` gives its equations,
  `LoadedCut` and `LoadedAppend` that loading a file is loading a prefix and then the rest,
  `LoadingGrows` that a longer prefix holds a longer data set, `LoadedEntries` that the entry
  of a write, with or without SELECT, adds this write.
* `Invariance`: `Types`; `Files` (the file followed by its buffer loads to the data set, and so
  does the child's snapshot followed by what the child has, what is in the pipe and what the
  parent still holds, whatever has been handed over, and loading ends in the database the
  server takes as selected; otherwise a write could leave out a SELECT it needs, and a rewrite
  could not replace the one file by the other); `Buffers` (nothing is left of a rewrite that
  is over; a child that is done has emptied the pipe); `Past` (whatever a restart may load,
  the RDB file included, is a prefix of the data set, also with a buffer that a stop left
  behind, and so is what a child is saving; not while entries are in the file twice);
  `Durable` (with fsync always the thread has no jobs, the file is synced to its end, a stop
  leaves no buffer, and the file holds what was answered).
* `FileFollowsDataHolds`, `AckedIsDurableHolds` and the action property
  `StartsFromThePastHolds` (a start loads a prefix of the data set there was) follow.

`Clients_proofs` holds for any finite set of clients, any keys, channels, patterns, matching
of patterns and output limit, and for workloads of any requests (`ClientsAssumption`: requests
have the arguments they ask for, as `processCommand` and the commands check;
`NetworkingAssumption`).

* `Loops` has the rule for loops. A module that wants it instantiates `Loops` with the body
  `Step` and the loop invariant `Holds` as operators of its own, and `LoopHolds` is then a
  first-order fact about them; no prover has to find an operator. `Clients_proofs` does so for
  the list deletions, the messages of PUBLISH, the clients served for a key, the commands of a
  transaction, the end of a pause, the queue of clients to close and the two loops over all
  clients. A loop that frees clients keeps that those it has yet to visit are connected
  (`Tending`): the lists have nobody twice, and a turn frees nobody but the client it is about.
* `Invariance`: `IInv` says, of the server between any two steps: `Sound` (each table agrees with the
  clients, and a client that is not connected has no input, so that `processUnblockedClients`
  executes nothing for a freed one), `Noticed`, `Told`, `InTurn` of each client and `Settled`. Inside
  a command they hold with exceptions, which are parameters: `Noticed(s, R)` but for the keys R
  being served, `Told(s, K, R)` but for the keys K that were written and not signalled yet.
  `Told` is the part that took strengthening: serving a blocked client pops from a key and
  signals nothing, so whoever watches a *ready* key must already be told, which is so because the
  push that made it ready did signal it, and no WATCH comes in between.
* What one function does is stated as `Change(s, q, S, F, G)`: of the server only the fields S,
  of the clients only the fields F and the flags G have changed. Each part of the invariant has a frame
  lemma saying which of them it is about; what a function does change has a lemma of its own.
* A command starts at a client's `Turn` (everybody is answered but this client), its reply makes
  it `Spoken`, and it is `Over` when replaying what it left to propagate on the replica would
  give the data set; `ProcOver` is one lemma per command. `PropagatedDone` then restores
  `Settled`; `ExecutedDone` repeats it for a transaction.
* `TablesAgreeHolds`, `NobodyMissesAListHolds`, `AnsweredInOrderHolds`,
  `TransactionsAreIsolatedHolds` and `ReplicaAgreesHolds` follow.

## 6. Only model-checked

* Liveness (the fairness half of `ImplementsRconLink`, `EventuallySilent`,
  `EveryRequestServed`, `AckedGetsDurable`): outside the prover's reach.
* `Cluster`: each node computes the quorum from the size of the cluster in its own view,
  so `OneWinnerPerEpoch` and `ClaimsAreOrdered` depend on the layouts and may not hold for
  every value of the constants; they are statements about the layouts checked.
* `Ziplist`, `Quicklist`, `Skiplist`, `Hll`, `Dict`, the types with `Keyspace`: what they
  compute is defined by recursion over the data. The library's induction theorems take an
  operator as a parameter, which the provers cannot instantiate. `Messages_proofs`,
  `Persistence_proofs` and `Loops` do induction with a set in place of a predicate, from the
  well-founded order of the numbers, and that reaches definitions which are one recursive
  function of their own; `SelectSeq` and the folds with a LAMBDA are opaque to the provers, and
  RECURSIVE operators cost the SMT backend.
* `Replication`: its handlers are folds with LAMBDAs over slaves and queues; they would have to
  be written as the loops of `Clients` are.

## 7. Not modelled, and the plan

Not modelled of the bot: the wording, fences and time stamps of posts; greetings, gifs,
the heart counter, the player list and statistics (no state); Discord's rate limit
(inside discord.js). Of Redis: Lua (its effects are the modelled commands); eviction
(sampling over the allocator's numbers); the event library, sockets and parsing of the
protocol; configuration and INFO; geometry; logs and diagnostics; byte-level libraries;
the command line tools. `PROJECT.json` says for every partly modelled component what it
leaves out.

Next, proofs: `WaitIsHonest` of `Replication`, from the order of offsets along a connection, with
its loops over slaves as instances of `Loops`.
