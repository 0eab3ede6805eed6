# Verification of the Redis cluster coordinator

TLA+ models of `dev.mcpg.cluster.redis`, a plugin through which the replicas of a gateway share
leases, key-value state, messages and a peer list over one Redis instance. TLC checks the models
on small instances, TLAPS proves the central safety properties for all of them. `PROJECT.json`
maps every definition to the lines it models.

## The system

| Part | Source | What it does | Modelled in |
|---|---|---|---|
| Leases and leadership | `lease.rs`, lease entry points of `lib.rs` | acquire, poll, renew in the background, release, drop; fence tokens | `LeaseService`, `Lease` |
| Key-value writes | scripts and `put`...`incr_floor` of `state/kv.rs` | one Lua script per write: data key, key index, expiry index | `KvScripts`, `KvStore` |
| Index upkeep | `fetch_entries`, `sweep`, `backfill_index` of `state/kv.rs` | drop entries of keys that are gone, index keys of older builds | `KvScripts`, `KvStore` |
| Listings | `list_page`, `index_page`, `scan_page` of `state/kv.rs` | pages from the key index or from SCAN | `KvListing` |
| Counter arithmetic | `INCR_FLOOR_LUA` | doubles, exact below 2^53 | `Counter` |
| Maintenance task, index gate | `maintenance.rs`, `complete_key_index` | sweep lock; when listings may use the index | `IndexGate` |
| Peer registry | `peer.rs` | presence keys, sorted set, refresher, cached scan for older builds | `Peers` |
| Peer watch | `watch_peers` of `lib.rs` | joined and left events from successive lists | `PeerWatch` |
| Publish and subscribe | `pubsub.rs` | subscription task, reconnects, bounded channel | `Topic`, `Subscription` |
| Topic bus | `state/topic.rs` | PUBLISH and PSUBSCRIBE passed through | no: no state, task or envelope of its own |
| Envelope | `envelope.rs` | routing key and payload on the wire | `Envelope` |
| Lifecycle | `lib.rs` | lazy connection, shutdown, drop | shutdown in `Peers`; the rest is not modelled |
| Configuration, manifest | `config.rs`, `lib.rs` | parsing, validation, TLS, declaration | no: text handling and start-up I/O |

The parts meet in Redis. Leases serialise the maintenance task; the maintenance task sweeps and
backfills the indexes and, from the peer list, decides whether listings may read the key index.
The repository's README also names a `Watch` primitive; there is no code for it under `src/`.

## Modules

`LeaseService` is the abstract lease: per name an owner and an epoch; `Grant` on a free name,
`Vacate`. It says nothing of keys, scripts, tasks or time.

`Lease` has Redis' two keys per name (`lease`, `fence`) and, per acquisition, the fields of
`LeaseState` (`grant`, `released`, `left` for `expires_at`), the caller's reference (`host`), the
renewal task (`task`, `timer`, `abort`) and the caller's position in `renew` or `release`
(`caller`). `AcquireScript`, `RenewScript`, `ReleaseScript` are the three Lua scripts. A round trip
is several steps: the check before it (`CallRenew`, `TaskWake`), the script (`CallSend`,
`TaskSend`), the reply (`CallReturn`, `TaskReturn`); any actor can come between. Faults are a
command that fails before or after Redis ran it, an acquire reply that is lost, and a replica that
restarts under the same node id. `granted` is a history variable.

`KvScripts` has the store, `pttl` (what PTTL answers), `index` and `expiry`, and one action per
script. Values are left out. Times are relative to Redis' clock; a client's stamp is anywhere in
`-Behind..Ahead`, which is its clock skew and the time the command was on its way. Scores too old to
be told apart by any sweep are one score (`Clamp`), so the state is finite. A TTL above `MaxTtl` is
one that Redis refuses: SET then writes nothing, but an INCRBY before the refused PEXPIRE stays.

`KvStore` runs clients, listings that prune, sweeps and a backfill against the scripts. Each of
the last three reads in one step and acts in a later one. SCAN's promise (a key there from start
to end is returned) is `owed`: the keys the pass must still return. With `Legacy` it may start from
keys that an older build left unindexed; `past` is the history of that.

`KvListing` is one paged pass over the index or by SCAN, as `index_ready` says at its first page,
against writers, expiry, gate changes and failing pages. Keys are numbers in their lexical order,
and 0, below all of them, is a cursor without a key; there are finitely many, as names of bounded
length are. What ZRANGEBYLEX answers is described by its result (`IndexRange`), what SCAN returns is
any order of a set of keys. `steady`, `listed` and `twice` are history.

`Peers` has the presence keys (`left`, `indexed`), the sorted set (`score`), what runs under each
node id (`proc`) and its refresher (`reg`, `timer`), and one listing replica with its cached scan.
`register_peer` and `deregister_peer` are two steps each, SET then ZADD and DEL then ZREM, since
their pipelines are not atomic and can fail half way. `Shutdown` aborts a refresher that may be
past its tick, so that it can still register. A node id may change between a current and an older
build, as in an upgrade or a rollback. Other replicas trim the set by clocks of their own
(`OtherListRead`). `joined`, `steady`, `oldFor` and `goneFor` are history.

`PeerWatch` extends `Peers` with the task of `watch_peers`: a poll is one of `Peers`' listings,
which it compares with the list before (`last`); `joins` and `leaves` are the events still to send
over the bounded channel `chan`. `view`, what the reader has been told, is history.

`IndexGate` composes maintenance tasks. `mark` is the completeness mark in Redis, `dark` the live
keys that are in no index, `registered` the older builds, `lock` and `renewing` the sweep lock and
the renewal tasks of its handles. A replica's `task` is at a position of `run` and has its locals,
its cached peer scan and `index_ready`. One tick is a chain of steps, one per round trip: list, shut
the gate and delete the mark or read the mark and set the gate, renew or acquire the lock, sweep,
backfill, list again, mark, open. `call` is `complete_key_index` beside it. `Lists` is
`list_registrations`: an older build counts if MGET finds it under an id of the sorted set, or the
scan, new or cached (`scanned`, `found`), finds it under another. `Failing` and `Lapsing` are the
replicas whose commands, and whose renewals of the lock, may fail. `shut`, `undeleted`, `missed` and
`since` are history.

`Topic` is what a subscription promises: published messages that pass the filter, unaltered, in
order, each at most once, any of them missing. `Subscription` is the task of `subscribe_async` with
its connection (`conn`, and `wire`, what Redis put on it), the message in `tx.send` (`out`), the
channel and the stream's owner. A connection may be lost with a tail of what was on it, and the loss
may go unseen for a while (`stale`). What travels are bytes: `Envelope` has `encode` and `decode`
over digits of any base (256 in the code).

`Counter` has the sums of `INCR_FLOOR_LUA` in doubles, which hold every integer up to `Exact` and
beyond it every second and every fourth.

`MCLease`, `MCKvStore`, `MCKvListing` and `MCSubscription` hold symmetry sets and argument sets for
TLC; `MCKvStore` also evaluates `Counter` for all small operands. The proofs are in `LeaseProofs`,
`KvScriptProofs` (the scripts, whoever calls them, and `Counter`), `KvProofs` (`KvStore`),
`KvListingProofs`, `PeersProofs` (`Peers` and `PeerWatch`), `IndexGateProofs`, `EnvelopeProofs` and
`SubscriptionProofs`. Operators marked "Mutant" are plausible wrong versions of the definition after
them; nothing uses them except to see that a property notices.

### Abstractions to know about

- Scripts are atomic, as in Redis. The connection mutex only orders commands of a replica.
- Time is in ticks. `Punctual` means that no tick falls inside a round trip or a due renewal; safety
  runs do without it. All leases of an instance have one TTL.
- An aborted task stops at its next await, asleep or inside its round trip, whether or not the
  script has run.
- The calls of one handle's owner follow one another; its renewal task runs beside them. A handle is
  used once, so their number bounds the acquisitions of an instance, not of the proofs.
- Lease names do not collide with fence keys (`a:fence` would; listed as a hazard).
- At most one backfill runs at a time. Listings in `KvListing` see only writers that maintain the
  index.
- In `Peers` a refresher that is due is not late (its delay counts as part of the interval), and a
  listing takes at most `ListTime`. A listing's range read and trim are one step: per node, what
  comes between them has the effect of coming before or after both.
- In `PeerWatch` the listings of the observed replica are the watch's; other callers act on it only
  through the cached scan, which a poll could have made as well. Sleeping and the loop's top are one
  position.
- `IndexGate` has no clock: a cached scan ages, the wait of `peer_ttl` ends and a lock nobody renews
  lapses at any moment. That is more than the code does, with one exception: an older build writes
  only while it is registered (`OlderWrites`).
- An older build leaves at any moment. `ListingsComplete` is not claimed (`missed`) if the last one
  to leave did so before every replica had shut its gate for it, or after a DEL of the mark that
  failed. Both are behaviours of the model and of the code, and then gates may open over keys that
  have no entry. A replica has shut its gate for a build when it did so with the build in its cached
  scan (`Notices`), whether or not its DEL succeeded.
- A list in `IndexGate` is one step. Which older ids the sorted set still has (from a current build
  before a rollback or after an upgrade) and the replica's clock keeps is chosen anew at every list
  (`ids`), with no memory of the scores: more than the code does. Less than it in one respect: the
  code reads the set, does its MGET and scans in that order, and two older builds of which one comes
  and one goes between the MGET and the scan are seen in one state here. For any one build the step
  is exact, taken at the MGET for an id in the set and at the scan for another. `Peers` has the list
  in its separate round trips.
- `Overlap` lets an older build register during `complete_key_index`, which lists only before its
  backfill. `gate_overlap` has it, and shows that listings then miss keys, also after the build is
  gone; `index_gate`, `gate_live` and the theorems about the gate are without it.
- In `Subscription` undecodable bytes stand for all foreign ones: bytes that happen to be an
  envelope are a message. `from_node`, which the code sets to the subscriber's own id, is left out.
- Prefix filters, cursor text and key formats are left out.

## Runs

| Run | Shows |
|---|---|
| `lease_safety` | `FenceTokensUnique`, `OtherNodesTokensAreOld`, `ImplementsService`: two nodes, two acquisitions, TTL 2, every fault, no punctuality |
| `lease_live` | `LeaseKeptAlive` (with punctual renewals a lease is there until its `expires_at`), `OrphanLapses`, `OrphanTakenOver` under restarts |
| `kv_safety` | `IndexCoversPresent`, `ScheduledInTime`: two keys, batches of one, stamps one tick either way, failing commands, from an empty store and from every set of unindexed keys |
| `kv_live` | `GoneEntriesDropped`: sweeps drop the entries of keys that are gone |
| `kv_listing` | `PassReturnsSteadyKeys`, `IndexPassReturnsKeysOnce`: two keys, pages of one |
| `peers` | `LivePeersListed`, `OlderBuildsListed`, `GoneNodesUnlisted`: TTL 4, stamps one tick either way, failures, crashes, shutdown, upgrade and rollback; with a watch over it `NoFalseLeft`, `EventsAlternate`, `ReaderCatchesUp` |
| `index_gate` | `ListingsComplete`, `ShutStaysShut`, `RecheckMissesNone` (the second list of `complete_index` misses no build that was there when the backfill ended): two replicas, a call of `complete_key_index`, an older build in and out of the sorted set, a key, commands of one replica that fail and renewals that lose it the lock in the middle of a backfill, the other replica without faults |
| `gate_live` | `GateReopens`, `SweepsGoOn`: without faults, with a restart, the gate opens again and sweeps go on |
| `subscription` | `ImplementsTopic`, `NothingLostInside`, `Delivered`, `Resubscribes`, `EndsWhenWoken`: three messages of five kinds and foreign bytes, a channel of one, a filter |
| `gate_overlap` | violated: an older build that registers during `complete_key_index` leaves a key that the marked index lacks (`kv.rs:451-453`) |
| `sweep_lock_lost` | violated: after one renewal that fails the dropped handle's task keeps the sweep lock and nobody sweeps (`maintenance.rs:69`) |
| `subscription_drop` | violated: on a quiet channel the task of a dropped stream stays (`pubsub.rs:57-59`) |

Bounds. Two acquisitions of a name by two nodes, or twice by one, are what a conflict takes; TTL 2
separates a fresh key, a key about to expire and none. Three ticks of TTL with 40 percent leave a
renewal due with time to spare. Two keys distinguish the key a script works on from another; with
batches of one a sweep meets a full batch. Pages of one with two keys need a second page, a pending
match, and a cursor whose key is gone. `kv_live` uses batches of two: scores that `Clamp` makes
equal are told apart by Redis, and with batches of one the tie alone could starve a key. `peers` has
one node id: no action reads the state of two nodes, every property is about one, and more nodes
could only hold up the clock. TTL 4 with a refresh every tick and one tick of skew either way is the
tightest fit of `SkewFits`; a scan is cached for two ticks, a listing takes up to one. A channel of
one is full after one event. `index_gate`: two replicas are one that marks and one that reads or
deletes the mark, one key is missed or not, and an older build may come back under its id. One
replica has the call and the faults, the other takes the lock over from it; the run has 2.9 million
states, faults on both would be several times as many, and the theorems have them on all. Restarts
are in `gate_live`, which needs neither keys nor calls. `subscription`: bytes are 0..2, so that a key
of four bytes has a length of two digits and one of nine is too long; three messages fill the
channel, the task's hands and the wire. Symmetry is used in safety runs only.

Fairness. `Lease`: spawned tasks and started calls run on (the runtime schedules them), a polling
caller polls again (`acquire_async`'s loop), time passes; no caller is obliged to renew, release or
drop. `KvStore`: time passes, and sweeps start again and again (the maintenance interval) and run to
their end, and so does a listing that found keys gone. `kv_live` has no failing commands: a sweep
that fails each time drops nothing. It does have TTLs that Redis refuses. `IndexGate`: every
maintenance task goes on (its interval ticks, Redis answers), expiries, the scan's age and the wait
end; weak fairness is enough, and no build is obliged to come or go. `Subscription`: the task and
the reader go on (weak fairness), and of the attempts to reconnect not all fail for ever (strong
fairness of `Reconnect`, since a failed attempt in between disables it); nothing has to be
published, dropped or lost, and no stale connection has to be found out.

## Proofs

For every set of nodes, names and handles, every TTL and every choice of faults (`LeaseAssumption`):

- `TypeCorrect`, the type invariant;
- `TokensUnique`, `StaleNodesAreFenced`, from the inductive invariant `Ledger`: every token is at
  most the fence counter, tokens of a name differ, the newest token belongs to the node in
  `granted`, and a key that is there is held by that node. The last two are what the properties
  need and do not say: a holder is always the newest grantee, so others have older tokens;
- `LeaseImplementsService`: each step is a `Grant`, a `Vacate` or a stutter of the service;
- `RenewedLeasesAreKept`, if `Smooth`: no command fails, renewals are punctual and the TTL is more
  than a tick; replicas may restart. `KeepInv` adds that a handle which counts on its lease is the
  only one of its name, that the key has at least the ticks the handle believes in, and that its
  renewal task wakes before the key expires, for any percentage (`SleepForBelow`).

For every set of keys and sweepers, longest TTL, skew and batch size (`KvAssumption`,
`KvStoreAssumption`):

- `TypeCorrect`;
- `IndexIsComplete`, if Redis accepts the clients' TTLs (a counter whose PEXPIRE is refused is in no
  index). The invariant `Coverage` adds that during a backfill a key that is there is indexed, owed
  by SCAN, or in the batch about to be indexed. `NoneHidden`, a fact about each step, carries it:
  whatever a step does, a key that is there afterwards is indexed or was there and unindexed before;
- `KeysAreScheduled`, under the same assumption, for stores no older build left keys in
  (see below, PTTL 0): scores and remaining times move together under every script and tick.

For every finite set of keys, TTL and page size (`KvListingAssumption`):

- `ListingTypes`, `PassesAreComplete`, `IndexPassesAreOnce`, all from `ListInv`. Over the index the
  cursor splits the keys: past it nothing has been returned, up to it everything that stayed, and
  the page under way has exactly what lies between the cursor and the next one. With SCAN a key that
  stayed is returned, on the page, pending in a cursor or still owed by SCAN, and a SCAN that is
  over owes nothing. What `KvProofs` and `KvListingProofs` need of the scripts is in
  `KvScriptProofs`.

For every set of nodes, TTL, refresh interval, cache age and skew (`PeersAssumption`):

- `PeersTypes`;
- `LivePeersAreListed`, if `SkewFits`: the refresh interval and the skew both ways are together
  shorter than the TTL. The invariant `PeersInv` says that the key and the score of a joined node
  last for what the TTL leaves after one interval plus the ticks to the next refresh, so that no
  clock finds it expired, and that a listing keeps the nodes it started with from step to step;
- `OlderBuildsAreListed`, `GoneNodesAreUnlisted`, without `SkewFits`, from `AgeInv`: an older build
  registered before the listing began (`oldFor` above `took`) has been found, or is among the keys
  the SCAN owes or returned; one registered a listing's time before the cached scan is in that;
  and what was found, or is in the cached scan, has been gone no longer than the listing, or the
  scan's age, has lasted;
- `WatchNoFalseLeft`, `WatchedPeersAreListed`, if `SkewFits` and for every channel size. `WatchInv`
  adds to `PeersInv` that a listing is under way exactly while the task lists, so that none begins
  before the events of the last one are sent; every step of the watch is one of the registry or
  leaves it alone;
- `WatchedListsAreCurrent`, `WatchTypes`, `ReadersCatchUp`, `WatchEventsAlternate`, without
  `SkewFits`. Neither of the last two is inductive: they speak of a channel that is empty, or of its
  head. `TurnInv` says that there is a sequence of views, from the reader's own to what the task has
  told so far (`Told`), in which each event of the channel leads from one to the next and is news
  there. A send adds a view at the end, a receive takes the first, and comparing two lists changes
  none.

For every set of replicas, callers, older builds and keys, any number of restarts and every choice
of faults (`GateAssumption`):

- `GateTypes`;
- `ListingsCompleteHolds`, `ShutStaysShutHolds`, if not `Overlap`. `ListingsComplete` alone is not
  inductive: a mark or an answer on its way opens gates later. `GateInv` says that without older
  builds, if the last one was not `missed`, whatever opens a gate or leads to it (the flag, an
  answer, a second list, a call past its backfill) speaks the truth, and that a backfill owes every
  key that is missing; that a replica that shut its gate for a registered build holds nothing that
  could open it, and a scan that has the build or none (`Quiet`), so that each of its lists has the
  build whatever the set's ids; and that once every replica did, the mark is gone or the last DEL
  failed.
- `RecheckMissesNoneHolds`, with or without `Overlap`, from `RecheckInv`: at the second list a scan
  that is cached was made after the backfill, and has every build that was there at its end and
  stayed.

For every base and every set of texts (`EnvelopeAssumption`): `RoundTrip` and `OnlyEnvelopesDecode`,
that `decode` undoes `encode` and accepts nothing else.

For every set of messages, filter, channel size and number of connections
(`SubscriptionAssumption`):

- `SubscriptionTypes`;
- `NothingLost`, `SubscriptionImplementsTopic`, from `LineInv`: places in the order of publication
  rise along what was received, the channel, the task's hands and the wire, and from each of these
  to the next; what is forwarded is what was published at its place, by `RoundTrip`; and while a
  connection lives every wanted place since it subscribed is on the line. Each step is then a step
  of `Topic` (publish, or receive the next) or a stutter.

For every `Exact` (`CounterAssumption`): `ClockFloorsExact`, `incr_floor` is exact for operands not
below zero with floor and delta together at most 2^53; `NearlyExact`, with any operands that the
script accepts it is at most three off, and INCRBY cannot overflow.

Every invariant and action property of the passing runs has a theorem. Only model-checked is
liveness, since TLAPS does not reason about ENABLED: `OrphanLapses`, `OrphanTakenOver`,
`GoneEntriesDropped`, `GateReopens`, `SweepsGoOn`, `Delivered`, `Resubscribes`, `EndsWhenWoken`. The
theorems with an assumption on the constants beyond those of the modules are `RenewedLeasesAreKept`
(`Smooth`), `IndexIsComplete` and `KeysAreScheduled` (accepted TTLs), the three about `SkewFits` and
the two without `Overlap`; each says what the code's operators have to provide, and the runs are
instances of it.

## Known and not stated as properties

No run is about these; they are read off the code at the lines given.

- A dropped lease handle is renewed on (`lease.rs:209`; `lease.rs:15` says the task aborts on drop).
  `sweep_lock_lost` is one consequence.
- A renewal task that stops on a failed command leaves no trace, and the caller's next renew
  succeeds while the key lives (`lease.rs:216`; `lease.rs:217-219` says that the caller sees
  `LeaseExpired`).
- A handle whose lease expired renews or releases its node's newer lease, since the scripts compare
  node ids (`lease.rs:119`, `lease.rs:136`; `lease.rs:351-353` says that the lease is gone).
- A key of an older build that is backfilled at PTTL 0 gets no expiry entry, and no sweep drops its
  index entry (`kv.rs:170`; `kv.rs:12-14`).
- A counter whose PEXPIRE Redis refuses is there without a TTL and in no index (`kv.rs:81`;
  `kv.rs:10-12`).
- With the default interval, half the TTL, one failed refresh lets a registration lapse
  (`config.rs:280`; `peer.rs:16-18` speaks of a slack).
- `incr_floor` checks its operands against 2^53 and not their sum (`kv.rs:103`, `NearlyExact`).
- A refresher past its tick when shutdown aborts it can register the node again after it
  deregistered, for one TTL.
- A DEL of the mark that fails is not tried again once the older build is gone: the mark stays, and
  gates open on it over the keys that build left (`maintenance.rs:116-121`; outside
  `ListingsComplete` by `missed`). The same goes for a build that leaves before every replica has
  listed it.
- A rolled-back build that a replica found only by the set's MGET is lost from its sight when its
  entry lapses before the cached scan does, and the mark of another replica may reopen its gate
  (`peer.rs:108`, `peer.rs:284`; outside `ShutStaysShut` by `Notices`).
- A node scanned as an older build, then upgraded and shut down, is listed until the cached scan is
  too old (`GoneNodesUnlisted`).
- The refresher and the maintenance task own references to `Inner`, so its `Drop` does not run
  before `shutdown()` (`lib.rs:469`).
- `limit + 1` of a listing overflows for the largest limit (`kv.rs:356`).

## Not modelled

- The lazily filled connection and primitives cells: a missing connection is a failing command in
  every model. When the last reference to `Inner` goes: ownership, not steps.
- The topic bus: its stream is the client library's.
- Configuration, manifest, TLS and declaration: text handling and start-up I/O. The bounds that
  `validate` enforces are assumptions on constants.
- The text of keys, cursors and prefixes, among them the lease named `a:fence`, whose key is the
  fence counter of `a`.
