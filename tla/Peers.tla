------------------------------- MODULE Peers -------------------------------
(***************************************************************************)
(* The peer registry (peer.rs): presence keys with a TTL, the sorted set   *)
(* of node ids, the refresher of each node, shutdown, and one replica that *)
(* lists the peers, with its cached scan for nodes of an older build.      *)
(*                                                                         *)
(* A node id can run a current build, then an older one, and back: an      *)
(* upgrade or a rollback.  Times are relative to now, in ticks, as in      *)
(* KvScripts; a stamp is a node's now_ms() minus Redis' clock.             *)
(***************************************************************************)
EXTENDS Integers

CONSTANTS
  Node,
  PeerTtl,    \* peer_ttl_ms
  Refresh,    \* the refresh interval
  ScanAge,    \* LegacyPeerScan's max_age
  ListTime,   \* the most ticks one listing takes
  Behind,     \* the most a node's stamp is behind Redis' clock
  Ahead,      \* the most it is ahead
  NoScore     \* not a member of the sorted set

ASSUME PeersAssumption ==
  /\ PeerTtl \in Nat \ {0} /\ Refresh \in Nat \ {0}
  /\ ScanAge \in 1..PeerTtl
  /\ ListTime \in Nat
  /\ Behind \in Nat /\ Ahead \in Nat
  /\ NoScore \notin Int

VARIABLES
  left,     \* [Node -> 0..PeerTtl]: ticks left of the presence key, 0: no key
  indexed,  \* [Node -> BOOLEAN]: kv_index of the last registration
  score,    \* [Node -> score]: the sorted set
  proc,     \* [Node -> what runs there]
  reg,      \* [Node -> the refresher's position]
  timer,    \* [Node -> ticks to the refresher's next tick]
  pc, ids, found, keys, owed, took,  \* list_registrations' position and locals
  cache,    \* LegacyPeerScan::last: [age, older]; age TooOld is also None
  listed,   \* the last list
  joined,   \* history: nodes up whose last refresh succeeded
  steady,   \* history: nodes joined since the listing began
  oldFor,   \* history: ticks an older build has been registered
  goneFor   \* history: ticks the presence key has been gone

redis   == <<left, indexed, score>>
nodes   == <<proc, reg, timer, joined>>
lister  == <<pc, ids, found, keys, owed, took, cache, listed>>
history == <<steady, oldFor, goneFor>>
vars    == <<redis, nodes, lister, history>>

Stamp == (-Behind)..Ahead
HistoryCap == ScanAge + ListTime
TooOld == ScanAge + 1

Registered == {n \in Node : left[n] > 0}
Older      == {n \in Registered : ~indexed[n]}

Init ==
  /\ left = [n \in Node |-> 0] /\ indexed = [n \in Node |-> FALSE]
  /\ score = [n \in Node |-> NoScore]
  /\ proc = [n \in Node |-> "down"] /\ reg = [n \in Node |-> "none"]
  /\ timer = [n \in Node |-> 0]
  /\ pc = "idle" /\ ids = {} /\ found = {} /\ keys = {} /\ owed = {} /\ took = 0
  /\ cache = [age |-> TooOld, older |-> {}]
  /\ listed = {} /\ joined = {}
  /\ steady = {}
  /\ oldFor = [n \in Node |-> 0] /\ goneFor = [n \in Node |-> HistoryCap]

-----------------------------------------------------------------------------
(* The refresher of a current build *)

Boot(n) ==
  /\ proc[n] = "down"
  /\ proc' = [proc EXCEPT ![n] = "up"]
  /\ reg' = [reg EXCEPT ![n] = "wait"]
  /\ timer' = [timer EXCEPT ![n] = 0]
  /\ UNCHANGED <<redis, joined, lister, history>>

\* The interval ticks; the next tick is an interval later (Delay).
RefreshDue(n) ==
  /\ reg[n] = "wait" /\ timer[n] = 0
  /\ reg' = [reg EXCEPT ![n] = "set"]
  /\ timer' = [timer EXCEPT ![n] = Refresh]
  /\ UNCHANGED <<redis, proc, joined, lister, history>>

\* A node with no command of deregister_peer under way has the connection.
HasConn(n) == proc[n] # "zrem"

\* register_peer's SET ... PX ...
RegisterSet(n) ==
  /\ reg[n] = "set" /\ HasConn(n)
  /\ left' = [left EXCEPT ![n] = PeerTtl]
  /\ indexed' = [indexed EXCEPT ![n] = TRUE]
  /\ reg' = [reg EXCEPT ![n] = "add"]
  /\ oldFor' = [oldFor EXCEPT ![n] = 0] /\ goneFor' = [goneFor EXCEPT ![n] = 0]
  /\ UNCHANGED <<score, proc, timer, joined, lister, steady>>

\* Mutants: the score forgets the TTL, or counts it twice.
RegistrationScoreNow(now) == now
RegistrationScoreTwice(now) == now + 2 * PeerTtl

RegistrationScore(now) == now + PeerTtl

\* ... and its ZADD.
RegisterAdd(n, now) ==
  /\ reg[n] = "add"
  /\ score' = [score EXCEPT ![n] = RegistrationScore(now)]
  /\ reg' = [reg EXCEPT ![n] = IF proc[n] = "up" THEN "wait" ELSE "none"]
  /\ joined' = IF proc[n] = "up" THEN joined \cup {n} ELSE joined
  /\ UNCHANGED <<left, indexed, proc, timer, lister, history>>

\* No connection, or the pipeline fails before or after its SET.
RegisterFails(n) ==
  /\ reg[n] \in {"set", "add"} /\ proc[n] = "up"
  /\ reg' = [reg EXCEPT ![n] = "wait"]
  /\ joined' = joined \ {n}
  /\ steady' = steady \ {n}
  /\ UNCHANGED <<redis, proc, timer, lister, oldFor, goneFor>>

-----------------------------------------------------------------------------
(* Ends *)

\* The node is not counted on any more.
Leaves(n) ==
  /\ joined' = joined \ {n}
  /\ steady' = steady \ {n}

\* The process ends, of itself or after shutdown.
Crash(n) ==
  /\ proc[n] # "down"
  /\ proc' = [proc EXCEPT ![n] = "down"]
  /\ reg' = [reg EXCEPT ![n] = "none"]
  /\ Leaves(n)
  /\ UNCHANGED <<redis, timer, lister, oldFor, goneFor>>

\* shutdown() aborts the refresher: one that sleeps ends here, one that runs
\* ends at its next await.
Shutdown(n) ==
  /\ proc[n] = "up"
  /\ proc' = [proc EXCEPT ![n] = "leaving"]
  /\ reg' = [reg EXCEPT ![n] = IF @ = "wait" THEN "none" ELSE @]
  /\ Leaves(n)
  /\ UNCHANGED <<redis, timer, lister, oldFor, goneFor>>

\* The aborted refresher waits for the connection, or had not sent anything.
RefresherEnds(n) ==
  /\ proc[n] \in {"leaving", "zrem", "failed", "left"} /\ reg[n] = "set"
  /\ reg' = [reg EXCEPT ![n] = "none"]
  /\ UNCHANGED <<redis, proc, timer, joined, lister, history>>

\* deregister_peer's DEL, behind a registration already sent on the same
\* connection ...
DeregisterDel(n) ==
  /\ proc[n] = "leaving" /\ reg[n] # "add"
  /\ left' = [left EXCEPT ![n] = 0]
  /\ proc' = [proc EXCEPT ![n] = "zrem"]
  /\ oldFor' = [oldFor EXCEPT ![n] = 0]
  /\ UNCHANGED <<indexed, score, reg, timer, joined, lister, steady, goneFor>>

\* ... and its ZREM.
DeregisterRem(n) ==
  /\ proc[n] = "zrem"
  /\ score' = [score EXCEPT ![n] = NoScore]
  /\ proc' = [proc EXCEPT ![n] = "left"]
  /\ UNCHANGED <<left, indexed, reg, timer, joined, lister, history>>

\* An error, or the two seconds are over: the registration is left to expire.
DeregisterFails(n) ==
  /\ proc[n] \in {"leaving", "zrem"}
  /\ proc' = [proc EXCEPT ![n] = "failed"]
  /\ UNCHANGED <<redis, reg, timer, joined, lister, history>>

-----------------------------------------------------------------------------
(* An older build under the same node id: it writes the key alone *)

BootOlder(n) ==
  /\ proc[n] = "down"
  /\ proc' = [proc EXCEPT ![n] = "older"]
  /\ UNCHANGED <<redis, reg, timer, joined, lister, history>>

RegisterOlder(n) ==
  /\ proc[n] = "older"
  /\ left' = [left EXCEPT ![n] = PeerTtl]
  /\ indexed' = [indexed EXCEPT ![n] = FALSE]
  /\ goneFor' = [goneFor EXCEPT ![n] = 0]
  /\ UNCHANGED <<score, nodes, lister, steady, oldFor>>

-----------------------------------------------------------------------------
(* list_registrations *)

\* ZRANGEBYSCORE (now +inf.
Unexpired(now) == {n \in Node : score[n] # NoScore /\ score[n] > now}

\* ZREMRANGEBYSCORE -inf now.
Trim(now) == score' = [n \in Node |-> IF n \in Unexpired(now) THEN score[n] ELSE NoScore]

\* The two commands of the pipeline have the effect of one: what comes between
\* them could as well have come before or after both.
ListRead(now) ==
  /\ pc \in {"idle", "done"}
  /\ ids' = Unexpired(now)
  /\ Trim(now)
  /\ pc' = "mget" /\ took' = 0 /\ found' = {}
  /\ steady' = joined
  /\ UNCHANGED <<left, indexed, nodes, keys, owed, cache, listed, oldFor, goneFor>>

\* Another replica's listing trims the set, by its own clock.
OtherListRead(now) ==
  /\ Trim(now)
  /\ UNCHANGED <<left, indexed, nodes, lister, history>>

\* read_registrations of the ids.
ListGet ==
  /\ pc = "mget"
  /\ found' = ids \cap Registered
  /\ pc' = "legacy"
  /\ UNCHANGED <<redis, nodes, ids, keys, owed, took, cache, listed, history>>

\* Mutant: a scan of exactly the maximal age still serves.
ScanServesOlder == cache.age <= ScanAge

ScanServes == cache.age < ScanAge

\* What the scan found, but for the nodes the set has.
List(older) ==
  /\ listed' = found \cup (older \ ids)
  /\ pc' = "done"

ListFromCache ==
  /\ pc = "legacy" /\ ScanServes
  /\ List(cache.older)
  /\ UNCHANGED <<redis, nodes, ids, found, keys, owed, took, cache, history>>

ScanStart ==
  /\ pc = "legacy" /\ ~ScanServes
  /\ owed' = Registered
  /\ pc' = "scan"
  /\ UNCHANGED <<redis, nodes, ids, found, keys, took, cache, listed, history>>

\* The SCAN is over: it returned every key there since it started, and maybe
\* keys that came or went.
ScanEnd ==
  /\ pc = "scan"
  /\ keys' \in {K \in SUBSET Node : owed \subseteq K}
  /\ pc' = "read" /\ owed' = {}
  /\ UNCHANGED <<redis, nodes, ids, found, took, cache, listed, history>>

\* read_registrations of the scanned keys; the scan's age counts from here.
ScanRead ==
  /\ pc = "read"
  /\ cache' = [age |-> 0, older |-> keys \cap Older]
  /\ keys' = {}
  /\ List(keys \cap Older)
  /\ UNCHANGED <<redis, nodes, ids, found, owed, took, history>>

\* A command fails: the listing returns the error, the cached scan stays.
ListFails ==
  /\ pc \in {"mget", "legacy", "scan", "read"}
  /\ pc' = "idle" /\ keys' = {} /\ owed' = {}
  /\ UNCHANGED <<redis, nodes, ids, found, took, cache, listed, history>>

\* forget() waits for the lock a scan holds.
ForgetScan ==
  /\ pc \notin {"scan", "read"}
  /\ cache' = [age |-> TooOld, older |-> {}]
  /\ UNCHANGED <<redis, nodes, pc, ids, found, keys, owed, took, listed, history>>

-----------------------------------------------------------------------------
Down(x) == IF x > 0 THEN x - 1 ELSE 0
Up(x, cap) == IF x < cap THEN x + 1 ELSE cap

\* Redis' clock.  A refresher that is due is not late, and a listing takes at
\* most ListTime.
Tick ==
  /\ \A n \in Node : proc[n] = "up" => reg[n] = "wait" /\ timer[n] > 0
  /\ pc \notin {"idle", "done"} => took < ListTime
  /\ took' = IF pc \in {"idle", "done"} THEN 0 ELSE took + 1
  /\ left' = [n \in Node |-> Down(left[n])]
  /\ score' = [n \in Node |-> IF score[n] = NoScore \/ score[n] <= -Behind
                              THEN score[n] ELSE score[n] - 1]
  /\ timer' = [n \in Node |-> Down(timer[n])]
  /\ cache' = [cache EXCEPT !.age = Up(@, TooOld)]
  /\ owed' = {n \in owed : left'[n] > 0}
  /\ oldFor' = [n \in Node |->
                  IF left'[n] > 0 /\ ~indexed[n] THEN Up(oldFor[n], HistoryCap) ELSE 0]
  /\ goneFor' = [n \in Node |-> IF left[n] > 0 THEN 0 ELSE Up(goneFor[n], HistoryCap)]
  /\ UNCHANGED <<indexed, proc, reg, joined, pc, ids, found, keys, listed, steady>>

Next ==
  \/ \E n \in Node :
       \/ Boot(n) \/ RefreshDue(n) \/ RegisterSet(n) \/ RegisterFails(n)
       \/ \E now \in Stamp : RegisterAdd(n, now)
       \/ Crash(n) \/ Shutdown(n) \/ RefresherEnds(n)
       \/ DeregisterDel(n) \/ DeregisterRem(n) \/ DeregisterFails(n)
       \/ BootOlder(n) \/ RegisterOlder(n)
  \/ \E now \in Stamp : ListRead(now) \/ OtherListRead(now)
  \/ ListGet \/ ListFromCache \/ ScanStart \/ ScanEnd \/ ScanRead \/ ListFails
  \/ ForgetScan \/ Tick

Spec == Init /\ [][Next]_vars

-----------------------------------------------------------------------------
(* Properties *)

TypeOK ==
  /\ left \in [Node -> 0..PeerTtl] /\ indexed \in [Node -> BOOLEAN]
  /\ score \in [Node -> ((-Behind)..(PeerTtl + Ahead)) \cup {NoScore}]
  /\ proc \in [Node -> {"down", "up", "leaving", "zrem", "failed", "left", "older"}]
  /\ reg \in [Node -> {"none", "wait", "set", "add"}]
  /\ timer \in [Node -> 0..Refresh]
  /\ pc \in {"idle", "mget", "legacy", "scan", "read", "done"}
  /\ ids \cup found \cup keys \cup owed \cup listed \cup joined \cup steady \subseteq Node
  /\ took \in 0..ListTime
  /\ cache \in [age : 0..TooOld, older : SUBSET Node]
  /\ oldFor \in [Node -> 0..HistoryCap] /\ goneFor \in [Node -> 0..HistoryCap]

\* A refresh interval and the clock skew together are shorter than the TTL.
SkewFits == Refresh + Behind + Ahead < PeerTtl

Finishes == pc # "done" /\ pc' = "done"

\* A node that is up and whose refreshes succeed is in every list, whatever
\* other replicas trim from the set by their clocks, as long as SkewFits
\* (register_peer, list_registrations).
LivePeersListed == [][Finishes => steady \subseteq listed']_vars

\* An older build is in every list once it has been registered as long as a
\* scan is cached and a listing takes, even under a node id the set still has
\* from a current build (LegacyPeerScan::registrations).
OlderBuildsListed ==
  [][Finishes => \A n \in Node : oldFor[n] = HistoryCap => n \in listed']_vars

\* A node whose key has been gone for as long as a scan is cached, and since
\* before the listing began, is in no list: a dead replica disappears on its
\* own (the MGETs and the scan's age).
GoneNodesUnlisted ==
  [][Finishes => \A n \in listed' : goneFor[n] < ScanAge \/ goneFor[n] <= took]_vars
=============================================================================
