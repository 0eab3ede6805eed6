---------------------------- MODULE PeersProofs ----------------------------
(***************************************************************************)
(* The peer registry and the watch over it, for every number of nodes,     *)
(* TTL, refresh interval, clock skew and channel size.                     *)
(*                                                                         *)
(* A node whose refreshes succeed is in every peer list: the inductive     *)
(* invariant says how much of its key and of its score a joined node still *)
(* has, namely what the TTL leaves after one refresh interval, and the     *)
(* ticks until the next refresh on top.                                    *)
(*                                                                         *)
(* A list is as old as the listing and the cached scan: the invariant      *)
(* compares how long an older build has been there, or a key gone, with    *)
(* the ticks of both.                                                      *)
(*                                                                         *)
(* The watch's steps are steps of the registry or leave it alone, so that  *)
(* the registry's invariants hold beside it; between a list's comparison   *)
(* and the last of its events no listing begins.  For what its reader      *)
(* hears, the invariant says what it will know after each event in the     *)
(* channel.                                                                *)
(***************************************************************************)
EXTENDS PeerWatch, TLAPS

-----------------------------------------------------------------------------
(* Kinds of steps *)

\* A step of node n: of its refresher, its shutdown or an older build in its place.
NodeStep(n) ==
  \/ Boot(n) \/ RefreshDue(n) \/ RegisterSet(n) \/ RegisterFails(n)
  \/ \E now \in Stamp : RegisterAdd(n, now)
  \/ Crash(n) \/ Shutdown(n) \/ RefresherEnds(n)
  \/ DeregisterDel(n) \/ DeregisterRem(n) \/ DeregisterFails(n)
  \/ BootOlder(n) \/ RegisterOlder(n)

\* A step of a listing that leaves Redis alone.
ListStep == ListGet \/ ListFromCache \/ ScanStart \/ ScanEnd \/ ScanRead \/ ListFails \/ ForgetScan

\* A step is one of a node, of a listing, or of Redis' clock.
LEMMA StepKinds ==
  ASSUME Next
  PROVE  \/ \E n \in Node : NodeStep(n)
         \/ \E now \in Stamp : ListRead(now) \/ OtherListRead(now)
         \/ ListStep
         \/ Tick
BY DEF Next, NodeStep, ListStep

-----------------------------------------------------------------------------
(* Types of the registry *)

\* A node's steps leave the lister alone.
LEMMA NodeLeavesLister ==
  ASSUME NEW n \in Node, NodeStep(n)
  PROVE  UNCHANGED lister
BY DEF NodeStep, Boot, RefreshDue, RegisterSet, RegisterFails, RegisterAdd, Crash, Shutdown,
       RefresherEnds, DeregisterDel, DeregisterRem, DeregisterFails, BootOlder, RegisterOlder

\* register_peer writes a score of the stated range.
LEMMA ScoreInRange ==
  ASSUME NEW now \in Stamp
  PROVE  RegistrationScore(now) \in (-Behind)..(PeerTtl + Ahead)
BY PeersAssumption DEF RegistrationScore, Stamp

\* The steps of a node keep the types.
LEMMA NodeKeepsTypes ==
  ASSUME TypeOK, NEW n \in Node, NodeStep(n)
  PROVE  TypeOK'
<1>a. PeerTtl \in 0..PeerTtl /\ 0 \in 0..PeerTtl /\ Refresh \in 0..Refresh /\ 0 \in 0..Refresh
      /\ 0 \in 0..HistoryCap
  BY PeersAssumption DEF HistoryCap
<1>b. UNCHANGED lister
  BY NodeLeavesLister
<1>1. CASE Boot(n) \/ RefreshDue(n) \/ BootOlder(n)
  BY <1>a, <1>b, <1>1 DEF TypeOK, lister, Boot, RefreshDue, BootOlder, redis, history
<1>2. CASE RegisterSet(n)
  BY <1>a, <1>b, <1>2 DEF TypeOK, lister, RegisterSet
<1>3. CASE RegisterFails(n) \/ Crash(n) \/ Shutdown(n)
  BY <1>a, <1>b, <1>3 DEF TypeOK, lister, RegisterFails, Crash, Shutdown, Leaves, redis
<1>4. ASSUME NEW now \in Stamp, RegisterAdd(n, now) PROVE TypeOK'
  BY <1>a, <1>b, <1>4, ScoreInRange DEF TypeOK, lister, RegisterAdd, history
<1>5. CASE RefresherEnds(n) \/ DeregisterRem(n) \/ DeregisterFails(n)
  BY <1>a, <1>b, <1>5 DEF TypeOK, lister, RefresherEnds, DeregisterRem, DeregisterFails, redis, history
<1>6. CASE DeregisterDel(n)
  BY <1>a, <1>b, <1>6 DEF TypeOK, lister, DeregisterDel
<1>7. CASE RegisterOlder(n)
  BY <1>a, <1>b, <1>7 DEF TypeOK, lister, RegisterOlder, nodes
<1> QED
  BY <1>1, <1>2, <1>3, <1>4, <1>5, <1>6, <1>7 DEF NodeStep

\* The steps of a listing keep the types.
LEMMA ListKeepsTypes ==
  ASSUME TypeOK, ListStep \/ \E now \in Stamp : ListRead(now) \/ OtherListRead(now)
  PROVE  TypeOK'
<1>a. 0 \in 0..TooOld /\ TooOld \in 0..TooOld /\ 0 \in 0..ListTime
  BY PeersAssumption DEF TooOld
<1>1. ASSUME NEW now \in Stamp, ListRead(now) PROVE TypeOK'
  BY <1>a, <1>1 DEF TypeOK, ListRead, Trim, Unexpired, nodes
<1>2. ASSUME NEW now \in Stamp, OtherListRead(now) PROVE TypeOK'
  BY <1>2 DEF TypeOK, OtherListRead, Trim, Unexpired, nodes, lister, history
<1>3. CASE ListGet \/ ScanStart \/ ScanEnd \/ ListFails
  BY <1>3 DEF TypeOK, ListGet, ScanStart, ScanEnd, ListFails, Registered, redis, nodes, history
<1>4. CASE ListFromCache
  BY <1>4 DEF TypeOK, ListFromCache, List, redis, nodes, history
<1>5. CASE ScanRead \/ ForgetScan
  BY <1>a, <1>5 DEF TypeOK, ScanRead, ForgetScan, List, Older, Registered, redis, nodes, history
<1> QED
  BY <1>1, <1>2, <1>3, <1>4, <1>5 DEF ListStep

\* A tick keeps every count inside its range.
LEMMA TickKeepsTypes ==
  ASSUME TypeOK, Tick
  PROVE  TypeOK'
<1>a. PeerTtl \in Nat /\ Refresh \in Nat /\ ListTime \in Nat /\ Behind \in Nat /\ Ahead \in Nat
      /\ TooOld \in Nat /\ HistoryCap \in Nat
  BY PeersAssumption DEF TooOld, HistoryCap
<1>1. left' \in [Node -> 0..PeerTtl] /\ timer' \in [Node -> 0..Refresh]
  BY <1>a DEF TypeOK, Tick, Down
<1>2. score' \in [Node -> ((-Behind)..(PeerTtl + Ahead)) \cup {NoScore}]
  <2>1. ASSUME NEW n \in Node, score[n] # NoScore, ~(score[n] <= -Behind)
        PROVE  score[n] - 1 \in (-Behind)..(PeerTtl + Ahead)
    BY <1>a, <2>1 DEF TypeOK
  <2> QED
    BY <2>1 DEF TypeOK, Tick
<1>3. took' \in 0..ListTime
  BY <1>a DEF TypeOK, Tick
<1>4. cache' \in [age : 0..TooOld, older : SUBSET Node]
  <2>1. Up(cache.age, TooOld) \in 0..TooOld
    BY <1>a DEF TypeOK, Up
  <2> QED
    BY <2>1, Zenon DEF TypeOK, Tick
<1>5. ASSUME NEW x \in 0..HistoryCap PROVE Up(x, HistoryCap) \in 0..HistoryCap
  BY <1>a DEF Up
<1>6. oldFor' \in [Node -> 0..HistoryCap] /\ goneFor' \in [Node -> 0..HistoryCap]
  BY <1>a, <1>5 DEF TypeOK, Tick
<1>7. UNCHANGED <<indexed, proc, reg, joined, pc, ids, found, keys, listed, steady>>
      /\ owed' \subseteq owed
  BY DEF Tick
<1> QED
  BY <1>1, <1>2, <1>3, <1>4, <1>6, <1>7 DEF TypeOK

LEMMA TypesInductive ==
  ASSUME TypeOK, [Next]_vars
  PROVE  TypeOK'
<1>1. CASE UNCHANGED vars
  BY <1>1 DEF TypeOK, vars, redis, nodes, lister, history
<1>2. CASE Next
  BY <1>2, StepKinds, NodeKeepsTypes, ListKeepsTypes, TickKeepsTypes
<1> QED
  BY <1>1, <1>2

LEMMA TypesInitially == Init => TypeOK
BY PeersAssumption DEF Init, TypeOK, TooOld, HistoryCap

\* The registry, its refreshers and its lister stay in their types: every score is one
\* register_peer writes, aged or trimmed, and no listing outlasts its time (peer.rs).
THEOREM PeersTypes == Spec => []TypeOK
BY TypesInitially, TypesInductive, PTL DEF Spec

-----------------------------------------------------------------------------
(* Nodes that are up *)

\* Ticks a node still has until its refresher may hold up the clock.
Slack(n) == IF reg[n] = "wait" THEN timer[n] ELSE 0

\* The TTL and the score of a joined node outlast the next refresh.
JoinedLast(n) ==
  /\ proc[n] = "up" /\ reg[n] \in {"wait", "set", "add"}
  /\ left[n] >= PeerTtl - Refresh + Slack(n)
  /\ score[n] \in Int
  /\ score[n] >= PeerTtl - Refresh - Behind + Slack(n)

\* Between SET and ZADD no time passes for a node that is up.
JustSet(n) == proc[n] = "up" /\ reg[n] = "add" => left[n] = PeerTtl

\* A listing has found the nodes that were joined throughout.
ListingKeeps ==
  /\ steady \subseteq joined
  /\ pc = "mget" => steady \subseteq ids
  /\ pc \in {"legacy", "scan", "read"} => steady \subseteq found

RegistryInv ==
  /\ TypeOK
  /\ \A n \in joined : JoinedLast(n)
  /\ \A n \in Node : JustSet(n)

PeersInv == RegistryInv /\ ListingKeeps

-----------------------------------------------------------------------------
(* What a listing relies on *)

\* No replica's clock, as far ahead as it may be, finds a joined node expired.
LEMMA JoinedUnexpired ==
  ASSUME SkewFits, RegistryInv, NEW now \in Stamp
  PROVE  joined \subseteq Unexpired(now) /\ joined \subseteq Registered
<1> SUFFICES ASSUME NEW n \in joined
             PROVE  n \in Unexpired(now) /\ n \in Registered
  OBVIOUS
<1>1. n \in Node /\ JoinedLast(n) /\ timer[n] \in Nat /\ left[n] \in Nat
  BY PeersAssumption DEF RegistryInv, TypeOK
<1>2. Slack(n) \in Nat
  BY <1>1 DEF Slack
<1>3. score[n] \in Int /\ score[n] > now
  BY <1>1, <1>2, PeersAssumption DEF JoinedLast, SkewFits, Stamp
<1>4. left[n] > 0
  BY <1>1, <1>2, PeersAssumption DEF JoinedLast, SkewFits
<1> QED
  BY <1>1, <1>3, <1>4, PeersAssumption DEF Unexpired, Registered

-----------------------------------------------------------------------------
(* Steps and the registry *)

\* Trimming the set by any clock keeps every joined node.
LEMMA TrimKeepsJoined ==
  ASSUME SkewFits, RegistryInv, TypeOK', NEW now \in Stamp, Trim(now),
         UNCHANGED <<left, nodes>>
  PROVE  RegistryInv'
<1>1. \A n \in joined : score'[n] = score[n]
  BY JoinedUnexpired DEF Trim, RegistryInv, TypeOK
<1>3. \A n \in joined' : JoinedLast(n)'
  BY <1>1 DEF RegistryInv, JoinedLast, Slack, nodes
<1>4. \A n \in Node : JustSet(n)'
  BY DEF RegistryInv, JustSet, nodes
<1> QED
  BY <1>3, <1>4 DEF RegistryInv

\* A tick costs a joined node one tick of its slack.
LEMMA TickKeepsJoined ==
  ASSUME SkewFits, RegistryInv, Tick
  PROVE  RegistryInv'
<1>1. TypeOK'
  BY TickKeepsTypes DEF RegistryInv
<1>2. ASSUME NEW n \in joined
      PROVE  JoinedLast(n)'
  <2>1. /\ n \in Node /\ JoinedLast(n)
        /\ proc[n] = "up" /\ reg[n] = "wait" /\ timer[n] \in Nat /\ timer[n] > 0
    BY PeersAssumption DEF RegistryInv, TypeOK, JoinedLast, Tick
  <2>2. /\ left[n] \in Nat /\ left[n] >= PeerTtl - Refresh + timer[n]
        /\ score[n] \in Int /\ score[n] >= PeerTtl - Refresh - Behind + timer[n]
    BY <2>1, PeersAssumption DEF JoinedLast, Slack, RegistryInv, TypeOK
  <2>3. left[n] > 0 /\ score[n] > -Behind
    BY <2>1, <2>2, PeersAssumption DEF SkewFits
  <2>4. left'[n] = left[n] - 1 /\ score'[n] = score[n] - 1 /\ timer'[n] = timer[n] - 1
    BY <2>1, <2>2, <2>3, PeersAssumption DEF Tick, Down
  <2> QED
    BY <2>1, <2>2, <2>4, PeersAssumption DEF JoinedLast, Slack, Tick
<1>3. \A n \in Node : JustSet(n)'
  BY DEF Tick, JustSet
<1> QED
  BY <1>1, <1>2, <1>3 DEF RegistryInv, Tick

\* What a step of node n leaves alone.
Elsewhere(n) ==
  \A m \in Node \ {n} :
    /\ left'[m] = left[m] /\ score'[m] = score[m]
    /\ proc'[m] = proc[m] /\ reg'[m] = reg[m] /\ timer'[m] = timer[m]
    /\ m \in joined' => m \in joined

\* A step of one node is judged by that node.
LEMMA OneNode ==
  ASSUME RegistryInv, NEW n \in Node, TypeOK', Elsewhere(n), JustSet(n)',
         n \in joined' => JoinedLast(n)'
  PROVE  RegistryInv'
<1>1. ASSUME NEW m \in joined', m # n
      PROVE  JoinedLast(m)'
  <2>1. m \in Node \ {n} /\ m \in joined
    BY <1>1, Zenon DEF TypeOK, Elsewhere
  <2> QED
    BY <2>1, Zenon DEF RegistryInv, JoinedLast, Slack, Elsewhere
<1>2. ASSUME NEW m \in Node, m # n
      PROVE  JustSet(m)'
  BY <1>2 DEF RegistryInv, JustSet, Elsewhere
<1> QED
  BY <1>1, <1>2 DEF RegistryInv

\* Every step of a node keeps the registry's invariant.
LEMMA NodeKeepsJoined ==
  ASSUME RegistryInv, NEW n \in Node, NodeStep(n)
  PROVE  RegistryInv'
<1>a. /\ left \in [Node -> 0..PeerTtl] /\ DOMAIN score = Node /\ timer \in [Node -> 0..Refresh]
      /\ DOMAIN proc = Node /\ DOMAIN reg = Node
  BY DEF RegistryInv, TypeOK
<1>b. /\ PeerTtl \in Nat /\ Refresh \in Nat /\ Behind \in Nat
      /\ left[n] \in Nat /\ timer[n] \in Nat /\ timer[n] <= Refresh
  BY <1>a, PeersAssumption
<1>c. (n \in joined => JoinedLast(n)) /\ JustSet(n)
  BY DEF RegistryInv
<1> SUFFICES Elsewhere(n) /\ JustSet(n)' /\ (n \in joined' => JoinedLast(n)')
  <2>1. TypeOK'
    BY NodeKeepsTypes DEF RegistryInv
  <2> QED
    BY <2>1, OneNode
<1>1. CASE RegisterFails(n) \/ Crash(n) \/ Shutdown(n)
  <2>1. n \notin joined' /\ left' = left /\ (proc'[n] = "up" => reg'[n] = "wait")
    BY <1>a, <1>1 DEF RegisterFails, Crash, Shutdown, Leaves, redis
  <2>2. Elsewhere(n)
    BY <1>a, <1>1, Zenon DEF Elsewhere, RegisterFails, Crash, Shutdown, Leaves, redis
  <2> QED
    BY <2>1, <2>2 DEF JustSet
<1>2. CASE \/ Boot(n) \/ RefresherEnds(n) \/ DeregisterDel(n) \/ DeregisterRem(n)
           \/ DeregisterFails(n) \/ BootOlder(n) \/ RegisterOlder(n)
  <2>1. proc[n] # "up" /\ joined' = joined /\ (proc'[n] = "up" => reg'[n] = "wait")
    BY <1>a, <1>2 DEF Boot, RefresherEnds, DeregisterDel, DeregisterRem, DeregisterFails, BootOlder,
                      RegisterOlder, nodes
  <2>2. Elsewhere(n)
    BY <1>a, <1>2, Zenon DEF Elsewhere, Boot, RefresherEnds, DeregisterDel, DeregisterRem, DeregisterFails,
                      BootOlder, RegisterOlder, nodes, redis
  <2> QED
    BY <1>c, <2>1, <2>2 DEF JustSet, JoinedLast
<1>3. CASE RefreshDue(n)
  <2>1. Elsewhere(n)
    BY <1>a, <1>3 DEF Elsewhere, RefreshDue, redis
  <2> QED
    BY <1>a, <1>b, <1>c, <1>3, <2>1, Zenon DEF JoinedLast, JustSet, Slack, RefreshDue, redis
<1>4. CASE RegisterSet(n)
  <2>1. Elsewhere(n)
    BY <1>a, <1>4 DEF Elsewhere, RegisterSet
  <2> QED
    BY <1>a, <1>b, <1>c, <1>4, <2>1 DEF JoinedLast, JustSet, Slack, RegisterSet
<1>5. ASSUME NEW now \in Stamp, RegisterAdd(n, now)
      PROVE  Elsewhere(n) /\ JustSet(n)' /\ (n \in joined' => JoinedLast(n)')
  <2>1. Elsewhere(n)
    BY <1>a, <1>5 DEF Elsewhere, RegisterAdd
  <2> QED
    BY <1>a, <1>b, <1>c, <1>5, <2>1 DEF JoinedLast, JustSet, Slack, RegisterAdd, RegistrationScore,
                                        Stamp
<1> QED
  BY <1>1, <1>2, <1>3, <1>4, <1>5 DEF NodeStep

-----------------------------------------------------------------------------
(* Steps and the listing *)

\* Steps of a node take out of both histories what they take out of one.
LEMMA NodeKeepsListing ==
  ASSUME ListingKeeps, joined \subseteq Node, NEW n \in Node, NodeStep(n)
  PROVE  ListingKeeps'
<1>1. UNCHANGED <<pc, ids, found>>
  BY DEF NodeStep, Boot, RefreshDue, RegisterSet, RegisterFails, RegisterAdd, Crash, Shutdown,
         RefresherEnds, DeregisterDel, DeregisterRem, DeregisterFails, BootOlder,
         RegisterOlder, lister
<1>2. steady' \subseteq steady /\ steady' \subseteq joined'
  <2>1. CASE Boot(n) \/ BootOlder(n) \/ RegisterSet(n)
    BY <2>1 DEF ListingKeeps, Boot, BootOlder, RegisterSet, history
  <2>2. CASE RegisterFails(n) \/ Crash(n) \/ Shutdown(n)
    BY <2>2, Zenon DEF ListingKeeps, RegisterFails, Crash, Shutdown, Leaves
  <2>3. CASE \/ RefreshDue(n) \/ RefresherEnds(n) \/ DeregisterDel(n) \/ DeregisterRem(n)
             \/ DeregisterFails(n) \/ RegisterOlder(n) \/ \E now \in Stamp : RegisterAdd(n, now)
    BY <2>3 DEF ListingKeeps, RefreshDue, RefresherEnds, DeregisterDel, DeregisterRem,
                DeregisterFails, RegisterOlder, RegisterAdd, history, nodes
  <2> QED
    BY <2>1, <2>2, <2>3 DEF NodeStep
<1> QED
  BY <1>1, <1>2, ZenonT(30) DEF ListingKeeps

\* A listing starts from the nodes that are joined, and loses none of them.
LEMMA ListKeepsListing ==
  ASSUME SkewFits, RegistryInv, ListingKeeps,
         ListStep \/ Tick \/ \E now \in Stamp : ListRead(now) \/ OtherListRead(now)
  PROVE  ListingKeeps'
<1>1. ASSUME NEW now \in Stamp, ListRead(now)
      PROVE  ListingKeeps'
  <2>1. joined \subseteq Node /\ joined \subseteq Unexpired(now)
    BY <1>1, JoinedUnexpired DEF RegistryInv, TypeOK
  <2> QED
    BY <1>1, <2>1, Zenon DEF ListRead, ListingKeeps, nodes
<1>2. ASSUME NEW now \in Stamp, OtherListRead(now)
      PROVE  ListingKeeps'
  BY <1>2 DEF OtherListRead, ListingKeeps, nodes, lister, history
<1>3. CASE ListGet
  <2>1. 0 \in Stamp
    BY PeersAssumption DEF Stamp
  <2>2. joined \subseteq Registered
    BY <2>1, JoinedUnexpired, Zenon
  <2> QED
    BY <1>3, <2>2 DEF ListGet, ListingKeeps, nodes, history
<1>4. CASE ListFromCache \/ ScanStart \/ ScanEnd \/ ScanRead \/ ListFails
  BY <1>4 DEF ListFromCache, ScanStart, ScanEnd, ScanRead, ListFails, List, ListingKeeps,
              nodes, history
<1>5. CASE ForgetScan \/ Tick
  BY <1>5 DEF ForgetScan, Tick, ListingKeeps, nodes, history
<1> QED
  BY <1>1, <1>2, <1>3, <1>4, <1>5 DEF ListStep

-----------------------------------------------------------------------------
(* The theorem *)

LEMMA PeersInitially == Init => PeersInv
<1>1. Init => joined = {} /\ steady = {} /\ proc = [n \in Node |-> "down"]
  BY DEF Init
<1> QED
  BY <1>1, TypesInitially DEF PeersInv, RegistryInv, ListingKeeps, JustSet

LEMMA PeersInductive ==
  ASSUME SkewFits, PeersInv, [Next]_vars
  PROVE  PeersInv'
<1>0. TypeOK'
  BY TypesInductive, Zenon DEF PeersInv, RegistryInv
<1>1. CASE UNCHANGED vars
  BY <1>0, <1>1 DEF vars, redis, nodes, lister, history, PeersInv, RegistryInv, JoinedLast,
                    JustSet, Slack, ListingKeeps
<1>2. CASE Tick
  BY <1>2, TickKeepsJoined, ListKeepsListing DEF PeersInv
<1>3. ASSUME NEW now \in Stamp, ListRead(now) \/ OtherListRead(now)
      PROVE  PeersInv'
  <2>1. Trim(now) /\ UNCHANGED <<left, nodes>>
    BY <1>3 DEF ListRead, OtherListRead
  <2> QED
    BY <1>0, <1>3, <2>1, TrimKeepsJoined, ListKeepsListing DEF PeersInv
<1>4. CASE ListStep
  <2>1. UNCHANGED <<left, score, proc, reg, timer, joined>>
    BY <1>4, Zenon DEF ListStep, ListGet, ListFromCache, ScanStart, ScanEnd, ScanRead, ListFails,
                       ForgetScan, redis, nodes
  <2>2. RegistryInv'
    BY <1>0, <2>1, Zenon DEF PeersInv, RegistryInv, JoinedLast, JustSet, Slack
  <2> QED
    BY <1>4, <2>2, ListKeepsListing, Zenon DEF PeersInv
<1>5. ASSUME NEW n \in Node, NodeStep(n) PROVE PeersInv'
  <2>1. joined \subseteq Node
    BY ZenonT(30) DEF PeersInv, RegistryInv, TypeOK
  <2> QED
    BY <1>5, <2>1, NodeKeepsJoined, NodeKeepsListing, Zenon DEF PeersInv
<1> QED
  BY <1>1, <1>2, <1>3, <1>4, <1>5, StepKinds

\* Only these two steps finish a list.
LEMMA Finishing ==
  ASSUME Next, Finishes
  PROVE  ListFromCache \/ ScanRead
<1>1. ASSUME NEW n \in Node, NodeStep(n) PROVE FALSE
  BY <1>1, NodeLeavesLister, Zenon DEF Finishes, lister
<1>2. ASSUME NEW now \in Stamp, ListRead(now) \/ OtherListRead(now) PROVE FALSE
  BY <1>2, Zenon DEF Finishes, ListRead, OtherListRead, lister
<1>3. ~ListGet /\ ~ScanStart /\ ~ScanEnd /\ ~ListFails /\ ~ForgetScan /\ ~Tick
  BY Zenon DEF Finishes, ListGet, ScanStart, ScanEnd, ListFails, ForgetScan, Tick
<1> QED
  BY <1>1, <1>2, <1>3, StepKinds, Zenon DEF ListStep

\* LivePeersListed for every instance: as long as a refresh interval and the
\* clock skew together are shorter than the TTL, a list never misses a node
\* whose refreshes succeed, however the listings of replicas with other clocks
\* trim the sorted set meanwhile (register_peer, list_registrations).
THEOREM LivePeersAreListed ==
  ASSUME SkewFits
  PROVE  Spec => LivePeersListed
<1>1. PeersInv /\ [Next]_vars => [Finishes => steady \subseteq listed']_vars
  <2> SUFFICES ASSUME PeersInv, Next, Finishes
               PROVE  steady \subseteq listed'
    BY DEF vars, lister, Finishes
  <2>1. ListFromCache \/ ScanRead
    BY Finishing
  <2> QED
    BY <2>1 DEF ListFromCache, ScanRead, List, PeersInv, ListingKeeps
<1> QED
  BY <1>1, PeersInitially, PeersInductive, PTL DEF Spec, LivePeersListed

-----------------------------------------------------------------------------
(* How old a list's answers are *)

Found == pc \in {"legacy", "scan", "read"}

\* An older build that was registered before the listing began has been found by what the
\* listing has done so far, and one that was registered before the cached scan began is in it.
OlderSeen(n) ==
  /\ oldFor[n] > 0 => left[n] > 0 /\ ~indexed[n]
  /\ oldFor[n] > took /\ Found /\ n \in ids => n \in found
  /\ oldFor[n] > took /\ pc = "scan" => n \in owed
  /\ oldFor[n] > took /\ pc = "read" => n \in keys
  /\ oldFor[n] > ListTime + cache.age => n \in cache.older

\* What the listing has found was there when it began, and what the cached scan has was there
\* when the scan was made.
GoneSeen(n) ==
  /\ left[n] > 0 => goneFor[n] = 0
  /\ Found /\ n \in found => goneFor[n] <= took
  /\ cache.age <= ScanAge /\ n \in cache.older => goneFor[n] <= cache.age

AgeInv == TypeOK /\ \A n \in Node : OlderSeen(n) /\ GoneSeen(n)

\* The numbers the argument counts with.
LEMMA AgeTypes ==
  ASSUME TypeOK, NEW n \in Node
  PROVE  /\ left[n] \in Nat /\ oldFor[n] \in Nat /\ goneFor[n] \in Nat
         /\ oldFor[n] <= HistoryCap /\ goneFor[n] <= HistoryCap /\ indexed[n] \in BOOLEAN
         /\ took \in Nat /\ took <= ListTime /\ cache.age \in Nat /\ cache.age <= TooOld
         /\ ListTime \in Nat /\ ScanAge \in Nat /\ ScanAge > 0
         /\ HistoryCap = ScanAge + ListTime /\ TooOld = ScanAge + 1
<1>1. /\ ListTime \in Nat /\ ScanAge \in Nat /\ ScanAge > 0 /\ PeerTtl \in Nat
      /\ HistoryCap = ScanAge + ListTime /\ TooOld = ScanAge + 1
  BY PeersAssumption DEF HistoryCap, TooOld
<1>2. /\ left[n] \in 0..PeerTtl /\ indexed[n] \in BOOLEAN
      /\ oldFor[n] \in 0..HistoryCap /\ goneFor[n] \in 0..HistoryCap
      /\ took \in 0..ListTime
  BY Zenon DEF TypeOK
<1>3. cache.age \in 0..TooOld
  BY DEF TypeOK
<1> QED
  BY <1>1, <1>2, <1>3

\* A node's step makes no history older, and keeps it in step with the key.
LEMMA NodeAges ==
  ASSUME AgeInv, NEW n \in Node, NodeStep(n), NEW m \in Node
  PROVE  /\ oldFor'[m] <= oldFor[m] /\ goneFor'[m] <= goneFor[m]
         /\ oldFor'[m] > 0 => left'[m] > 0 /\ ~indexed'[m]
         /\ left'[m] > 0 => goneFor'[m] = 0
<1>a. /\ left \in [Node -> 0..PeerTtl] /\ indexed \in [Node -> BOOLEAN]
      /\ oldFor \in [Node -> 0..HistoryCap] /\ goneFor \in [Node -> 0..HistoryCap]
  BY DEF AgeInv, TypeOK
<1>b. /\ oldFor[m] \in Nat /\ goneFor[m] \in Nat
      /\ oldFor[m] > 0 => left[m] > 0 /\ ~indexed[m]
      /\ left[m] > 0 => goneFor[m] = 0
  BY AgeTypes, Zenon DEF AgeInv, OlderSeen, GoneSeen
<1> SUFFICES \/ UNCHANGED <<left, indexed, oldFor, goneFor>>
             \/ RegisterSet(n) \/ DeregisterDel(n) \/ RegisterOlder(n)
  <2>1. CASE UNCHANGED <<left, indexed, oldFor, goneFor>>
    BY <1>b, <2>1
  <2>2. CASE RegisterSet(n)
    BY <1>a, <1>b, <2>2 DEF RegisterSet
  <2>3. CASE DeregisterDel(n)
    BY <1>a, <1>b, <2>3 DEF DeregisterDel
  <2>4. CASE RegisterOlder(n)
    BY <1>a, <1>b, <2>4, PeersAssumption DEF RegisterOlder
  <2> QED
    BY <2>1, <2>2, <2>3, <2>4, Zenon
<1>1. ASSUME \/ Boot(n) \/ RefreshDue(n) \/ BootOlder(n) \/ RegisterFails(n) \/ Crash(n)
             \/ Shutdown(n) \/ RefresherEnds(n) \/ DeregisterRem(n) \/ DeregisterFails(n)
             \/ \E now \in Stamp : RegisterAdd(n, now)
      PROVE  UNCHANGED <<left, indexed, oldFor, goneFor>>
  BY <1>1 DEF Boot, RefreshDue, BootOlder, RegisterFails, Crash, Shutdown, RefresherEnds,
              DeregisterRem, DeregisterFails, RegisterAdd, redis, history
<1> QED
  BY <1>1, Zenon DEF NodeStep

LEMMA NodeKeepsAges ==
  ASSUME AgeInv, NEW n \in Node, NodeStep(n)
  PROVE  AgeInv'
<1>1. TypeOK'
  BY NodeKeepsTypes DEF AgeInv
<1>2. UNCHANGED <<pc, ids, found, keys, owed, took, cache>>
  BY NodeLeavesLister DEF lister
<1>3. ASSUME NEW m \in Node PROVE OlderSeen(m)' /\ GoneSeen(m)'
  <2>1. /\ oldFor'[m] <= oldFor[m] /\ goneFor'[m] <= goneFor[m]
        /\ oldFor'[m] > 0 => left'[m] > 0 /\ ~indexed'[m]
        /\ left'[m] > 0 => goneFor'[m] = 0
    BY NodeAges
  <2>2. OlderSeen(m) /\ GoneSeen(m)
    BY DEF AgeInv
  <2>3. oldFor[m] \in Nat /\ goneFor[m] \in Nat /\ took \in Nat /\ cache.age \in Nat /\ ListTime \in Nat
    BY AgeTypes DEF AgeInv
  <2>4. oldFor'[m] \in Nat /\ goneFor'[m] \in Nat
    <3>1. oldFor'[m] \in 0..HistoryCap /\ goneFor'[m] \in 0..HistoryCap
      BY <1>1, Zenon DEF TypeOK
    <3> QED
      BY <3>1
  <2>5. OlderSeen(m)'
    <3>1. /\ oldFor'[m] > took => oldFor[m] > took
          /\ oldFor'[m] > ListTime + cache.age => oldFor[m] > ListTime + cache.age
      BY <2>1, <2>3, <2>4
    <3> QED
      BY <1>2, <2>1, <2>2, <3>1, Zenon DEF OlderSeen, Found
  <2>6. GoneSeen(m)'
    <3>1. /\ goneFor[m] <= took => goneFor'[m] <= took
          /\ goneFor[m] <= cache.age => goneFor'[m] <= cache.age
      BY <2>1, <2>3, <2>4
    <3> QED
      BY <1>2, <2>1, <2>2, <3>1, Zenon DEF GoneSeen, Found
  <2> QED
    BY <2>5, <2>6
<1> QED
  BY <1>1, <1>3 DEF AgeInv

\* A listing's answers are as old as the listing, and the scan it caches is new.
LEMMA ListKeepsAges ==
  ASSUME AgeInv, ListStep \/ \E now \in Stamp : ListRead(now) \/ OtherListRead(now)
  PROVE  AgeInv'
<1>1. TypeOK'
  BY ListKeepsTypes DEF AgeInv
<1>2. ASSUME NEW n \in Node PROVE OlderSeen(n)' /\ GoneSeen(n)'
  <2>a. OlderSeen(n) /\ GoneSeen(n)
    BY DEF AgeInv
  <2>b. /\ oldFor[n] \in Nat /\ goneFor[n] \in Nat /\ took \in Nat /\ cache.age \in Nat
        /\ oldFor[n] <= ScanAge + ListTime /\ took <= ListTime /\ TooOld = ScanAge + 1
        /\ ListTime \in Nat /\ ScanAge \in Nat /\ left[n] \in Nat
    BY AgeTypes DEF AgeInv
  <2>c. /\ n \in Registered <=> left[n] > 0
        /\ n \in Older <=> left[n] > 0 /\ ~indexed[n]
    BY Zenon DEF Registered, Older
  <2>d. UNCHANGED <<left, indexed, oldFor, goneFor>>
    BY Zenon DEF ListStep, ListRead, OtherListRead, ListGet, ListFromCache, ScanStart, ScanEnd,
           ScanRead, ListFails, ForgetScan, redis, history
  <2>e. (oldFor[n] > took => oldFor[n] > 0) /\ (goneFor[n] = 0 => goneFor[n] <= took)
    BY <2>b
  <2>1. ASSUME NEW now \in Stamp, ListRead(now) PROVE OlderSeen(n)' /\ GoneSeen(n)'
    BY <2>1, <2>a, <2>d, Zenon DEF ListRead, OlderSeen, GoneSeen, Found
  <2>2. ASSUME NEW now \in Stamp, OtherListRead(now) PROVE OlderSeen(n)' /\ GoneSeen(n)'
    BY <2>2, <2>a, <2>d, Zenon DEF OtherListRead, OlderSeen, GoneSeen, Found, lister
  <2>3. CASE ListGet
    BY <2>3, <2>a, <2>c, <2>d, <2>e, Zenon DEF ListGet, OlderSeen, GoneSeen, Found
  <2>4. CASE ListFromCache \/ ListFails
    BY <2>4, <2>a, <2>d, Zenon DEF ListFromCache, ListFails, List, OlderSeen, GoneSeen, Found
  <2>5. CASE ScanStart
    BY <2>5, <2>a, <2>c, <2>d, <2>e, Zenon DEF ScanStart, OlderSeen, GoneSeen, Found
  <2>6. CASE ScanEnd
    BY <2>6, <2>a, <2>d, Zenon DEF ScanEnd, OlderSeen, GoneSeen, Found
  <2>7. CASE ScanRead
    <3>1. pc' = "done" /\ cache'.age = 0 /\ cache'.older = keys \cap Older
      BY <2>7, ZenonT(30) DEF ScanRead, List
    <3> QED
      BY <2>7, <3>1, <2>a, <2>b, <2>c, <2>d DEF ScanRead, OlderSeen, GoneSeen, Found
  <2>8. CASE ForgetScan
    <3>1. cache'.age = TooOld /\ UNCHANGED <<pc, ids, found, keys, owed, took>>
      BY <2>8 DEF ForgetScan
    <3> QED
      BY <3>1, <2>a, <2>b, <2>d DEF OlderSeen, GoneSeen, Found
  <2> QED
    BY <2>1, <2>2, <2>3, <2>4, <2>5, <2>6, <2>7, <2>8 DEF ListStep
<1> QED
  BY <1>1, <1>2 DEF AgeInv

\* A tick ages a history, the listing and the cached scan alike.
LEMMA TickKeepsAges ==
  ASSUME AgeInv, Tick
  PROVE  AgeInv'
<1>1. TypeOK'
  BY TickKeepsTypes DEF AgeInv
<1>2. ASSUME NEW n \in Node PROVE OlderSeen(n)' /\ GoneSeen(n)'
  <2>a. OlderSeen(n) /\ GoneSeen(n)
    BY Zenon DEF AgeInv
  <2>b. /\ left[n] \in Nat /\ oldFor[n] \in Nat /\ goneFor[n] \in Nat
        /\ oldFor[n] <= ScanAge + ListTime /\ goneFor[n] <= ScanAge + ListTime
        /\ took \in Nat /\ cache.age \in Nat /\ cache.age <= ScanAge + 1
        /\ ListTime \in Nat /\ ScanAge \in Nat
        /\ HistoryCap = ScanAge + ListTime /\ TooOld = ScanAge + 1
    BY AgeTypes DEF AgeInv
  <2>c. /\ cache'.age = IF cache.age < ScanAge + 1 THEN cache.age + 1 ELSE ScanAge + 1
        /\ cache'.older = cache.older
    BY <2>b DEF AgeInv, TypeOK, Tick, Up
  <2>d. /\ left'[n] = IF left[n] > 0 THEN left[n] - 1 ELSE 0
        /\ oldFor'[n] = IF left'[n] > 0 /\ ~indexed[n] THEN Up(oldFor[n], HistoryCap) ELSE 0
        /\ goneFor'[n] = IF left[n] > 0 THEN 0 ELSE Up(goneFor[n], HistoryCap)
        /\ n \in owed' <=> n \in owed /\ left'[n] > 0
    BY DEF Tick, Down, AgeInv, TypeOK
  <2>e. /\ UNCHANGED <<indexed, pc, ids, found, keys>>
        /\ pc \in {"legacy", "scan", "read"} => took' = took + 1
        /\ took' \in Nat
    <3>1. /\ UNCHANGED <<indexed, pc, ids, found, keys>>
          /\ took' = IF pc \in {"idle", "done"} THEN 0 ELSE took + 1
      BY Zenon DEF Tick
    <3> QED
      BY <2>b, <3>1
  <2>f. /\ oldFor'[n] \in Nat /\ oldFor'[n] <= oldFor[n] + 1 /\ oldFor'[n] <= ScanAge + ListTime
        /\ goneFor'[n] \in Nat /\ goneFor'[n] <= goneFor[n] + 1
        /\ oldFor'[n] > 0 => left'[n] > 0 /\ ~indexed[n]
        /\ left'[n] > 0 => goneFor'[n] = 0
    <3>1. ASSUME NEW x \in Nat, x <= HistoryCap
          PROVE  Up(x, HistoryCap) \in Nat /\ Up(x, HistoryCap) <= x + 1
                 /\ Up(x, HistoryCap) <= HistoryCap
      BY <2>b, <3>1 DEF Up
    <3>2. Up(oldFor[n], HistoryCap) \in Nat /\ Up(oldFor[n], HistoryCap) <= oldFor[n] + 1
          /\ Up(oldFor[n], HistoryCap) <= ScanAge + ListTime
      BY <2>b, <3>1, Zenon
    <3>3. Up(goneFor[n], HistoryCap) \in Nat /\ Up(goneFor[n], HistoryCap) <= goneFor[n] + 1
      BY <2>b, <3>1
    <3>4. CASE oldFor'[n] = 0 /\ ~(left'[n] > 0 /\ ~indexed[n])
      BY <2>b, <2>d, <3>3, <3>4
    <3>5. CASE oldFor'[n] = Up(oldFor[n], HistoryCap) /\ left'[n] > 0 /\ ~indexed[n]
      BY <2>b, <2>d, <3>2, <3>3, <3>5
    <3> QED
      BY <2>d, <3>4, <3>5, Zenon
  <2>1. OlderSeen(n)'
    <3>1. /\ Found /\ oldFor'[n] > took' => oldFor[n] > took
          /\ oldFor'[n] > took' => oldFor'[n] > 0
          /\ oldFor'[n] > ListTime + cache'.age => oldFor[n] > ListTime + cache.age
      BY <2>b, <2>c, <2>e, <2>f DEF Found
    <3>2. Found' = Found /\ (pc = "scan" => Found) /\ (pc = "read" => Found)
      BY <2>e, ZenonT(30) DEF Found
    <3>3. cache'.older = cache.older /\ (oldFor'[n] > 0 => left'[n] > 0 /\ ~indexed[n])
          /\ (n \in owed' <=> n \in owed /\ left'[n] > 0)
      BY <2>c, <2>d, <2>f
    <3> QED
      BY <2>a, <2>e, <3>1, <3>2, <3>3, ZenonT(30) DEF OlderSeen
  <2>2. GoneSeen(n)'
    <3>1. /\ Found /\ goneFor[n] <= took => goneFor'[n] <= took'
          /\ cache'.age <= ScanAge => cache.age <= ScanAge
          /\ cache'.age <= ScanAge /\ goneFor[n] <= cache.age => goneFor'[n] <= cache'.age
      BY <2>b, <2>c, <2>e, <2>f DEF Found
    <3>2. Found' = Found
      BY <2>e, Zenon DEF Found
    <3> QED
      BY <2>a, <2>c, <2>e, <2>f, <3>1, <3>2, Zenon DEF GoneSeen
  <2> QED
    BY <2>1, <2>2
<1> QED
  BY <1>1, <1>2 DEF AgeInv

LEMMA AgesInductive ==
  ASSUME AgeInv, [Next]_vars
  PROVE  AgeInv'
<1>1. CASE UNCHANGED vars
  BY <1>1 DEF AgeInv, OlderSeen, GoneSeen, Found, TypeOK, vars, redis, nodes, lister, history
<1>2. CASE Next
  BY <1>2, StepKinds, NodeKeepsAges, ListKeepsAges, TickKeepsAges
<1> QED
  BY <1>1, <1>2

LEMMA AgesInitially == Init => AgeInv
<1> SUFFICES ASSUME Init PROVE AgeInv
  OBVIOUS
<1>1. TypeOK
  BY TypesInitially, Zenon
<1>2. ASSUME NEW n \in Node PROVE OlderSeen(n) /\ GoneSeen(n)
  BY PeersAssumption DEF Init, OlderSeen, GoneSeen, Found, TooOld
<1> QED
  BY <1>1, <1>2 DEF AgeInv

\* OlderBuildsListed for every instance: an older build that has been registered for as long
\* as a scan is cached and a listing takes is in every list.  The scan's age counts from its
\* last read, so that the listing's own time comes on top of max_age
\* (LegacyPeerScan::registrations, list_registrations).
THEOREM OlderBuildsAreListed == Spec => OlderBuildsListed
<1>1. AgeInv /\ [Next]_vars
      => [Finishes => \A n \in Node : oldFor[n] = HistoryCap => n \in listed']_vars
  <2> SUFFICES ASSUME AgeInv, Next, Finishes, NEW n \in Node, oldFor[n] = HistoryCap
               PROVE  n \in listed'
    BY DEF vars, lister, Finishes
  <2>a. OlderSeen(n)
    BY Zenon DEF AgeInv
  <2>b. /\ took \in Nat /\ took <= ListTime /\ cache.age \in Nat /\ ListTime \in Nat
        /\ ScanAge \in Nat /\ ScanAge > 0 /\ oldFor[n] = ScanAge + ListTime
    BY AgeTypes, Zenon DEF AgeInv
  <2>1. CASE ListFromCache
    BY <2>1, <2>a, <2>b DEF ListFromCache, ScanServes, List, OlderSeen, Found
  <2>2. CASE ScanRead
    <3>1. n \in Older
      BY <2>a, <2>b DEF OlderSeen, Older, Registered
    <3> QED
      BY <2>2, <2>a, <2>b, <3>1 DEF ScanRead, List, OlderSeen, Found
  <2> QED
    BY <2>1, <2>2, Finishing, Zenon
<1> QED
  BY <1>1, AgesInitially, AgesInductive, PTL DEF Spec, OlderBuildsListed

\* GoneNodesUnlisted for every instance: a replica whose key is gone leaves the lists once a
\* scan made before is too old to serve, without anybody removing it (the MGETs of
\* list_registrations, and LegacyPeerScan's max_age).
THEOREM GoneNodesAreUnlisted == Spec => GoneNodesUnlisted
<1>1. AgeInv /\ [Next]_vars
      => [Finishes => \A n \in listed' : goneFor[n] < ScanAge \/ goneFor[n] <= took]_vars
  <2> SUFFICES ASSUME AgeInv, Next, Finishes, NEW n \in listed'
               PROVE  goneFor[n] < ScanAge \/ goneFor[n] <= took
    BY DEF vars, lister, Finishes
  <2>a. ListFromCache \/ ScanRead
    BY Finishing, Zenon
  <2>b. n \in Node
    <3>1. TypeOK'
      BY <2>a, ListKeepsTypes DEF AgeInv, ListStep
    <3> QED
      BY <3>1 DEF TypeOK
  <2>c. GoneSeen(n)
    BY <2>b, Zenon DEF AgeInv
  <2>d. /\ goneFor[n] \in Nat /\ took \in Nat /\ cache.age \in Nat
        /\ ScanAge \in Nat /\ ScanAge > 0
    BY <2>b, AgeTypes, Zenon DEF AgeInv
  <2>1. CASE ListFromCache
    BY <2>1, <2>c, <2>d DEF ListFromCache, ScanServes, List, GoneSeen, Found
  <2>2. CASE ScanRead
    <3>1. n \in found \/ n \in Older
      BY <2>2 DEF ScanRead, List
    <3> QED
      BY <2>2, <2>c, <2>d, <3>1 DEF ScanRead, GoneSeen, Found, Older, Registered
  <2> QED
    BY <2>a, <2>1, <2>2
<1> QED
  BY <1>1, AgesInitially, AgesInductive, PTL DEF Spec, GoneNodesUnlisted

-----------------------------------------------------------------------------
(* The watch *)

WatchInv ==
  /\ PeersInv
  /\ watch \in {"list", "send", "sleep", "done"}
  /\ watch = "list" <=> Listing
  /\ NoFalseLeft

\* To the registry a step of the watch is a step of its own, or none.
LEMMA WatchIsRegistry == WatchNext => [Next]_vars
<1>1. WatchPolls => Next
  BY DEF WatchPolls, Next
<1>2. WatchDiffs \/ WatchFails => Next
  BY DEF WatchDiffs, WatchFails, Next
<1>3. ASSUME NEW e, WatchSends(e) PROVE UNCHANGED vars
  BY <1>3, ZenonT(30) DEF WatchSends
<1>4. WatchCloses \/ WatchKeepsList \/ Receive \/ DropStream => UNCHANGED vars
  BY DEF WatchCloses, WatchKeepsList, Receive, DropStream
<1>. QED  BY <1>1, <1>2, <1>3, <1>4 DEF WatchNext, RegistryStep

\* Only the start of a listing adds to the nodes that were joined throughout.
LEMMA SteadyShrinks ==
  ASSUME Next, Listing = Listing'
  PROVE  steady' \subseteq steady
<1>1. ~(\E now \in Stamp : ListRead(now))
  BY ZenonT(30) DEF ListRead, Listing
<1>2. ASSUME NEW n \in Node, NodeStep(n) PROVE steady' \subseteq steady
  BY <1>2 DEF NodeStep, Boot, RefreshDue, RegisterSet, RegisterFails, RegisterAdd, Crash, Shutdown, Leaves,
              RefresherEnds, DeregisterDel, DeregisterRem, DeregisterFails, BootOlder,
              RegisterOlder, history
<1>3. ASSUME NEW now \in Stamp, OtherListRead(now) PROVE steady' \subseteq steady
  BY <1>3, Zenon DEF OtherListRead, history
<1>4. ASSUME ListStep \/ Tick PROVE steady' \subseteq steady
  BY <1>4 DEF ListStep, ListGet, ListFromCache, ScanStart, ScanEnd, ScanRead, ListFails, ForgetScan, Tick,
              history
<1>. QED  BY <1>1, <1>2, <1>3, <1>4, StepKinds

LEMMA WatchInductive ==
  ASSUME SkewFits, WatchInv, [WatchNext]_<<vars, watchVars>>
  PROVE  WatchInv'
<1>1. PeersInv'
  <2>1. [Next]_vars
    BY WatchIsRegistry, Zenon
  <2>. QED  BY <2>1, PeersInductive DEF WatchInv
<1>2. CASE UNCHANGED <<vars, watchVars>>
  BY <1>1, <1>2 DEF WatchInv, vars, watchVars, task, lister, history, Listing, NoFalseLeft
<1>3. CASE RegistryStep
  <2>1. steady' \subseteq steady
    BY <1>3, SteadyShrinks DEF RegistryStep
  <2>2. Listing = Listing' /\ UNCHANGED <<watch, leaves>>
    BY <1>3, Zenon DEF RegistryStep, watchVars, task
  <2>. QED  BY <1>1, <2>1, <2>2 DEF WatchInv, NoFalseLeft
<1>4. CASE WatchPolls
  BY <1>1, <1>4 DEF WatchInv, WatchPolls, ListRead, Listing, NoFalseLeft
<1>5. CASE WatchDiffs
  <2>1. pc' = "done" /\ steady \subseteq listed' /\ steady' = steady
    BY <1>5 DEF WatchDiffs, ListFromCache, ScanRead, List, WatchInv, PeersInv, ListingKeeps, history
  <2>. QED  BY <1>1, <1>5, <2>1, Zenon DEF WatchInv, WatchDiffs, Listing, NoFalseLeft
<1>6. CASE WatchFails
  BY <1>1, <1>6, Zenon DEF WatchInv, WatchFails, ListFails, Listing, NoFalseLeft
<1>7. ASSUME NEW e, WatchSends(e) PROVE WatchInv'
  <2>1. UNCHANGED <<pc, steady>>
    BY <1>7 DEF WatchSends, vars, lister, history
  <2>. QED  BY <1>1, <1>7, <2>1 DEF WatchInv, WatchSends, WatchEnds, Listing, NoFalseLeft
<1>8. CASE WatchCloses \/ WatchKeepsList
  <2>1. UNCHANGED <<pc, steady>>
    BY <1>8, Zenon DEF WatchCloses, WatchKeepsList, vars, lister, history
  <2>. QED
    BY <1>1, <1>8, <2>1 DEF WatchInv, WatchCloses, WatchKeepsList, WatchEnds, Listing, NoFalseLeft
<1>9. CASE Receive \/ DropStream
  BY <1>1, <1>9 DEF WatchInv, Receive, DropStream, vars, task, lister, history, Listing, NoFalseLeft
<1>. QED  BY <1>2, <1>3, <1>4, <1>5, <1>6, <1>7, <1>8, <1>9 DEF WatchNext

\* As long as a refresh interval and the clock skew together are shorter than the TTL, the
\* watch never reports that a node left which has been up and refreshing since the poll
\* began (watch_peers, list_registrations).
THEOREM WatchNoFalseLeft ==
  ASSUME SkewFits
  PROVE  WatchSpec => []NoFalseLeft
<1>1. WatchInit => WatchInv
  BY PeersInitially DEF WatchInit, Init, WatchInv, Listing, NoFalseLeft
<1>2. WatchInv /\ [WatchNext]_<<vars, watchVars>> => WatchInv'
  BY WatchInductive
<1>3. WatchInv => NoFalseLeft
  BY DEF WatchInv
<1>. QED  BY <1>1, <1>2, <1>3, PTL DEF WatchSpec

\* A watched registry is a registry.
LEMMA WatchedRegistry == WatchSpec => Spec
<1>1. WatchInit => Init
  BY DEF WatchInit
<1>2. [WatchNext]_<<vars, watchVars>> => [Next]_vars
  BY WatchIsRegistry
<1>. QED  BY <1>1, <1>2, PTL DEF WatchSpec, Spec

\* Watched or not, no list misses a node whose refreshes succeed.
THEOREM WatchedPeersAreListed ==
  ASSUME SkewFits
  PROVE  WatchSpec => LivePeersListed
BY WatchedRegistry, LivePeersAreListed

\* The lists the watch compares are as current as any: they have the older builds and not the
\* nodes that are gone.
THEOREM WatchedListsAreCurrent == WatchSpec => OlderBuildsListed /\ GoneNodesUnlisted
BY WatchedRegistry, OlderBuildsAreListed, GoneNodesAreUnlisted

-----------------------------------------------------------------------------
(* What the reader is told *)

\* A queue has a length, above zero unless it is empty.
LEMMA QueueLen ==
  ASSUME NEW S, NEW s \in Seq(S)
  PROVE  Len(s) \in Nat /\ (s # <<>> => Len(s) > 0 /\ Head(s) = s[1])
OBVIOUS

\* What the channel's receiver takes is its first, and the others move up.
LEMMA QueueTail ==
  ASSUME NEW S, NEW s \in Seq(S), s # <<>>
  PROVE  /\ Head(s) \in S /\ Tail(s) \in Seq(S) /\ Len(Tail(s)) = Len(s) - 1
         /\ \A i \in 1..(Len(s) - 1) : Tail(s)[i] = s[i + 1]
OBVIOUS

\* What its sender adds is its last, and the others stay.
LEMMA QueueAppend ==
  ASSUME NEW S, NEW s \in Seq(S), NEW e \in S
  PROVE  /\ Append(s, e) \in Seq(S) /\ Len(Append(s, e)) = Len(s) + 1
         /\ Append(s, e)[Len(s) + 1] = e
         /\ \A i \in 1..Len(s) : Append(s, e)[i] = s[i]
OBVIOUS

\* The places before, of and after a queue's elements.
LEMMA Places ==
  ASSUME NEW len \in Nat
  PROVE  /\ 0 \in 0..len /\ len \in 0..len /\ (len + 1) - 1 = len
         /\ \A i \in 1..len : i - 1 \in 0..len /\ i \in 0..len
         /\ \A i \in 1..(len + 1) : i \in 1..len \/ i = len + 1
OBVIOUS

LEMMA PlacesBelow ==
  ASSUME NEW len \in Nat, len > 0
  PROVE  /\ 0 \in 0..(len - 1) /\ 0 + 1 = 1 /\ 1 \in 1..len /\ 1 - 1 = 0
         /\ len - 1 \in 0..(len - 1) /\ (len - 1) + 1 = len
         /\ \A i \in 1..(len - 1) : /\ i \in 0..(len - 1) /\ i - 1 \in 0..(len - 1)
                                   /\ i + 1 \in 1..len /\ (i - 1) + 1 = i /\ (i + 1) - 1 = i
OBVIOUS

Events == [kind : {"joined", "left"}, node : Node]

\* The nodes a reader knows once it has heard an event.
Hears(S, e) == IF e.kind = "joined" THEN S \cup {e.node} ELSE S \ {e.node}

\* The nodes the events sent so far speak of.
Told == IF watch = "send" THEN (listed \ joins) \cup leaves ELSE last

\* h[i] is what the reader will know after the i-th event of the channel: each of them is
\* news to the reader, and the last one brings what the task has told so far.
Views(h) ==
  /\ h \in [0..Len(chan) -> SUBSET Node]
  /\ h[0] = view /\ h[Len(chan)] = Told
  /\ \A i \in 1..Len(chan) :
       /\ chan[i].kind = "left" <=> chan[i].node \in h[i - 1]
       /\ h[i] = Hears(h[i - 1], chan[i])

WatchShape ==
  /\ WatchTypeOK
  /\ watch = "list" <=> Listing
  /\ watch = "send" => joins \subseteq listed /\ leaves \cap listed = {}
  /\ rx = "open" => watch # "done"

TurnInv == WatchShape /\ (rx = "open" => \E h : Views(h))

\* A step of the registry that neither starts nor ends a listing leaves the list alone.
LEMMA ListedStays ==
  ASSUME RegistryStep
  PROVE  listed' = listed
<1>1. ~ListFromCache /\ ~ScanRead
  BY DEF RegistryStep, ListFromCache, ScanRead, List, Listing
<1>2. ASSUME NEW n \in Node, NodeStep(n) PROVE listed' = listed
  BY <1>2, NodeLeavesLister DEF lister
<1>3. ASSUME NEW now \in Stamp, ListRead(now) \/ OtherListRead(now) PROVE listed' = listed
  BY <1>3, Zenon DEF ListRead, OtherListRead, lister
<1>4. ASSUME ListStep PROVE listed' = listed
  BY <1>1, <1>4 DEF ListStep, ListGet, ScanStart, ScanEnd, ListFails, ForgetScan
<1>5. ASSUME Tick PROVE listed' = listed
  BY <1>5 DEF Tick
<1> QED
  BY <1>2, <1>3, <1>4, <1>5, StepKinds, Zenon DEF RegistryStep

\* An event that is due is a node's that joined, or once all of those are sent, that left.
LEMMA DueEvents ==
  ASSUME WatchShape, watch = "send", NEW e \in Due
  PROVE  /\ e \in Events
         /\ e.kind = "joined" => e.node \in joins
         /\ e.kind = "left" => e.node \in leaves
<1>0. joins \subseteq Node /\ leaves \subseteq Node
  BY DEF WatchShape, WatchTypeOK
<1>1. ASSUME NEW n \in joins, e = Event("joined", n)
      PROVE  e \in Events /\ e.kind = "joined" /\ e.node \in joins
  BY <1>0, <1>1 DEF Event, Events
<1>2. ASSUME NEW n \in leaves, e = Event("left", n)
      PROVE  e \in Events /\ e.kind = "left" /\ e.node \in leaves
  BY <1>0, <1>2 DEF Event, Events
<1>3. (\E n \in joins : e = Event("joined", n)) \/ (\E n \in leaves : e = Event("left", n))
  BY DEF Due
<1> QED
  BY <1>1, <1>2, <1>3

LEMMA ShapeInductive ==
  ASSUME WatchShape, [WatchNext]_<<vars, watchVars>>
  PROVE  WatchShape'
<1>a. TypeOK'
  <2>1. [Next]_vars
    BY WatchIsRegistry
  <2> QED
    BY <2>1, TypesInductive DEF WatchShape, WatchTypeOK
<1>b. chan \in Seq(Events) /\ Len(chan) \in Nat
  BY QueueLen, Zenon DEF WatchShape, WatchTypeOK, Events
<1>1. CASE UNCHANGED <<vars, watchVars>>
  BY <1>a, <1>1, Zenon DEF WatchShape, WatchTypeOK, vars, lister, watchVars, task, Listing
<1>2. CASE RegistryStep
  <2>1. UNCHANGED <<watch, last, joins, leaves, chan, rx, view, listed>> /\ Listing = Listing'
    BY <1>2, ListedStays, Zenon DEF RegistryStep, watchVars, task
  <2> QED
    BY <1>a, <2>1 DEF WatchShape, WatchTypeOK
<1>3. CASE WatchPolls
  BY <1>a, <1>3 DEF WatchShape, WatchTypeOK, WatchPolls, ListRead, Listing
<1>4. CASE WatchDiffs
  <2>1. pc' = "done" /\ listed' \subseteq Node
    BY <1>a, <1>4, Zenon DEF WatchDiffs, ListFromCache, ScanRead, List, TypeOK
  <2> QED
    BY <1>a, <1>4, <2>1, Zenon DEF WatchShape, WatchTypeOK, WatchDiffs, Listing
<1>5. CASE WatchFails
  BY <1>a, <1>5 DEF WatchShape, WatchTypeOK, WatchFails, ListFails, Listing
<1>6. ASSUME NEW e \in Due, WatchSends(e) PROVE WatchShape'
  <2>a. UNCHANGED <<pc, listed>>
    BY <1>6, Zenon DEF WatchSends, vars, lister
  <2>1. CASE rx = "dropped" /\ WatchEnds
    BY <1>a, <1>6, <2>1, <2>a, Zenon DEF WatchShape, WatchTypeOK, WatchSends, WatchEnds, Listing
  <2>2. CASE rx = "open"
    <3>1. e \in Events
      BY <1>6, DueEvents DEF WatchSends
    <3>2. chan' = Append(chan, e) /\ Len(chan) < Buffer
      BY <1>6, <2>2 DEF WatchSends
    <3>3. chan' \in Seq(Events) /\ Len(chan') = Len(chan) + 1
      BY <1>b, <3>1, <3>2, QueueAppend
    <3>4. Len(chan') <= Buffer
      BY <1>b, <3>2, <3>3, WatchAssumption
    <3>5. /\ joins' \subseteq joins /\ leaves' \subseteq leaves
          /\ UNCHANGED <<watch, last, rx, view>>
      BY <1>6, <2>2, Zenon DEF WatchSends
    <3> QED
      BY <1>a, <2>a, <3>3, <3>4, <3>5, Zenon DEF WatchShape, WatchTypeOK, Listing, Events
  <2> QED
    BY <1>6, <2>1, <2>2, Zenon DEF WatchSends
<1>7. CASE WatchCloses
  <2>1. UNCHANGED <<pc, listed>>
    BY <1>7 DEF WatchCloses, vars, lister
  <2> QED
    BY <1>a, <1>7, <2>1 DEF WatchShape, WatchTypeOK, WatchCloses, WatchEnds, Listing
<1>8. CASE WatchKeepsList
  <2>1. UNCHANGED <<pc, listed>> /\ listed \subseteq Node
    BY <1>8, Zenon DEF WatchKeepsList, vars, lister, WatchShape, WatchTypeOK, TypeOK
  <2> QED
    BY <1>a, <1>8, <2>1, Zenon DEF WatchShape, WatchTypeOK, WatchKeepsList, Listing
<1>9. CASE Receive
  <2>1. Head(chan) \in Events /\ Tail(chan) \in Seq(Events) /\ Len(Tail(chan)) = Len(chan) - 1
    BY <1>b, <1>9, QueueTail DEF Receive
  <2>2. view' \subseteq view \cup {Head(chan).node} /\ Head(chan).node \in Node
    BY <1>9, <2>1, Zenon DEF Receive, Events
  <2>3. Len(chan') <= Buffer /\ chan' \in Seq(Events)
    <3>1. Len(chan) <= Buffer /\ chan' = Tail(chan)
      BY <1>9, Zenon DEF Receive, WatchShape, WatchTypeOK
    <3> QED
      BY <1>b, <2>1, <3>1, WatchAssumption
  <2>4. UNCHANGED <<pc, listed, watch, last, joins, leaves, rx>>
    BY <1>9, Zenon DEF Receive, vars, lister, task
  <2> QED
    BY <1>a, <2>2, <2>3, <2>4, Zenon DEF WatchShape, WatchTypeOK, Listing, Events
<1>10. CASE DropStream
  <2>1. UNCHANGED <<pc, listed, watch, last, joins, leaves>> /\ rx' = "dropped" /\ view' = {}
    BY <1>10 DEF DropStream, vars, lister, task
  <2>2. chan' \in Seq(Events) /\ Len(chan') <= Buffer
    BY <1>10, WatchAssumption DEF DropStream
  <2> QED
    BY <1>a, <2>1, <2>2, Zenon DEF WatchShape, WatchTypeOK, Listing, Events
<1> QED
  BY <1>1, <1>2, <1>3, <1>4, <1>5, <1>6, <1>7, <1>8, <1>9, <1>10, Zenon DEF WatchNext

\* As long as the channel, the reader and what was told stay, so does what will be known.
LEMMA ViewsStay ==
  ASSUME NEW h, Views(h), UNCHANGED <<chan, view>>, Told' = Told
  PROVE  Views(h)'
BY DEF Views

\* Comparing a list with the one before tells nothing yet.
LEMMA DiffTellsNothing ==
  ASSUME WatchDiffs
  PROVE  Told' = Told
<1>1. /\ watch = "list" /\ watch' = "send" /\ last' = last
      /\ joins' = listed' \ last /\ leaves' = last \ listed'
  BY DEF WatchDiffs
<1>2. Told = last /\ Told' = (listed' \ joins') \cup leaves'
  BY <1>1 DEF Told
<1>3. (listed' \ joins') \cup leaves' = last
  BY <1>1
<1> QED
  BY <1>2, <1>3

\* Sending an event tells the reader something new, and only that.
LEMMA SendTells ==
  ASSUME WatchShape, NEW e \in Due, WatchSends(e), rx = "open"
  PROVE  Told' = Hears(Told, e) /\ (e.kind = "left" <=> e.node \in Told)
<1>1. /\ watch = "send" /\ watch' = "send" /\ listed' = listed
      /\ joins' = joins \ {e.node} /\ leaves' = leaves \ {e.node}
  BY DEF WatchSends, vars, lister
<1>2. joins \subseteq listed /\ leaves \cap listed = {}
  BY <1>1 DEF WatchShape
<1>3. e \in Events /\ (e.kind = "joined" => e.node \in joins) /\ (e.kind = "left" => e.node \in leaves)
  BY <1>1, DueEvents
<1>4. e.kind \in {"joined", "left"}
  BY <1>3 DEF Events
<1>5. Told = (listed \ joins) \cup leaves /\ Told' = (listed \ joins') \cup leaves'
  BY <1>1, Zenon DEF Told
<1>6. CASE e.kind = "joined"
  BY <1>1, <1>2, <1>3, <1>5, <1>6, Zenon DEF Hears
<1>7. CASE e.kind = "left"
  BY <1>1, <1>2, <1>3, <1>5, <1>7 DEF Hears
<1> QED
  BY <1>4, <1>6, <1>7, Zenon

\* An event at the end of the channel is heard after all the others.
LEMMA SendKeepsViews ==
  ASSUME WatchShape, WatchShape', NEW e \in Due, WatchSends(e), rx = "open", NEW h, Views(h)
  PROVE  \E g : Views(g)'
<1> DEFINE len == Len(chan)
<1>0. chan \in Seq(Events) /\ len \in Nat
  BY QueueLen DEF WatchShape, WatchTypeOK, Events
<1>1. /\ chan' = Append(chan, e) /\ view' = view /\ watch = "send" /\ watch' = "send"
  BY DEF WatchSends
<1>2. e \in Events
  BY <1>1, DueEvents, Zenon
<1>3. Len(chan') = len + 1 /\ chan'[len + 1] = e /\ \A i \in 1..len : chan'[i] = chan[i]
  BY <1>0, <1>1, <1>2, QueueAppend
<1>4. Told' = Hears(Told, e) /\ (e.kind = "left" <=> e.node \in Told)
  BY SendTells, Zenon
<1>5. Told' \subseteq Node
  BY <1>1, Zenon DEF Told, WatchShape, WatchTypeOK, TypeOK
<1>6. /\ h \in [0..len -> SUBSET Node] /\ h[0] = view /\ h[len] = Told
      /\ \A i \in 1..len : /\ chan[i].kind = "left" <=> chan[i].node \in h[i - 1]
                           /\ h[i] = Hears(h[i - 1], chan[i])
  BY Zenon DEF Views
<1> HIDE DEF len
<1>7. PICK g : /\ g \in [0..(len + 1) -> SUBSET Node] /\ g[len + 1] = Told'
               /\ \A i \in 0..len : g[i] = h[i]
  <2> DEFINE f == [i \in 0..(len + 1) |-> IF i = len + 1 THEN Told' ELSE h[i]]
  <2>1. len \in Nat /\ h \in [0..len -> SUBSET Node]
    BY <1>0, <1>6, Zenon
  <2>2. /\ f \in [0..(len + 1) -> SUBSET Node] /\ f[len + 1] = Told'
        /\ \A i \in 0..len : f[i] = h[i]
    BY <1>5, <2>1
  <2> HIDE DEF f
  <2> QED
    BY <2>2, Zenon
<1>8. g[0] = view'
  BY <1>0, <1>1, <1>6, <1>7, Places, Zenon
<1>9. ASSUME NEW i \in 1..(len + 1)
      PROVE  /\ chan'[i].kind = "left" <=> chan'[i].node \in g[i - 1]
             /\ g[i] = Hears(g[i - 1], chan'[i])
  <2>1. CASE i \in 1..len
    <3>1. i - 1 \in 0..len /\ i \in 0..len
      BY <1>0, <2>1, Places, ZenonT(30)
    <3> QED
      BY <1>3, <1>6, <1>7, <2>1, <3>1
  <2>2. CASE i = len + 1
    <3>1. i - 1 = len /\ len \in 0..len
      BY <1>0, <2>2, Places, Zenon
    <3> QED
      BY <1>3, <1>4, <1>6, <1>7, <2>2, <3>1
  <2> QED
    BY <1>0, <2>1, <2>2, Places, ZenonT(30)
<1>10. Views(g)'
  BY <1>3, <1>7, <1>8, <1>9, Zenon DEF Views
<1> QED
  BY <1>10, Zenon

\* What the reader hears is the first of what it will know.
LEMMA ReceiveKeepsViews ==
  ASSUME WatchShape, Receive, NEW h, Views(h)
  PROVE  /\ Head(chan).kind = "left" <=> Head(chan).node \in view
         /\ \E g : Views(g)'
<1> DEFINE len == Len(chan)
<1>0. chan \in Seq(Events) /\ len \in Nat /\ len > 0 /\ Head(chan) = chan[1] /\ chan' = Tail(chan)
  BY QueueLen DEF WatchShape, WatchTypeOK, Events, Receive
<1>1. Len(chan') = len - 1 /\ \A i \in 1..(len - 1) : chan'[i] = chan[i + 1]
  BY <1>0, QueueTail, QueueLen, ZenonT(30) DEF Receive
<1>2. Told' = Told
  BY DEF Receive, Told, vars, lister, task
<1>3. view' = Hears(view, Head(chan))
  BY Zenon DEF Receive, Hears
<1>4. /\ h \in [0..len -> SUBSET Node] /\ h[0] = view /\ h[len] = Told
      /\ \A i \in 1..len : /\ chan[i].kind = "left" <=> chan[i].node \in h[i - 1]
                           /\ h[i] = Hears(h[i - 1], chan[i])
  BY Zenon DEF Views
<1> HIDE DEF len
<1>5. 1 \in 1..len /\ 1 - 1 = 0
  BY <1>0
<1>6. (chan[1].kind = "left" <=> chan[1].node \in view) /\ h[1] = view'
  BY <1>0, <1>3, <1>4, <1>5
<1>7. PICK g : g \in [0..(len - 1) -> SUBSET Node] /\ \A i \in 0..(len - 1) : g[i] = h[i + 1]
  <2> DEFINE f == [i \in 0..(len - 1) |-> h[i + 1]]
  <2>1. len \in Nat /\ h \in [0..len -> SUBSET Node]
    BY <1>0, <1>4, Zenon
  <2>2. f \in [0..(len - 1) -> SUBSET Node] /\ \A i \in 0..(len - 1) : f[i] = h[i + 1]
    BY <2>1
  <2> HIDE DEF f
  <2> QED
    BY <2>2, Zenon
<1>8. g[0] = view' /\ g[len - 1] = Told'
  <2>1. /\ 0 \in 0..(len - 1) /\ 0 + 1 = 1
        /\ len - 1 \in 0..(len - 1) /\ (len - 1) + 1 = len
    BY <1>0, PlacesBelow, Zenon
  <2> QED
    BY <1>2, <1>4, <1>6, <1>7, <2>1, Zenon
<1>9. ASSUME NEW i \in 1..(len - 1)
      PROVE  /\ chan'[i].kind = "left" <=> chan'[i].node \in g[i - 1]
             /\ g[i] = Hears(g[i - 1], chan'[i])
  <2>1. i \in 0..(len - 1) /\ i - 1 \in 0..(len - 1) /\ i + 1 \in 1..len
        /\ (i - 1) + 1 = i /\ (i + 1) - 1 = i
    BY <1>0, PlacesBelow, Zenon
  <2>2. g[i] = h[i + 1] /\ g[i - 1] = h[i] /\ chan'[i] = chan[i + 1]
    BY <1>1, <1>7, <2>1, Zenon
  <2> QED
    BY <1>4, <2>1, <2>2, Zenon
<1>10. Views(g)'
  BY <1>1, <1>7, <1>8, <1>9, Zenon DEF Views
<1> QED
  BY <1>0, <1>6, <1>10, ZenonT(30)

LEMMA TurnsInductive ==
  ASSUME TurnInv, [WatchNext]_<<vars, watchVars>>
  PROVE  TurnInv'
<1>a. WatchShape /\ WatchShape'
  BY ShapeInductive DEF TurnInv
<1> SUFFICES ASSUME rx' = "open" PROVE \E g : Views(g)'
  BY <1>a, Zenon DEF TurnInv
<1>b. rx = "open"
  <2>1. ASSUME NEW e, WatchSends(e) PROVE rx' = rx
    BY <2>1 DEF WatchSends, WatchEnds
  <2>2. ~DropStream
    BY DEF DropStream
  <2> QED
    BY <2>1, <2>2, Zenon DEF WatchNext, RegistryStep, WatchCloses, WatchEnds, WatchPolls, WatchDiffs,
                      WatchFails, WatchKeepsList, Receive, watchVars
<1> PICK h : Views(h)
  BY <1>b DEF TurnInv
<1>1. CASE UNCHANGED <<vars, watchVars>>
  <2>1. Told' = Told
    BY <1>1 DEF Told, vars, lister, watchVars, task
  <2> QED
    BY <1>1, <2>1, ViewsStay, Zenon DEF watchVars
<1>2. CASE RegistryStep
  <2>1. Told' = Told
    BY <1>2, ListedStays, Zenon DEF Told, RegistryStep, watchVars, task
  <2> QED
    BY <1>2, <2>1, ViewsStay, Zenon DEF RegistryStep, watchVars
<1>3. CASE WatchPolls \/ WatchFails
  <2>1. Told' = Told
    BY <1>3, Zenon DEF Told, WatchPolls, WatchFails
  <2> QED
    BY <1>3, <2>1, ViewsStay, Zenon DEF WatchPolls, WatchFails
<1>4. CASE WatchDiffs
  BY <1>4, DiffTellsNothing, ViewsStay DEF WatchDiffs
<1>5. ASSUME NEW e \in Due, WatchSends(e) PROVE \E g : Views(g)'
  BY <1>5, <1>a, <1>b, SendKeepsViews, Zenon
<1>6. CASE WatchKeepsList
  <2>1. joins = {} /\ leaves = {}
    <3>1. ASSUME NEW n \in joins PROVE FALSE
      BY <1>6, <3>1, Zenon DEF WatchKeepsList, Due
    <3>2. ASSUME joins = {}, NEW n \in leaves PROVE FALSE
      BY <1>6, <3>2 DEF WatchKeepsList, Due
    <3> QED
      BY <3>1, <3>2
  <2>2. watch = "send" /\ watch' = "sleep" /\ last' = listed
    BY <1>6 DEF WatchKeepsList
  <2>3. Told' = Told
    BY <2>1, <2>2 DEF Told
  <2> QED
    BY <1>6, <2>3, ViewsStay DEF WatchKeepsList
<1>7. CASE Receive
  BY <1>7, <1>a, ReceiveKeepsViews
<1>8. ~WatchCloses /\ ~DropStream
  BY <1>b DEF WatchCloses, DropStream
<1> QED
  BY <1>1, <1>2, <1>3, <1>4, <1>5, <1>6, <1>7, <1>8 DEF WatchNext

LEMMA TurnsInitially == WatchInit => TurnInv
<1> SUFFICES ASSUME WatchInit PROVE TurnInv
  OBVIOUS
<1>1. WatchShape
  BY TypesInitially, WatchAssumption, PeersAssumption DEF WatchInit, Init, WatchShape, WatchTypeOK, Listing
<1>2. Views([i \in 0..0 |-> {}])
  <2>1. chan = <<>> /\ Len(chan) = 0 /\ view = {} /\ Told = {}
    BY DEF WatchInit, Told
  <2> QED
    BY <2>1 DEF Views
<1> QED
  BY <1>1, <1>2, ZenonT(30) DEF TurnInv

\* A queue without its head is neither the queue nor a longer one.
LEMMA TailIsShorter ==
  ASSUME NEW S, NEW s \in Seq(S), s # <<>>
  PROVE  Tail(s) # s /\ \A e \in S : Tail(s) # Append(s, e)
<1>1. Len(s) \in Nat /\ Len(Tail(s)) = Len(s) - 1
  BY QueueTail, QueueLen
<1>2. \A e \in S : Len(Append(s, e)) = Len(s) + 1
  BY QueueAppend
<1>3. \A n \in Nat : n - 1 # n /\ n - 1 # n + 1
  OBVIOUS
<1>4. ASSUME NEW t, Len(Tail(s)) # Len(t) PROVE Tail(s) # t
  BY <1>4, Zenon
<1>5. Len(Tail(s)) # Len(s) /\ \A e \in S : Len(Tail(s)) # Len(Append(s, e))
  BY <1>1, <1>2, <1>3, Zenon
<1> QED
  BY <1>4, <1>5, Zenon

\* The watch's task and channel stay in their types, and the channel within its buffer
\* (watch_peers, whose send waits for room).
THEOREM WatchTypes == WatchSpec => []WatchTypeOK
<1>1. TurnInv => WatchTypeOK
  BY Zenon DEF TurnInv, WatchShape
<1> QED
  BY <1>1, TurnsInitially, TurnsInductive, PTL DEF WatchSpec

\* ReaderCatchesUp for every instance: no join and no leave is lost on the way to the reader,
\* whatever polls fail and however slowly it reads (watch_peers' `last', and its send).
THEOREM ReadersCatchUp == WatchSpec => []ReaderCatchesUp
<1>1. TurnInv => ReaderCatchesUp
  <2> SUFFICES ASSUME TurnInv, rx = "open", chan = <<>>, watch # "send"
               PROVE  view = last
    BY DEF ReaderCatchesUp
  <2>1. PICK h : Views(h)
    BY DEF TurnInv
  <2>2. Len(chan) = 0
    OBVIOUS
  <2> QED
    BY <2>1, <2>2 DEF Views, Told
<1> QED
  BY <1>1, TurnsInitially, TurnsInductive, PTL DEF WatchSpec

\* EventsAlternate for every instance: a reader is never told Joined of a node it knows, nor
\* Left of one it does not (watch_peers' comparison with `last').
THEOREM WatchEventsAlternate == WatchSpec => EventsAlternate
<1>1. TurnInv /\ [WatchNext]_<<vars, watchVars>>
      => [chan # <<>> /\ chan' = Tail(chan) /\ rx' = "open"
            => (Head(chan).kind = "left" <=> Head(chan).node \in view)]_<<vars, watchVars>>
  <2> SUFFICES ASSUME TurnInv, WatchNext, chan # <<>>, chan' = Tail(chan), rx' = "open"
               PROVE  Head(chan).kind = "left" <=> Head(chan).node \in view
    OBVIOUS
  <2>1. chan \in Seq(Events)
    BY DEF TurnInv, WatchShape, WatchTypeOK, Events
  <2>2. chan' # chan
    BY <2>1, TailIsShorter
  <2>3. ASSUME NEW e \in Due, WatchSends(e) PROVE FALSE
    <3>1. watch = "send" /\ (chan' = chan \/ chan' = Append(chan, e))
      BY <2>3 DEF WatchSends, WatchEnds
    <3>2. e \in Events
      BY <2>3, <3>1, DueEvents, Zenon DEF TurnInv
    <3> QED
      BY <2>1, <3>1, <3>2, TailIsShorter, Zenon
  <2>4. Receive
    BY <2>2, <2>3, Zenon DEF WatchNext, RegistryStep, WatchCloses, WatchEnds, WatchPolls, WatchDiffs,
                      WatchFails, WatchKeepsList, DropStream, watchVars
  <2>5. PICK h : Views(h)
    BY <2>4 DEF TurnInv, Receive
  <2> QED
    BY <2>4, <2>5, ReceiveKeepsViews, Zenon DEF TurnInv
<1> QED
  BY <1>1, TurnsInitially, TurnsInductive, PTL DEF WatchSpec, EventsAlternate

=============================================================================
