---------------------------- MODULE LeaseProofs ----------------------------
(***************************************************************************)
(* Proofs about Lease, for every set of nodes, names and handles, every    *)
(* TTL and renewal percentage.  Safety holds with or without faults and    *)
(* punctuality; that a lease is kept takes commands that do not fail and   *)
(* renewals that are on time (Smooth).                                     *)
(***************************************************************************)
EXTENDS Lease, TLAPS

-----------------------------------------------------------------------------
(* Type correctness *)

\* The renewal task's sleep (the sleep_for expression) is a positive number of ticks.
LEMMA SleepForType == SleepFor \in Nat \ {0}
<1>1. 100 - ClampedPct \in Nat
  BY LeaseAssumption, SMT DEF ClampedPct
<1>2. TTL * (100 - ClampedPct) \in Nat
  BY <1>1, LeaseAssumption, SMT
<1>3. (TTL * (100 - ClampedPct)) \div 100 \in Nat
  <2> DEFINE p == TTL * (100 - ClampedPct)
  <2>1. p \in Nat
    BY <1>2
  <2> HIDE DEF p
  <2>2. p \div 100 \in Nat
    BY <2>1, SMT
  <2> QED
    BY <2>2 DEF p
<1> QED
  BY <1>3 DEF SleepFor

\* A lease key one tick older is still a lease key (PX expiry).
LEMMA AgeType ==
  ASSUME NEW l \in [holder : Node \cup {Nobody}, ttl : 0..TTL]
  PROVE  /\ Age(l) \in [holder : Node \cup {Nobody}, ttl : 0..TTL]
         /\ Age(l).holder \in {l.holder, Nobody}
<1>1. CASE l.ttl = 0
  BY <1>1 DEF Age
<1>2. CASE l.ttl = 1
  BY <1>2, LeaseAssumption DEF Age, NoLease
<1>3. CASE l.ttl \notin {0, 1}
  <2>1. Age(l) = [l EXCEPT !.ttl = @ - 1]
    BY <1>3 DEF Age
  <2>2. l.ttl \in 0..TTL /\ l.ttl - 1 \in 0..TTL
    BY <1>3, LeaseAssumption
  <2> QED
    BY <2>1, <2>2
<1> QED
  BY <1>1, <1>2, <1>3

\* A renewal's round trip leaves the lease keys well typed and moves no lease
\* to another holder (renew_script).
LEMMA RenewTripLease ==
  ASSUME TypeOK, NEW h \in Handle, NEW o \in Outcomes, RenewTrip(h, o)
  PROVE  /\ lease' \in [Name -> [holder : Node \cup {Nobody}, ttl : 0..TTL]]
         /\ \A nm \in Name : lease'[nm].holder = lease[nm].holder
<1>1. CASE UNCHANGED lease
  BY <1>1 DEF TypeOK
<1>2. CASE RenewScript(h)
  <2>1. TTL \in 0..TTL
    BY LeaseAssumption
  <2>2. lease \in [Name -> [holder : Node \cup {Nobody}, ttl : 0..TTL]]
    BY Zenon DEF TypeOK
  <2> QED
    BY <1>2, <2>1, <2>2, ZenonT(30) DEF RenewScript
<1> QED
  BY <1>1, <1>2 DEF RenewTrip

\* Every state has the types of the Redis keys and of LeaseState.
THEOREM TypeCorrect == Spec => []TypeOK
<1>1. Init => TypeOK
  BY LeaseAssumption, SleepForType
  DEF Init, TypeOK, NoLease, NoGrant, TaskState, CallerState, Ended, Outcomes
<1>2. TypeOK /\ [Next]_vars => TypeOK'
  <2> SUFFICES ASSUME TypeOK, [Next]_vars PROVE TypeOK'
    OBVIOUS
  <2> USE DEF TypeOK
  <2>1. ASSUME NEW n \in Node, NEW nm \in Name, StartAcquire(n, nm) \/ PollFails(n, nm)
        PROVE  TypeOK'
    BY <2>1 DEF StartAcquire, PollFails, redis
  <2>2. ASSUME NEW n \in Node, NEW nm \in Name, NEW h \in Handle,
               TryAcquire(n, nm, h) \/ PollAcquire(n, nm, h)
        PROVE  TypeOK'
    <3>1. NextFence(nm) \in Nat
      BY DEF NextFence
    <3>2. LeaseValue(n) \in [holder : Node \cup {Nobody}, ttl : 0..TTL]
      BY LeaseAssumption DEF LeaseValue
    <3>3. waiting' \in [Name -> SUBSET Node]
      BY <2>2 DEF TryAcquire, PollAcquire
    <3>4. AcquireScript(n, nm, h)
      BY <2>2 DEF TryAcquire, PollAcquire
    <3> QED
      BY <3>1, <3>2, <3>3, <3>4 DEF AcquireScript, TaskState
  <2>3. ASSUME NEW h \in Handle, AcquireReturn(h) \/ AcquireLost(h)
        PROVE  TypeOK'
    <3>1. TTL \in 0..TTL /\ SleepFor \in 0..SleepFor
      BY LeaseAssumption, SleepForType
    <3>2. CASE AcquireReturn(h)
      BY <3>1, <3>2 DEF AcquireReturn, redis, TaskState
    <3>3. CASE AcquireLost(h)
      BY <3>3 DEF AcquireLost, redis, TaskState, Ended
    <3> QED
      BY <2>3, <3>2, <3>3
  <2>4. ASSUME NEW h \in Handle, TaskWake(h) \/ TaskCancelled(h)
        PROVE  TypeOK'
    BY <2>4 DEF TaskWake, TaskCancelled, redis, TaskState, Ended
  <2>5. ASSUME NEW h \in Handle, TaskSend(h) PROVE TypeOK'
    BY <2>5, RenewTripLease DEF TaskSend, TaskState
  <2>6. ASSUME NEW h \in Handle, CallSend(h) PROVE TypeOK'
    BY <2>6, RenewTripLease DEF CallSend, CallerState
  <2>7. ASSUME NEW h \in Handle, TaskReturn(h) \/ CallReturn(h) PROVE TypeOK'
    <3>1. TTL \in 0..TTL /\ SleepFor \in 0..SleepFor
      BY LeaseAssumption, SleepForType
    <3>2. CASE TaskReturn(h)
      BY <3>1, <3>2 DEF TaskReturn, ApplyRenew, redis, TaskState, Ended
    <3>3. CASE CallReturn(h)
      BY <3>1, <3>3 DEF CallReturn, ApplyRenew, redis, CallerState
    <3> QED
      BY <2>7, <3>2, <3>3
  <2>8. ASSUME NEW h \in Handle, CallRenew(h) \/ CallRelease(h) \/ CallDrop(h)
        PROVE  TypeOK'
    BY <2>8, Zenon DEF CallRenew, CallRelease, CallDrop, redis, CallerState
  <2>9. ASSUME NEW h \in Handle, ReleaseSend(h) PROVE TypeOK'
    <3>1. NoLease \in [holder : Node \cup {Nobody}, ttl : 0..TTL]
      BY LeaseAssumption DEF NoLease
    <3> QED
      BY <2>9, <3>1, Zenon DEF ReleaseSend, ReleaseScript, CallerState
  <2>10. ASSUME NEW n \in Node, Crash(n) PROVE TypeOK'
    BY <2>10 DEF Crash, redis, TaskState, CallerState, Ended
  <2>11. CASE Tick
    <3>1. \A k \in 0..TTL : Minus1(k) \in 0..TTL
      BY LeaseAssumption DEF Minus1
    <3>2. \A k \in 0..SleepFor : Minus1(k) \in 0..SleepFor
      BY SleepForType DEF Minus1
    <3>3. \A nm \in Name : Age(lease[nm]) \in [holder : Node \cup {Nobody}, ttl : 0..TTL]
      BY AgeType
    <3> QED
      BY <2>11, <3>1, <3>2, <3>3 DEF Tick
  <2>12. CASE UNCHANGED vars
    BY <2>12 DEF vars
  <2> QED
    BY <2>1, <2>2, <2>3, <2>4, <2>5, <2>6, <2>7, <2>8, <2>9, <2>10, <2>11, <2>12, Zenon DEF Next
<1> QED
  BY <1>1, <1>2, PTL DEF Spec

-----------------------------------------------------------------------------
(* Fencing *)

\* The ledger of acquisitions: tokens are below the counter and distinct, the
\* newest belongs to the node it was granted to, and the lease key, when it
\* exists, names that node.
Ledger ==
  /\ \A h \in Handle : ~Fresh(h) => TokenOf(h) <= fence[NameOf(h)]
  /\ FenceTokensUnique
  /\ \A h \in Handle :
       ~Fresh(h) /\ TokenOf(h) = fence[NameOf(h)] => NodeOf(h) = granted[NameOf(h)]
  /\ \A nm \in Name : lease[nm].holder \in {Nobody, granted[nm]}

\* A step that issues no token and gives no lease to a new holder.
QuietStep ==
  /\ UNCHANGED <<fence, granted, grant>>
  /\ \A nm \in Name : lease'[nm].holder \in {lease[nm].holder, Nobody}
  /\ lease' \in [Name -> [holder : Node \cup {Nobody}, ttl : 0..TTL]]

\* Only the acquire script writes the ledger; expiry, renewals and releases at
\* most remove a holder.
LEMMA StepsOfLease ==
  ASSUME TypeOK, [Next]_vars
  PROVE  \/ QuietStep
         \/ \E n \in Node, nm \in Name, h \in Handle : AcquireScript(n, nm, h)
<1> USE DEF QuietStep, TypeOK
<1>1. ASSUME NEW n \in Node, NEW nm \in Name, StartAcquire(n, nm) \/ PollFails(n, nm)
      PROVE  QuietStep
  BY <1>1 DEF StartAcquire, PollFails, redis
<1>2. ASSUME NEW n \in Node, NEW nm \in Name, NEW h \in Handle,
             TryAcquire(n, nm, h) \/ PollAcquire(n, nm, h)
      PROVE  AcquireScript(n, nm, h)
  BY <1>2 DEF TryAcquire, PollAcquire
<1>3. ASSUME NEW h \in Handle,
             \/ AcquireReturn(h) \/ AcquireLost(h) \/ TaskWake(h) \/ TaskReturn(h)
             \/ TaskCancelled(h) \/ CallRenew(h) \/ CallReturn(h) \/ CallRelease(h)
             \/ CallDrop(h)
      PROVE  QuietStep
  BY <1>3 DEF AcquireReturn, AcquireLost, TaskWake, TaskReturn, TaskCancelled,
              CallRenew, CallReturn, CallRelease, CallDrop, redis
<1>4. ASSUME NEW h \in Handle, TaskSend(h) \/ CallSend(h) PROVE QuietStep
  BY <1>4, RenewTripLease DEF TaskSend, CallSend
<1>5. ASSUME NEW h \in Handle, ReleaseSend(h) PROVE QuietStep
  <2>1. NoLease \in [holder : Node \cup {Nobody}, ttl : 0..TTL] /\ NoLease.holder = Nobody
    BY LeaseAssumption DEF NoLease
  <2> QED
    BY <1>5, <2>1, ZenonT(30) DEF ReleaseSend, ReleaseScript
<1>6. ASSUME NEW n \in Node, Crash(n) PROVE QuietStep
  BY <1>6 DEF Crash, redis
<1>7. CASE Tick
  BY <1>7, AgeType DEF Tick
<1>8. CASE UNCHANGED vars
  BY <1>8 DEF vars
<1> QED
  BY <1>1, <1>2, <1>3, <1>4, <1>5, <1>6, <1>7, <1>8 DEF Next

\* What the acquire script does to the ledger: the new handle carries a token
\* above every token issued before it.
LEMMA AcquireKeepsLedger ==
  ASSUME TypeOK, Ledger,
         NEW n \in Node, NEW nm \in Name, NEW h \in Handle, AcquireScript(n, nm, h)
  PROVE  Ledger'
<1> DEFINE new == [node |-> n, name |-> nm, token |-> fence[nm] + 1]
<1>1. /\ grant' = [grant EXCEPT ![h] = new]
      /\ fence' = [fence EXCEPT ![nm] = fence[nm] + 1]
      /\ granted' = [granted EXCEPT ![nm] = n]
      /\ lease' = [lease EXCEPT ![nm] = LeaseValue(n)]
  BY DEF AcquireScript, NextFence
<1>2. fence[nm] \in Nat /\ \A g \in Handle : ~Fresh(g) => TokenOf(g) \in Nat /\ NameOf(g) \in Name
  BY DEF TypeOK, Fresh, TokenOf, NameOf
<1>3. \A g \in Handle \ {h} : grant'[g] = grant[g]
  BY <1>1 DEF TypeOK
<1>4. grant'[h] = new
  BY <1>1 DEF TypeOK
<1>5. fence'[nm] = fence[nm] + 1 /\ \A m \in Name \ {nm} : fence'[m] = fence[m]
  BY <1>1 DEF TypeOK
<1>6. granted'[nm] = n /\ \A m \in Name \ {nm} : granted'[m] = granted[m]
  BY <1>1 DEF TypeOK
<1>7. (\A g \in Handle : ~Fresh(g) => TokenOf(g) <= fence[NameOf(g)])'
  BY <1>2, <1>3, <1>4, <1>5 DEF Ledger, Fresh, TokenOf, NameOf
<1>8. FenceTokensUnique'
  BY <1>2, <1>3, <1>4 DEF Ledger, FenceTokensUnique, Fresh, TokenOf, NameOf
<1>9. (\A g \in Handle :
         ~Fresh(g) /\ TokenOf(g) = fence[NameOf(g)] => NodeOf(g) = granted[NameOf(g)])'
  BY <1>2, <1>3, <1>4, <1>5, <1>6 DEF Ledger, Fresh, TokenOf, NameOf, NodeOf
<1>10. (\A m \in Name : lease[m].holder \in {Nobody, granted[m]})'
  BY <1>1, <1>6 DEF Ledger, TypeOK, LeaseValue
<1> QED
  BY <1>7, <1>8, <1>9, <1>10 DEF Ledger

\* The ledger is an invariant.
THEOREM LedgerInvariant == Spec => []Ledger
<1>1. Init => Ledger
  BY DEF Init, Ledger, FenceTokensUnique, Fresh, NoLease
<1>2. TypeOK /\ Ledger /\ [Next]_vars => Ledger'
  <2> SUFFICES ASSUME TypeOK, Ledger, [Next]_vars PROVE Ledger'
    OBVIOUS
  <2>1. CASE QuietStep
    BY <2>1 DEF QuietStep, Ledger, FenceTokensUnique, Fresh, TokenOf, NameOf, NodeOf
  <2> QED
    BY <2>1, StepsOfLease, AcquireKeepsLedger
<1> QED
  BY <1>1, <1>2, TypeCorrect, PTL DEF Spec

\* No two acquisitions of a name carry the same token (acquire_script).
THEOREM TokensUnique == Spec => []FenceTokensUnique
<1>1. Ledger => FenceTokensUnique
  BY DEF Ledger
<1> QED
  BY <1>1, LedgerInvariant, PTL

\* While a node holds a name, the handles of all other nodes carry older
\* tokens (acquire, renew and release scripts).
THEOREM StaleNodesAreFenced == Spec => []OtherNodesTokensAreOld
<1>1. TypeOK /\ Ledger => OtherNodesTokensAreOld
  <2> SUFFICES ASSUME TypeOK, Ledger, NEW h \in Handle, ~Fresh(h),
                      lease[NameOf(h)].holder \notin {Nobody, NodeOf(h)}
               PROVE  TokenOf(h) < fence[NameOf(h)]
    BY DEF OtherNodesTokensAreOld
  <2>1. NameOf(h) \in Name /\ TokenOf(h) \in Nat /\ fence[NameOf(h)] \in Nat
    BY DEF TypeOK, Fresh, NameOf, TokenOf
  <2>2. TokenOf(h) # fence[NameOf(h)]
    BY <2>1 DEF Ledger
  <2> QED
    BY <2>1, <2>2 DEF Ledger
<1> QED
  BY <1>1, LedgerInvariant, TypeCorrect, PTL

-----------------------------------------------------------------------------
(* Refinement *)

\* The Redis keys, the scripts and the renewal tasks implement the abstract
\* lease service: an acquisition is a Grant, a release or an expiry a Vacate,
\* every other step a stutter.
THEOREM LeaseImplementsService == Spec => ImplementsService
<1> DEFINE holders == [nm \in Name |-> lease[nm].holder]
<1>1. Init => Service!Init
  BY DEF Init, Service!Init, NoLease
<1>2. TypeOK /\ [Next]_vars => [Service!Next]_(Service!vars)
  <2> SUFFICES ASSUME TypeOK, [Next]_vars PROVE Service!Next
    OBVIOUS
  <2>1. CASE QuietStep
    <3> DEFINE S == {nm \in Name : lease'[nm].holder = Nobody}
    <3>1. holders' = [nm \in Name |-> IF nm \in S THEN Nobody ELSE holders[nm]]
      BY <2>1 DEF QuietStep
    <3>2. Service!Vacate(S)
      BY <2>1, <3>1 DEF QuietStep, Service!Vacate
    <3>3. S \in SUBSET Name
      OBVIOUS
    <3>4. \E T \in SUBSET Name : Service!Vacate(T)
      BY <3>2, <3>3, Zenon DEF Service!Vacate
    <3> QED
      BY <3>4 DEF Service!Next
  <2>2. ASSUME NEW n \in Node, NEW nm \in Name, NEW h \in Handle, AcquireScript(n, nm, h)
        PROVE  Service!Next
    <3>1. holders[nm] = Nobody
      BY <2>2 DEF AcquireScript, Vacant
    <3>2. holders' = [holders EXCEPT ![nm] = n]
      BY <2>2, Zenon DEF AcquireScript, LeaseValue, TypeOK
    <3>3. fence' = [fence EXCEPT ![nm] = fence[nm] + 1]
      BY <2>2 DEF AcquireScript, NextFence
    <3>4. Service!Grant(n, nm)
      BY <3>1, <3>2, <3>3 DEF Service!Grant
    <3> QED
      BY <3>4 DEF Service!Next
  <2> QED
    BY <2>1, <2>2, StepsOfLease
<1> QED
  BY <1>1, <1>2, TypeCorrect, PTL DEF Spec, ImplementsService, Service!Spec

-----------------------------------------------------------------------------
(* A renewed lease is kept *)

\* The renewal task runs and has nothing to stop it.
Keeps(h) == ~Fresh(h) /\ task[h] \notin Ended /\ ~released[h]

\* The handle's key is in Redis: the task keeps it, or the release script that
\* will delete it is on its way.
Owns(h) == Keeps(h) \/ caller[h] = "del"

\* How the fields of a handle hang together when no command fails.
HandleOK(h) ==
  /\ Fresh(h) => task[h] = "none" /\ ~released[h] /\ ~host[h]
  /\ task[h] # "error"
  /\ task[h] = "refused" => released[h]
  /\ host[h] /\ ~released[h] => task[h] \notin Ended
  /\ caller[h] \in {"idle", "call", "ok", "del"}
  /\ caller[h] # "idle" => host[h] /\ (released[h] <=> caller[h] = "del")
  /\ abort[h] => released[h]

\* The key outlasts the task's sleep and the handle's expires_at; no time passes
\* between a script that set its time to live and the reply.
Timely(h) ==
  /\ left[h] <= lease[NameOf(h)].ttl
  /\ timer[h] < lease[NameOf(h)].ttl
  /\ task[h] \in {"new", "ok"} \/ caller[h] = "ok" => lease[NameOf(h)].ttl = TTL

KeepInv ==
  /\ \A h \in Handle : HandleOK(h)
  /\ \A h \in Handle : Owns(h) => HolderMatches(h)
  /\ \A h \in Handle : Keeps(h) => Timely(h)
  /\ \A g, h \in Handle : Owns(g) /\ Owns(h) /\ NameOf(g) = NameOf(h) => g = h

\* No command fails, renewals are punctual, and a tick is shorter than the TTL.
Smooth == "error" \notin Faults /\ Punctual /\ TTL > 1

\* The task wakes before the key expires, whatever the percentage (the clamp of
\* renew_before_expiry_percent to 1..99).
LEMMA SleepForBelow ==
  ASSUME TTL > 1
  PROVE  SleepFor < TTL
<1> DEFINE q == 100 - ClampedPct
           p == TTL * q
<1>1. q \in 1..99
  BY LeaseAssumption DEF ClampedPct
<1> HIDE DEF q
<1>2. p \in Nat /\ p <= 99 * TTL
  BY <1>1, LeaseAssumption
<1> HIDE DEF p
<1>3. p \div 100 < TTL
  BY <1>2, LeaseAssumption
<1> QED
  BY <1>3 DEF SleepFor, p, q

\* A handle's fields, other than those of h, stay.
Beside(h) ==
  /\ grant' = grant
  /\ \A g \in Handle \ {h} :
       /\ task'[g] = task[g] /\ caller'[g] = caller[g] /\ released'[g] = released[g]
       /\ left'[g] = left[g] /\ host'[g] = host[g] /\ abort'[g] = abort[g]
       /\ timer'[g] = timer[g]

\* What a step of one handle may do to the keys of the others.
KeysStand(h) ==
  \A g \in Handle \ {h} :
    Owns(g) => /\ HolderMatches(g)'
               /\ lease'[NameOf(g)].ttl \in {lease[NameOf(g)].ttl, TTL}

\* A step of one handle is judged by that handle.
LEMMA OneHandle ==
  ASSUME TypeOK, KeepInv, Smooth, NEW h \in Handle, Beside(h), KeysStand(h),
         HandleOK(h)', Owns(h)' => Owns(h) /\ HolderMatches(h)',
         Keeps(h)' => Timely(h)'
  PROVE  KeepInv'
<1>1. ASSUME NEW g \in Handle, g # h
      PROVE  /\ HandleOK(g)' /\ Owns(g)' = Owns(g) /\ Keeps(g)' = Keeps(g)
             /\ NameOf(g)' = NameOf(g)
  BY <1>1 DEF KeepInv, Beside, HandleOK, Owns, Keeps, Fresh, NameOf
<1>2. NameOf(h)' = NameOf(h)
  BY DEF Beside, NameOf
<1>3. ASSUME NEW g \in Handle, g # h, Keeps(g)
      PROVE  Timely(g)'
  <2>1. Timely(g) /\ Owns(g)
    BY <1>3, Zenon DEF KeepInv, Owns
  <2>2. /\ left'[g] = left[g] /\ timer'[g] = timer[g] /\ task'[g] = task[g]
        /\ caller'[g] = caller[g] /\ NameOf(g)' = NameOf(g)
    BY <1>3 DEF Beside, NameOf
  <2>3. left[g] \in 0..TTL /\ timer[g] \in 0..SleepFor
    BY Zenon DEF TypeOK
  <2>4. CASE lease'[NameOf(g)].ttl = TTL
    BY <2>2, <2>3, <2>4, SleepForBelow, SleepForType, LeaseAssumption DEF Timely, Smooth
  <2>5. CASE lease'[NameOf(g)].ttl = lease[NameOf(g)].ttl
    BY <2>1, <2>2, <2>5 DEF Timely
  <2> QED
    BY <1>3, <2>1, <2>4, <2>5, Zenon DEF KeysStand
<1>4. ASSUME NEW g \in Handle, Owns(g)' PROVE HolderMatches(g)'
  BY <1>1, <1>4 DEF KeysStand
<1>5. ASSUME NEW f \in Handle, NEW g \in Handle, Owns(f)', Owns(g)', NameOf(f)' = NameOf(g)'
      PROVE  f = g
  BY <1>1, <1>2, <1>5 DEF KeepInv
<1> QED
  BY <1>1, <1>3, <1>4, <1>5, ZenonT(30) DEF KeepInv

\* A step that leaves the lease keys alone stands in nobody's way.
LEMMA KeysUntouched ==
  ASSUME KeepInv, NEW h \in Handle, UNCHANGED <<lease, grant>>
  PROVE  KeysStand(h)
BY DEF KeepInv, KeysStand, HolderMatches, NodeOf, NameOf

\* KeepInv is about these variables alone.
LEMMA UntouchedKeeps ==
  ASSUME KeepInv, UNCHANGED <<lease, grant, released, left, host, abort, timer, task, caller>>
  PROVE  KeepInv'
BY Zenon DEF KeepInv, HandleOK, Owns, Keeps, Fresh, HolderMatches, Timely, NameOf, NodeOf

\* renew_script finds the holder of a handle that owns its key, and only
\* lengthens a key's time to live.
LEMMA TripStands ==
  ASSUME TypeOK, KeepInv, Smooth, NEW h \in Handle, NEW o \in Outcomes, RenewTrip(h, o),
         UNCHANGED grant
  PROVE  /\ KeysStand(h)
         /\ o \in {"ok", "refused"}
         /\ HolderMatches(h)' <=> HolderMatches(h)
         /\ Owns(h) => o = "ok" /\ lease'[NameOf(h)].ttl = TTL
         /\ o = "refused" => lease' = lease
<1>1. RenewScript(h) /\ o = IF HolderMatches(h) THEN "ok" ELSE "refused"
  BY DEF RenewTrip, Smooth
<1>2. \A nm \in Name : lease'[nm].holder = lease[nm].holder
  BY RenewTripLease
<1>3. ASSUME NEW g \in Handle, Owns(g)
      PROVE  NameOf(g) \in Name /\ HolderMatches(g)
  BY <1>3, Zenon DEF KeepInv, TypeOK, Owns, Keeps, HandleOK, Fresh, NameOf
<1>4. ASSUME NEW g \in Handle, Owns(g)
      PROVE  /\ HolderMatches(g)'
             /\ lease'[NameOf(g)].ttl \in {lease[NameOf(g)].ttl, TTL}
  <2>1. HolderMatches(g)'
    BY <1>2, <1>3, <1>4 DEF HolderMatches, NodeOf, NameOf
  <2>2. lease'[NameOf(g)].ttl \in {lease[NameOf(g)].ttl, TTL}
    BY <1>1, <1>3, <1>4 DEF RenewScript, TypeOK
  <2> QED
    BY <2>1, <2>2
<1>5. Owns(h) => lease'[NameOf(h)].ttl = TTL
  BY <1>1, <1>3 DEF RenewScript, TypeOK
<1>6. HolderMatches(h)' <=> HolderMatches(h)
  <2>1. CASE NameOf(h) \in Name
    BY <1>2, <2>1 DEF HolderMatches, NodeOf, NameOf
  <2>2. CASE NameOf(h) \notin Name
    BY <1>1, <2>2 DEF RenewScript, HolderMatches, NodeOf, NameOf, TypeOK
  <2> QED
    BY <2>1, <2>2
<1> QED
  BY <1>1, <1>3, <1>4, <1>5, <1>6 DEF KeysStand, RenewScript

\* The renewal task's own steps keep the lease: it never finds its holder gone,
\* and its timer is set to less than the TTL it has just written.
LEMMA TaskKeeps ==
  ASSUME TypeOK, KeepInv, Smooth, NEW h \in Handle,
         \/ AcquireReturn(h) \/ AcquireLost(h)
         \/ TaskWake(h) \/ TaskSend(h) \/ TaskReturn(h) \/ TaskCancelled(h)
  PROVE  KeepInv'
<1>a. HandleOK(h) /\ (Owns(h) => HolderMatches(h)) /\ (Keeps(h) => Timely(h))
  BY DEF KeepInv
<1>b. TTL \in Nat /\ SleepFor \in Nat /\ SleepFor < TTL
  BY LeaseAssumption, SleepForType, SleepForBelow DEF Smooth
<1>c. left[h] \in 0..TTL /\ timer[h] \in 0..SleepFor
  BY DEF TypeOK
<1>1. CASE AcquireReturn(h)
  <2>1. Beside(h) /\ KeysStand(h)
    BY <1>1, KeysUntouched, Zenon DEF AcquireReturn, Beside, TypeOK, redis
  <2>2. HandleOK(h)' /\ (Owns(h)' => Owns(h) /\ HolderMatches(h)')
    BY <1>a, <1>1, Zenon DEF AcquireReturn, HandleOK, Owns, Keeps, Fresh, HolderMatches, NodeOf, NameOf,
                      TypeOK, redis, Ended
  <2>3. Keeps(h)' => Timely(h)'
    BY <1>a, <1>b, <1>1 DEF AcquireReturn, Timely, Keeps, Fresh, NameOf, TypeOK, redis, Ended
  <2> QED
    BY <2>1, <2>2, <2>3, OneHandle
<1>2. CASE AcquireLost(h)
  BY <1>2, Zenon DEF AcquireLost, Smooth
<1>3. CASE TaskWake(h)
  <2>1. Beside(h) /\ KeysStand(h)
    BY <1>3, KeysUntouched, Zenon DEF TaskWake, Beside, TypeOK, redis
  <2>2. HandleOK(h)' /\ (Owns(h)' => Owns(h) /\ HolderMatches(h)')
    BY <1>a, <1>3, Zenon DEF TaskWake, HandleOK, Owns, Keeps, Fresh, HolderMatches, NodeOf, NameOf,
                      TypeOK, redis, Ended
  <2>3. Keeps(h)' => Timely(h)'
    BY <1>a, <1>3, Zenon DEF TaskWake, Timely, Keeps, Fresh, NameOf, TypeOK, redis, Ended
  <2> QED
    BY <2>1, <2>2, <2>3, OneHandle
<1>4. CASE TaskSend(h)
  <2>1. PICK o \in Outcomes : RenewTrip(h, o) /\ task' = [task EXCEPT ![h] = o]
    BY <1>4, Zenon DEF TaskSend
  <2>2. /\ KeysStand(h) /\ o \in {"ok", "refused"}
        /\ HolderMatches(h)' <=> HolderMatches(h)
        /\ Owns(h) => o = "ok" /\ lease'[NameOf(h)].ttl = TTL
    BY <1>4, <2>1, TripStands DEF TaskSend
  <2>3. /\ Beside(h) /\ task'[h] = o /\ task[h] = "call"
        /\ UNCHANGED <<grant, caller, released, left, host, abort, timer>>
    BY <1>4, <2>1 DEF TaskSend, Beside, TypeOK
  <2>4. ~Fresh(h) /\ ~Fresh(h)'
    BY <1>a, <2>3 DEF HandleOK, Fresh
  <2>5. HandleOK(h)' /\ (Owns(h)' => Owns(h) /\ HolderMatches(h)')
    BY <1>a, <2>2, <2>3, <2>4, Zenon DEF HandleOK, Owns, Keeps, Ended
  <2>6. Keeps(h)' => Timely(h)'
    <3>1. Keeps(h)' => lease'[NameOf(h)'].ttl = TTL
      BY <2>2, <2>3, <2>4, Zenon DEF Owns, Keeps, NameOf, Ended
    <3>2. left[h] <= TTL /\ timer[h] < TTL
      BY <1>b, <1>c
    <3> QED
      BY <2>3, <3>1, <3>2, Zenon DEF Timely
  <2> QED
    BY <2>2, <2>3, <2>5, <2>6, OneHandle, Zenon
<1>5. CASE TaskReturn(h)
  <2>1. Beside(h) /\ KeysStand(h)
    BY <1>5, KeysUntouched, Zenon DEF TaskReturn, ApplyRenew, Beside, TypeOK, redis
  <2>2. HandleOK(h)' /\ (Owns(h)' => Owns(h) /\ HolderMatches(h)')
    BY <1>a, <1>5, Zenon DEF TaskReturn, ApplyRenew, HandleOK, Owns, Keeps, Fresh, HolderMatches, NodeOf,
                      NameOf, TypeOK, redis, Ended, Outcomes
  <2>3. Keeps(h)' => Timely(h)'
    BY <1>a, <1>b, <1>5 DEF TaskReturn, ApplyRenew, Timely, Keeps, Fresh, NameOf, TypeOK, redis,
                            Ended, Outcomes
  <2> QED
    BY <2>1, <2>2, <2>3, OneHandle
<1>6. CASE TaskCancelled(h)
  <2>1. Beside(h) /\ KeysStand(h)
    BY <1>6, KeysUntouched, ZenonT(30) DEF TaskCancelled, Beside, TypeOK, redis
  <2>2. HandleOK(h)' /\ (Owns(h)' => Owns(h) /\ HolderMatches(h)') /\ ~Keeps(h)'
    BY <1>a, <1>6 DEF TaskCancelled, HandleOK, Owns, Keeps, Fresh, HolderMatches, NodeOf, NameOf,
                      TypeOK, redis, Ended, Outcomes
  <2> QED
    BY <2>1, <2>2, OneHandle, Zenon
<1> QED
  BY <1>1, <1>2, <1>3, <1>4, <1>5, <1>6

\* The caller's steps: only the release script takes a key away, and it is the
\* key of the handle that is released.
LEMMA CallerKeeps ==
  ASSUME TypeOK, KeepInv, Smooth, NEW h \in Handle,
         \/ CallRenew(h) \/ CallSend(h) \/ CallReturn(h)
         \/ CallRelease(h) \/ ReleaseSend(h) \/ CallDrop(h)
  PROVE  KeepInv'
<1>a. HandleOK(h) /\ (Owns(h) => HolderMatches(h)) /\ (Keeps(h) => Timely(h))
  BY DEF KeepInv
<1>b. TTL \in Nat /\ SleepFor \in Nat /\ SleepFor < TTL
  BY LeaseAssumption, SleepForType, SleepForBelow DEF Smooth
<1>c. left[h] \in 0..TTL /\ timer[h] \in 0..SleepFor
  BY DEF TypeOK
<1>1. CASE CallRenew(h) \/ CallDrop(h)
  <2>1. Beside(h) /\ KeysStand(h)
    BY <1>1, KeysUntouched, Zenon DEF CallRenew, CallDrop, Beside, TypeOK, redis
  <2>2. HandleOK(h)' /\ (Owns(h)' => Owns(h) /\ HolderMatches(h)')
    BY <1>a, <1>1, Zenon DEF CallRenew, CallDrop, HandleOK, Owns, Keeps, Fresh, HolderMatches, NodeOf,
                      NameOf, TypeOK, redis
  <2>3. Keeps(h)' => Timely(h)'
    BY <1>a, <1>1, Zenon DEF CallRenew, CallDrop, Timely, Keeps, Fresh, NameOf, TypeOK, redis
  <2> QED
    BY <2>1, <2>2, <2>3, OneHandle, Zenon
<1>2. CASE CallSend(h)
  <2>1. PICK o \in Outcomes : RenewTrip(h, o) /\ caller' = [caller EXCEPT ![h] = o]
    BY <1>2, Zenon DEF CallSend
  <2>2. /\ KeysStand(h)
        /\ HolderMatches(h)' <=> HolderMatches(h)
        /\ Owns(h) => o = "ok" /\ lease'[NameOf(h)].ttl = TTL
    BY <1>2, <2>1, TripStands DEF CallSend
  <2>3. /\ Beside(h) /\ caller'[h] = o /\ caller[h] = "call"
        /\ UNCHANGED <<grant, task, released, left, host, abort, timer>>
    BY <1>2, <2>1, Zenon DEF CallSend, Beside, TypeOK
  <2>4. Keeps(h) /\ Owns(h)
    BY <1>a, <2>3 DEF HandleOK, Keeps, Owns
  <2>5. HandleOK(h)' /\ (Owns(h)' => Owns(h) /\ HolderMatches(h)')
    BY <1>a, <2>2, <2>3, <2>4, Zenon DEF HandleOK, Owns, Keeps, Fresh
  <2>6. Keeps(h)' => Timely(h)'
    <3>1. lease'[NameOf(h)'].ttl = TTL
      BY <2>2, <2>3, <2>4, Zenon DEF NameOf
    <3>2. left[h] <= TTL /\ timer[h] < TTL
      BY <1>b, <1>c
    <3> QED
      BY <2>3, <3>1, <3>2, Zenon DEF Timely
  <2> QED
    BY <2>2, <2>3, <2>5, <2>6, OneHandle, Zenon
<1>3. CASE CallReturn(h)
  <2>1. Beside(h) /\ KeysStand(h)
    BY <1>3, KeysUntouched, Zenon DEF CallReturn, ApplyRenew, Beside, TypeOK, redis
  <2>2. HandleOK(h)' /\ (Owns(h)' => Owns(h) /\ HolderMatches(h)')
    BY <1>a, <1>3, ZenonT(30) DEF CallReturn, ApplyRenew, HandleOK, Owns, Keeps, Fresh, HolderMatches, NodeOf,
                      NameOf, TypeOK, redis, Outcomes
  <2>3. Keeps(h)' => Timely(h)'
    BY <1>a, <1>b, <1>3 DEF CallReturn, ApplyRenew, HandleOK, Timely, Keeps, Fresh, NameOf, TypeOK,
                            redis, Outcomes
  <2> QED
    BY <2>1, <2>2, <2>3, OneHandle
<1>4. CASE CallRelease(h)
  <2>1. Beside(h) /\ KeysStand(h)
    BY <1>4, KeysUntouched, Zenon DEF CallRelease, Beside, TypeOK, redis
  <2>2. /\ HandleOK(h)' /\ ~Keeps(h)' /\ Keeps(h) /\ Owns(h)
        /\ HolderMatches(h)'
    BY <1>a, <1>4, Zenon DEF CallRelease, HandleOK, Owns, Keeps, Fresh, HolderMatches, NodeOf, NameOf,
                      TypeOK, redis
  <2> QED
    BY <2>1, <2>2, OneHandle, Zenon
<1>5. CASE ReleaseSend(h)
  <2>1. Beside(h)
    BY <1>5, Zenon DEF ReleaseSend, Beside, TypeOK
  <2>2. Owns(h) /\ ~Owns(h)' /\ ~Keeps(h)' /\ HandleOK(h)'
    BY <1>a, <1>5 DEF ReleaseSend, HandleOK, Owns, Keeps, Fresh, TypeOK
  <2>3. lease' = [lease EXCEPT ![NameOf(h)] = NoLease]
    BY <1>a, <1>5, <2>2, ZenonT(30) DEF ReleaseSend, ReleaseScript, Smooth
  <2>4. ASSUME NEW g \in Handle, g # h, Owns(g)
        PROVE  /\ HolderMatches(g)'
               /\ lease'[NameOf(g)].ttl \in {lease[NameOf(g)].ttl, TTL}
    <3>1. HolderMatches(g) /\ NameOf(g) # NameOf(h)
      BY <2>2, <2>4 DEF KeepInv
    <3>2. lease'[NameOf(g)] = lease[NameOf(g)]
      BY <2>3, <3>1 DEF TypeOK
    <3>3. NameOf(g)' = NameOf(g) /\ NodeOf(g)' = NodeOf(g)
      BY <2>1 DEF Beside, NameOf, NodeOf
    <3> QED
      BY <3>1, <3>2, <3>3 DEF HolderMatches
  <2> QED
    BY <2>1, <2>2, <2>4, OneHandle, Zenon DEF KeysStand
<1> QED
  BY <1>1, <1>2, <1>3, <1>4, <1>5

\* A new acquisition finds the key absent, so that nobody owned it.
LEMMA AcquireKeeps ==
  ASSUME TypeOK, KeepInv, Smooth,
         NEW n \in Node, NEW nm \in Name, NEW h \in Handle, AcquireScript(n, nm, h)
  PROVE  KeepInv'
<1>1. /\ lease' = [lease EXCEPT ![nm] = LeaseValue(n)] /\ lease[nm].holder = Nobody
      /\ UNCHANGED <<released, left, host, abort, timer, caller>>
  BY Zenon DEF AcquireScript, Vacant
<1>2. /\ grant'[h].node = n /\ grant'[h].name = nm /\ ~Fresh(h)' /\ Fresh(h)
      /\ \A g \in Handle \ {h} : grant'[g] = grant[g] /\ task'[g] = task[g]
      /\ task'[h] = "new"
  BY LeaseAssumption, ZenonT(30) DEF AcquireScript, Fresh, NoGrant, TypeOK
<1>3. HandleOK(h)' /\ ~Owns(h)
  BY <1>1, <1>2 DEF KeepInv, HandleOK, Owns, Keeps, Ended
<1>4. lease'[nm].holder = n /\ lease'[nm].ttl = TTL
  BY <1>1, ZenonT(30) DEF LeaseValue, TypeOK
<1>5. HolderMatches(h)' /\ Timely(h)'
  <2>1. left[h] \in 0..TTL /\ timer[h] \in 0..SleepFor /\ TTL \in Nat
    BY LeaseAssumption, ZenonT(30) DEF TypeOK
  <2> QED
    BY <1>1, <1>2, <1>4, <2>1, SleepForBelow, SleepForType
    DEF HolderMatches, Timely, NameOf, NodeOf, Smooth
<1>6. ASSUME NEW g \in Handle, g # h
      PROVE  /\ HandleOK(g)' /\ Owns(g)' = Owns(g) /\ Keeps(g)' = Keeps(g)
             /\ NameOf(g)' = NameOf(g) /\ NodeOf(g)' = NodeOf(g)
  BY <1>1, <1>2, <1>6 DEF KeepInv, HandleOK, Owns, Keeps, Fresh, NameOf, NodeOf
<1>7. ASSUME NEW g \in Handle, g # h, Owns(g)
      PROVE  NameOf(g) # nm /\ lease'[NameOf(g)] = lease[NameOf(g)]
  <2>1. HolderMatches(g) /\ ~Fresh(g)
    BY <1>7, Zenon DEF KeepInv, Owns, Keeps, HandleOK
  <2>2. NodeOf(g) # Nobody
    BY <2>1, LeaseAssumption, Zenon DEF TypeOK, Fresh, NodeOf
  <2> QED
    <3>1. lease[NameOf(g)].holder # Nobody
      BY <2>1, <2>2, Zenon DEF HolderMatches
    <3>2. NameOf(g) # nm
      BY <1>1, <3>1, Zenon
    <3>3. DOMAIN lease = Name
      BY ZenonT(30) DEF TypeOK
    <3> QED
      BY <1>1, <3>2, <3>3
<1>8. ASSUME NEW g \in Handle, Owns(g)' PROVE HolderMatches(g)'
  BY <1>5, <1>6, <1>7, <1>8, ZenonT(30) DEF KeepInv, HolderMatches
<1>9. ASSUME NEW g \in Handle, g # h, Keeps(g) PROVE Timely(g)'
  <2>1. Owns(g) /\ Timely(g)
    BY <1>9, Zenon DEF KeepInv, Owns
  <2> QED
    BY <1>1, <1>2, <1>6, <1>7, <1>9, <2>1 DEF Timely
<1>10. ASSUME NEW f \in Handle, NEW g \in Handle, Owns(f)', Owns(g)', NameOf(f)' = NameOf(g)'
       PROVE  f = g
  <2>1. NameOf(h)' = nm
    BY <1>2 DEF NameOf
  <2> QED
    BY <1>6, <1>7, <1>10, <2>1, ZenonT(30) DEF KeepInv
<1> QED
  BY <1>3, <1>5, <1>6, <1>8, <1>9, <1>10, Zenon DEF KeepInv

\* A crash takes handles away and leaves their keys to expire.
LEMMA CrashKeeps ==
  ASSUME TypeOK, KeepInv, NEW n \in Node, Crash(n)
  PROVE  KeepInv'
<1>1. UNCHANGED <<lease, grant, released, left, abort, timer>>
  BY Zenon DEF Crash, redis
<1>2. ASSUME NEW h \in Handle
      PROVE  /\ Fresh(h)' = Fresh(h) /\ NameOf(h)' = NameOf(h)
             /\ HolderMatches(h)' = HolderMatches(h)
  BY <1>1, Zenon DEF Fresh, NameOf, NodeOf, HolderMatches
<1>3. ASSUME NEW h \in Handle, NodeOf(h) # n
      PROVE  /\ HandleOK(h)' /\ Owns(h)' = Owns(h) /\ Keeps(h)' = Keeps(h)
             /\ Keeps(h) => Timely(h)'
  <2>1. /\ task'[h] = task[h] /\ caller'[h] = caller[h] /\ host'[h] = host[h]
        /\ HandleOK(h) /\ (Keeps(h) => Timely(h))
    BY <1>3, Zenon DEF Crash, KeepInv, TypeOK
  <2> QED
    BY <1>1, <1>2, <2>1, Zenon DEF HandleOK, Owns, Keeps, Timely
<1>4. ASSUME NEW h \in Handle, NodeOf(h) = n
      PROVE  HandleOK(h)' /\ ~Owns(h)' /\ ~Keeps(h)'
  <2>1. /\ task'[h] = "none" /\ caller'[h] = "idle" /\ ~host'[h]
        /\ HandleOK(h)
    BY <1>4, ZenonT(30) DEF Crash, KeepInv, TypeOK
  <2> QED
    BY <1>1, <1>2, <2>1, Zenon DEF HandleOK, Owns, Keeps, Ended
<1> QED
  BY <1>2, <1>3, <1>4 DEF KeepInv

\* A tick costs a kept key one tick of its time to live, its task one tick of
\* its sleep and its handle one tick of its expires_at.
LEMMA TickKeeps ==
  ASSUME TypeOK, KeepInv, Smooth, Tick
  PROVE  KeepInv'
<1>1. UNCHANGED <<grant, released, host, abort, task, caller>> /\ \A h \in Handle : ~Due(h)
  BY Zenon DEF Tick, Smooth
<1>2. ASSUME NEW h \in Handle
      PROVE  /\ HandleOK(h)' = HandleOK(h) /\ Owns(h)' = Owns(h) /\ Keeps(h)' = Keeps(h)
             /\ NameOf(h)' = NameOf(h) /\ NodeOf(h)' = NodeOf(h)
  BY <1>1, Zenon DEF HandleOK, Owns, Keeps, Fresh, NameOf, NodeOf
<1>3. ASSUME NEW h \in Handle, Owns(h)
      PROVE  HolderMatches(h)' /\ Timely(h)'
  <2>1. caller[h] = "idle" /\ task[h] = "sleep" /\ timer[h] # 0 /\ Keeps(h)
    BY <1>1, <1>3, Zenon DEF Due, Owns, Keeps, TypeOK, TaskState
  <2>2. HolderMatches(h) /\ Timely(h) /\ NameOf(h) \in Name
    BY <1>3, <2>1, Zenon DEF KeepInv, TypeOK, Keeps, Fresh, NameOf
  <2>3. /\ timer[h] \in Nat /\ left[h] \in Nat
        /\ timer'[h] = timer[h] - 1 /\ left'[h] = IF left[h] = 0 THEN 0 ELSE left[h] - 1
    BY <2>1, SleepForType, LeaseAssumption DEF Tick, Minus1, TypeOK
  <2> DEFINE l == lease[NameOf(h)]
  <2>4. l \in [holder : Node \cup {Nobody}, ttl : 0..TTL]
    BY <2>2, Zenon DEF TypeOK
  <2>5. l.ttl \in Nat /\ l.ttl > timer[h] /\ l.ttl >= left[h] /\ l.ttl \notin {0, 1}
    BY <2>1, <2>2, <2>3, <2>4, LeaseAssumption DEF Timely
  <2>6. lease'[NameOf(h)] = [l EXCEPT !.ttl = @ - 1]
    BY <2>2, <2>5 DEF Tick, Age
  <2>7. lease'[NameOf(h)].ttl = l.ttl - 1 /\ lease'[NameOf(h)].holder = l.holder
    BY <2>4, <2>6, Zenon
  <2>8. HolderMatches(h)'
    BY <1>2, <2>2, <2>7, ZenonT(30) DEF HolderMatches
  <2>9. left'[h] <= l.ttl - 1 /\ timer'[h] < l.ttl - 1
    BY <2>1, <2>3, <2>5
  <2> QED
    BY <1>1, <1>2, <2>1, <2>7, <2>8, <2>9, Zenon DEF Timely
<1> QED
  BY <1>2, <1>3, Zenon DEF KeepInv, Owns

\* LeaseKeptAlive for every TTL, percentage, node, name and number of handles:
\* without failed commands and late renewals a handle that is not released keeps
\* its key until the expires_at it reports, whatever its node's other handles,
\* other nodes and crashes do (the task try_acquire_async spawns, renew_state,
\* the scripts).
THEOREM RenewedLeasesAreKept ==
  ASSUME Smooth
  PROVE  Spec => []LeaseKeptAlive
<1>1. Init => KeepInv
  BY DEF Init, KeepInv, HandleOK, Owns, Keeps, Fresh
<1>2. TypeOK /\ KeepInv /\ [Next]_vars => KeepInv'
  <2> SUFFICES ASSUME TypeOK, KeepInv, [Next]_vars PROVE KeepInv'
    BY Zenon
  <2>1. ASSUME NEW n \in Node, NEW nm \in Name, StartAcquire(n, nm) \/ PollFails(n, nm)
        PROVE  KeepInv'
    <3>1. UNCHANGED <<lease, grant, released, left, host, abort, timer, task, caller>>
      BY <2>1, Zenon DEF StartAcquire, PollFails, redis
    <3> QED
      BY <3>1, UntouchedKeeps
  <2>2. ASSUME NEW n \in Node, NEW nm \in Name, NEW h \in Handle,
               TryAcquire(n, nm, h) \/ PollAcquire(n, nm, h)
        PROVE  KeepInv'
    BY <2>2, AcquireKeeps DEF TryAcquire, PollAcquire
  <2>3. CASE UNCHANGED vars
    BY <2>3, UntouchedKeeps DEF vars
  <2> QED
    BY <2>1, <2>2, <2>3, TaskKeeps, CallerKeeps, CrashKeeps, TickKeeps DEF Next
<1>3. TypeOK /\ KeepInv => LeaseKeptAlive
  BY DEF KeepInv, LeaseKeptAlive, Owns, Keeps, HandleOK, Timely, Renewing, Ended
<1> QED
  BY <1>1, <1>2, <1>3, TypeCorrect, PTL DEF Spec

=============================================================================
