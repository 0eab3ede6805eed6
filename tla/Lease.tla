------------------------------- MODULE Lease -------------------------------
(***************************************************************************)
(* Leases and leadership (lease.rs, and the lease entry points of lib.rs). *)
(*                                                                         *)
(* Redis holds two keys per lease name: the lease key (value: the node id  *)
(* of its holder, with a time to live) and a fence counter.  Every         *)
(* acquisition gives the caller a handle, an Arc<LeaseState>, that is      *)
(* shared with a background renewal task.  Three actors work on a handle:  *)
(* its caller, its renewal task, and Redis, which lets the key expire.     *)
(*                                                                         *)
(* Time is counted in ticks.  Every script is one step at Redis; the       *)
(* check before it and the handling of its reply are steps of their own,   *)
(* so that any other actor can come between.                               *)
(***************************************************************************)
EXTENDS Integers

CONSTANTS
  Node,      \* node ids: the holder value a replica writes
  Name,      \* lease names; `kind/name' and its fence key are taken distinct
  Handle,    \* LeaseState objects, one per acquisition (in TLC: the bound on
             \* acquisitions)
  Nobody,    \* the lease key is absent
  TTL,       \* time to live of a lease, in ticks
  RenewPct,  \* renew_before_expiry_percent
  Faults,    \* which faults occur: "error" (a command fails or its reply is
             \* lost), "crash" (a replica restarts)
  Punctual   \* TRUE: no tick falls inside a round trip or a due renewal

ASSUME LeaseAssumption ==
  /\ Nobody \notin Node
  /\ TTL \in Nat \ {0}
  /\ RenewPct \in Nat
  /\ Faults \subseteq {"error", "crash"}
  /\ Punctual \in BOOLEAN

VARIABLES
  lease,     \* [Name -> [holder, ttl]]: the lease key; ttl 0 is a key with none
  fence,     \* [Name -> Nat]: the fence counter
  granted,   \* [Name -> node]: history, whom the newest token was issued to
  waiting,   \* [Name -> SUBSET Node]: callers inside the polling acquire
  grant,     \* [Handle -> [node, name, token]]: LeaseState's fixed fields
  released,  \* [Handle -> BOOLEAN]: LeaseState.released
  left,      \* [Handle -> Nat]: ticks until LeaseState.expires_at
  host,      \* [Handle -> BOOLEAN]: the caller still owns its reference
  abort,     \* [Handle -> BOOLEAN]: abort() was called on the renewal task
  task,      \* [Handle -> task state]
  timer,     \* [Handle -> Nat]: ticks left of the renewal task's sleep
  caller     \* [Handle -> caller state]

redis  == <<lease, fence, granted>>
vars   == <<lease, fence, granted, waiting, grant, released, left, host,
            abort, task, timer, caller>>

-----------------------------------------------------------------------------
(* Vocabulary *)

NoLease  == [holder |-> Nobody, ttl |-> 0]
NoGrant  == [node |-> Nobody, name |-> Nobody, token |-> 0]
Outcomes == {"ok", "refused", "error"}

\* A renewal task that has returned: cancelled or released ("none"), or left
\* its loop because a renewal failed ("failed").
Ended    == {"none", "failed"}

\* "new": the acquire script ran, its reply is on the way.
TaskState   == Ended \cup Outcomes \cup {"new", "sleep", "call"}
CallerState == Outcomes \cup {"idle", "call", "del"}

NodeOf(h)  == grant[h].node
NameOf(h)  == grant[h].name
TokenOf(h) == grant[h].token

\* No acquisition has used the handle yet.
Fresh(h) == grant[h] = NoGrant

\* The LeaseState exists: the caller or the renewal task refers to it.
Live(h) == host[h] \/ task[h] \notin Ended

\* A renewal task that still has work to do.
Renewing(h) == task[h] \notin Ended \cup {"new"}

-----------------------------------------------------------------------------
(* Redis *)

\* Mutant: SET without the test for an existing key.
AlwaysVacant(nm) == TRUE

\* `redis.call('GET', KEYS[1]) == false' of the acquire script.
Vacant(nm) == lease[nm].holder = Nobody

\* Mutants: PX in the wrong unit; SET without PX.
LeaseValueWrongUnit(n) == [holder |-> n, ttl |-> 1000 * TTL]

LeaseValueNoExpiry(n) == [holder |-> n, ttl |-> 0]

\* The lease key as `SET KEYS[1] holder PX ttl' leaves it.
LeaseValue(n) == [holder |-> n, ttl |-> TTL]

\* Mutant: the counter is created but not advanced.
FirstFence(nm) == IF fence[nm] = 0 THEN 1 ELSE fence[nm]

\* `INCR KEYS[2]' of the acquire script.
NextFence(nm) == fence[nm] + 1

\* `GET KEYS[1] == ARGV[1]' of the renew and release scripts: the holder is
\* the node id, the same for every handle of a node.
HolderMatches(h) == lease[NameOf(h)].holder = NodeOf(h)

\* Mutant: renewal by SET, without comparing the holder.
RenewBySet(h) == lease' = [lease EXCEPT ![NameOf(h)] = LeaseValue(NodeOf(h))]

\* `PEXPIRE KEYS[1] ttl' when the holder matches.
RenewScript(h) ==
  lease' = IF HolderMatches(h)
           THEN [lease EXCEPT ![NameOf(h)].ttl = TTL]
           ELSE lease

\* `DEL KEYS[1]' when the holder matches.
ReleaseScript(h) ==
  lease' = IF HolderMatches(h)
           THEN [lease EXCEPT ![NameOf(h)] = NoLease]
           ELSE lease

\* A key one tick later; a key without a time to live stays.
Age(l) ==
  CASE l.ttl = 0 -> l
    [] l.ttl = 1 -> NoLease
    [] OTHER     -> [l EXCEPT !.ttl = @ - 1]

-----------------------------------------------------------------------------
(* Acquiring *)

ClampedPct == IF RenewPct < 1 THEN 1 ELSE IF RenewPct > 99 THEN 99 ELSE RenewPct

\* Mutant: the task sleeps for the whole time to live.
SleepWholeTtl == TTL

\* The renewal task's sleep, in whole ticks and at least one: a Duration is finer
\* than a tick.  (The 100 ms of a zero sleep never apply: ttl_ms is at least 1.)
SleepFor ==
  LET s == (TTL * (100 - ClampedPct)) \div 100 IN IF s = 0 THEN 1 ELSE s

Init ==
  /\ lease = [nm \in Name |-> NoLease]
  /\ fence = [nm \in Name |-> 0]
  /\ granted = [nm \in Name |-> Nobody]
  /\ waiting = [nm \in Name |-> {}]
  /\ grant = [h \in Handle |-> NoGrant]
  /\ released = [h \in Handle |-> FALSE]
  /\ left = [h \in Handle |-> 0]
  /\ host = [h \in Handle |-> FALSE]
  /\ abort = [h \in Handle |-> FALSE]
  /\ task = [h \in Handle |-> "none"]
  /\ timer = [h \in Handle |-> 0]
  /\ caller = [h \in Handle |-> "idle"]

\* A caller enters the polling acquire (acquire_leadership, acquire_lock).
StartAcquire(n, nm) ==
  /\ n \notin waiting[nm]
  /\ waiting' = [waiting EXCEPT ![nm] = @ \cup {n}]
  /\ UNCHANGED <<redis, grant, released, left, host, abort, task, timer, caller>>

\* The acquire script finds the name free: it sets the lease key and takes the
\* next fence token.  On a name that is held it changes nothing.
AcquireScript(n, nm, h) ==
  /\ Fresh(h)
  /\ Vacant(nm)
  /\ lease' = [lease EXCEPT ![nm] = LeaseValue(n)]
  /\ fence' = [fence EXCEPT ![nm] = NextFence(nm)]
  /\ granted' = [granted EXCEPT ![nm] = n]
  /\ grant' = [grant EXCEPT ![h] = [node |-> n, name |-> nm, token |-> NextFence(nm)]]
  /\ task' = [task EXCEPT ![h] = "new"]
  /\ UNCHANGED <<released, left, host, abort, timer, caller>>

\* One attempt (try_acquire_leadership, try_acquire_lock).
TryAcquire(n, nm, h) ==
  /\ AcquireScript(n, nm, h)
  /\ UNCHANGED waiting

\* The attempt of the polling acquire that succeeds; one that finds the name
\* held sleeps and tries again.
PollAcquire(n, nm, h) ==
  /\ n \in waiting[nm]
  /\ AcquireScript(n, nm, h)
  /\ waiting' = [waiting EXCEPT ![nm] = @ \ {n}]

\* The polling acquire gives up when an attempt fails.
PollFails(n, nm) ==
  /\ "error" \in Faults
  /\ n \in waiting[nm]
  /\ waiting' = [waiting EXCEPT ![nm] = @ \ {n}]
  /\ UNCHANGED <<redis, grant, released, left, host, abort, task, timer, caller>>

\* The reply arrives: the LeaseState is built, the renewal task is spawned
\* and the handle is returned.
AcquireReturn(h) ==
  /\ task[h] = "new"
  /\ task' = [task EXCEPT ![h] = "sleep"]
  /\ timer' = [timer EXCEPT ![h] = SleepFor]
  /\ left' = [left EXCEPT ![h] = TTL]
  /\ host' = [host EXCEPT ![h] = TRUE]
  /\ UNCHANGED <<redis, waiting, grant, released, abort, caller>>

\* The reply is lost: the script ran, yet the caller sees BackendUnavailable
\* and nobody renews or releases the lease.
AcquireLost(h) ==
  /\ "error" \in Faults
  /\ task[h] = "new"
  /\ task' = [task EXCEPT ![h] = "none"]
  /\ UNCHANGED <<redis, waiting, grant, released, left, host, abort, timer, caller>>

-----------------------------------------------------------------------------
(* renew_state, called by the renewal task and by the caller *)

\* The round trip: the script runs and its reply arrives, or the command fails
\* before or after Redis ran it.
RenewTrip(h, outcome) ==
  \/ /\ RenewScript(h)
     /\ outcome = IF HolderMatches(h) THEN "ok" ELSE "refused"
  \/ /\ "error" \in Faults
     /\ RenewScript(h) \/ UNCHANGED lease
     /\ outcome = "error"

\* The reply is applied: a refusal marks the lease as gone, a success moves
\* expires_at to one TTL from now, an error leaves the state alone.
ApplyRenew(h, outcome) ==
  /\ released' = [released EXCEPT ![h] = @ \/ outcome = "refused"]
  /\ left' = [left EXCEPT ![h] = IF outcome = "ok" THEN TTL ELSE @]

-----------------------------------------------------------------------------
(* The renewal task *)

\* The sleep is over: the loop ends if the lease was released.
TaskWake(h) ==
  /\ task[h] = "sleep" /\ timer[h] = 0
  /\ task' = [task EXCEPT ![h] = IF released[h] THEN "none" ELSE "call"]
  /\ UNCHANGED <<redis, waiting, grant, released, left, host, abort, timer, caller>>

TaskSend(h) ==
  /\ task[h] = "call"
  /\ \E o \in Outcomes : RenewTrip(h, o) /\ task' = [task EXCEPT ![h] = o]
  /\ UNCHANGED <<fence, granted, waiting, grant, released, left, host, abort, timer, caller>>

\* Any error ends the loop.
TaskReturn(h) ==
  /\ task[h] \in Outcomes
  /\ ApplyRenew(h, task[h])
  /\ task' = [task EXCEPT ![h] = IF @ = "ok" THEN "sleep" ELSE "failed"]
  /\ timer' = [timer EXCEPT ![h] = IF task[h] = "ok" THEN SleepFor ELSE @]
  /\ UNCHANGED <<redis, waiting, grant, host, abort, caller>>

\* An aborted task is dropped at an await: asleep, or inside the round trip,
\* whether or not the script ran.
TaskCancelled(h) ==
  /\ abort[h]
  /\ task[h] \in Outcomes \cup {"sleep", "call"}
  /\ task' = [task EXCEPT ![h] = "none"]
  /\ UNCHANGED <<redis, waiting, grant, released, left, host, abort, timer, caller>>

-----------------------------------------------------------------------------
(* The caller *)

\* renew passes its check; on a released handle it returns LeaseExpired and
\* changes nothing.
CallRenew(h) ==
  /\ host[h] /\ caller[h] = "idle"
  /\ ~released[h]
  /\ caller' = [caller EXCEPT ![h] = "call"]
  /\ UNCHANGED <<redis, waiting, grant, released, left, host, abort, task, timer>>

CallSend(h) ==
  /\ caller[h] = "call"
  /\ \E o \in Outcomes : RenewTrip(h, o) /\ caller' = [caller EXCEPT ![h] = o]
  /\ UNCHANGED <<fence, granted, waiting, grant, released, left, host, abort, task, timer>>

CallReturn(h) ==
  /\ caller[h] \in Outcomes
  /\ ApplyRenew(h, caller[h])
  /\ caller' = [caller EXCEPT ![h] = "idle"]
  /\ UNCHANGED <<redis, waiting, grant, host, abort, task, timer>>

\* release swaps the flag and aborts the renewal task; on a released handle it
\* returns at once.
CallRelease(h) ==
  /\ host[h] /\ caller[h] = "idle"
  /\ ~released[h]
  /\ released' = [released EXCEPT ![h] = TRUE]
  /\ abort' = [abort EXCEPT ![h] = TRUE]
  /\ caller' = [caller EXCEPT ![h] = "del"]
  /\ UNCHANGED <<redis, waiting, grant, left, host, task, timer>>

\* The release script; a failed command is ignored.
ReleaseSend(h) ==
  /\ caller[h] = "del"
  /\ ReleaseScript(h) \/ ("error" \in Faults /\ UNCHANGED lease)
  /\ caller' = [caller EXCEPT ![h] = "idle"]
  /\ UNCHANGED <<fence, granted, waiting, grant, released, left, host, abort, task, timer>>

\* lease_drop gives up the caller's reference.  LeaseState::drop runs when the
\* last reference goes, and the renewal task holds one until it returns: its
\* abort finds no task left to stop.
CallDrop(h) ==
  /\ host[h] /\ caller[h] = "idle"
  /\ host' = [host EXCEPT ![h] = FALSE]
  /\ UNCHANGED <<redis, waiting, grant, released, left, abort, task, timer, caller>>

-----------------------------------------------------------------------------
(* Environment *)

\* A replica restarts under the same node id: its handles, tasks and waiting
\* callers are gone, its lease keys stay in Redis.
Crash(n) ==
  /\ "crash" \in Faults
  /\ LET lost(h) == NodeOf(h) = n IN
     /\ host' = [h \in Handle |-> host[h] /\ ~lost(h)]
     /\ task' = [h \in Handle |-> IF lost(h) THEN "none" ELSE task[h]]
     /\ caller' = [h \in Handle |-> IF lost(h) THEN "idle" ELSE caller[h]]
  /\ waiting' = [nm \in Name |-> waiting[nm] \ {n}]
  /\ UNCHANGED <<redis, grant, released, left, abort, timer>>

\* A step of h is due now.
Due(h) ==
  \/ task[h] \in Outcomes \cup {"new", "call"}
  \/ task[h] = "sleep" /\ timer[h] = 0
  \/ caller[h] # "idle"

Minus1(k) == IF k = 0 THEN 0 ELSE k - 1

Tick ==
  /\ Punctual => \A h \in Handle : ~Due(h)
  /\ lease' = [nm \in Name |-> Age(lease[nm])]
  /\ left' = [h \in Handle |-> Minus1(left[h])]
  /\ timer' = [h \in Handle |-> Minus1(timer[h])]
  /\ UNCHANGED <<fence, granted, waiting, grant, released, host, abort, task, caller>>

-----------------------------------------------------------------------------
Next ==
  \/ \E n \in Node, nm \in Name :
       \/ StartAcquire(n, nm)
       \/ PollFails(n, nm)
       \/ \E h \in Handle : TryAcquire(n, nm, h) \/ PollAcquire(n, nm, h)
  \/ \E h \in Handle :
       \/ AcquireReturn(h) \/ AcquireLost(h)
       \/ TaskWake(h) \/ TaskSend(h) \/ TaskReturn(h) \/ TaskCancelled(h)
       \/ CallRenew(h) \/ CallSend(h) \/ CallReturn(h)
       \/ CallRelease(h) \/ ReleaseSend(h) \/ CallDrop(h)
  \/ \E n \in Node : Crash(n)
  \/ Tick

Spec == Init /\ [][Next]_vars

\* Spawned tasks and started calls run on, a polling caller keeps polling,
\* and time passes.  Nothing obliges a caller to renew, release or drop.
Fairness ==
  /\ WF_vars(Tick)
  /\ \A h \in Handle :
       /\ WF_vars(AcquireReturn(h))
       /\ WF_vars(TaskWake(h)) /\ WF_vars(TaskSend(h)) /\ WF_vars(TaskReturn(h))
       /\ WF_vars(TaskCancelled(h))
       /\ WF_vars(CallSend(h)) /\ WF_vars(CallReturn(h)) /\ WF_vars(ReleaseSend(h))
  /\ \A n \in Node, nm \in Name :
       WF_vars(\E h \in Handle : PollAcquire(n, nm, h))

FairSpec == Spec /\ Fairness

-----------------------------------------------------------------------------
(* Properties *)

TypeOK ==
  /\ lease \in [Name -> [holder : Node \cup {Nobody}, ttl : 0..TTL]]
  /\ fence \in [Name -> Nat]
  /\ granted \in [Name -> Node \cup {Nobody}]
  /\ waiting \in [Name -> SUBSET Node]
  /\ grant \in [Handle -> [node : Node, name : Name, token : Nat] \cup {NoGrant}]
  /\ released \in [Handle -> BOOLEAN]
  /\ left \in [Handle -> 0..TTL]
  /\ host \in [Handle -> BOOLEAN]
  /\ abort \in [Handle -> BOOLEAN]
  /\ task \in [Handle -> TaskState]
  /\ timer \in [Handle -> 0..SleepFor]
  /\ caller \in [Handle -> CallerState]

\* No two acquisitions of a name ever carry the same fence token, whatever
\* expired, crashed or lost its reply in between (acquire_script's INCR).
FenceTokensUnique ==
  \A g, h \in Handle :
    g # h /\ ~Fresh(g) /\ ~Fresh(h) /\ NameOf(g) = NameOf(h)
      => TokenOf(g) # TokenOf(h)

\* While a node holds a name, every handle another node has for it, however
\* stale, carries a token below the newest: a resource that compares tokens
\* turns the other node away (acquire, renew and release scripts together).
OtherNodesTokensAreOld ==
  \A h \in Handle :
    ~Fresh(h) /\ lease[NameOf(h)].holder \notin {Nobody, NodeOf(h)}
      => TokenOf(h) < fence[NameOf(h)]

\* The Redis keys implement the abstract lease service: ownership never passes
\* from node to node without the name being free, each period has its token.
Service == INSTANCE LeaseService
             WITH owner <- [nm \in Name |-> lease[nm].holder], epoch <- fence

ImplementsService == Service!Spec

\* With punctual renewals and no failed command, a lease whose renewal task
\* runs is still in Redis under its node, at least until the expires_at its
\* handle reports (sleep_for against the TTL; the renewal loop).
LeaseKeptAlive ==
  \A h \in Handle :
    Renewing(h) /\ ~released[h]
      => HolderMatches(h) /\ left[h] <= lease[NameOf(h)].ttl

\* The holder's node has nothing left that could renew or release the name.
Unattended(nm) ==
  /\ ~Vacant(nm)
  /\ \A h \in Handle : Live(h) /\ NameOf(h) = nm => ~HolderMatches(h)

\* A lease that nobody attends to, after a crash or a lost acquire reply,
\* lapses (the PX of the acquire script).
OrphanLapses ==
  \A nm \in Name : Unattended(nm) ~> Vacant(nm)

\* A caller that polls for such a lease is not left waiting: it gets the lease,
\* another caller gets it first, or the caller's own replica goes down
\* (acquire_async's loop).  Handles are a bound of the model: the promise is
\* made as long as one is left.
OrphanTakenOver ==
  \A nm \in Name, n \in Node :
    (Unattended(nm) /\ n \in waiting[nm])
      ~> \/ n \notin waiting[nm]
         \/ \E h \in Handle : host[h] /\ NameOf(h) = nm /\ HolderMatches(h)
         \/ \A h \in Handle : ~Fresh(h)
=============================================================================
