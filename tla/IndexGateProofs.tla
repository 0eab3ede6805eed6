--------------------------- MODULE IndexGateProofs ---------------------------
(***************************************************************************)
(* Complete listings and gates that stay shut, for every number of         *)
(* replicas, older builds, keys and restarts, and whatever fails, while no *)
(* older build registers during a call of complete_key_index; and, in any  *)
(* case, the types and that complete_index's second list misses no build.  *)
(***************************************************************************)
EXTENDS IndexGate, TLAPS

\* What a replica has no claim to in its hands after it shut its gate for the registered
\* build o: it cannot open its gate or mark the index before it lists its peers anew, and
\* no list of it will miss o.
Quiet(r, o) ==
  /\ ~task[r].ready
  /\ task[r].scanned => o \in task[r].found
  /\ task[r].pc \in {"sleep", "gate", "del", "renew", "acquire", "sweep"}
  /\ task[r].pc # "sleep" => task[r].sees

\* While no older build is registered, whatever opens a gate or leads to it says the truth.
Claims(r) ==
  /\ task[r].ready \/ task[r].known => dark = {}
  /\ task[r].pc \in {"recheck", "mark", "open"} => dark = {}
  /\ task[r].pc = "fill" => dark \subseteq task[r].owed
  /\ call[r].pc \in {"mark", "open"} => dark = {}
  /\ call[r].pc = "fill" => dark \subseteq call[r].owed

\* A call past its list has no older build beside it, and one that is about to list does
\* so from a scan that has them all.
CallAlone(r) ==
  /\ call[r].pc # "idle" => r \in Caller
  /\ call[r].pc \in {"fill", "mark", "open"} => registered = {}
  /\ call[r].pc = "list" /\ task[r].scanned => registered \subseteq task[r].found

\* All that is to be known of one replica.
ReplicaInv(r) ==
  /\ CallAlone(r)
  /\ task[r].known => task[r].pc = "set"
  /\ task[r].pc = "del" => task[r].sees
  /\ registered = {} /\ ~missed => Claims(r)
  /\ \A o \in registered : r \in shut[o] => Quiet(r, o)

\* All that is to be known of the mark: once every replica shut its gate for a build, the
\* mark is gone or a DEL failed.
MarkInv ==
  /\ registered = {} /\ ~missed /\ mark => dark = {}
  /\ \A o \in registered : shut[o] = Replica /\ mark => undeleted
  /\ \A o \in Older \ registered : shut[o] = {}

\* The inductive invariant.
GateInv == TypeOK /\ MarkInv /\ \A r \in Replica : ReplicaInv(r)

-----------------------------------------------------------------------------
\* A replica that a step leaves alone keeps its part of the invariant, when keys only
\* leave `dark' and no build registers or leaves.
LEMMA OthersKeep ==
  ASSUME NEW q \in Replica, ReplicaInv(q),
         task'[q] = task[q], call'[q] = call[q],
         dark' \subseteq dark, UNCHANGED <<registered, missed>>,
         \A o \in registered : q \in shut'[o] => q \in shut[o]
  PROVE  ReplicaInv(q)'
<1>1. CallAlone(q)'
  BY DEF ReplicaInv, CallAlone
<1>2. registered = {} /\ ~missed => Claims(q)'
  BY DEF ReplicaInv, Claims
<1>3. \A o \in registered : q \in shut'[o] => Quiet(q, o)'
  BY DEF ReplicaInv, Quiet
<1>. QED  BY <1>1, <1>2, <1>3 DEF ReplicaInv

\* The initial states.
LEMMA InitGateInv ==
  ASSUME Init  PROVE GateInv
<1>1. TypeOK
  <2>1. Booted \in TaskState /\ NoCall \in CallState
    BY DEF TaskState, CallState, Booted, NoCall
  <2>2. task \in [Replica -> TaskState] /\ call \in [Replica -> CallState]
    BY <2>1 DEF Init
  <2>3. restarts \in 0..MaxRestarts
    BY GateAssumption DEF Init
  <2>4. /\ mark \in BOOLEAN /\ dark \subseteq Key /\ registered \subseteq Older
        /\ lock \in Replica \cup {Nobody} /\ renewing \subseteq Replica
        /\ shut \in [Older -> SUBSET Replica] /\ undeleted \in BOOLEAN /\ missed \in BOOLEAN
        /\ since \in [Replica -> SUBSET Older]
    BY Zenon DEF Init
  <2>. QED  BY <2>2, <2>3, <2>4 DEF TypeOK
<1>2. MarkInv
  BY GateAssumption DEF Init, MarkInv
<1>3. \A r \in Replica : ReplicaInv(r)
  BY DEF Init, ReplicaInv, CallAlone, Claims, Quiet, Booted, NoCall
<1>. QED  BY <1>1, <1>2, <1>3 DEF GateInv

\* What a step of a replica must show: well-formed states that it takes, nothing for the
\* others but keys that leave `dark' and notices of its own, its own part of the invariant,
\* and the mark's.
LEMMA StepKeeps ==
  ASSUME GateInv, NEW r \in Replica, NEW t \in TaskState, task' = [task EXCEPT ![r] = t],
         NEW c \in CallState, call' = [call EXCEPT ![r] = c],
         UNCHANGED <<registered, missed>>, restarts' \in 0..MaxRestarts,
         mark' \in BOOLEAN, dark' \subseteq dark,
         lock' \in Replica \cup {Nobody}, renewing' \subseteq Replica,
         shut' \in [Older -> SUBSET Replica], undeleted' \in BOOLEAN,
         since' \in [Replica -> SUBSET Older],
         \A o \in registered : shut'[o] \subseteq shut[o] \cup {r},
         MarkInv', task'[r] = t /\ call'[r] = c => ReplicaInv(r)'
  PROVE  GateInv'
<1>1. /\ task' \in [Replica -> TaskState] /\ task'[r] = t
      /\ \A q \in Replica \ {r} : task'[q] = task[q]
  BY DEF GateInv, TypeOK
<1>2. /\ call' \in [Replica -> CallState] /\ call'[r] = c
      /\ \A q \in Replica \ {r} : call'[q] = call[q]
  BY DEF GateInv, TypeOK
<1>3. TypeOK'
  BY <1>1, <1>2 DEF GateInv, TypeOK
<1>4. ASSUME NEW q \in Replica  PROVE ReplicaInv(q)'
  <2>1. CASE q = r
    BY <1>1, <1>2, <2>1
  <2>2. CASE q # r
    <3>1. ReplicaInv(q) /\ task'[q] = task[q] /\ call'[q] = call[q]
      BY <1>1, <1>2, <2>2 DEF GateInv
    <3>2. \A o \in registered : q \in shut'[o] => q \in shut[o]
      BY <2>2
    <3>. QED  BY <3>1, <3>2, OthersKeep
  <2>. QED  BY <2>1, <2>2
<1>. QED  BY <1>3, <1>4 DEF GateInv

\* The same for a step of the maintenance task, which leaves calls alone.
LEMMA TaskKeeps ==
  ASSUME GateInv, NEW r \in Replica, NEW t \in TaskState, Becomes(r, t),
         UNCHANGED <<registered, missed, call, restarts>>,
         mark' \in BOOLEAN, dark' \subseteq dark,
         lock' \in Replica \cup {Nobody}, renewing' \subseteq Replica,
         shut' \in [Older -> SUBSET Replica], undeleted' \in BOOLEAN,
         since' \in [Replica -> SUBSET Older],
         \A o \in registered : shut'[o] \subseteq shut[o] \cup {r},
         MarkInv', task'[r] = t => ReplicaInv(r)'
  PROVE  GateInv'
<1>1. call[r] \in CallState /\ call' = [call EXCEPT ![r] = call[r]] /\ restarts' \in 0..MaxRestarts
  BY DEF GateInv, TypeOK
<1>2. task' = [task EXCEPT ![r] = t]
  BY DEF Becomes
<1>. QED  BY <1>1, <1>2, StepKeeps, Zenon

\* A list made while a build is registered that a cached scan, if there is one, has found.
LEMMA ListsRegistered ==
  ASSUME NEW r, NEW o \in registered, task[r].scanned => o \in task[r].found, NEW ids
  PROVE  Lists(r, ids) /\ o \in Scan(r)
BY DEF Lists, Scan

-----------------------------------------------------------------------------
(* Steps that change only the state of one replica's task *)

\* The scan's age.
LEMMA KeepsScanAges ==
  ASSUME GateInv, NEW r \in Replica, ScanAges(r)
  PROVE  GateInv'
<1> DEFINE t == [task[r] EXCEPT !.scanned = FALSE, !.found = {}]
<1>1. task[r] \in TaskState /\ ReplicaInv(r) /\ MarkInv /\ TypeOK
  BY DEF GateInv, TypeOK
<1>2. /\ t \in TaskState /\ t.pc = task[r].pc /\ t.sees = task[r].sees
      /\ t.known = task[r].known /\ t.owed = task[r].owed /\ t.scanned = FALSE /\ t.found = {}
      /\ t.ready = task[r].ready
  BY <1>1, Zenon DEF TaskState, TypeOK
<1>3. Becomes(r, t) /\ UNCHANGED <<mark, dark, registered, call, restarts, shut,
                                   undeleted, missed, since>>
      /\ lock' \in Replica \cup {Nobody} /\ renewing' \subseteq Replica
  BY <1>1 DEF ScanAges, TypeOK, redis, history
<1> HIDE DEF t
<1>4. ASSUME task'[r] = t PROVE ReplicaInv(r)'
  BY <1>1, <1>2, <1>3, <1>4 DEF ReplicaInv, MarkInv, CallAlone, Claims, Quiet
<1>. QED  BY <1>1, <1>2, <1>3, <1>4, TaskKeeps DEF MarkInv, TypeOK

\* The wait.
LEMMA KeepsSettles ==
  ASSUME GateInv, NEW r \in Replica, Settles(r)
  PROVE  GateInv'
<1> DEFINE t == [task[r] EXCEPT !.recent = FALSE]
<1>1. task[r] \in TaskState /\ ReplicaInv(r) /\ MarkInv /\ TypeOK
  BY DEF GateInv, TypeOK
<1>2. /\ t \in TaskState /\ t.pc = task[r].pc /\ t.sees = task[r].sees
      /\ t.known = task[r].known /\ t.owed = task[r].owed
      /\ t.scanned = task[r].scanned /\ t.found = task[r].found
      /\ t.ready = task[r].ready
  BY <1>1, Zenon DEF TaskState, TypeOK
<1>3. Becomes(r, t) /\ UNCHANGED <<mark, dark, registered, call, restarts, shut,
                                   undeleted, missed, since>>
      /\ lock' \in Replica \cup {Nobody} /\ renewing' \subseteq Replica
  BY <1>1 DEF Settles, TypeOK, redis, history
<1> HIDE DEF t
<1>4. ASSUME task'[r] = t PROVE ReplicaInv(r)'
  BY <1>1, <1>2, <1>3, <1>4 DEF ReplicaInv, MarkInv, CallAlone, Claims, Quiet
<1>. QED  BY <1>1, <1>2, <1>3, <1>4, TaskKeeps DEF MarkInv, TypeOK

\* What a list leaves in the cache.
LEMMA ScanKeeps ==
  ASSUME TypeOK, NEW r \in Replica, ReplicaInv(r)
  PROVE  /\ Scan(r) \in SUBSET Older
         /\ call[r].pc = "list" => registered \subseteq Scan(r)
         /\ \A o \in registered : r \in shut[o] => o \in Scan(r)
         /\ \A o \in registered, ids \in SUBSET Older : r \in shut[o] => Lists(r, ids)
<1>1. task[r] \in TaskState
  BY DEF TypeOK
<1>2. Scan(r) \in SUBSET Older
  BY <1>1 DEF Scan, TypeOK, TaskState
<1>3. call[r].pc = "list" => registered \subseteq Scan(r)
  BY DEF Scan, ReplicaInv, CallAlone
<1>4. ASSUME NEW o \in registered, r \in shut[o], NEW ids \in SUBSET Older
      PROVE  Lists(r, ids) /\ o \in Scan(r)
  BY <1>4, ListsRegistered DEF ReplicaInv, Quiet
<1>. QED  BY <1>2, <1>3, <1>4

\* Another list of the replica.
LEMMA KeepsOtherList ==
  ASSUME GateInv, NEW r \in Replica, OtherList(r)
  PROVE  GateInv'
<1> DEFINE t == [task[r] EXCEPT !.scanned = TRUE, !.found = Scan(r)]
<1>1. task[r] \in TaskState /\ ReplicaInv(r) /\ MarkInv /\ TypeOK
  BY DEF GateInv, TypeOK
<1>2. /\ Scan(r) \in SUBSET Older
      /\ call[r].pc = "list" => registered \subseteq Scan(r)
      /\ \A o \in registered : r \in shut[o] => o \in Scan(r)
  BY <1>1, ScanKeeps
<1>3. /\ t \in TaskState /\ t.pc = task[r].pc /\ t.sees = task[r].sees
      /\ t.known = task[r].known /\ t.owed = task[r].owed
      /\ t.scanned = TRUE /\ t.found = Scan(r) /\ t.ready = task[r].ready
  BY <1>1, <1>2, Zenon DEF TaskState
<1>4. Becomes(r, t)
      /\ UNCHANGED <<mark, dark, registered, lock, renewing, call, restarts, shut,
                     undeleted, missed, since>>
  BY DEF OtherList, redis, history
<1> HIDE DEF t
<1>5. ASSUME task'[r] = t PROVE ReplicaInv(r)'
  BY <1>1, <1>2, <1>3, <1>4, <1>5 DEF ReplicaInv, CallAlone, Claims, Quiet
<1>. QED  BY <1>1, <1>3, <1>4, <1>5, TaskKeeps DEF MarkInv, TypeOK

\* A tick's list.
LEMMA KeepsTaskLists ==
  ASSUME GateInv, NEW r \in Replica, TaskLists(r)
  PROVE  GateInv'
<1>1. task[r] \in TaskState /\ ReplicaInv(r) /\ MarkInv /\ TypeOK
  BY DEF GateInv, TypeOK
<1>2. PICK ids \in SUBSET Older :
        Becomes(r, [task[r] EXCEPT !.pc = "gate", !.sees = Lists(r, ids),
                                   !.scanned = TRUE, !.found = Scan(r),
                                   !.recent = @ \/ Lists(r, ids)])
  BY Zenon DEF TaskLists
<1> DEFINE t == [task[r] EXCEPT !.pc = "gate", !.sees = Lists(r, ids),
                                !.scanned = TRUE, !.found = Scan(r),
                                !.recent = @ \/ Lists(r, ids)]
<1>3. /\ Scan(r) \in SUBSET Older /\ Lists(r, ids) \in BOOLEAN
      /\ call[r].pc = "list" => registered \subseteq Scan(r)
      /\ \A o \in registered : r \in shut[o] => o \in Scan(r) /\ Lists(r, ids)
  <2>1. Lists(r, ids) \in BOOLEAN
    BY DEF Lists
  <2>. QED  BY <1>1, <2>1, ScanKeeps
<1>4. /\ t \in TaskState /\ t.pc = "gate" /\ t.sees = Lists(r, ids) /\ t.known = task[r].known
      /\ t.owed = task[r].owed /\ t.scanned = TRUE /\ t.found = Scan(r)
      /\ t.ready = task[r].ready
  BY <1>1, <1>3, ZenonT(30) DEF TaskState
<1>5. Becomes(r, t) /\ task[r].pc = "sleep"
      /\ UNCHANGED <<mark, dark, registered, lock, renewing, call, restarts, shut,
                     undeleted, missed, since>>
  BY <1>2 DEF TaskLists, redis, history
<1> HIDE DEF t
<1>6. ASSUME task'[r] = t PROVE ReplicaInv(r)'
  BY <1>1, <1>3, <1>4, <1>5, <1>6 DEF ReplicaInv, CallAlone, Claims, Quiet
<1>. QED  BY <1>1, <1>4, <1>5, <1>6, TaskKeeps DEF MarkInv, TypeOK

\* The gate shuts.
LEMMA KeepsTaskShuts ==
  ASSUME GateInv, NEW r \in Replica, TaskShuts(r)
  PROVE  GateInv'
<1> DEFINE t == [task[r] EXCEPT !.pc = "del", !.ready = FALSE]
<1>1. task[r] \in TaskState /\ ReplicaInv(r) /\ MarkInv /\ TypeOK
  BY DEF GateInv, TypeOK
<1>2. /\ t \in TaskState /\ t.pc = "del" /\ t.sees = task[r].sees
      /\ t.known = task[r].known /\ t.owed = task[r].owed
      /\ t.scanned = task[r].scanned /\ t.found = task[r].found
      /\ t.ready = FALSE
  BY <1>1, Zenon DEF TaskState, TypeOK
<1>3. Becomes(r, t) /\ UNCHANGED <<mark, dark, registered, call, restarts, shut,
                                   undeleted, missed, since>>
      /\ task[r].pc = "gate" /\ task[r].sees
      /\ lock' \in Replica \cup {Nobody} /\ renewing' \subseteq Replica
  BY <1>1 DEF TaskShuts, TypeOK, redis, history
<1> HIDE DEF t
<1>4. ASSUME task'[r] = t PROVE ReplicaInv(r)'
  BY <1>1, <1>2, <1>3, <1>4, Zenon DEF ReplicaInv, MarkInv, CallAlone, Claims, Quiet
<1>. QED  BY <1>1, <1>2, <1>3, <1>4, TaskKeeps DEF MarkInv, TypeOK

\* The gate follows the mark.
LEMMA KeepsTaskSets ==
  ASSUME GateInv, NEW r \in Replica, TaskSets(r)
  PROVE  GateInv'
<1> DEFINE t == [task[r] EXCEPT !.pc = "renew", !.ready = task[r].known, !.known = FALSE]
<1>1. task[r] \in TaskState /\ ReplicaInv(r) /\ MarkInv /\ TypeOK
  BY DEF GateInv, TypeOK
<1>2. /\ t \in TaskState /\ t.pc = "renew" /\ t.sees = task[r].sees /\ t.known = FALSE
      /\ t.owed = task[r].owed
      /\ t.scanned = task[r].scanned /\ t.found = task[r].found /\ t.ready = task[r].known
  BY <1>1, Zenon DEF TaskState, TypeOK
<1>3. Becomes(r, t) /\ UNCHANGED <<mark, dark, registered, call, restarts, shut,
                                   undeleted, missed, since>>
      /\ task[r].pc = "set"
      /\ lock' \in Replica \cup {Nobody} /\ renewing' \subseteq Replica
  BY <1>1 DEF TaskSets, TypeOK, redis, history
<1> HIDE DEF t
<1>4. ASSUME task'[r] = t PROVE ReplicaInv(r)'
  BY <1>1, <1>2, <1>3, <1>4 DEF ReplicaInv, MarkInv, CallAlone, Claims, Quiet
<1>. QED  BY <1>1, <1>2, <1>3, <1>4, TaskKeeps DEF MarkInv, TypeOK

\* The lock is taken.
LEMMA KeepsTaskAcquires ==
  ASSUME GateInv, NEW r \in Replica, TaskAcquires(r)
  PROVE  GateInv'
<1> DEFINE t == [task[r] EXCEPT !.pc = "sweep", !.held = TRUE]
<1>1. task[r] \in TaskState /\ ReplicaInv(r) /\ MarkInv /\ TypeOK
  BY DEF GateInv, TypeOK
<1>2. /\ t \in TaskState /\ t.pc = "sweep" /\ t.sees = task[r].sees
      /\ t.known = task[r].known /\ t.owed = task[r].owed
      /\ t.scanned = task[r].scanned /\ t.found = task[r].found
      /\ t.ready = task[r].ready
  BY <1>1, Zenon DEF TaskState, TypeOK
<1>3. Becomes(r, t) /\ UNCHANGED <<mark, dark, registered, call, restarts, shut,
                                   undeleted, missed, since>>
      /\ task[r].pc = "acquire"
      /\ lock' \in Replica \cup {Nobody} /\ renewing' \subseteq Replica
  BY <1>1 DEF TaskAcquires, TypeOK, redis, history
<1> HIDE DEF t
<1>4. ASSUME task'[r] = t PROVE ReplicaInv(r)'
  BY <1>1, <1>2, <1>3, <1>4 DEF ReplicaInv, MarkInv, CallAlone, Claims, Quiet
<1>. QED  BY <1>1, <1>2, <1>3, <1>4, TaskKeeps DEF MarkInv, TypeOK

\* The lock is not taken.
LEMMA KeepsTaskAcquireFails ==
  ASSUME GateInv, NEW r \in Replica, TaskAcquireFails(r)
  PROVE  GateInv'
<1> DEFINE t == [task[r] EXCEPT !.pc = "sleep", !.sees = FALSE]
<1>1. task[r] \in TaskState /\ ReplicaInv(r) /\ MarkInv /\ TypeOK
  BY DEF GateInv, TypeOK
<1>2. /\ t \in TaskState /\ t.pc = "sleep" /\ t.sees = FALSE /\ t.known = task[r].known
      /\ t.owed = task[r].owed
      /\ t.scanned = task[r].scanned /\ t.found = task[r].found /\ t.ready = task[r].ready
  BY <1>1, Zenon DEF TaskState, TypeOK
<1>3. Becomes(r, t) /\ UNCHANGED <<mark, dark, registered, call, restarts, shut,
                                   undeleted, missed, since>>
      /\ task[r].pc = "acquire"
      /\ lock' \in Replica \cup {Nobody} /\ renewing' \subseteq Replica
  BY <1>1 DEF TaskAcquireFails, TypeOK, redis, history
<1> HIDE DEF t
<1>4. ASSUME task'[r] = t PROVE ReplicaInv(r)'
  BY <1>1, <1>2, <1>3, <1>4 DEF ReplicaInv, MarkInv, CallAlone, Claims, Quiet
<1>. QED  BY <1>1, <1>2, <1>3, <1>4, TaskKeeps DEF MarkInv, TypeOK

\* The gate opens.
LEMMA KeepsTaskOpens ==
  ASSUME GateInv, NEW r \in Replica, TaskOpens(r)
  PROVE  GateInv'
<1> DEFINE t == [task[r] EXCEPT !.pc = "sleep", !.ready = TRUE]
<1>1. task[r] \in TaskState /\ ReplicaInv(r) /\ MarkInv /\ TypeOK
  BY DEF GateInv, TypeOK
<1>2. /\ t \in TaskState /\ t.pc = "sleep" /\ t.sees = task[r].sees
      /\ t.known = task[r].known /\ t.owed = task[r].owed
      /\ t.scanned = task[r].scanned /\ t.found = task[r].found
      /\ t.ready = TRUE
  BY <1>1, Zenon DEF TaskState, TypeOK
<1>3. Becomes(r, t) /\ UNCHANGED <<mark, dark, registered, call, restarts, shut,
                                   undeleted, missed, since>>
      /\ task[r].pc = "open"
      /\ lock' \in Replica \cup {Nobody} /\ renewing' \subseteq Replica
  BY <1>1 DEF TaskOpens, TypeOK, redis, history
<1> HIDE DEF t
<1>4. ASSUME task'[r] = t PROVE ReplicaInv(r)'
  BY <1>1, <1>2, <1>3, <1>4 DEF ReplicaInv, MarkInv, CallAlone, Claims, Quiet
<1>. QED  BY <1>1, <1>2, <1>3, <1>4, TaskKeeps DEF MarkInv, TypeOK
\* The mark is read.
LEMMA KeepsTaskReads ==
  ASSUME GateInv, NEW r \in Replica, TaskReads(r)
  PROVE  GateInv'
<1> DEFINE t1 == [task[r] EXCEPT !.pc = "set", !.known = mark]
           t2 == [task[r] EXCEPT !.pc = "renew"]
<1>1. task[r] \in TaskState /\ ReplicaInv(r) /\ MarkInv /\ TypeOK
  BY DEF GateInv, TypeOK
<1>2. /\ t1 \in TaskState /\ t1.pc = "set" /\ t1.sees = task[r].sees /\ t1.known = mark
      /\ t1.owed = task[r].owed
      /\ t1.scanned = task[r].scanned /\ t1.found = task[r].found /\ t1.ready = task[r].ready
  BY <1>1, Zenon DEF TaskState, TypeOK
<1>3. /\ t2 \in TaskState /\ t2.pc = "renew" /\ t2.sees = task[r].sees
      /\ t2.known = task[r].known /\ t2.owed = task[r].owed
      /\ t2.scanned = task[r].scanned /\ t2.found = task[r].found
      /\ t2.ready = task[r].ready
  BY <1>1 DEF TaskState, TypeOK
<1>4. /\ UNCHANGED <<mark, dark, registered, lock, renewing, call, restarts, shut,
                     undeleted, missed, since>>
      /\ task[r].pc = "gate" /\ ~task[r].sees
  BY <1>1 DEF TaskReads, TypeOK, redis, history
<1>5. CASE Becomes(r, t1)
  <2> HIDE DEF t1
  <2>1. ASSUME task'[r] = t1 PROVE ReplicaInv(r)'
    BY <1>1, <1>2, <1>4, <2>1 DEF ReplicaInv, MarkInv, CallAlone, Claims, Quiet
  <2>. QED  BY <1>1, <1>2, <1>4, <1>5, <2>1, TaskKeeps DEF MarkInv, TypeOK
<1>6. CASE Becomes(r, t2)
  <2> HIDE DEF t2
  <2>1. ASSUME task'[r] = t2 PROVE ReplicaInv(r)'
    BY <1>1, <1>3, <1>4, <2>1 DEF ReplicaInv, MarkInv, CallAlone, Claims, Quiet
  <2>. QED  BY <1>1, <1>3, <1>4, <1>6, <2>1, TaskKeeps DEF MarkInv, TypeOK
<1>. QED  BY <1>5, <1>6 DEF TaskReads

\* The lock is renewed or given up.
LEMMA KeepsTaskRenews ==
  ASSUME GateInv, NEW r \in Replica, TaskRenews(r)
  PROVE  GateInv'
<1> DEFINE t1 == [task[r] EXCEPT !.pc = "sweep"]
           t2 == [task[r] EXCEPT !.pc = "acquire", !.held = FALSE]
<1>1. task[r] \in TaskState /\ ReplicaInv(r) /\ MarkInv /\ TypeOK
  BY DEF GateInv, TypeOK
<1>2. /\ t1 \in TaskState /\ t1.pc = "sweep" /\ t1.sees = task[r].sees
      /\ t1.known = task[r].known /\ t1.owed = task[r].owed
      /\ t1.scanned = task[r].scanned /\ t1.found = task[r].found
      /\ t1.ready = task[r].ready
  BY <1>1, Zenon DEF TaskState, TypeOK
<1>3. /\ t2 \in TaskState /\ t2.pc = "acquire" /\ t2.sees = task[r].sees
      /\ t2.known = task[r].known /\ t2.owed = task[r].owed
      /\ t2.scanned = task[r].scanned /\ t2.found = task[r].found
      /\ t2.ready = task[r].ready
  BY <1>1, Zenon DEF TaskState, TypeOK
<1>4. UNCHANGED <<mark, dark, registered, lock, renewing, call, restarts, shut,
                  undeleted, missed, since>>
      /\ task[r].pc = "renew"
  BY <1>1 DEF TaskRenews, TypeOK, redis, history
<1>5. CASE Becomes(r, t1)
  <2> HIDE DEF t1
  <2>1. ASSUME task'[r] = t1 PROVE ReplicaInv(r)'
    BY <1>1, <1>2, <1>4, <2>1 DEF ReplicaInv, MarkInv, CallAlone, Claims, Quiet
  <2>. QED  BY <1>1, <1>2, <1>4, <1>5, <2>1, TaskKeeps DEF MarkInv, TypeOK
<1>6. CASE Becomes(r, t2)
  <2> HIDE DEF t2
  <2>1. ASSUME task'[r] = t2 PROVE ReplicaInv(r)'
    BY <1>1, <1>3, <1>4, <2>1 DEF ReplicaInv, MarkInv, CallAlone, Claims, Quiet
  <2>. QED  BY <1>1, <1>3, <1>4, <1>6, <2>1, TaskKeeps DEF MarkInv, TypeOK
<1>. QED  BY <1>5, <1>6 DEF TaskRenews

\* After the sweep the index is completed, unless an older build was listed.
LEMMA KeepsTaskSweeps ==
  ASSUME GateInv, NEW r \in Replica, TaskSweeps(r)
  PROVE  GateInv'
<1> DEFINE t1 == [task[r] EXCEPT !.pc = "fill", !.owed = dark]
           t2 == [task[r] EXCEPT !.pc = "sleep", !.sees = FALSE]
<1>1. task[r] \in TaskState /\ ReplicaInv(r) /\ MarkInv /\ TypeOK
  BY DEF GateInv, TypeOK
<1>2. /\ t1 \in TaskState /\ t1.pc = "fill" /\ t1.sees = task[r].sees
      /\ t1.known = task[r].known /\ t1.owed = dark
      /\ t1.scanned = task[r].scanned /\ t1.found = task[r].found
      /\ t1.ready = task[r].ready
  BY <1>1, Zenon DEF TaskState, TypeOK
<1>3. /\ t2 \in TaskState /\ t2.pc = "sleep" /\ t2.sees = FALSE
      /\ t2.known = task[r].known /\ t2.owed = task[r].owed
      /\ t2.scanned = task[r].scanned /\ t2.found = task[r].found
      /\ t2.ready = task[r].ready
  BY <1>1, Zenon DEF TaskState, TypeOK
<1>4. UNCHANGED <<mark, dark, registered, lock, renewing, call, restarts, shut,
                  undeleted, missed, since>>
      /\ task[r].pc = "sweep"
  BY <1>1 DEF TaskSweeps, TypeOK, redis, history
<1>5. CASE Becomes(r, t1) /\ ~task[r].sees
  <2> HIDE DEF t1
  <2>1. ASSUME task'[r] = t1 PROVE ReplicaInv(r)'
    BY <1>1, <1>2, <1>4, <1>5, <2>1 DEF ReplicaInv, MarkInv, CallAlone, Claims, Quiet
  <2>. QED  BY <1>1, <1>2, <1>4, <1>5, <2>1, TaskKeeps DEF MarkInv, TypeOK
<1>6. CASE Becomes(r, t2)
  <2> HIDE DEF t2
  <2>1. ASSUME task'[r] = t2 PROVE ReplicaInv(r)'
    BY <1>1, <1>3, <1>4, <2>1 DEF ReplicaInv, MarkInv, CallAlone, Claims, Quiet
  <2>. QED  BY <1>1, <1>3, <1>4, <1>6, <2>1, TaskKeeps DEF MarkInv, TypeOK
<1>. QED  BY <1>5, <1>6 DEF TaskSweeps

\* The index is marked complete, or the command fails.
LEMMA KeepsTaskMarks ==
  ASSUME GateInv, NEW r \in Replica, TaskMarks(r)
  PROVE  GateInv'
<1> DEFINE t1 == [task[r] EXCEPT !.pc = "open"]
           t2 == [task[r] EXCEPT !.pc = "sleep"]
<1>1. task[r] \in TaskState /\ ReplicaInv(r) /\ MarkInv /\ TypeOK
  BY DEF GateInv, TypeOK
<1>2. /\ t1 \in TaskState /\ t1.pc = "open" /\ t1.sees = task[r].sees
      /\ t1.known = task[r].known /\ t1.owed = task[r].owed
      /\ t1.scanned = task[r].scanned /\ t1.found = task[r].found
      /\ t1.ready = task[r].ready
  BY <1>1 DEF TaskState, TypeOK
<1>3. /\ t2 \in TaskState /\ t2.pc = "sleep" /\ t2.sees = task[r].sees
      /\ t2.known = task[r].known /\ t2.owed = task[r].owed
      /\ t2.scanned = task[r].scanned /\ t2.found = task[r].found
      /\ t2.ready = task[r].ready
  BY <1>1, Zenon DEF TaskState, TypeOK
<1>4. UNCHANGED <<dark, registered, lock, renewing, call, restarts, shut,
                  undeleted, missed, since>>
      /\ task[r].pc = "mark"
  BY <1>1 DEF TaskMarks, TypeOK, redis, history
<1>5. CASE Becomes(r, t1) /\ mark' = TRUE
  <2> HIDE DEF t1
  <2>1. ASSUME task'[r] = t1 PROVE ReplicaInv(r)'
    BY <1>1, <1>2, <1>4, <2>1 DEF ReplicaInv, MarkInv, CallAlone, Claims, Quiet
  <2>2. MarkInv'
    BY <1>1, <1>4, <1>5 DEF MarkInv, ReplicaInv, Claims, Quiet
  <2>. QED  BY <1>1, <1>2, <1>4, <1>5, <2>1, <2>2, TaskKeeps DEF TypeOK
<1>6. CASE Becomes(r, t2) /\ mark' \in {mark, TRUE}
  <2> HIDE DEF t2
  <2>1. ASSUME task'[r] = t2 PROVE ReplicaInv(r)'
    BY <1>1, <1>3, <1>4, <2>1 DEF ReplicaInv, MarkInv, CallAlone, Claims, Quiet
  <2>2. MarkInv'
    BY <1>1, <1>4, <1>6 DEF MarkInv, ReplicaInv, Claims, Quiet
  <2>. QED  BY <1>1, <1>3, <1>4, <1>6, <2>1, <2>2, TaskKeeps, Zenon DEF TypeOK
<1>. QED  BY <1>5, <1>6, Zenon DEF TaskMarks

\* The notices of a step.
LEMMA NoticesTypes ==
  ASSUME TypeOK, NEW r \in Replica, Notices(r)
  PROVE  /\ shut' \in [Older -> SUBSET Replica]
         /\ \A o \in Older \ registered : shut'[o] = shut[o]
         /\ \A o \in registered :
              shut'[o] = IF o \in task[r].found /\ ~task[r].ready THEN shut[o] \cup {r} ELSE shut[o]
<1>1. /\ shut' \in [Older -> SUBSET Replica]
      /\ \A o \in Older : shut'[o] = IF o \in registered \cap task[r].found /\ ~task[r].ready
                                     THEN shut[o] \cup {r} ELSE shut[o]
  BY DEF TypeOK, Notices
<1>. QED  BY <1>1, Zenon DEF TypeOK

\* The mark is deleted, or its DEL fails; the replica has shut its gate.
LEMMA KeepsTaskUnmarks ==
  ASSUME GateInv, NEW r \in Replica, TaskUnmarks(r)
  PROVE  GateInv'
<1> DEFINE t == [task[r] EXCEPT !.pc = "renew"]
           b(o) == o \in task[r].found /\ ~task[r].ready
<1>1. task[r] \in TaskState /\ ReplicaInv(r) /\ MarkInv /\ TypeOK
  BY DEF GateInv, TypeOK
<1>2. /\ t \in TaskState /\ t.pc = "renew" /\ t.sees = task[r].sees
      /\ t.known = task[r].known /\ t.owed = task[r].owed
      /\ t.scanned = task[r].scanned /\ t.found = task[r].found
      /\ t.ready = task[r].ready
  BY <1>1 DEF TaskState
<1>3. Becomes(r, t) /\ UNCHANGED <<dark, registered, lock, renewing, call,
                                   restarts, missed, since>>
      /\ task[r].pc = "del"
  BY DEF TaskUnmarks
<1>4. mark' \in {mark, FALSE} /\ undeleted' = (mark' /\ registered # {})
  BY Zenon DEF TaskUnmarks
<1>5. mark' \in BOOLEAN /\ undeleted' \in BOOLEAN
  BY <1>1, <1>4, Zenon DEF TypeOK
<1>6. /\ shut' \in [Older -> SUBSET Replica]
      /\ \A o \in Older \ registered : shut'[o] = shut[o]
      /\ \A o \in registered : shut'[o] = IF b(o) THEN shut[o] \cup {r} ELSE shut[o]
  BY <1>1, NoticesTypes, Zenon DEF TaskUnmarks
<1> HIDE DEF t
<1>7. ASSUME task'[r] = t PROVE ReplicaInv(r)'
  <2>1. \A o \in registered : r \in shut'[o] => Quiet(r, o)'
    BY <1>1, <1>2, <1>3, <1>6, <1>7, Zenon DEF ReplicaInv, Quiet
  <2>2. registered = {} /\ ~missed => Claims(r)'
    BY <1>1, <1>2, <1>3, <1>7, Zenon DEF ReplicaInv, Claims
  <2>. QED  BY <1>1, <1>2, <1>3, <1>7, <2>1, <2>2 DEF ReplicaInv, CallAlone
<1>8. MarkInv'
  <2>1. registered = {} /\ ~missed /\ mark' => dark = {}
    BY <1>1, <1>4, Zenon DEF MarkInv
  <2>2. \A o \in registered : mark' => undeleted'
    BY <1>4, Zenon
  <2>3. \A o \in Older \ registered : shut'[o] = {}
    BY <1>1, <1>6, Zenon DEF MarkInv
  <2>. QED  BY <1>3, <2>1, <2>2, <2>3, Zenon DEF MarkInv
<1>9. \A o \in registered : shut'[o] \subseteq shut[o] \cup {r}
  BY <1>6, Zenon
<1>. QED  BY <1>1, <1>2, <1>3, <1>5, <1>6, <1>7, <1>8, <1>9, TaskKeeps DEF TypeOK

\* A backfill that ends leaves no key in `dark' that it owed.
LEMMA KeepsTaskFills ==
  ASSUME GateInv, NEW r \in Replica, TaskFills(r)
  PROVE  GateInv'
<1> DEFINE t1 == [task[r] EXCEPT !.pc = "recheck", !.owed = {}, !.scanned = FALSE, !.found = {}]
           t2 == [task[r] EXCEPT !.pc = "sleep", !.owed = {}]
<1>1. task[r] \in TaskState /\ ReplicaInv(r) /\ MarkInv /\ TypeOK
  BY DEF GateInv, TypeOK
<1>2. /\ t1 \in TaskState /\ t1.pc = "recheck" /\ t1.sees = task[r].sees
      /\ t1.known = task[r].known /\ t1.owed = {} /\ t1.scanned = FALSE /\ t1.found = {}
      /\ t1.ready = task[r].ready
  BY <1>1, Zenon DEF TaskState
<1>3. /\ t2 \in TaskState /\ t2.pc = "sleep" /\ t2.sees = task[r].sees
      /\ t2.known = task[r].known /\ t2.owed = {}
      /\ t2.scanned = task[r].scanned /\ t2.found = task[r].found
      /\ t2.ready = task[r].ready
  BY <1>1, Zenon DEF TaskState
<1>4. UNCHANGED <<mark, registered, lock, renewing, call, restarts, shut, undeleted, missed>>
      /\ task[r].pc = "fill" /\ since' \in [Replica -> SUBSET Older]
  BY <1>1 DEF TaskFills, TypeOK
<1>5. CASE Becomes(r, t1) /\ Fills(task[r].owed)
  <2> HIDE DEF t1
  <2>1. dark' \subseteq dark /\ (dark \subseteq task[r].owed => dark' = {})
    BY <1>5, Zenon DEF Fills
  <2>2. ASSUME task'[r] = t1 PROVE ReplicaInv(r)'
    BY <1>1, <1>2, <1>4, <2>1, <2>2 DEF ReplicaInv, CallAlone, Claims, Quiet
  <2>3. MarkInv'
    BY <1>1, <1>4, <2>1 DEF MarkInv
  <2>. QED  BY <1>1, <1>2, <1>4, <1>5, <2>1, <2>2, <2>3, TaskKeeps DEF TypeOK
<1>6. CASE Becomes(r, t2) /\ UNCHANGED dark
  <2> HIDE DEF t2
  <2>1. ASSUME task'[r] = t2 PROVE ReplicaInv(r)'
    BY <1>1, <1>3, <1>4, <1>6, <2>1, Zenon DEF ReplicaInv, CallAlone, Claims, Quiet
  <2>. QED  BY <1>1, <1>3, <1>4, <1>6, <2>1, TaskKeeps DEF MarkInv, TypeOK
<1>. QED  BY <1>5, <1>6 DEF TaskFills

\* The second list.
LEMMA KeepsTaskRechecks ==
  ASSUME GateInv, NEW r \in Replica, TaskRechecks(r)
  PROVE  GateInv'
<1> DEFINE t1(ids) == [task[r] EXCEPT !.pc = IF Lists(r, ids) THEN "sleep" ELSE "mark",
                                      !.scanned = TRUE, !.found = Scan(r)]
           t2 == [task[r] EXCEPT !.pc = "sleep"]
<1>1. task[r] \in TaskState /\ ReplicaInv(r) /\ MarkInv /\ TypeOK
  BY DEF GateInv, TypeOK
<1>2. /\ Scan(r) \in SUBSET Older
      /\ call[r].pc = "list" => registered \subseteq Scan(r)
  BY <1>1, ScanKeeps
<1>3. UNCHANGED <<mark, dark, registered, lock, renewing, call, restarts,
                  shut, undeleted, missed>>
      /\ task[r].pc = "recheck"
  BY Zenon DEF TaskRechecks, redis
<1>4. \A o \in registered : r \notin shut[o]
  BY <1>1, <1>3, Zenon DEF ReplicaInv, Quiet
<1>5. since' \in [Replica -> SUBSET Older]
  BY <1>1, Zenon DEF TaskRechecks, TypeOK
<1>6. ASSUME NEW ids \in SUBSET Older, Becomes(r, t1(ids)) PROVE GateInv'
  <2> DEFINE t == t1(ids)
  <2>1. /\ t \in TaskState /\ t.pc \in {"sleep", "mark"}
        /\ t.sees = task[r].sees /\ t.known = task[r].known /\ t.owed = task[r].owed
        /\ t.scanned = TRUE /\ t.found = Scan(r) /\ t.ready = task[r].ready
    BY <1>1, <1>2, Zenon DEF TaskState
  <2>2. Becomes(r, t)
    BY <1>6
  <2> HIDE DEF t
  <2>3. ASSUME task'[r] = t PROVE ReplicaInv(r)'
    BY <1>1, <1>2, <1>3, <1>4, <2>1, <2>3 DEF ReplicaInv, CallAlone, Claims
  <2>. QED  BY <1>1, <1>3, <1>5, <2>1, <2>2, <2>3, TaskKeeps DEF MarkInv, TypeOK
<1>7. CASE Becomes(r, t2)
  <2>1. /\ t2 \in TaskState /\ t2.pc = "sleep" /\ t2.sees = task[r].sees
        /\ t2.known = task[r].known /\ t2.owed = task[r].owed
        /\ t2.scanned = task[r].scanned /\ t2.found = task[r].found
        /\ t2.ready = task[r].ready
    BY <1>1 DEF TaskState
  <2> HIDE DEF t2
  <2>2. ASSUME task'[r] = t2 PROVE ReplicaInv(r)'
    BY <1>1, <1>3, <1>4, <2>1, <2>2 DEF ReplicaInv, CallAlone, Claims
  <2>. QED  BY <1>1, <1>3, <1>5, <1>7, <2>1, <2>2, TaskKeeps DEF MarkInv, TypeOK
<1>. QED  BY <1>6, <1>7, Zenon DEF TaskRechecks

-----------------------------------------------------------------------------
(* complete_key_index and a restart *)

\* The cached scan is forgotten.
LEMMA KeepsCallForgets ==
  ASSUME GateInv, NEW r \in Caller, CallForgets(r)
  PROVE  GateInv'
<1> DEFINE t == [task[r] EXCEPT !.scanned = FALSE, !.found = {}]
           c == [call[r] EXCEPT !.pc = "list"]
<1>1. r \in Replica /\ task[r] \in TaskState /\ call[r] \in CallState
      /\ ReplicaInv(r) /\ MarkInv /\ TypeOK
  BY GateAssumption DEF GateInv, TypeOK
<1>2. /\ t \in TaskState /\ t.pc = task[r].pc /\ t.sees = task[r].sees
      /\ t.known = task[r].known /\ t.owed = task[r].owed /\ t.scanned = FALSE /\ t.found = {}
      /\ t.ready = task[r].ready
  BY <1>1, Zenon DEF TaskState
<1>3. c \in CallState /\ c.pc = "list"
  BY <1>1 DEF CallState, NoCall, TypeOK
<1>4. task' = [task EXCEPT ![r] = t] /\ call' = [call EXCEPT ![r] = c]
      /\ UNCHANGED <<mark, dark, registered, lock, renewing, restarts, shut,
                     undeleted, missed, since>>
      /\ call[r].pc = "idle"
  BY <1>1 DEF CallForgets, Becomes, redis, history, TypeOK
<1> HIDE DEF t, c
<1>5. ASSUME task'[r] = t, call'[r] = c PROVE ReplicaInv(r)'
  BY <1>1, <1>2, <1>3, <1>4, <1>5 DEF ReplicaInv, CallAlone, Claims, Quiet
<1>6. MarkInv'
  BY <1>1, <1>4 DEF MarkInv, ReplicaInv, CallAlone, Claims
<1>. QED  BY <1>1, <1>2, <1>3, <1>4, <1>5, <1>6, StepKeeps, Zenon DEF TypeOK

\* The list, which lets the call go on only when no older build is registered.
LEMMA KeepsCallLists ==
  ASSUME GateInv, NEW r \in Caller, CallLists(r)
  PROVE  GateInv'
<1>1. r \in Replica /\ task[r] \in TaskState /\ call[r] \in CallState
      /\ ReplicaInv(r) /\ MarkInv /\ TypeOK
  BY GateAssumption DEF GateInv, TypeOK
<1>2. PICK ids \in SUBSET Older :
        call' = [call EXCEPT ![r] = IF Lists(r, ids) THEN NoCall
                                    ELSE [pc |-> "fill", owed |-> dark]]
  BY Zenon DEF CallLists
<1> DEFINE t == [task[r] EXCEPT !.scanned = TRUE, !.found = Scan(r)]
           c == IF Lists(r, ids) THEN NoCall ELSE [pc |-> "fill", owed |-> dark]
<1>3. /\ Scan(r) \in SUBSET Older
      /\ \A o \in registered : r \in shut[o] => o \in Scan(r)
  BY <1>1, ScanKeeps
<1>4. /\ t \in TaskState /\ t.pc = task[r].pc /\ t.sees = task[r].sees
      /\ t.known = task[r].known /\ t.owed = task[r].owed
      /\ t.scanned = TRUE /\ t.found = Scan(r) /\ t.ready = task[r].ready
  BY <1>1, <1>3, Zenon DEF TaskState
<1>5. c \in CallState /\ (c.pc = "idle" \/ (~Lists(r, ids) /\ c.pc = "fill" /\ c.owed = dark))
  BY <1>1 DEF CallState, NoCall, TypeOK
<1>6. task' = [task EXCEPT ![r] = t] /\ call' = [call EXCEPT ![r] = c]
      /\ UNCHANGED <<mark, dark, registered, lock, renewing, restarts, shut,
                     undeleted, missed, since>>
      /\ call[r].pc = "list"
  BY <1>2, Zenon DEF CallLists, Becomes, redis, history
<1>7. ~Lists(r, ids) => registered = {}
  <2>1. ASSUME NEW o \in registered PROVE Lists(r, ids)
    BY <1>1, <1>6, <2>1, ListsRegistered DEF ReplicaInv, CallAlone
  <2>. QED  BY <2>1
<1> HIDE DEF t, c
<1>8. ASSUME task'[r] = t, call'[r] = c PROVE ReplicaInv(r)'
  BY <1>1, <1>3, <1>4, <1>5, <1>6, <1>7, <1>8, Zenon DEF ReplicaInv, CallAlone, Claims, Quiet
<1>9. MarkInv'
  BY <1>1, <1>6 DEF MarkInv
<1>. QED  BY <1>1, <1>4, <1>5, <1>6, <1>8, <1>9, StepKeeps, Zenon DEF TypeOK

\* Its backfill.
LEMMA KeepsCallFills ==
  ASSUME GateInv, NEW r \in Caller, CallFills(r)
  PROVE  GateInv'
<1> DEFINE t == task[r]
           c == [pc |-> "mark", owed |-> {}]
<1>1. r \in Replica /\ task[r] \in TaskState /\ call[r] \in CallState
      /\ ReplicaInv(r) /\ MarkInv /\ TypeOK
  BY GateAssumption DEF GateInv, TypeOK
<1>2. /\ t \in TaskState /\ t.pc = task[r].pc /\ t.sees = task[r].sees
      /\ t.known = task[r].known /\ t.owed = task[r].owed
      /\ t.scanned = task[r].scanned /\ t.found = task[r].found
      /\ t.ready = task[r].ready
  BY <1>1 DEF TaskState
<1>3. c \in CallState /\ c.pc = "mark"
  BY <1>1 DEF CallState, NoCall, TypeOK
<1>4. task' = [task EXCEPT ![r] = t] /\ call' = [call EXCEPT ![r] = c]
      /\ UNCHANGED <<mark, registered, lock, renewing, restarts, shut,
                     undeleted, missed, since>>
      /\ call[r].pc = "fill"
      /\ dark' \subseteq dark /\ (dark \subseteq call[r].owed => dark' = {})
  BY <1>1 DEF CallFills, Becomes, redis, history, TypeOK, Fills
<1> HIDE DEF t, c
<1>5. ASSUME task'[r] = t, call'[r] = c PROVE ReplicaInv(r)'
  BY <1>1, <1>2, <1>3, <1>4, <1>5 DEF ReplicaInv, CallAlone, Claims, Quiet
<1>6. MarkInv'
  BY <1>1, <1>4 DEF MarkInv, ReplicaInv, CallAlone, Claims
<1>. QED  BY <1>1, <1>2, <1>3, <1>4, <1>5, <1>6, StepKeeps, Zenon DEF TypeOK

\* Its mark.
LEMMA KeepsCallMarks ==
  ASSUME GateInv, NEW r \in Caller, CallMarks(r)
  PROVE  GateInv'
<1> DEFINE t == task[r]
           c == [call[r] EXCEPT !.pc = "open"]
<1>1. r \in Replica /\ task[r] \in TaskState /\ call[r] \in CallState
      /\ ReplicaInv(r) /\ MarkInv /\ TypeOK
  BY GateAssumption DEF GateInv, TypeOK
<1>2. /\ t \in TaskState /\ t.pc = task[r].pc /\ t.sees = task[r].sees
      /\ t.known = task[r].known /\ t.owed = task[r].owed
      /\ t.scanned = task[r].scanned /\ t.found = task[r].found
      /\ t.ready = task[r].ready
  BY <1>1 DEF TaskState
<1>3. c \in CallState /\ c.pc = "open"
  BY <1>1 DEF CallState, NoCall, TypeOK
<1>4. task' = [task EXCEPT ![r] = t] /\ call' = [call EXCEPT ![r] = c]
      /\ UNCHANGED <<dark, registered, lock, renewing, restarts, shut,
                     undeleted, missed, since>>
      /\ call[r].pc = "mark" /\ mark' = TRUE
  BY <1>1 DEF CallMarks, Becomes, redis, history, TypeOK
<1> HIDE DEF t, c
<1>5. ASSUME task'[r] = t, call'[r] = c PROVE ReplicaInv(r)'
  BY <1>1, <1>2, <1>3, <1>4, <1>5 DEF ReplicaInv, CallAlone, Claims, Quiet
<1>6. MarkInv'
  BY <1>1, <1>4 DEF MarkInv, ReplicaInv, CallAlone, Claims
<1>. QED  BY <1>1, <1>2, <1>3, <1>4, <1>5, <1>6, StepKeeps, Zenon DEF TypeOK

\* It opens the gate.
LEMMA KeepsCallOpens ==
  ASSUME GateInv, NEW r \in Caller, CallOpens(r)
  PROVE  GateInv'
<1> DEFINE t == [task[r] EXCEPT !.ready = TRUE]
           c == NoCall
<1>1. r \in Replica /\ task[r] \in TaskState /\ call[r] \in CallState
      /\ ReplicaInv(r) /\ MarkInv /\ TypeOK
  BY GateAssumption DEF GateInv, TypeOK
<1>2. /\ t \in TaskState /\ t.pc = task[r].pc /\ t.sees = task[r].sees
      /\ t.known = task[r].known /\ t.owed = task[r].owed
      /\ t.scanned = task[r].scanned /\ t.found = task[r].found
      /\ t.ready = TRUE
  BY <1>1, Zenon DEF TaskState
<1>3. c \in CallState /\ c.pc = "idle"
  BY <1>1 DEF CallState, NoCall, TypeOK
<1>4. task' = [task EXCEPT ![r] = t] /\ call' = [call EXCEPT ![r] = c]
      /\ UNCHANGED <<mark, dark, registered, lock, renewing, restarts, shut,
                     undeleted, missed, since>>
      /\ call[r].pc = "open"
  BY <1>1 DEF CallOpens, Becomes, redis, history, TypeOK
<1> HIDE DEF t, c
<1>5. ASSUME task'[r] = t, call'[r] = c PROVE ReplicaInv(r)'
  BY <1>1, <1>2, <1>3, <1>4, <1>5 DEF ReplicaInv, CallAlone, Claims, Quiet
<1>6. MarkInv'
  BY <1>1, <1>4 DEF MarkInv, ReplicaInv, CallAlone, Claims
<1>. QED  BY <1>1, <1>2, <1>3, <1>4, <1>5, <1>6, StepKeeps, Zenon DEF TypeOK

\* One of its commands fails.
LEMMA KeepsCallFails ==
  ASSUME GateInv, NEW r \in Caller, CallFails(r)
  PROVE  GateInv'
<1> DEFINE t == task[r]
           c == NoCall
<1>1. r \in Replica /\ task[r] \in TaskState /\ call[r] \in CallState
      /\ ReplicaInv(r) /\ MarkInv /\ TypeOK
  BY GateAssumption DEF GateInv, TypeOK
<1>2. /\ t \in TaskState /\ t.pc = task[r].pc /\ t.sees = task[r].sees
      /\ t.known = task[r].known /\ t.owed = task[r].owed
      /\ t.scanned = task[r].scanned /\ t.found = task[r].found
      /\ t.ready = task[r].ready
  BY <1>1 DEF TaskState
<1>3. c \in CallState /\ c.pc = "idle"
  BY <1>1 DEF CallState, NoCall, TypeOK
<1>4. task' = [task EXCEPT ![r] = t] /\ call' = [call EXCEPT ![r] = c]
      /\ UNCHANGED <<dark, registered, lock, renewing, restarts, shut,
                     undeleted, missed, since>>
      /\ call[r].pc \in {"list", "fill", "mark"}
      /\ mark' \in {mark, mark \/ call[r].pc = "mark"}
  BY <1>1 DEF CallFails, Becomes, redis, history, TypeOK
<1> HIDE DEF t, c
<1>5. ASSUME task'[r] = t, call'[r] = c PROVE ReplicaInv(r)'
  BY <1>1, <1>2, <1>3, <1>4, <1>5 DEF ReplicaInv, CallAlone, Claims, Quiet
<1>6. MarkInv'
  BY <1>1, <1>4, Zenon DEF MarkInv, ReplicaInv, CallAlone, Claims
<1>. QED  BY <1>1, <1>2, <1>3, <1>4, <1>5, <1>6, StepKeeps, Zenon DEF TypeOK

\* A restart.
LEMMA KeepsRestart ==
  ASSUME GateInv, NEW r \in Replica, Restart(r)
  PROVE  GateInv'
<1>1. ReplicaInv(r) /\ MarkInv /\ TypeOK
  BY DEF GateInv
<1>2. Booted \in TaskState /\ NoCall \in CallState
  BY DEF TaskState, CallState, Booted, NoCall
<1>3. task' = [task EXCEPT ![r] = Booted] /\ call' = [call EXCEPT ![r] = NoCall]
      /\ UNCHANGED <<mark, dark, registered, lock, shut, undeleted, missed, since>>
      /\ renewing' \subseteq Replica /\ restarts' \in 0..MaxRestarts
  <2>1. restarts' \in 0..MaxRestarts
    BY <1>1, GateAssumption DEF Restart, TypeOK
  <2>2. renewing' \subseteq Replica
    BY <1>1 DEF Restart, TypeOK
  <2>. QED  BY <2>1, <2>2, Zenon DEF Restart, Becomes, history
<1>4. ASSUME task'[r] = Booted, call'[r] = NoCall PROVE ReplicaInv(r)'
  BY <1>1, <1>3, <1>4 DEF ReplicaInv, CallAlone, Claims, Quiet, Booted, NoCall
<1>5. MarkInv'
  BY <1>1, <1>3 DEF MarkInv
<1>. QED  BY <1>1, <1>2, <1>3, <1>4, <1>5, StepKeeps, Zenon DEF TypeOK
-----------------------------------------------------------------------------
(* Older builds, keys, the lock *)

\* A build that registers finds no call of complete_key_index, and its history is new.
LEMMA KeepsOlderRegisters ==
  ASSUME GateInv, ~Overlap, NEW o \in Older, OlderRegisters(o)
  PROVE  GateInv'
<1>1. TypeOK /\ MarkInv /\ \A r \in Replica : ReplicaInv(r)
  BY DEF GateInv
<1>2. /\ registered' = registered \cup {o} /\ missed' = FALSE
      /\ \A r \in Caller : call[r].pc = "idle"
      /\ o \notin registered
      /\ UNCHANGED <<mark, dark, lock, renewing, task, call, restarts, shut, undeleted, since>>
  BY DEF OlderRegisters
<1>3. TypeOK'
  BY <1>1, <1>2, Zenon DEF TypeOK
<1>4. shut[o] = {} /\ Replica # {}
  BY <1>1, <1>2, GateAssumption DEF MarkInv
<1>5. MarkInv'
  BY <1>1, <1>2, <1>4, Zenon DEF MarkInv
<1>6. ASSUME NEW r \in Replica PROVE ReplicaInv(r)'
  <2>1. call[r].pc = "idle"
    BY <1>1, <1>2 DEF ReplicaInv, CallAlone
  <2>. QED  BY <1>1, <1>2, <1>4, <2>1, Zenon DEF ReplicaInv, CallAlone, Claims, Quiet
<1>. QED  BY <1>3, <1>5, <1>6 DEF GateInv

\* A build writes while it is registered, when nothing is claimed.
LEMMA KeepsOlderWrites ==
  ASSUME GateInv, NEW k \in Key, OlderWrites(k)
  PROVE  GateInv'
<1>1. TypeOK /\ MarkInv /\ \A r \in Replica : ReplicaInv(r)
  BY DEF GateInv
<1>2. /\ dark' = dark \cup {k} /\ registered # {}
      /\ task' = [r \in Replica |-> [task[r] EXCEPT !.owed = @ \ {k}]]
      /\ call' = [r \in Replica |-> [call[r] EXCEPT !.owed = @ \ {k}]]
      /\ UNCHANGED <<mark, registered, lock, renewing, restarts, shut,
                     undeleted, missed, since>>
  BY DEF OlderWrites, history
<1>3. ASSUME NEW r \in Replica
      PROVE  /\ task'[r] \in TaskState /\ task'[r].owed = task[r].owed \ {k}
             /\ task'[r].pc = task[r].pc /\ task'[r].sees = task[r].sees
             /\ task'[r].known = task[r].known /\ task'[r].scanned = task[r].scanned
             /\ task'[r].found = task[r].found
             /\ task'[r].ready = task[r].ready
             /\ call'[r] \in CallState /\ call'[r].owed = call[r].owed \ {k}
             /\ call'[r].pc = call[r].pc
  <2>1. task[r] \in TaskState /\ call[r] \in CallState
    BY <1>1 DEF TypeOK
  <2>2. task'[r] = [task[r] EXCEPT !.owed = @ \ {k}] /\ call'[r] = [call[r] EXCEPT !.owed = @ \ {k}]
    BY <1>2
  <2>. QED  BY <2>1, <2>2 DEF TaskState, CallState
<1>4. task' \in [Replica -> TaskState] /\ call' \in [Replica -> CallState]
  BY <1>2, <1>3, Zenon
<1>5. TypeOK'
  BY <1>1, <1>2, <1>4 DEF TypeOK
<1>6. MarkInv'
  BY <1>1, <1>2, Zenon DEF MarkInv
<1>7. ASSUME NEW r \in Replica PROVE ReplicaInv(r)'
  <2>1. registered # {} /\ registered' = registered /\ shut' = shut
    BY <1>2
  <2>2. ReplicaInv(r)
    BY <1>1
  <2>3. CallAlone(r)'
    BY <2>1, <2>2, <1>3 DEF ReplicaInv, CallAlone
  <2>4. \A o \in registered : r \in shut[o] => Quiet(r, o)'
    BY <2>1, <2>2, <1>3 DEF ReplicaInv, Quiet
  <2>. QED  BY <2>1, <2>2, <1>3, <2>3, <2>4 DEF ReplicaInv
<1>. QED  BY <1>5, <1>6, <1>7 DEF GateInv

\* A build that leaves when every replica is quiet and the mark is gone leaves nothing
\* that could be false; for any other nothing is claimed.
LEMMA KeepsOlderLeaves ==
  ASSUME GateInv, NEW o \in Older, OlderLeaves(o)
  PROVE  GateInv'
<1>1. TypeOK /\ MarkInv /\ \A r \in Replica : ReplicaInv(r)
  BY DEF GateInv
<1>2. /\ o \in registered /\ registered' = registered \ {o}
      /\ missed' = (shut[o] # Replica \/ undeleted)
      /\ undeleted' = (undeleted /\ registered' # {})
      /\ since' = [r \in Replica |-> since[r] \ {o}]
      /\ UNCHANGED <<mark, dark, lock, renewing, task, call, restarts>>
  BY DEF OlderLeaves
<1>3. /\ shut' \in [Older -> SUBSET Replica] /\ shut'[o] = {}
      /\ \A p \in Older \ {o} : shut'[p] = shut[p]
  BY <1>1 DEF OlderLeaves, TypeOK
<1>4. TypeOK'
  <2>1. since' \in [Replica -> SUBSET Older]
    BY <1>1, <1>2 DEF TypeOK
  <2>2. missed' \in BOOLEAN /\ undeleted' \in BOOLEAN
    BY <1>2, Zenon
  <2>. QED  BY <1>1, <1>2, <1>3, <2>1, <2>2 DEF TypeOK
<1>5. registered \subseteq Older
  BY <1>1 DEF TypeOK
<1>6. MarkInv'
  <2>1. \A p \in registered' : shut'[p] = Replica /\ mark => undeleted'
    BY <1>1, <1>2, <1>3, <1>5, Zenon DEF MarkInv
  <2>2. \A p \in Older \ registered' : shut'[p] = {}
    BY <1>1, <1>2, <1>3, Zenon DEF MarkInv
  <2>3. ~missed' => ~mark
    BY <1>1, <1>2, Zenon DEF MarkInv
  <2>. QED  BY <1>2, <2>1, <2>2, <2>3, Zenon DEF MarkInv
<1>7. ASSUME NEW r \in Replica PROVE ReplicaInv(r)'
  <2>1. CallAlone(r)'
    BY <1>1, <1>2 DEF ReplicaInv, CallAlone
  <2>2. ~missed' => Claims(r)'
    <3> SUFFICES ASSUME ~missed' PROVE Claims(r)'
      OBVIOUS
    <3>1. Quiet(r, o) /\ call[r].pc \notin {"fill", "mark", "open"} /\ ~task[r].known
      BY <1>1, <1>2, Zenon DEF ReplicaInv, CallAlone, Quiet
    <3>. QED  BY <1>2, <3>1 DEF Claims, Quiet
  <2>3. \A p \in registered' : r \in shut'[p] => Quiet(r, p)'
    BY <1>1, <1>2, <1>3, <1>5 DEF ReplicaInv, Quiet
  <2>. QED  BY <1>1, <1>2, <2>1, <2>2, <2>3, Zenon DEF ReplicaInv
<1>. QED  BY <1>4, <1>6, <1>7 DEF GateInv

\* A key that goes leaves no claim false.
LEMMA KeepsDarkKeyGoes ==
  ASSUME GateInv, NEW k \in Key, DarkKeyGoes(k)
  PROVE  GateInv'
<1>1. TypeOK /\ MarkInv /\ \A r \in Replica : ReplicaInv(r)
  BY DEF GateInv
<1>2. /\ dark' = dark \ {k}
      /\ UNCHANGED <<mark, registered, lock, renewing, task, call, restarts, shut,
                     undeleted, missed, since>>
  BY DEF DarkKeyGoes, history
<1>3. TypeOK'
  BY <1>1, <1>2 DEF TypeOK
<1>4. MarkInv'
  BY <1>1, <1>2 DEF MarkInv
<1>5. ASSUME NEW r \in Replica PROVE ReplicaInv(r)'
  BY <1>1, <1>2, OthersKeep
<1>. QED  BY <1>3, <1>4, <1>5 DEF GateInv

\* Steps that change nothing but the lock and its renewals.
LEMMA LockKeeps ==
  ASSUME GateInv, UNCHANGED <<mark, dark, registered, task, call, restarts, shut,
                              undeleted, missed, since>>,
         lock' \in Replica \cup {Nobody}, renewing' \subseteq Replica
  PROVE  GateInv'
<1>1. TypeOK'
  BY DEF GateInv, TypeOK
<1>2. MarkInv'
  BY Zenon DEF GateInv, MarkInv
<1>3. ASSUME NEW r \in Replica PROVE ReplicaInv(r)'
  BY DEF GateInv, ReplicaInv, CallAlone, Claims, Quiet
<1>. QED  BY <1>1, <1>2, <1>3 DEF GateInv

-----------------------------------------------------------------------------
\* Every step keeps the invariant.
LEMMA NextGateInv ==
  ASSUME GateInv, ~Overlap, [Next]_vars
  PROVE  GateInv'
<1>1. ASSUME NEW o \in Older, OlderRegisters(o) \/ OlderLeaves(o) PROVE GateInv'
  BY <1>1, KeepsOlderRegisters, KeepsOlderLeaves
<1>2. ASSUME NEW k \in Key, OlderWrites(k) \/ DarkKeyGoes(k) PROVE GateInv'
  BY <1>2, KeepsOlderWrites, KeepsDarkKeyGoes
<1>3. CASE LockLapses
  BY <1>3, LockKeeps DEF LockLapses, GateInv, TypeOK, history
<1>4. ASSUME NEW r \in Replica, RenewalFails(r) PROVE GateInv'
  BY <1>4, LockKeeps DEF RenewalFails, GateInv, TypeOK, history
<1>5. ASSUME NEW r \in Replica, ScanAges(r) \/ Settles(r) \/ Restart(r) \/ OtherList(r)
      PROVE  GateInv'
  BY <1>5, KeepsScanAges, KeepsSettles, KeepsRestart, KeepsOtherList
<1>6. ASSUME NEW r \in Replica, TaskStep(r) PROVE GateInv'
  BY <1>6, KeepsTaskLists, KeepsTaskShuts, KeepsTaskUnmarks, KeepsTaskReads, KeepsTaskSets,
     KeepsTaskRenews, KeepsTaskAcquires, KeepsTaskAcquireFails, KeepsTaskSweeps,
     KeepsTaskFills, KeepsTaskRechecks, KeepsTaskMarks, KeepsTaskOpens DEF TaskStep
<1>7. ASSUME NEW r \in Caller, CallStep(r) PROVE GateInv'
  BY <1>7, KeepsCallForgets, KeepsCallLists, KeepsCallFills, KeepsCallMarks, KeepsCallOpens,
     KeepsCallFails DEF CallStep
<1>8. CASE UNCHANGED vars
  BY <1>8, LockKeeps DEF vars, redis, history, GateInv, TypeOK
<1>. QED  BY <1>1, <1>2, <1>3, <1>4, <1>5, <1>6, <1>7, <1>8 DEF Next

\* Once no older build is registered, listings that read the index have every live key, for
\* any replicas, keys, restarts and failures (gate_index, complete_index), when no older
\* build registers during complete_key_index, and the last one left after every replica had
\* shut its gate for it and not after a DEL of the mark that failed.
THEOREM ListingsCompleteHolds == ~Overlap => (Spec => []ListingsComplete)
<1> SUFFICES ASSUME ~Overlap PROVE Spec => []ListingsComplete
  OBVIOUS
<1>1. Init => GateInv
  BY InitGateInv
<1>2. GateInv /\ [Next]_vars => GateInv'
  BY NextGateInv
<1>3. GateInv => ListingsComplete
  BY ZenonT(30) DEF GateInv, ReplicaInv, Claims, ListingsComplete
<1>. QED  BY <1>1, <1>2, <1>3, PTL DEF Spec
-----------------------------------------------------------------------------
\* A task's step turns index_ready on only after reading the mark or writing it.
LEMMA TaskOpensOnly ==
  ASSUME TypeOK, NEW r \in Replica, TaskStep(r), NEW q \in Replica,
         ~task[q].ready, task'[q].ready
  PROVE  task[q].pc \in {"set", "open"}
<1>1. ASSUME NEW t, Becomes(r, t), t.ready => task[r].ready \/ task[r].pc \in {"set", "open"}
      PROVE  task[q].pc \in {"set", "open"}
  BY <1>1 DEF Becomes, TypeOK
<1>2. task[r] \in TaskState
  BY DEF TypeOK
<1>3. CASE TaskLists(r)   BY <1>1, <1>2, <1>3, Zenon DEF TaskLists, TaskState
<1>4. CASE TaskShuts(r)   BY <1>1, <1>2, <1>4, Zenon DEF TaskShuts, TaskState
<1>5. CASE TaskUnmarks(r)   BY <1>1, <1>2, <1>5 DEF TaskUnmarks, TaskState
<1>6. CASE TaskReads(r)   BY <1>1, <1>2, <1>6, Zenon DEF TaskReads, TaskState
<1>7. CASE TaskRenews(r)   BY <1>1, <1>2, <1>7, Zenon DEF TaskRenews, TaskState
<1>8. CASE TaskAcquires(r)   BY <1>1, <1>2, <1>8, Zenon DEF TaskAcquires, TaskState
<1>9. CASE TaskAcquireFails(r)   BY <1>1, <1>2, <1>9, Zenon DEF TaskAcquireFails, TaskState
<1>10. CASE TaskSweeps(r)   BY <1>1, <1>2, <1>10, Zenon DEF TaskSweeps, TaskState
<1>11. CASE TaskFills(r)   BY <1>1, <1>2, <1>11, Zenon DEF TaskFills, TaskState
<1>12. CASE TaskRechecks(r)   BY <1>1, <1>2, <1>12, Zenon DEF TaskRechecks, TaskState
<1>13. CASE TaskMarks(r)   BY <1>1, <1>2, <1>13, Zenon DEF TaskMarks, TaskState
<1>14. CASE TaskSets(r) \/ TaskOpens(r)   BY <1>1, <1>14, Zenon DEF TaskSets, TaskOpens
<1>. QED  BY <1>3, <1>4, <1>5, <1>6, <1>7, <1>8,
             <1>9, <1>10, <1>11, <1>12, <1>13, <1>14 DEF TaskStep

\* Nor does anything else turn it on but complete_key_index at its end.
LEMMA OpensOnly ==
  ASSUME TypeOK, Next, NEW q \in Replica, ~task[q].ready, task'[q].ready
  PROVE  task[q].pc \in {"set", "open"} \/ call[q].pc = "open"
<1>1. ASSUME NEW o \in Older, OlderRegisters(o) \/ OlderLeaves(o) PROVE FALSE
  BY <1>1 DEF OlderRegisters, OlderLeaves
<1>2. ASSUME NEW k \in Key, OlderWrites(k) \/ DarkKeyGoes(k) PROVE FALSE
  <2>1. task[q] \in TaskState
    BY DEF TypeOK
  <2>. QED  BY <1>2, <2>1 DEF OlderWrites, DarkKeyGoes, TaskState
<1>3. CASE LockLapses
  BY <1>3 DEF LockLapses
<1>4. ASSUME NEW r \in Replica, TaskStep(r) PROVE task[q].pc \in {"set", "open"}
  BY <1>4, TaskOpensOnly, Zenon
<1>5. ASSUME NEW r \in Replica,
             ScanAges(r) \/ Settles(r) \/ RenewalFails(r) \/ Restart(r)
             \/ OtherList(r) \/ CallForgets(r) \/ CallLists(r) \/ CallFills(r)
             \/ CallMarks(r) \/ CallFails(r)
      PROVE  FALSE
  <2>1. task[r] \in TaskState
    BY DEF TypeOK
  <2>2. CASE RenewalFails(r) \/ CallFills(r) \/ CallMarks(r) \/ CallFails(r)
    BY <2>2 DEF RenewalFails, CallFills, CallMarks, CallFails
  <2>3. CASE Restart(r)
    BY <2>3 DEF Restart, Becomes, Booted, TypeOK
  <2>4. ASSUME NEW t, Becomes(r, t), t.ready = task[r].ready PROVE FALSE
    BY <2>4 DEF Becomes, TypeOK
  <2>5. CASE ScanAges(r) \/ Settles(r) \/ OtherList(r)
    BY <2>1, <2>4, <2>5, Zenon DEF ScanAges, Settles, OtherList, TaskState
  <2>6. CASE CallForgets(r) \/ CallLists(r)
    BY <2>1, <2>4, <2>6, Zenon DEF CallForgets, CallLists, TaskState
  <2>. QED  BY <1>5, <2>2, <2>3, <2>5, <2>6
<1>6. ASSUME NEW r \in Caller, CallOpens(r) PROVE call[q].pc = "open"
  BY <1>6, GateAssumption DEF CallOpens, Becomes, TypeOK
<1>. QED  BY <1>1, <1>2, <1>3, <1>4, <1>5, <1>6, GateAssumption DEF Next, CallStep

\* A replica that shut its gate for an older build that its cached scan found does not open
\* it while that build stays registered, also after its own DEL of the mark failed and
\* whatever ids the sorted set has (invalidate_index, set_index_ready, list_registrations),
\* when no older build registers during complete_key_index.
THEOREM ShutStaysShutHolds == ~Overlap => (Spec => ShutStaysShut)
<1> SUFFICES ASSUME ~Overlap PROVE Spec => ShutStaysShut
  BY Zenon
<1> DEFINE A == \A r \in Replica, o \in registered :
                  ~task[r].ready /\ task'[r].ready => r \notin shut[o]
<1>1. Init => GateInv
  BY InitGateInv
<1>2. GateInv /\ [Next]_vars => GateInv'
  BY NextGateInv
<1>3. GateInv /\ [Next]_vars => [A]_vars
  <2> SUFFICES ASSUME GateInv, Next PROVE A
    OBVIOUS
  <2> SUFFICES ASSUME NEW r \in Replica, NEW o \in registered, ~task[r].ready, task'[r].ready
               PROVE  r \notin shut[o]
    OBVIOUS
  <2>1. task[r].pc \in {"set", "open"} \/ call[r].pc = "open"
    BY OpensOnly DEF GateInv
  <2>. QED  BY <2>1 DEF GateInv, ReplicaInv, Quiet, CallAlone
<1>. QED  BY <1>1, <1>2, <1>3, PTL DEF Spec, ShutStaysShut

-----------------------------------------------------------------------------
(* Types, for every instance, older builds that register during a call included *)

\* What the maintenance task writes has the type of its state: a field at a time.
LEMMA TaskFields ==
  ASSUME NEW t \in TaskState,
         NEW b \in BOOLEAN, NEW S \in SUBSET Key, NEW c \in BOOLEAN, NEW F \in SUBSET Older,
         NEW p \in {"sleep", "gate", "del", "set", "renew", "acquire", "sweep", "fill",
                    "recheck", "mark", "open"}
  PROVE  /\ [t EXCEPT !.pc = p] \in TaskState
         /\ [t EXCEPT !.scanned = c, !.found = F] \in TaskState
         /\ [t EXCEPT !.recent = FALSE] \in TaskState
         /\ [t EXCEPT !.owed = S] \in TaskState
         /\ [t EXCEPT !.ready = TRUE] \in TaskState
         /\ [t EXCEPT !.pc = p, !.ready = b] \in TaskState
         /\ [t EXCEPT !.pc = p, !.known = b] \in TaskState
         /\ [t EXCEPT !.pc = p, !.sees = b] \in TaskState
         /\ [t EXCEPT !.pc = p, !.held = b] \in TaskState
         /\ [t EXCEPT !.pc = p, !.owed = S] \in TaskState
         /\ [t EXCEPT !.pc = p, !.scanned = c, !.found = F] \in TaskState
         /\ [t EXCEPT !.pc = p, !.owed = S, !.scanned = c, !.found = F] \in TaskState
         /\ [t EXCEPT !.pc = p, !.ready = b, !.known = FALSE] \in TaskState
<1>1. [t EXCEPT !.pc = p] \in TaskState
  BY DEF TaskState
<1>2. [t EXCEPT !.scanned = c, !.found = F] \in TaskState
  BY Zenon DEF TaskState
<1>3. [t EXCEPT !.recent = FALSE] \in TaskState
  BY Zenon DEF TaskState
<1>4. [t EXCEPT !.owed = S] \in TaskState
  BY DEF TaskState
<1>5. [t EXCEPT !.ready = TRUE] \in TaskState
  BY Zenon DEF TaskState
<1>6. [t EXCEPT !.pc = p, !.ready = b] \in TaskState
  BY Zenon DEF TaskState
<1>7. [t EXCEPT !.pc = p, !.known = b] \in TaskState
  BY Zenon DEF TaskState
<1>8. [t EXCEPT !.pc = p, !.sees = b] \in TaskState
  BY Zenon DEF TaskState
<1>9. [t EXCEPT !.pc = p, !.held = b] \in TaskState
  BY Zenon DEF TaskState
<1>10. [t EXCEPT !.pc = p, !.owed = S] \in TaskState
  BY Zenon DEF TaskState
<1>11. [t EXCEPT !.pc = p, !.scanned = c, !.found = F] \in TaskState
  BY Zenon DEF TaskState
<1>12. [t EXCEPT !.pc = p, !.owed = S, !.scanned = c, !.found = F] \in TaskState
  BY Zenon DEF TaskState
<1>13. [t EXCEPT !.pc = p, !.ready = b, !.known = FALSE] \in TaskState
  BY Zenon DEF TaskState
<1>. QED
  BY <1>1, <1>2, <1>3, <1>4, <1>5, <1>6, <1>7, <1>8, <1>9, <1>10, <1>11, <1>12, <1>13

\* A list answers yes or no, and its scan is a set of older builds.
LEMMA ListTypes ==
  ASSUME TypeOK, NEW r \in Replica
  PROVE  /\ task[r] \in TaskState /\ call[r] \in CallState
         /\ Scan(r) \in SUBSET Older
         /\ \A ids : Lists(r, ids) \in BOOLEAN
<1>1. task[r] \in TaskState /\ call[r] \in CallState
  BY DEF TypeOK
<1>2. \A ids : Lists(r, ids) \in BOOLEAN
  BY Zenon DEF Lists
<1>. QED  BY <1>1, <1>2 DEF Scan, TypeOK, TaskState

\* The maintenance task's steps are well typed.
LEMMA TaskStepType ==
  ASSUME TypeOK, NEW r \in Replica, TaskStep(r)
  PROVE  TypeOK'
<1>a. /\ task[r] \in TaskState /\ Scan(r) \in SUBSET Older
      /\ \A ids : Lists(r, ids) \in BOOLEAN
      /\ mark \in BOOLEAN /\ dark \in SUBSET Key
      /\ {} \in SUBSET Key /\ {} \in SUBSET Older
  BY ListTypes DEF TypeOK
<1>b. ASSUME NEW t \in TaskState, Becomes(r, t)
      PROVE  task' \in [Replica -> TaskState]
  BY <1>b DEF Becomes, TypeOK
<1>c. Notices(r) => shut' \in [Older -> SUBSET Replica]
  BY NoticesTypes
<1>1. CASE TaskLists(r) \/ TaskShuts(r) \/ TaskReads(r) \/ TaskSets(r) \/ TaskOpens(r)
  <2>1. task' \in [Replica -> TaskState]
    <3>1. CASE TaskLists(r)
      <4>1. ASSUME NEW b \in BOOLEAN
            PROVE  [task[r] EXCEPT !.pc = "gate", !.sees = b, !.scanned = TRUE,
                                   !.found = Scan(r), !.recent = @ \/ b] \in TaskState
        BY <1>a, ZenonT(30) DEF TaskState
      <4>. QED  BY <1>a, <1>b, <3>1, <4>1, Zenon DEF TaskLists
    <3>2. CASE TaskShuts(r)
      BY <1>a, <1>b, <3>2, TaskFields, Zenon DEF TaskShuts
    <3>3. CASE TaskReads(r)
      <4>1. /\ [task[r] EXCEPT !.pc = "set", !.known = mark] \in TaskState
            /\ [task[r] EXCEPT !.pc = "renew"] \in TaskState
        BY <1>a, TaskFields, Zenon
      <4>. QED  BY <1>b, <3>3, <4>1, Zenon DEF TaskReads
    <3>4. CASE TaskSets(r)
      <4>1. task[r].known \in BOOLEAN
        BY <1>a DEF TaskState
      <4>2. [task[r] EXCEPT !.pc = "renew", !.ready = task[r].known, !.known = FALSE]
              \in TaskState
        BY <1>a, <4>1, TaskFields, ZenonT(30)
      <4>. QED  BY <1>b, <3>4, <4>2, Zenon DEF TaskSets
    <3>5. CASE TaskOpens(r)
      BY <1>a, <1>b, <3>5, TaskFields, Zenon DEF TaskOpens
    <3>. QED  BY <1>1, <3>1, <3>2, <3>3, <3>4, <3>5
  <2>2. UNCHANGED <<mark, dark, registered, lock, renewing, call, restarts, shut, undeleted,
                    missed, since>>
    BY <1>1, Zenon DEF TaskLists, TaskShuts, TaskReads, TaskSets, TaskOpens, redis, history
  <2>. QED  BY <2>1, <2>2 DEF TypeOK
<1>2. CASE TaskUnmarks(r)
  <2>1. task' \in [Replica -> TaskState] /\ mark' \in BOOLEAN /\ undeleted' \in BOOLEAN
    BY <1>a, <1>b, <1>2, TaskFields, Zenon DEF TaskUnmarks
  <2>2. shut' \in [Older -> SUBSET Replica]
    BY <1>c, <1>2, Zenon DEF TaskUnmarks, TypeOK
  <2>. QED  BY <1>2, <2>1, <2>2 DEF TaskUnmarks, TypeOK
<1>3. CASE TaskRenews(r)
  <2>1. task' \in [Replica -> TaskState]
    <3>1. /\ [task[r] EXCEPT !.pc = "sweep"] \in TaskState
          /\ [task[r] EXCEPT !.pc = "acquire", !.held = FALSE] \in TaskState
      BY <1>a, TaskFields, Zenon
    <3>. QED  BY <1>b, <1>3, <3>1, Zenon DEF TaskRenews
  <2>. QED  BY <1>3, <2>1 DEF TaskRenews, TypeOK, redis, history
<1>4. CASE TaskAcquires(r) \/ TaskAcquireFails(r)
  <2>1. task' \in [Replica -> TaskState]
    BY <1>a, <1>b, <1>4, TaskFields, Zenon DEF TaskAcquires, TaskAcquireFails
  <2>2. lock' \in Replica \cup {Nobody} /\ renewing' \subseteq Replica
    BY <1>4 DEF TaskAcquires, TaskAcquireFails, TypeOK, history
  <2>. QED  BY <1>4, <2>1, <2>2 DEF TaskAcquires, TaskAcquireFails, TypeOK, history
<1>5. CASE TaskSweeps(r)
  <2>1. task' \in [Replica -> TaskState]
    BY <1>a, <1>b, <1>5, TaskFields, Zenon DEF TaskSweeps
  <2>. QED  BY <1>5, <2>1 DEF TaskSweeps, TypeOK, redis, history
<1>6. CASE TaskFills(r)
  <2>1. task' \in [Replica -> TaskState]
    <3>1. /\ [task[r] EXCEPT !.pc = "recheck", !.owed = {},
                             !.scanned = FALSE, !.found = {}] \in TaskState
          /\ [task[r] EXCEPT !.pc = "sleep", !.owed = {}] \in TaskState
      BY <1>a, TaskFields, ZenonT(30)
    <3>. QED  BY <1>b, <1>6, <3>1, Zenon DEF TaskFills
  <2>2. dark' \subseteq Key /\ since' \in [Replica -> SUBSET Older]
    BY <1>a, <1>6 DEF TaskFills, Fills, TypeOK
  <2>. QED  BY <1>6, <2>1, <2>2 DEF TaskFills, TypeOK
<1>7. CASE TaskRechecks(r)
  <2>1. task' \in [Replica -> TaskState]
    <3>1. /\ \A p \in {"sleep", "mark"} :
               [task[r] EXCEPT !.pc = p, !.scanned = TRUE, !.found = Scan(r)] \in TaskState
          /\ [task[r] EXCEPT !.pc = "sleep"] \in TaskState
      BY <1>a, TaskFields, ZenonT(30)
    <3>2. \A ids : (IF Lists(r, ids) THEN "sleep" ELSE "mark") \in {"sleep", "mark"}
      BY Zenon
    <3>. QED  BY <1>b, <1>7, <3>1, <3>2, Zenon DEF TaskRechecks
  <2>2. since' \in [Replica -> SUBSET Older]
    BY <1>a, <1>7, Zenon DEF TaskRechecks, TypeOK
  <2>. QED  BY <1>7, <2>1, <2>2, Zenon DEF TaskRechecks, TypeOK, redis
<1>8. CASE TaskMarks(r)
  <2>1. task' \in [Replica -> TaskState] /\ mark' \in BOOLEAN
    <3>1. /\ [task[r] EXCEPT !.pc = "open"] \in TaskState
          /\ [task[r] EXCEPT !.pc = "sleep"] \in TaskState
      BY <1>a, TaskFields, Zenon
    <3>. QED  BY <1>a, <1>b, <1>8, <3>1, Zenon DEF TaskMarks
  <2>. QED  BY <1>8, <2>1 DEF TaskMarks, TypeOK, history
<1>. QED  BY <1>1, <1>2, <1>3, <1>4, <1>5, <1>6, <1>7, <1>8 DEF TaskStep

\* The steps of complete_key_index are well typed.
LEMMA CallStepType ==
  ASSUME TypeOK, NEW r \in Replica, CallStep(r)
  PROVE  TypeOK'
<1>a. /\ task[r] \in TaskState /\ call[r] \in CallState
      /\ Scan(r) \in SUBSET Older /\ {} \in SUBSET Older
      /\ dark \in SUBSET Key
  BY ListTypes DEF TypeOK
<1>b. ASSUME NEW t \in TaskState, Becomes(r, t)
      PROVE  task' \in [Replica -> TaskState]
  BY <1>b DEF Becomes, TypeOK
<1>c. /\ NoCall \in CallState /\ [call[r] EXCEPT !.pc = "list"] \in CallState
      /\ [call[r] EXCEPT !.pc = "open"] \in CallState
      /\ [pc |-> "fill", owed |-> dark] \in CallState /\ [pc |-> "mark", owed |-> {}] \in CallState
  BY <1>a DEF CallState, NoCall
<1>d. ASSUME NEW c \in CallState, call' = [call EXCEPT ![r] = c]
      PROVE  call' \in [Replica -> CallState]
  BY <1>d DEF TypeOK
<1>1. CASE CallForgets(r) \/ CallLists(r) \/ CallOpens(r)
  <2>1. task' \in [Replica -> TaskState]
    BY <1>a, <1>b, <1>1, TaskFields, ZenonT(30) DEF CallForgets, CallLists, CallOpens
  <2>2. call' \in [Replica -> CallState]
    BY <1>c, <1>d, <1>1, Zenon DEF CallForgets, CallLists, CallOpens
  <2>. QED  BY <1>1, <2>1, <2>2 DEF CallForgets, CallLists, CallOpens, TypeOK, redis, history
<1>2. CASE CallFills(r)
  <2>1. call' \in [Replica -> CallState] /\ dark' \subseteq Key
    BY <1>a, <1>c, <1>d, <1>2, Zenon DEF CallFills, Fills
  <2>. QED  BY <1>2, <2>1 DEF CallFills, TypeOK, history
<1>3. CASE CallMarks(r) \/ CallFails(r)
  <2>1. call' \in [Replica -> CallState]
    BY <1>c, <1>d, <1>3 DEF CallMarks, CallFails
  <2>2. mark' \in BOOLEAN
    BY <1>3, Zenon DEF CallMarks, CallFails, TypeOK, history
  <2>. QED  BY <1>3, <2>1, <2>2 DEF CallMarks, CallFails, TypeOK, history
<1>. QED  BY <1>1, <1>2, <1>3 DEF CallStep

\* Every state of run and complete_key_index, on any number of replicas, is well formed.
THEOREM GateTypes == Spec => []TypeOK
<1>1. Init => TypeOK
  BY InitGateInv DEF GateInv
<1>2. TypeOK /\ [Next]_vars => TypeOK'
  <2> SUFFICES ASSUME TypeOK, [Next]_vars PROVE TypeOK'
    OBVIOUS
  <2>1. ASSUME NEW o \in Older, OlderRegisters(o) \/ OlderLeaves(o) PROVE TypeOK'
    <3>1. CASE OlderRegisters(o)
      BY <3>1, Zenon DEF OlderRegisters, TypeOK
    <3>2. CASE OlderLeaves(o)
      <4>1. missed' \in BOOLEAN /\ undeleted' \in BOOLEAN
        BY <3>2, Zenon DEF OlderLeaves
      <4>2. shut' \in [Older -> SUBSET Replica] /\ since' \in [Replica -> SUBSET Older]
        BY <3>2 DEF OlderLeaves, TypeOK
      <4>. QED  BY <3>2, <4>1, <4>2 DEF OlderLeaves, TypeOK
    <3>. QED  BY <2>1, <3>1, <3>2
  <2>2. ASSUME NEW k \in Key, DarkKeyGoes(k) PROVE TypeOK'
    BY <2>2 DEF DarkKeyGoes, TypeOK, history
  <2>3. ASSUME NEW k \in Key, OlderWrites(k) PROVE TypeOK'
    <3>1. ASSUME NEW r \in Replica
          PROVE  /\ [task[r] EXCEPT !.owed = @ \ {k}] \in TaskState
                 /\ [call[r] EXCEPT !.owed = @ \ {k}] \in CallState
      <4>1. task[r] \in TaskState /\ call[r] \in CallState
        BY ListTypes
      <4>. QED  BY <4>1 DEF TaskState, CallState
    <3>. QED  BY <2>3, <3>1, Zenon DEF OlderWrites, TypeOK, history
  <2>4. ASSUME NEW r \in Replica, ScanAges(r) \/ Settles(r) \/ OtherList(r) PROVE TypeOK'
    <3>1. task' \in [Replica -> TaskState]
      <4>1. /\ [task[r] EXCEPT !.scanned = FALSE, !.found = {}] \in TaskState
            /\ [task[r] EXCEPT !.recent = FALSE] \in TaskState
            /\ [task[r] EXCEPT !.scanned = TRUE, !.found = Scan(r)] \in TaskState
        BY ListTypes, ZenonT(30) DEF TaskState
      <4>. QED  BY <2>4, <4>1, Zenon DEF ScanAges, Settles, OtherList, Becomes, TypeOK
    <3>. QED  BY <2>4, <3>1 DEF ScanAges, Settles, OtherList, TypeOK, redis, history
  <2>5. ASSUME NEW r \in Replica, RenewalFails(r) PROVE TypeOK'
    BY <2>5 DEF RenewalFails, TypeOK, history
  <2>6. ASSUME NEW r \in Replica, Restart(r) PROVE TypeOK'
    <3>1. Booted \in TaskState /\ NoCall \in CallState
      BY DEF TaskState, CallState, Booted, NoCall
    <3>2. restarts' \in 0..MaxRestarts
      BY <2>6, GateAssumption DEF Restart, TypeOK
    <3>. QED  BY <2>6, <3>1, <3>2 DEF Restart, Becomes, TypeOK, history
  <2>7. CASE LockLapses
    BY <2>7 DEF LockLapses, TypeOK, history
  <2>8. CASE UNCHANGED vars
    BY <2>8 DEF vars, redis, history, TypeOK
  <2>. QED
    BY <2>1, <2>2, <2>3, <2>4, <2>5, <2>6, <2>7, <2>8, TaskStepType, CallStepType, GateAssumption
    DEF Next
<1>. QED  BY <1>1, <1>2, PTL DEF Spec

-----------------------------------------------------------------------------
(* The second list of complete_index *)

\* The scan that the second list will read, if one is cached, has every build that was
\* registered at the end of the backfill and stayed: the one cached before was forgotten.
RecheckInv ==
  \A r \in Replica :
    /\ since[r] \subseteq registered
    /\ task[r].pc = "recheck" /\ task[r].scanned => since[r] \subseteq task[r].found

\* What a step of one replica's task or call must show for it.
LEMMA RecheckKeeps ==
  ASSUME TypeOK, RecheckInv, NEW r \in Replica, NEW t, Becomes(r, t), UNCHANGED registered,
         \A q \in Replica \ {r} : since'[q] = since[q],
         since'[r] \subseteq registered,
         t.pc = "recheck" /\ t.scanned => since'[r] \subseteq t.found
  PROVE  RecheckInv'
<1>1. task'[r] = t /\ \A q \in Replica \ {r} : task'[q] = task[q]
  BY DEF Becomes, TypeOK
<1>. QED  BY <1>1 DEF RecheckInv

\* A step that leaves `since' alone, and does not bring the task to its second list,
\* shows it when it ages, forgets or makes a scan.
LEMMA RecheckKeepsScan ==
  ASSUME TypeOK, RecheckInv, NEW r \in Replica, NEW t, Becomes(r, t),
         UNCHANGED <<registered, since>>,
         t.pc = "recheck" => task[r].pc = "recheck",
         \/ t.scanned = FALSE
         \/ t.scanned = task[r].scanned /\ t.found = task[r].found
         \/ t.found = Scan(r)
  PROVE  RecheckInv'
<1>1. since'[r] \subseteq registered /\ \A q \in Replica \ {r} : since'[q] = since[q]
  BY DEF RecheckInv
<1>2. ASSUME t.pc = "recheck", t.scanned PROVE since[r] \subseteq t.found
  BY <1>2, Zenon DEF RecheckInv, Scan
<1>. QED  BY <1>1, <1>2, RecheckKeeps

\* The maintenance task's steps keep it.
LEMMA TaskKeepsRecheck ==
  ASSUME TypeOK, RecheckInv, NEW r \in Replica, TaskStep(r)
  PROVE  RecheckInv'
<1>1. task[r] \in TaskState
  BY DEF TypeOK
<1>2. ASSUME NEW t, Becomes(r, t), UNCHANGED <<registered, since>>, t.pc # "recheck"
      PROVE  RecheckInv'
  <2>1. since'[r] \subseteq registered /\ \A q \in Replica \ {r} : since'[q] = since[q]
    BY <1>2 DEF RecheckInv
  <2>. QED  BY <1>2, <2>1, RecheckKeeps
<1>3. CASE TaskLists(r) \/ TaskShuts(r) \/ TaskSets(r) \/ TaskOpens(r) \/ TaskSweeps(r)
  <2>1. UNCHANGED <<registered, since>>
    BY <1>3, Zenon DEF TaskLists, TaskShuts, TaskSets, TaskOpens, TaskSweeps, redis, history
  <2>2. CASE TaskLists(r)   BY <1>1, <1>2, <2>1, <2>2, Zenon DEF TaskLists, TaskState
  <2>3. CASE TaskShuts(r)   BY <1>1, <1>2, <2>1, <2>3, Zenon DEF TaskShuts, TaskState
  <2>4. CASE TaskSets(r)    BY <1>1, <1>2, <2>1, <2>4, Zenon DEF TaskSets, TaskState
  <2>5. CASE TaskOpens(r)   BY <1>1, <1>2, <2>1, <2>5, Zenon DEF TaskOpens, TaskState
  <2>6. CASE TaskSweeps(r)  BY <1>1, <1>2, <2>1, <2>6, Zenon DEF TaskSweeps, TaskState
  <2>. QED  BY <1>3, <2>2, <2>3, <2>4, <2>5, <2>6
<1>4. CASE TaskReads(r) \/ TaskRenews(r)
  <2>1. UNCHANGED <<registered, since>>
    BY <1>4 DEF TaskReads, TaskRenews, redis, history
  <2>. QED  BY <1>1, <1>2, <1>4, <2>1, Zenon DEF TaskReads, TaskRenews, TaskState
<1>5. CASE TaskAcquires(r) \/ TaskAcquireFails(r) \/ TaskUnmarks(r)
  <2>1. UNCHANGED <<registered, since>>
    BY <1>5 DEF TaskAcquires, TaskAcquireFails, TaskUnmarks, history
  <2>. QED  BY <1>1, <1>2, <1>5, <2>1, Zenon
            DEF TaskAcquires, TaskAcquireFails, TaskUnmarks, TaskState
<1>6. CASE TaskMarks(r)
  <2>1. UNCHANGED <<registered, since>>
    BY <1>6 DEF TaskMarks, history
  <2>. QED  BY <1>1, <1>2, <1>6, <2>1, Zenon DEF TaskMarks, TaskState
<1>7. CASE TaskFills(r)
  <2>1. UNCHANGED registered
    BY <1>7 DEF TaskFills
  <2>2. CASE /\ Becomes(r, [task[r] EXCEPT !.pc = "recheck", !.owed = {},
                                           !.scanned = FALSE, !.found = {}])
             /\ since' = [since EXCEPT ![r] = registered]
    <3> DEFINE t == [task[r] EXCEPT !.pc = "recheck", !.owed = {},
                                    !.scanned = FALSE, !.found = {}]
    <3>1. t.scanned = FALSE
      BY <1>1 DEF TaskState
    <3>2. since'[r] = registered /\ \A q \in Replica \ {r} : since'[q] = since[q]
      BY <2>2 DEF TypeOK
    <3>3. Becomes(r, t)
      BY <2>2
    <3> HIDE DEF t
    <3>. QED  BY <2>1, <3>1, <3>2, <3>3, RecheckKeeps
  <2>3. CASE Becomes(r, [task[r] EXCEPT !.pc = "sleep", !.owed = {}]) /\ UNCHANGED since
    BY <1>1, <1>2, <2>1, <2>3, Zenon DEF TaskState
  <2>. QED  BY <1>7, <2>2, <2>3 DEF TaskFills
<1>8. CASE TaskRechecks(r)
  <2>1. UNCHANGED registered /\ since'[r] = {} /\ \A q \in Replica \ {r} : since'[q] = since[q]
    BY <1>8, Zenon DEF TaskRechecks, redis, TypeOK
  <2>2. PICK t : Becomes(r, t)
    BY <1>8, Zenon DEF TaskRechecks
  <2>. QED  BY <2>1, <2>2, RecheckKeeps
<1>. QED  BY <1>3, <1>4, <1>5, <1>6, <1>7, <1>8 DEF TaskStep

\* Every other step keeps it.
LEMMA NextRecheckInv ==
  ASSUME TypeOK, RecheckInv, [Next]_vars
  PROVE  RecheckInv'
<1>1. ASSUME NEW o \in Older, OlderRegisters(o) \/ OlderLeaves(o) PROVE RecheckInv'
  BY <1>1 DEF OlderRegisters, OlderLeaves, RecheckInv
<1>2. ASSUME NEW k \in Key, OlderWrites(k) PROVE RecheckInv'
  <2>1. ASSUME NEW r \in Replica
        PROVE  /\ task'[r].pc = task[r].pc /\ task'[r].scanned = task[r].scanned
               /\ task'[r].found = task[r].found
    <3>1. task[r] \in TaskState /\ task'[r] = [task[r] EXCEPT !.owed = @ \ {k}]
      BY <1>2 DEF OlderWrites, TypeOK
    <3>. QED  BY <3>1 DEF TaskState
  <2>. QED  BY <1>2, <2>1 DEF OlderWrites, RecheckInv, history
<1>3. CASE UNCHANGED <<task, registered, since>>
  BY <1>3 DEF RecheckInv
<1>4. ASSUME NEW k \in Key, DarkKeyGoes(k) PROVE RecheckInv'
  BY <1>3, <1>4 DEF DarkKeyGoes, history
<1>5. CASE LockLapses \/ UNCHANGED vars
  BY <1>3, <1>5 DEF LockLapses, vars, redis, history
<1>6. ASSUME NEW r \in Replica, RenewalFails(r) \/ CallFills(r) \/ CallMarks(r) \/ CallFails(r)
      PROVE  RecheckInv'
  BY <1>3, <1>6 DEF RenewalFails, CallFills, CallMarks, CallFails, history
<1>7. ASSUME NEW r \in Replica,
             ScanAges(r) \/ Settles(r) \/ OtherList(r) \/ Restart(r)
             \/ CallForgets(r) \/ CallLists(r) \/ CallOpens(r)
      PROVE  RecheckInv'
  <2>1. task[r] \in TaskState
    BY DEF TypeOK
  <2>2. UNCHANGED <<registered, since>>
    BY <1>7 DEF ScanAges, Settles, OtherList, Restart, CallForgets, CallLists, CallOpens,
                redis, history
  <2>3. CASE ScanAges(r) \/ CallForgets(r)
    BY <2>1, <2>2, <2>3, RecheckKeepsScan, Zenon DEF ScanAges, CallForgets, TaskState
  <2>4. CASE Settles(r)
    BY <2>1, <2>2, <2>4, RecheckKeepsScan, Zenon DEF Settles, TaskState
  <2>5. CASE OtherList(r) \/ CallLists(r)
    BY <2>1, <2>2, <2>5, RecheckKeepsScan, Zenon DEF OtherList, CallLists, TaskState
  <2>6. CASE Restart(r)
    BY <2>2, <2>6, RecheckKeepsScan, Zenon DEF Restart, Booted
  <2>7. CASE CallOpens(r)
    BY <2>1, <2>2, <2>7, RecheckKeepsScan, Zenon DEF CallOpens, TaskState
  <2>. QED  BY <1>7, <2>3, <2>4, <2>5, <2>6, <2>7
<1>. QED
  BY <1>1, <1>2, <1>4, <1>5, <1>6, <1>7, TaskKeepsRecheck, GateAssumption DEF Next, CallStep

\* Nothing but its second list brings a task from there to the mark.
LEMMA RecheckLeaves ==
  ASSUME TypeOK, Next, NEW r \in Replica, task[r].pc = "recheck", task'[r].pc = "mark"
  PROVE  TaskRechecks(r)
<1>1. ASSUME NEW q \in Replica, NEW t, Becomes(q, t), q = r => t.pc # "mark" PROVE FALSE
  BY <1>1, Zenon DEF Becomes, TypeOK
<1>2. ASSUME NEW q \in Replica, TaskStep(q) PROVE TaskRechecks(r)
  <2>1. PICK t : Becomes(q, t)
    <3>1. CASE TaskLists(q) \/ TaskShuts(q) \/ TaskReads(q) \/ TaskSets(q) \/ TaskOpens(q)
      BY <3>1, Zenon DEF TaskLists, TaskShuts, TaskReads, TaskSets, TaskOpens
    <3>2. CASE TaskUnmarks(q) \/ TaskRenews(q) \/ TaskAcquires(q) \/ TaskAcquireFails(q)
      BY <3>2, Zenon DEF TaskUnmarks, TaskRenews, TaskAcquires, TaskAcquireFails
    <3>3. CASE TaskSweeps(q) \/ TaskFills(q) \/ TaskRechecks(q) \/ TaskMarks(q)
      BY <3>3, Zenon DEF TaskSweeps, TaskFills, TaskRechecks, TaskMarks
    <3>. QED  BY <1>2, <3>1, <3>2, <3>3 DEF TaskStep
  <2>2. q = r
    BY <1>1, <2>1
  <2>. QED  BY <1>2, <2>2, Zenon DEF TaskStep, TaskLists, TaskShuts, TaskReads, TaskSets, TaskOpens,
              TaskUnmarks, TaskRenews, TaskAcquires, TaskAcquireFails, TaskSweeps, TaskFills,
              TaskMarks
<1>3. ASSUME NEW o \in Older, OlderRegisters(o) \/ OlderLeaves(o) PROVE FALSE
  BY <1>3 DEF OlderRegisters, OlderLeaves
<1>4. ASSUME NEW k \in Key, OlderWrites(k) \/ DarkKeyGoes(k) PROVE FALSE
  <2>1. task[r] \in TaskState
    BY DEF TypeOK
  <2>. QED  BY <1>4, <2>1 DEF OlderWrites, DarkKeyGoes, TaskState
<1>5. CASE LockLapses
  BY <1>5 DEF LockLapses
<1>6. ASSUME NEW q \in Replica, RenewalFails(q) \/ CallFills(q) \/ CallMarks(q) \/ CallFails(q)
      PROVE  FALSE
  BY <1>6 DEF RenewalFails, CallFills, CallMarks, CallFails
<1>7. ASSUME NEW q \in Replica,
             ScanAges(q) \/ Settles(q) \/ OtherList(q) \/ Restart(q)
             \/ CallForgets(q) \/ CallLists(q) \/ CallOpens(q)
      PROVE  FALSE
  <2>1. task[q] \in TaskState
    BY DEF TypeOK
  <2>2. CASE ScanAges(q) \/ Settles(q) \/ OtherList(q)
    BY <1>1, <2>1, <2>2, Zenon DEF ScanAges, Settles, OtherList, TaskState
  <2>3. CASE CallForgets(q) \/ CallLists(q) \/ CallOpens(q)
    BY <1>1, <2>1, <2>3, Zenon DEF CallForgets, CallLists, CallOpens, TaskState
  <2>4. CASE Restart(q)
    BY <1>1, <2>4 DEF Restart, Booted
  <2>. QED  BY <1>7, <2>2, <2>3, <2>4
<1>. QED  BY <1>2, <1>3, <1>4, <1>5, <1>6, <1>7, GateAssumption DEF Next, CallStep

\* complete_index marks the index only if every older build that was registered when its
\* backfill ended has left: the second list (list_registrations after forget) misses none,
\* on any number of replicas, beside other lists and calls of complete_key_index.
THEOREM RecheckMissesNoneHolds == Spec => RecheckMissesNone
<1> DEFINE A == \A r \in Replica :
                  task[r].pc = "recheck" /\ task'[r].pc = "mark" => since[r] = {}
<1>1. Init => RecheckInv
  BY DEF Init, RecheckInv
<1>2. TypeOK /\ RecheckInv /\ [Next]_vars => RecheckInv'
  BY NextRecheckInv
<1>3. TypeOK /\ RecheckInv /\ [Next]_vars => [A]_vars
  <2> SUFFICES ASSUME TypeOK, RecheckInv, Next,
                      NEW r \in Replica, task[r].pc = "recheck", task'[r].pc = "mark"
               PROVE  since[r] = {}
    OBVIOUS
  <2>1. TaskRechecks(r)
    BY RecheckLeaves
  <2>2. task[r] \in TaskState
    BY DEF TypeOK
  <2>3. PICK ids \in SUBSET Older : ~Lists(r, ids)
    <3>1. ASSUME NEW t, Becomes(r, t) PROVE t.pc = "mark"
      BY <3>1 DEF Becomes, TypeOK
    <3>2. [task[r] EXCEPT !.pc = "sleep"].pc # "mark"
      BY <2>2 DEF TaskState
    <3>3. PICK ids \in SUBSET Older :
            Becomes(r, [task[r] EXCEPT !.pc = IF Lists(r, ids) THEN "sleep" ELSE "mark",
                                       !.scanned = TRUE, !.found = Scan(r)])
      BY <2>1, <3>1, <3>2, Zenon DEF TaskRechecks
    <3>4. ASSUME NEW p PROVE [task[r] EXCEPT !.pc = p, !.scanned = TRUE, !.found = Scan(r)].pc = p
      BY <2>2, Zenon DEF TaskState
    <3>5. (IF Lists(r, ids) THEN "sleep" ELSE "mark") = "mark"
      BY <3>1, <3>3, <3>4, Zenon
    <3>. QED  BY <3>5
  <2>4. ASSUME NEW o \in since[r] PROVE FALSE
    BY <2>3, <2>4, ListsRegistered DEF RecheckInv
  <2>. QED  BY <2>4
<1>. QED  BY <1>1, <1>2, <1>3, GateTypes, PTL DEF Spec, RecheckMissesNone

=============================================================================
