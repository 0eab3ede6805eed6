----------------------------- MODULE IndexGate -----------------------------
(***************************************************************************)
(* Who may read the key index (maintenance.rs).  Builds without the index  *)
(* leave keys that are in no index.  Every replica's maintenance task      *)
(* looks for such builds in the peer list and shuts or opens its listings' *)
(* use of the index; the holder of the sweep lock sweeps, and completes    *)
(* the index by a backfill and a mark in Redis that every replica reads.   *)
(*                                                                         *)
(* Time is abstract: a cached scan ages, an entry of the sorted set        *)
(* lapses, the wait of peer_ttl ends and an unattended lock lapses at any  *)
(* moment.  A backfill is KvStore's: a key there from its start to its end *)
(* is indexed.  Older builds write only while they are registered.         *)
(***************************************************************************)
EXTENDS Naturals

CONSTANTS
  Replica,      \* current builds, each with a maintenance task
  Caller,       \* those whose complete_key_index is called
  Overlap,      \* TRUE: an older build may register during such a call
  Older,        \* node ids that run a build without the index
  Key,
  Nobody,
  MaxRestarts,  \* bound on the replicas' restarts
  Failing,      \* replicas whose commands may fail
  Lapsing       \* replicas whose renewals of the sweep lock may fail

ASSUME GateAssumption ==
  /\ Replica # {} /\ Caller \subseteq Replica
  /\ Nobody \notin Replica
  /\ Overlap \in BOOLEAN
  /\ MaxRestarts \in Nat
  /\ Failing \subseteq Replica /\ Lapsing \subseteq Replica

VARIABLES
  mark,         \* the completeness mark is there (complete_key)
  dark,         \* live keys without an index entry
  registered,   \* node ids whose registration is of an older build
  lock,         \* the node id that the sweep lock holds
  renewing,     \* node ids with a renewal task of a sweep lock handle
  task,         \* [Replica -> the maintenance task and its replica's flags]
  call,         \* [Replica -> its complete_key_index call]
  restarts,
  shut,         \* history: [Older -> replicas that shut the gate for it, see Notices]
  undeleted,    \* history: an older build is registered, and the last DEL left the mark
  missed,       \* history: the last older build to leave did so before every replica
                \* had shut its gate for it, or after such a DEL
  since         \* history: [Replica -> older builds that were registered at the end of
                \* its backfill and stayed]

redis == <<mark, dark, registered, lock, renewing>>
history == <<shut, undeleted, missed, since>>
vars == <<redis, task, call, restarts, history>>

\* pc: position in run; sees: `unindexed`; recent: unindexed_seen is less than
\* peer_ttl ago; known: index_complete's answer; held: the lock's handle; owed: what
\* the backfill must index; scanned, found: peer_scan has a scan young enough, and the
\* older builds it found; ready: index_ready.
TaskState ==
  [pc : {"sleep", "gate", "del", "set", "renew", "acquire", "sweep", "fill", "recheck",
         "mark", "open"},
   sees : BOOLEAN, recent : BOOLEAN, known : BOOLEAN, held : BOOLEAN,
   owed : SUBSET Key, scanned : BOOLEAN, found : SUBSET Older, ready : BOOLEAN]
CallState == [pc : {"idle", "list", "fill", "mark", "open"}, owed : SUBSET Key]

Booted == [pc |-> "sleep", sees |-> FALSE, recent |-> FALSE, known |-> FALSE,
           held |-> FALSE, owed |-> {}, scanned |-> FALSE, found |-> {}, ready |-> FALSE]
NoCall == [pc |-> "idle", owed |-> {}]

Init ==
  /\ mark = FALSE
  /\ dark \in SUBSET Key
  /\ registered \in SUBSET Older
  /\ lock = Nobody /\ renewing = {}
  /\ task = [r \in Replica |-> Booted]
  /\ call = [r \in Replica |-> NoCall]
  /\ restarts = 0
  /\ shut = [o \in Older |-> {}] /\ undeleted = FALSE /\ missed = FALSE
  /\ since = [r \in Replica |-> {}]

\* The task and the flags of r become t.
Becomes(r, t) == task' = [task EXCEPT ![r] = t]

-----------------------------------------------------------------------------
(* Older builds, keys, time *)

OlderRegisters(o) ==
  /\ o \notin registered
  /\ Overlap \/ \A r \in Caller : call[r].pc = "idle"
  /\ registered' = registered \cup {o}
  /\ missed' = FALSE
  /\ UNCHANGED <<mark, dark, lock, renewing, task, call, restarts, shut, undeleted, since>>

\* A write that makes a key without an index entry.  The key was not there before, or
\* had its entry: no backfill under way owes it.
OlderWrites(k) ==
  /\ registered # {} /\ k \notin dark
  /\ dark' = dark \cup {k}
  /\ task' = [r \in Replica |-> [task[r] EXCEPT !.owed = @ \ {k}]]
  /\ call' = [r \in Replica |-> [call[r] EXCEPT !.owed = @ \ {k}]]
  /\ UNCHANGED <<mark, registered, lock, renewing, restarts, history>>

\* Its registration lapses, or a current build takes its id over.
OlderLeaves(o) ==
  /\ o \in registered
  /\ registered' = registered \ {o}
  /\ missed' = (shut[o] # Replica \/ undeleted)
  /\ shut' = [shut EXCEPT ![o] = {}] /\ undeleted' = (undeleted /\ registered' # {})
  /\ since' = [r \in Replica |-> since[r] \ {o}]
  /\ UNCHANGED <<mark, dark, lock, renewing, task, call, restarts>>

\* A current build overwrites the key, a batch of a backfill indexes it, or the key is
\* deleted or expires.
DarkKeyGoes(k) ==
  /\ k \in dark
  /\ dark' = dark \ {k}
  /\ UNCHANGED <<mark, registered, lock, renewing, task, call, restarts, history>>

\* The cached scan gets too old to serve.
ScanAges(r) ==
  /\ task[r].scanned
  /\ Becomes(r, [task[r] EXCEPT !.scanned = FALSE, !.found = {}])
  /\ UNCHANGED <<redis, call, restarts, history>>

\* peer_ttl has passed since the task last saw an older build; in a tick that sees one
\* nothing depends on it, and it may pass as well right after.
Settles(r) ==
  /\ task[r].recent /\ ~task[r].sees
  /\ Becomes(r, [task[r] EXCEPT !.recent = FALSE])
  /\ UNCHANGED <<redis, call, restarts, history>>

LockLapses ==
  /\ lock # Nobody /\ lock \notin renewing
  /\ lock' = Nobody
  /\ UNCHANGED <<mark, dark, registered, renewing, task, call, restarts, history>>

\* A renewal task ends: its command fails, or came too late and finds another holder or
\* none.  That its handle was dropped does not end it: it owns a reference to the state
\* whose drop would.
RenewalFails(r) ==
  /\ r \in renewing /\ r \in Lapsing
  /\ renewing' = renewing \ {r}
  /\ UNCHANGED <<mark, dark, registered, lock, task, call, restarts, history>>

Restart(r) ==
  /\ restarts < MaxRestarts
  /\ restarts' = restarts + 1
  /\ renewing' = renewing \ {r}
  /\ Becomes(r, Booted)
  /\ call' = [call EXCEPT ![r] = NoCall]
  /\ UNCHANGED <<mark, dark, registered, lock, history>>

-----------------------------------------------------------------------------
(* list_registrations *)

\* LegacyPeerScan::registrations: the older builds of the cached scan, or of a new one.
Scan(r) == IF task[r].scanned THEN task[r].found ELSE registered

\* Mutant: the builds of the set's ids are taken for current ones.
ListsOutsideSet(r, ids) == Scan(r) \ ids # {}

\* A list of r has an older build: MGET finds one under an id of the sorted set, or the
\* scan does under another.  ids: those of Older that the set still has, from a current
\* build before a rollback or after an upgrade, and that the clock of r keeps.
Lists(r, ids) == registered \cap ids # {} \/ Scan(r) \ ids # {}

\* list_peers or watch_peers of the replica fills the cache.
OtherList(r) ==
  /\ ~task[r].scanned
  /\ Becomes(r, [task[r] EXCEPT !.scanned = TRUE, !.found = Scan(r)])
  /\ UNCHANGED <<redis, call, restarts, history>>

-----------------------------------------------------------------------------
(* The maintenance task *)

\* A tick lists the peers; a list that fails leaves all to the next tick.
TaskLists(r) ==
  /\ task[r].pc = "sleep"
  /\ \E ids \in SUBSET Older :
       Becomes(r, [task[r] EXCEPT !.pc = "gate", !.sees = Lists(r, ids),
                                  !.scanned = TRUE, !.found = Scan(r),
                                  !.recent = @ \/ Lists(r, ids)])
  /\ UNCHANGED <<redis, call, restarts, history>>

\* gate_index, invalidate_index: index_ready off ...
TaskShuts(r) ==
  /\ task[r].pc = "gate" /\ task[r].sees
  /\ Becomes(r, [task[r] EXCEPT !.pc = "del", !.ready = FALSE])
  /\ UNCHANGED <<redis, call, restarts, history>>

\* History: r has shut its gate for the registered builds that its cached scan found.
\* One that only the set's MGET found does not count: r loses sight of it when its entry
\* lapses before the scan is made anew.
Notices(r) ==
  shut' = [o \in Older |-> IF o \in registered \cap task[r].found /\ ~task[r].ready
                           THEN shut[o] \cup {r} ELSE shut[o]]

\* Mutant: only the replica's own flag is turned off.
TaskKeepsMark(r) ==
  /\ task[r].pc = "del"
  /\ Becomes(r, [task[r] EXCEPT !.pc = "renew"])
  /\ Notices(r)
  /\ UNCHANGED <<redis, call, restarts, undeleted, missed, since>>

\* ... and DEL of the mark, whose failure is ignored.
TaskUnmarks(r) ==
  /\ task[r].pc = "del"
  /\ Becomes(r, [task[r] EXCEPT !.pc = "renew"])
  /\ mark' = FALSE \/ (r \in Failing /\ UNCHANGED mark)
  /\ undeleted' = (mark' /\ registered # {})
  /\ Notices(r)
  /\ UNCHANGED <<dark, registered, lock, renewing, call, restarts, missed, since>>

\* gate_index, index_complete: EXISTS answers, or fails and index_ready stays ...
TaskReads(r) ==
  /\ task[r].pc = "gate" /\ ~task[r].sees
  /\ \/ Becomes(r, [task[r] EXCEPT !.pc = "set", !.known = mark])
     \/ r \in Failing /\ Becomes(r, [task[r] EXCEPT !.pc = "renew"])
  /\ UNCHANGED <<redis, call, restarts, history>>

\* ... and index_ready becomes what it answered.
TaskSets(r) ==
  /\ task[r].pc = "set"
  /\ Becomes(r, [task[r] EXCEPT !.pc = "renew", !.ready = task[r].known, !.known = FALSE])
  /\ UNCHANGED <<redis, call, restarts, history>>

\* Mutant: the handle is not kept from one tick to the next.
TaskRenewsAndDrops(r) ==
  /\ task[r].pc = "renew"
  /\ \/ /\ task[r].held /\ lock = r
        /\ Becomes(r, [task[r] EXCEPT !.pc = "sweep", !.held = FALSE])
     \/ /\ task[r].held => lock # r \/ r \in Lapsing
        /\ Becomes(r, [task[r] EXCEPT !.pc = "acquire", !.held = FALSE])
  /\ UNCHANGED <<redis, call, restarts, history>>

\* renew_state of a held lock; after an error the handle is dropped.
TaskRenews(r) ==
  /\ task[r].pc = "renew"
  /\ \/ /\ task[r].held /\ lock = r
        /\ Becomes(r, [task[r] EXCEPT !.pc = "sweep"])
     \/ /\ task[r].held => lock # r \/ r \in Lapsing
        /\ Becomes(r, [task[r] EXCEPT !.pc = "acquire", !.held = FALSE])
  /\ UNCHANGED <<redis, call, restarts, history>>

\* Mutant: the lock's name is stored where the holder's node id belongs.
TaskAcquiresByName(r) ==
  /\ task[r].pc = "acquire" /\ lock = Nobody
  /\ lock' = "mcpg-kv-sweep" /\ renewing' = renewing \cup {r}
  /\ Becomes(r, [task[r] EXCEPT !.pc = "sweep", !.held = TRUE])
  /\ UNCHANGED <<mark, dark, registered, call, restarts, history>>

\* try_acquire_async: SET NX, and a renewal task for the handle.
TaskAcquires(r) ==
  /\ task[r].pc = "acquire" /\ lock = Nobody
  /\ lock' = r /\ renewing' = renewing \cup {r}
  /\ Becomes(r, [task[r] EXCEPT !.pc = "sweep", !.held = TRUE])
  /\ UNCHANGED <<mark, dark, registered, call, restarts, history>>

\* A node id, perhaps its own, has the lock, or the command fails, perhaps after
\* Redis granted the lock.
TaskAcquireFails(r) ==
  /\ task[r].pc = "acquire"
  /\ \/ lock # Nobody /\ UNCHANGED lock
     \/ r \in Failing /\ lock' \in {lock, IF lock = Nobody THEN r ELSE lock}
  /\ Becomes(r, [task[r] EXCEPT !.pc = "sleep", !.sees = FALSE])
  /\ UNCHANGED <<mark, dark, registered, renewing, call, restarts, history>>

\* The sweep is over, done or failed.  The index is completed if this tick's list
\* has no older build, none was seen for peer_ttl, and listings do not read it yet.
TaskSweeps(r) ==
  /\ task[r].pc = "sweep"
  /\ Becomes(r, IF ~task[r].sees /\ ~task[r].recent /\ ~task[r].ready
                THEN [task[r] EXCEPT !.pc = "fill", !.owed = dark]
                ELSE [task[r] EXCEPT !.pc = "sleep", !.sees = FALSE])
  /\ UNCHANGED <<redis, call, restarts, history>>

\* A backfill ends: of the keys without an entry SCAN returned the ones it owed, which
\* were there from its start, and perhaps more.
Fills(due) == \E S \in SUBSET dark : dark \cap due \subseteq S /\ dark' = dark \ S

\* Mutant: the cached scan is not forgotten.
TaskFillsOnly(r) ==
  /\ task[r].pc = "fill"
  /\ Fills(task[r].owed)
  /\ Becomes(r, [task[r] EXCEPT !.pc = "recheck", !.owed = {}])
  /\ since' = [since EXCEPT ![r] = registered]
  /\ UNCHANGED <<mark, registered, lock, renewing, call, restarts, shut, undeleted, missed>>

\* complete_index: after the backfill the cached scan is forgotten ...
TaskFills(r) ==
  /\ task[r].pc = "fill"
  /\ \/ /\ Fills(task[r].owed)
        /\ Becomes(r, [task[r] EXCEPT !.pc = "recheck", !.owed = {},
                                      !.scanned = FALSE, !.found = {}])
        /\ since' = [since EXCEPT ![r] = registered]
     \/ /\ r \in Failing /\ Becomes(r, [task[r] EXCEPT !.pc = "sleep", !.owed = {}])
        /\ UNCHANGED <<dark, since>>
  /\ UNCHANGED <<mark, registered, lock, renewing, call, restarts, shut, undeleted, missed>>

\* ... the peers are listed once more, where a failure counts as an older build ...
TaskRechecks(r) ==
  /\ task[r].pc = "recheck"
  /\ \/ \E ids \in SUBSET Older :
          Becomes(r, [task[r] EXCEPT !.pc = IF Lists(r, ids) THEN "sleep" ELSE "mark",
                                     !.scanned = TRUE, !.found = Scan(r)])
     \/ r \in Failing /\ Becomes(r, [task[r] EXCEPT !.pc = "sleep"])
  /\ since' = [since EXCEPT ![r] = {}]
  /\ UNCHANGED <<redis, call, restarts, shut, undeleted, missed>>

\* Mutant: the mark is not written.
TaskMarksNothing(r) ==
  /\ task[r].pc = "mark"
  /\ Becomes(r, [task[r] EXCEPT !.pc = "open"])
  /\ UNCHANGED <<redis, call, restarts, history>>

\* ... the mark is set (a command that fails may have set it) ...
TaskMarks(r) ==
  /\ task[r].pc = "mark"
  /\ \/ mark' = TRUE /\ Becomes(r, [task[r] EXCEPT !.pc = "open"])
     \/ r \in Failing /\ mark' \in {mark, TRUE} /\ Becomes(r, [task[r] EXCEPT !.pc = "sleep"])
  /\ UNCHANGED <<dark, registered, lock, renewing, call, restarts, history>>

\* ... and on its reply the listings read the index.
TaskOpens(r) ==
  /\ task[r].pc = "open"
  /\ Becomes(r, [task[r] EXCEPT !.pc = "sleep", !.ready = TRUE])
  /\ UNCHANGED <<redis, call, restarts, history>>

TaskStep(r) ==
  \/ TaskLists(r) \/ TaskShuts(r) \/ TaskUnmarks(r) \/ TaskReads(r) \/ TaskSets(r)
  \/ TaskRenews(r) \/ TaskAcquires(r) \/ TaskAcquireFails(r) \/ TaskSweeps(r)
  \/ TaskFills(r) \/ TaskRechecks(r) \/ TaskMarks(r) \/ TaskOpens(r)

-----------------------------------------------------------------------------
(* complete_key_index, called beside the maintenance task *)

\* It forgets the cached scan ...
CallForgets(r) ==
  /\ call[r].pc = "idle"
  /\ call' = [call EXCEPT ![r].pc = "list"]
  /\ Becomes(r, [task[r] EXCEPT !.scanned = FALSE, !.found = {}])
  /\ UNCHANGED <<redis, restarts, history>>

\* ... and is refused while an older build is registered ...
CallLists(r) ==
  /\ call[r].pc = "list"
  /\ \E ids \in SUBSET Older :
       call' = [call EXCEPT ![r] = IF Lists(r, ids) THEN NoCall
                                   ELSE [pc |-> "fill", owed |-> dark]]
  /\ Becomes(r, [task[r] EXCEPT !.scanned = TRUE, !.found = Scan(r)])
  /\ UNCHANGED <<redis, restarts, history>>

\* ... backfills ...
CallFills(r) ==
  /\ call[r].pc = "fill"
  /\ Fills(call[r].owed)
  /\ call' = [call EXCEPT ![r] = [pc |-> "mark", owed |-> {}]]
  /\ UNCHANGED <<mark, registered, lock, renewing, task, restarts, history>>

\* ... marks, without a second list ...
CallMarks(r) ==
  /\ call[r].pc = "mark"
  /\ mark' = TRUE
  /\ call' = [call EXCEPT ![r] = [@ EXCEPT !.pc = "open"]]
  /\ UNCHANGED <<dark, registered, lock, renewing, task, restarts, history>>

\* ... and opens.
CallOpens(r) ==
  /\ call[r].pc = "open"
  /\ Becomes(r, [task[r] EXCEPT !.ready = TRUE])
  /\ call' = [call EXCEPT ![r] = NoCall]
  /\ UNCHANGED <<redis, restarts, history>>

\* One of its commands fails; a failed SET may have set the mark.
CallFails(r) ==
  /\ r \in Failing
  /\ call[r].pc \in {"list", "fill", "mark"}
  /\ mark' \in {mark, mark \/ call[r].pc = "mark"}
  /\ call' = [call EXCEPT ![r] = NoCall]
  /\ UNCHANGED <<dark, registered, lock, renewing, task, restarts, history>>

CallStep(r) ==
  \/ CallForgets(r) \/ CallLists(r) \/ CallFills(r)
  \/ CallMarks(r) \/ CallOpens(r) \/ CallFails(r)

-----------------------------------------------------------------------------
Next ==
  \/ \E o \in Older : OlderRegisters(o) \/ OlderLeaves(o)
  \/ \E k \in Key : OlderWrites(k) \/ DarkKeyGoes(k)
  \/ LockLapses
  \/ \E r \in Replica :
       \/ ScanAges(r) \/ Settles(r) \/ RenewalFails(r)
       \/ Restart(r) \/ OtherList(r) \/ TaskStep(r)
  \/ \E r \in Caller : CallStep(r)

Spec == Init /\ [][Next]_vars

\* The runtime drives every task, its interval ticks, and Redis answers; expiries,
\* the scan's age and the wait are bounded times.  Nothing makes a build register
\* or leave, or a command fail.
FairSpec ==
  /\ Spec
  /\ WF_vars(LockLapses)
  /\ \A r \in Replica :
       WF_vars(TaskStep(r)) /\ WF_vars(ScanAges(r)) /\ WF_vars(Settles(r))

-----------------------------------------------------------------------------
(* Properties *)

\* The state of run, of complete_key_index and of their keys in Redis is well formed.
TypeOK ==
  /\ mark \in BOOLEAN
  /\ dark \subseteq Key /\ registered \subseteq Older
  /\ lock \in Replica \cup {Nobody} /\ renewing \subseteq Replica
  /\ task \in [Replica -> TaskState]
  /\ call \in [Replica -> CallState]
  /\ restarts \in 0..MaxRestarts
  /\ shut \in [Older -> SUBSET Replica] /\ undeleted \in BOOLEAN /\ missed \in BOOLEAN
  /\ since \in [Replica -> SUBSET Older]

\* Once no older build is registered, a replica whose listings read the index
\* (index_ready) lists every live key: no key lacks its index entry.  The mark is
\* another replica's word for it, backfills of several replicas overlap when the lock
\* lapses under one, and scans are cached; gate_index and complete_index must bear all.
\* Not claimed once a build left before every replica shut its gate for it, or left
\* while the DELs of the mark fail.
ListingsComplete ==
  registered = {} /\ ~missed /\ (\E r \in Replica : task[r].ready) => dark = {}

\* A replica that shut its gate for an older build its cached scan found does not open
\* it while that build stays registered: not by the mark of a replica that has not
\* noticed the build, not after its own DEL failed, not when the build's id comes into
\* or goes out of the sorted set's, and, if none registers during its call (Overlap is
\* FALSE), not by complete_key_index, which is "Refused while one is".
ShutStaysShut ==
  [][\A r \in Replica, o \in registered :
       ~task[r].ready /\ task'[r].ready => r \notin shut[o]]_vars

\* complete_index goes on to the mark only if every older build that was registered
\* when its backfill ended has left since: the second list, whose scan may be one that
\* another list of the replica cached meanwhile, has missed none.
RecheckMissesNone ==
  [][\A r \in Replica :
       task[r].pc = "recheck" /\ task'[r].pc = "mark" => since[r] = {}]_vars

\* Once older builds are gone for good, every replica's listings come to read the index
\* and stay with it (run: the holder of the lock completes, the others read the mark).
GateReopens ==
  <>[](registered = {}) => <>[](\A r \in Replica : task[r].ready)

\* There is always another sweep: "one replica at a time - the holder of the lock -
\* drops them every kv_sweep_interval_ms"; when a holder restarts or loses the lock,
\* "another replica sweeps".
SweepsGoOn == []<>(\E r \in Replica : task[r].pc = "sweep")

=============================================================================
