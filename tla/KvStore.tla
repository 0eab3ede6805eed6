------------------------------ MODULE KvStore ------------------------------
(***************************************************************************)
(* The key-value store over time: clients write, keys expire, listings     *)
(* prune, replicas sweep the expiry index, and a backfill indexes keys     *)
(* that builds without the index left behind (kv.rs).                      *)
(*                                                                         *)
(* Sweep, backfill and prune each read first and act on what they read     *)
(* later; every other actor can come between.                              *)
(***************************************************************************)
EXTENDS KvScripts, FiniteSets

CONSTANTS
  TtlArg,      \* Option<Duration> arguments of the clients; NoTtl is None
  Sweeper,     \* replicas that sweep
  SweepBatch,  \* SWEEP_BATCH: keys settled per script call
  Legacy,      \* TRUE: an older build may have left unindexed keys behind
  Faults       \* TRUE: commands of sweeps and backfills may fail

ASSUME KvStoreAssumption ==
  /\ TtlArg \subseteq Nat \cup {NoTtl}
  /\ SweepBatch \in Nat \ {0}
  /\ Legacy \in BOOLEAN
  /\ Faults \in BOOLEAN

VARIABLES
  gone,        \* keys a listing found absent and is about to prune
  sweep,       \* [Sweeper -> [pc, now, due]]: sweep()'s position and locals
  scan,        \* backfill_index()'s position: "idle", "scan", "index", "last"
  owed,        \* keys SCAN still owes the backfill: there since it started
  batch,       \* the keys of the backfill's last SCAN step
  past         \* history: "fresh" (no older build ever wrote), "legacy" (one left
               \* keys behind) or "backfilled" (a backfill completed since)

vars == <<store, gone, sweep, scan, owed, batch, past>>

Idle == [pc |-> "idle", now |-> 0, due |-> {}]

Init ==
  /\ \/ past = "fresh" /\ pttl = [k \in Key |-> Absent]
     \/ past = "legacy" /\ Legacy /\ pttl \in [Key -> Absent..MaxTtl]
  /\ index = {}
  /\ expiry = [k \in Key |-> NoScore]
  /\ gone = {}
  /\ sweep = [s \in Sweeper |-> Idle]
  /\ scan = "idle" /\ owed = {} /\ batch = {}

\* SCAN owes nothing for a key that was absent at some point of the pass.
KeepOwed == owed' = {k \in owed : pttl'[k] # Absent}

-----------------------------------------------------------------------------
(* Clients *)

Put(k, d, now) ==
  /\ SetScript(k, TtlMs(d), now, FALSE)
  /\ UNCHANGED <<gone, sweep, scan, owed, batch, past>>

PutIfAbsent(k, d, now) ==
  /\ SetScript(k, TtlMs(d), now, TRUE)
  /\ UNCHANGED <<gone, sweep, scan, owed, batch, past>>

Delete(k) ==
  /\ DelScript(k)
  /\ KeepOwed
  /\ UNCHANGED <<gone, sweep, scan, batch, past>>

Expire(k, d, now) ==
  /\ ExpireScript(k, TtlMs(d), now)
  /\ UNCHANGED <<gone, sweep, scan, owed, batch, past>>

\* incr and incr_floor; one whose INCRBY is refused changes nothing.
Incr(k, d, now) ==
  /\ IncrScript(k, TtlMs(d), now)
  /\ UNCHANGED <<gone, sweep, scan, owed, batch, past>>

\* fetch_entries finds indexed keys gone ...
ListFindsGone ==
  /\ \E S \in SUBSET (index \cap Gone) : gone' = gone \cup S
  /\ UNCHANGED <<store, sweep, scan, owed, batch, past>>

\* ... and has their index entries dropped; a failure is ignored.
ListPrunes ==
  /\ gone # {}
  /\ PruneScript(gone) \/ (Faults /\ UNCHANGED store)
  /\ gone' = {}
  /\ UNCHANGED <<sweep, scan, owed, batch, past>>

-----------------------------------------------------------------------------
(* sweep() *)

\* Mutant: the range bounds are swapped.
DueKeysSwapped(now) == {k \in Key : expiry[k] # NoScore /\ expiry[k] >= now}

\* ZRANGEBYSCORE expiry -inf now.
DueKeys(now) == {k \in Key : expiry[k] # NoScore /\ expiry[k] <= now}

\* The LIMIT lowest scores of D, ties broken either way.
Lowest(D, S) ==
  /\ S \subseteq D
  /\ Cardinality(S) = IF Cardinality(D) < SweepBatch THEN Cardinality(D) ELSE SweepBatch
  /\ \A k \in S, j \in D \ S : expiry[k] <= expiry[j]

SweepStart(s) ==
  /\ sweep[s].pc = "idle"
  /\ sweep' = [sweep EXCEPT ![s].pc = "read"]
  /\ UNCHANGED <<store, gone, scan, owed, batch, past>>

\* The sweep reads the due keys; with none due it returns.
SweepRead(s, now) ==
  /\ sweep[s].pc = "read"
  /\ \E S \in SUBSET Key :
       /\ Lowest(DueKeys(now), S)
       /\ sweep' = [sweep EXCEPT ![s] =
                      IF S = {} THEN Idle ELSE [pc |-> "settle", now |-> now, due |-> S]]
  /\ UNCHANGED <<store, gone, scan, owed, batch, past>>

\* The script settles them; a full batch is followed by another read.
SweepSettle(s) ==
  /\ sweep[s].pc = "settle"
  /\ SweepScript(sweep[s].due, sweep[s].now)
  /\ sweep' = [sweep EXCEPT ![s] =
                 [Idle EXCEPT !.pc = IF Cardinality(sweep[s].due) < SweepBatch
                                     THEN "idle" ELSE "read"]]
  /\ UNCHANGED <<gone, scan, owed, batch, past>>

\* Either command fails and the sweep returns the error.
SweepFails(s) ==
  /\ Faults
  /\ sweep[s].pc # "idle"
  /\ sweep' = [sweep EXCEPT ![s] = Idle]
  /\ UNCHANGED <<store, gone, scan, owed, batch, past>>

-----------------------------------------------------------------------------
(* backfill_index() *)

BackfillStart ==
  /\ scan = "idle"
  /\ scan' = "scan"
  /\ owed' = Present
  /\ UNCHANGED <<store, gone, sweep, batch, past>>

\* A SCAN step returns some keys.  SCAN may repeat a key, and the step that ends
\* the pass (cursor 0) leaves no key owed.
BackfillScan ==
  /\ scan = "scan"
  /\ \E S \in SUBSET Present :
       /\ batch' = S
       /\ owed' = owed \ S
       /\ scan' = "index" \/ (scan' = "last" /\ owed \subseteq S)
  /\ UNCHANGED <<store, gone, sweep, past>>

\* The script indexes the keys of the step that are still there; after the
\* last step the backfill is complete.
BackfillIndex(now) ==
  /\ scan \in {"index", "last"}
  /\ BackfillScript(batch, now)
  /\ batch' = {}
  /\ scan' = IF scan = "last" THEN "idle" ELSE "scan"
  /\ past' = IF scan = "last" /\ past = "legacy" THEN "backfilled" ELSE past
  /\ UNCHANGED <<gone, sweep, owed>>

BackfillFails ==
  /\ Faults
  /\ scan # "idle"
  /\ scan' = "idle" /\ owed' = {} /\ batch' = {}
  /\ UNCHANGED <<store, gone, sweep, past>>

-----------------------------------------------------------------------------
\* A tick; a sweep's stamp falls behind while it waits, down to the point
\* where any score computed from it is due for everyone.
Tick ==
  /\ AgeKeys
  /\ KeepOwed
  /\ sweep' = [s \in Sweeper |->
                 IF sweep[s].pc = "settle" /\ sweep[s].now > Oldest - MaxTtl
                 THEN [sweep[s] EXCEPT !.now = @ - 1] ELSE sweep[s]]
  /\ UNCHANGED <<gone, scan, batch, past>>

Next ==
  \/ \E k \in Key : Delete(k)
  \/ \E k \in Key, d \in TtlArg, now \in Stamp :
       Put(k, d, now) \/ PutIfAbsent(k, d, now) \/ Expire(k, d, now) \/ Incr(k, d, now)
  \/ ListFindsGone \/ ListPrunes
  \/ \E s \in Sweeper :
       \/ SweepStart(s) \/ SweepSettle(s) \/ SweepFails(s)
       \/ \E now \in Stamp : SweepRead(s, now)
  \/ BackfillStart \/ BackfillScan \/ BackfillFails
  \/ \E now \in Stamp : BackfillIndex(now)
  \/ Tick

Spec == Init /\ [][Next]_vars

\* Time passes, a sweep is started again and again (the maintenance task does
\* at every tick) and runs to its end, and a listing that found keys gone runs on.
FairSpec ==
  /\ Spec
  /\ WF_vars(Tick)
  /\ WF_vars(ListPrunes)
  /\ \A s \in Sweeper :
       WF_vars(SweepStart(s)) /\ WF_vars(\E now \in Stamp : SweepRead(s, now))
         /\ WF_vars(SweepSettle(s))

-----------------------------------------------------------------------------
(* Properties *)

TypeOK ==
  /\ StoreType
  /\ gone \subseteq Key
  /\ sweep \in [Sweeper -> [pc : {"idle", "read", "settle"},
                            now : (Oldest - MaxTtl)..Ahead, due : SUBSET Key]]
  /\ scan \in {"idle", "scan", "index", "last"}
  /\ owed \subseteq Key /\ batch \subseteq Key
  /\ past \in {"fresh", "legacy", "backfilled"}

\* Once the index is complete every key that is there is indexed: no prune, no
\* sweep working from an old list and no expiry ever hides a key that was
\* written again (PRUNE_LUA's EXISTS, SWEEP_LUA's PTTL, the ZADD of writes).
IndexCoversPresent ==
  past # "legacy" => Present \subseteq index

AllScheduled ==
  \A k \in index :
    pttl[k] # NoTtl =>
      /\ expiry[k] # NoScore
      /\ expiry[k] <= Ahead + IF k \in Gone THEN -1 ELSE pttl[k]

\* Where no older build left keys behind, an indexed key that has a TTL, or ran
\* out of one, is in the expiry index with a score at most the largest clock
\* skew after its expiry: a sweep finds its entry in time (the ZADD/ZREM pairs
\* of SET, EXPIRE, INCR and SWEEP).
ScheduledInTime == past = "fresh" => AllScheduled

\* kv.rs:12-14: "Redis expires the data key itself; a sweep then drops its
\* index entries".  The entry of a key that is gone is dropped, unless the key
\* is written again first, even if nobody ever lists it.
GoneEntriesDropped ==
  \A k \in Key : (k \in index \cap Gone) ~> (k \notin index \cap Gone)
=============================================================================
