------------------------------ MODULE KvProofs ------------------------------
(***************************************************************************)
(* Proofs about KvStore, for every set of keys and sweepers, every longest *)
(* TTL, clock skew and batch size, with or without failing commands.       *)
(***************************************************************************)
EXTENDS KvStore, KvScriptProofs

\* Every state has the types of the Redis structures and of the loops' locals.
THEOREM TypeCorrect == Spec => []TypeOK
<1> USE DEF TypeOK
<1>1. Init => TypeOK
  <2> SUFFICES ASSUME Init PROVE TypeOK
    OBVIOUS
  <2>1. StoreType
    <3>1. Absent \in Absent..MaxTtl
      BY KvAssumption DEF Absent
    <3> QED
      BY <3>1 DEF Init, StoreType
  <2>2. 0 \in (Oldest - MaxTtl)..Ahead
    BY KvAssumption DEF Oldest
  <2>3. past \in {"fresh", "legacy", "backfilled"}
    BY KvStoreAssumption DEF Init
  <2> QED
    BY <2>1, <2>2, <2>3 DEF Init, Idle
<1>2. TypeOK /\ [Next]_vars => TypeOK'
  <2> SUFFICES ASSUME TypeOK, [Next]_vars PROVE TypeOK'
    OBVIOUS
  <2>0. 0 \in (Oldest - MaxTtl)..Ahead
    BY KvAssumption DEF Oldest
  <2>1. ASSUME NEW k \in Key, NEW d \in TtlArg, NEW now \in Stamp,
               Put(k, d, now) \/ PutIfAbsent(k, d, now) \/ Expire(k, d, now) \/ Incr(k, d, now)
        PROVE  TypeOK'
    <3>1. StoreType'
      BY <2>1, WriteType, KvStoreAssumption DEF Put, PutIfAbsent, Expire, Incr
    <3> QED
      BY <2>1, <3>1 DEF Put, PutIfAbsent, Expire, Incr
  <2>2. ASSUME NEW k \in Key, Delete(k) PROVE TypeOK'
    <3>1. StoreType'
      <4>1. Absent \in Absent..MaxTtl
        BY KvAssumption DEF Absent
      <4> QED
        BY <2>2, <4>1 DEF Delete, DelScript, StoreType
    <3> QED
      BY <2>2, <3>1 DEF Delete, KeepOwed
  <2>3. CASE ListFindsGone
    BY <2>3 DEF ListFindsGone, StoreType, store, Gone
  <2>4. CASE ListPrunes
    <3>1. StoreType'
      BY <2>0, <2>4, UpkeepType DEF ListPrunes, StoreType, store
    <3> QED
      BY <2>4, <3>1 DEF ListPrunes
  <2>5. ASSUME NEW s \in Sweeper, SweepStart(s) \/ SweepFails(s)
        PROVE  TypeOK'
    BY <2>0, <2>5 DEF SweepStart, SweepFails, Idle, StoreType, store
  <2>6. ASSUME NEW s \in Sweeper, NEW now \in Stamp, SweepRead(s, now)
        PROVE  TypeOK'
    BY <2>0, <2>6, StampRange DEF SweepRead, Idle, StoreType, store
  <2>7. ASSUME NEW s \in Sweeper, SweepSettle(s) PROVE TypeOK'
    <3>1. sweep[s].due \in SUBSET Key /\ sweep[s].now \in (Oldest - MaxTtl)..Ahead
      OBVIOUS
    <3>2. StoreType'
      BY <2>7, <3>1, UpkeepType DEF SweepSettle
    <3> QED
      BY <2>0, <2>7, <3>2 DEF SweepSettle, Idle
  <2>8. CASE BackfillStart \/ BackfillScan \/ BackfillFails
    BY <2>8 DEF BackfillStart, BackfillScan, BackfillFails, StoreType, store, Present
  <2>9. ASSUME NEW now \in Stamp, BackfillIndex(now) PROVE TypeOK'
    <3>1. StoreType'
      BY <2>9, StampRange, UpkeepType DEF BackfillIndex
    <3> QED
      BY <2>9, <3>1 DEF BackfillIndex
  <2>10. CASE Tick
    <3>1. StoreType'
      BY <2>10, AgeType DEF Tick
    <3>2. \A n \in (Oldest - MaxTtl)..Ahead :
            n > Oldest - MaxTtl => n - 1 \in (Oldest - MaxTtl)..Ahead
      BY KvAssumption DEF Oldest
    <3>3. sweep' \in [Sweeper -> [pc : {"idle", "read", "settle"},
                                  now : (Oldest - MaxTtl)..Ahead, due : SUBSET Key]]
      BY <2>10, <3>2 DEF Tick
    <3> QED
      BY <2>10, <3>1, <3>3 DEF Tick, KeepOwed
  <2>11. CASE UNCHANGED vars
    BY <2>11 DEF vars, store, StoreType
  <2> QED
    BY <2>1, <2>2, <2>3, <2>4, <2>5, <2>6, <2>7, <2>8, <2>9, <2>10, <2>11 DEF Next
<1> QED
  BY <1>1, <1>2, PTL DEF Spec

-----------------------------------------------------------------------------
(* The index covers the keys *)

\* No client asks for a TTL that Redis refuses.
TtlsAccepted == TtlArg \subseteq (0..MaxTtl) \cup {NoTtl}

\* While a backfill runs, a key that is there is indexed, still owed by SCAN, or
\* in the batch about to be indexed.
Coverage ==
  /\ scan # "idle" => Present \subseteq index \cup owed \cup batch
  /\ scan \in {"idle", "scan"} => batch = {}
  /\ scan = "last" => owed = {}
  /\ IndexCoversPresent

\* What a step does to the index: a key that is there afterwards is indexed, or
\* was there before and was not dropped.
NoneHidden ==
  \A k \in Key : k \in Present' => k \in index' \/ (k \in Present /\ k \notin index)

\* An accepted ttl argument is at most the longest TTL (ttl_ms).
LEMMA TtlMsAccepted ==
  ASSUME TtlsAccepted, NEW d \in TtlArg
  PROVE  TtlMs(d) \in 0..MaxTtl /\ ~Refused(TtlMs(d))
BY KvAssumption DEF TtlsAccepted, TtlMs, NoTtl, Refused

\* Writes, upkeep scripts and the clock hide no key.
LEMMA ScriptsHideNothing ==
  ASSUME TtlsAccepted, StoreType,
         \/ \E k \in Key, d \in TtlArg, now \in Stamp, nx \in BOOLEAN :
              \/ SetScript(k, TtlMs(d), now, nx)
              \/ ExpireScript(k, TtlMs(d), now)
              \/ IncrScript(k, TtlMs(d), now)
         \/ \E k \in Key : DelScript(k)
         \/ \E S \in SUBSET Key : PruneScript(S)
         \/ \E S \in SUBSET Key, now \in Int : SweepScript(S, now) \/ BackfillScript(S, now)
         \/ AgeKeys
         \/ UNCHANGED store
  PROVE  NoneHidden
<1> USE DEF NoneHidden, Present, Gone
<1>1. ASSUME NEW k \in Key, NEW d \in TtlArg, NEW now \in Stamp, NEW nx \in BOOLEAN,
             \/ SetScript(k, TtlMs(d), now, nx)
             \/ ExpireScript(k, TtlMs(d), now)
             \/ IncrScript(k, TtlMs(d), now)
      PROVE  NoneHidden
  <2>1. ~Refused(TtlMs(d))
    BY TtlMsAccepted
  <2>2. index' = index \cup {k} /\ \A j \in Key \ {k} : pttl'[j] = pttl[j]
    BY <1>1, <2>1 DEF SetScript, ExpireScript, IncrScript, StoreType
  <2> QED
    BY <2>2
<1>2. ASSUME NEW k \in Key, DelScript(k) PROVE NoneHidden
  BY <1>2 DEF DelScript, StoreType
<1>3. ASSUME NEW S \in SUBSET Key, PruneScript(S) PROVE NoneHidden
  BY <1>3 DEF PruneScript, Prunable
<1>4. ASSUME NEW S \in SUBSET Key, NEW now \in Int, SweepScript(S, now) \/ BackfillScript(S, now)
      PROVE  NoneHidden
  BY <1>4 DEF SweepScript, Sweepable, BackfillScript
<1>5. CASE AgeKeys
  <2>1. \A k \in Key : pttl[k] = Absent => pttl'[k] = Absent
    BY <1>5 DEF AgeKeys, Absent
  <2> QED
    BY <1>5, <2>1 DEF AgeKeys
<1>6. CASE UNCHANGED store
  BY <1>6 DEF store
<1> QED
  BY <1>1, <1>2, <1>3, <1>4, <1>5, <1>6

\* Every step of the system hides no key.
LEMMA StepsHideNothing ==
  ASSUME TtlsAccepted, TypeOK, [Next]_vars
  PROVE  NoneHidden
<1>1. ASSUME NEW k \in Key, NEW d \in TtlArg, NEW now \in Stamp,
             Put(k, d, now) \/ PutIfAbsent(k, d, now) \/ Expire(k, d, now) \/ Incr(k, d, now)
      PROVE  NoneHidden
  BY <1>1, ScriptsHideNothing DEF TypeOK, Put, PutIfAbsent, Expire, Incr
<1>2. ASSUME NEW k \in Key, Delete(k) PROVE NoneHidden
  BY <1>2, ScriptsHideNothing DEF TypeOK, Delete
<1>3. CASE ListFindsGone \/ ListPrunes
  BY <1>3, ScriptsHideNothing DEF TypeOK, ListFindsGone, ListPrunes
<1>4. ASSUME NEW s \in Sweeper, SweepStart(s) \/ SweepFails(s) PROVE NoneHidden
  BY <1>4, ScriptsHideNothing DEF TypeOK, SweepStart, SweepFails
<1>5. ASSUME NEW s \in Sweeper, NEW now \in Stamp, SweepRead(s, now) PROVE NoneHidden
  BY <1>5, ScriptsHideNothing DEF TypeOK, SweepRead
<1>6. ASSUME NEW s \in Sweeper, SweepSettle(s) PROVE NoneHidden
  <2>1. sweep[s].due \in SUBSET Key /\ sweep[s].now \in Int
    BY KvAssumption DEF TypeOK, Oldest
  <2> QED
    BY <1>6, <2>1, ScriptsHideNothing DEF TypeOK, SweepSettle
<1>7. CASE BackfillStart \/ BackfillScan \/ BackfillFails
  BY <1>7, ScriptsHideNothing DEF TypeOK, BackfillStart, BackfillScan, BackfillFails
<1>8. ASSUME NEW now \in Stamp, BackfillIndex(now) PROVE NoneHidden
  <2>1. now \in Int
    BY KvAssumption DEF Stamp
  <2> QED
    BY <1>8, <2>1, ScriptsHideNothing DEF TypeOK, BackfillIndex
<1>9. CASE Tick
  BY <1>9, ScriptsHideNothing DEF TypeOK, Tick
<1>10. CASE UNCHANGED vars
  BY <1>10, ScriptsHideNothing DEF TypeOK, vars
<1> QED
  BY <1>1, <1>2, <1>3, <1>4, <1>5, <1>6, <1>7, <1>8, <1>9, <1>10 DEF Next

\* A step that leaves the backfill alone keeps the coverage.
LEMMA OthersKeepCoverage ==
  ASSUME TypeOK, Coverage, NoneHidden, owed' = owed \/ KeepOwed,
         UNCHANGED <<scan, batch, past>>
  PROVE  Coverage'
<1>1. ASSUME NEW k \in Present', k \notin index' PROVE k \in Present /\ k \notin index
  BY <1>1 DEF NoneHidden, Present
<1>2. ASSUME NEW k \in Present', k \in owed PROVE k \in owed'
  BY <1>2 DEF KeepOwed, Present, Gone
<1>3. (scan # "idle" => Present \subseteq index \cup owed \cup batch)'
  BY <1>1, <1>2 DEF Coverage
<1>4. (scan = "last" => owed = {})'
  BY DEF Coverage, KeepOwed
<1>5. IndexCoversPresent'
  BY <1>1 DEF Coverage, IndexCoversPresent
<1> QED
  BY <1>3, <1>4, <1>5 DEF Coverage

\* No step of any actor breaks the coverage.
LEMMA StepsKeepCoverage ==
  ASSUME TtlsAccepted, TypeOK, Coverage, [Next]_vars
  PROVE  Coverage'
<1>1. NoneHidden
  BY StepsHideNothing
<1>2. ASSUME NEW k \in Key, NEW d \in TtlArg, NEW now \in Stamp,
             Put(k, d, now) \/ PutIfAbsent(k, d, now) \/ Expire(k, d, now) \/ Incr(k, d, now)
      PROVE  Coverage'
  BY <1>1, <1>2, OthersKeepCoverage DEF Put, PutIfAbsent, Expire, Incr
<1>3. ASSUME NEW k \in Key, Delete(k) PROVE Coverage'
  BY <1>1, <1>3, OthersKeepCoverage DEF Delete
<1>4. CASE ListFindsGone \/ ListPrunes
  BY <1>1, <1>4, OthersKeepCoverage DEF ListFindsGone, ListPrunes
<1>5. ASSUME NEW s \in Sweeper, NEW now \in Stamp,
             SweepStart(s) \/ SweepRead(s, now) \/ SweepSettle(s) \/ SweepFails(s)
      PROVE  Coverage'
  BY <1>1, <1>5, OthersKeepCoverage DEF SweepStart, SweepRead, SweepSettle, SweepFails
<1>6. CASE BackfillStart
  BY <1>6 DEF BackfillStart, Coverage, IndexCoversPresent, Present, Gone, store
<1>7. CASE BackfillScan
  <2> PICK S \in SUBSET Present : /\ batch' = S /\ owed' = owed \ S
                                  /\ scan' = "index" \/ (scan' = "last" /\ owed \subseteq S)
    BY <1>7 DEF BackfillScan
  <2> QED
    BY <1>7 DEF BackfillScan, Coverage, IndexCoversPresent, Present, Gone, store
<1>8. ASSUME NEW now \in Stamp, BackfillIndex(now) PROVE Coverage'
  <2>1. Present' = Present /\ index' = index \cup (batch \ Gone)
    BY <1>8 DEF BackfillIndex, BackfillScript, Present, Gone
  <2>2. Present \subseteq index' \cup owed
    BY <1>8, <2>1 DEF BackfillIndex, Coverage, Present
  <2>3. IndexCoversPresent'
    BY <1>8, <2>1, <2>2 DEF BackfillIndex, Coverage, IndexCoversPresent
  <2> QED
    BY <1>8, <2>1, <2>2, <2>3 DEF BackfillIndex, Coverage
<1>9. CASE BackfillFails
  BY <1>9 DEF BackfillFails, Coverage, IndexCoversPresent, Present, Gone, store
<1>10. CASE Tick
  BY <1>1, <1>10, OthersKeepCoverage DEF Tick
<1>11. CASE UNCHANGED vars
  BY <1>1, <1>11, OthersKeepCoverage DEF vars
<1>12. Stamp # {}
  BY KvAssumption DEF Stamp
<1> QED
  BY <1>2, <1>3, <1>4, <1>5, <1>6, <1>7, <1>8, <1>9, <1>10, <1>11, <1>12 DEF Next

\* With TTLs Redis accepts, every key that is there is indexed once the index is
\* complete, whatever prunes, sweeps, backfills and writes interleave.
THEOREM IndexIsComplete ==
  ASSUME TtlsAccepted
  PROVE  Spec => []IndexCoversPresent
<1>1. Init => Coverage
  BY DEF Init, Coverage, IndexCoversPresent, Present, Gone
<1>2. TypeOK /\ Coverage /\ [Next]_vars => Coverage'
  BY StepsKeepCoverage
<1>3. Coverage => IndexCoversPresent
  BY DEF Coverage
<1> QED
  BY <1>1, <1>2, <1>3, TypeCorrect, PTL DEF Spec

-----------------------------------------------------------------------------
(* The expiry index finds keys in time *)

\* k has no expiry to wait for, or is scheduled for it.
Scheduled(k) ==
  pttl[k] # NoTtl =>
    /\ expiry[k] # NoScore
    /\ expiry[k] <= Ahead + IF k \in Gone THEN -1 ELSE pttl[k]

\* A write schedules the key it writes and leaves the others alone.
LEMMA WritesSchedule ==
  ASSUME TtlsAccepted, StoreType, AllScheduled, Present \subseteq index,
         NEW k \in Key, NEW d \in TtlArg, NEW now \in Stamp, NEW nx \in BOOLEAN,
         \/ SetScript(k, TtlMs(d), now, nx)
         \/ ExpireScript(k, TtlMs(d), now)
         \/ IncrScript(k, TtlMs(d), now)
  PROVE  AllScheduled'
<1> DEFINE ttl == TtlMs(d)
<1>1. ttl \in 0..MaxTtl /\ ~Refused(ttl)
  BY TtlMsAccepted
<1>2. Score(now, ttl) \in Int /\ Score(now, ttl) <= Ahead + ttl
  BY <1>1, ScoreRange, StampRange
<1> HIDE DEF ttl
<1>3. index' = index \cup {k} /\ \A j \in Key \ {k} : pttl'[j] = pttl[j] /\ expiry'[j] = expiry[j]
  BY <1>1 DEF ttl, SetScript, ExpireScript, IncrScript, StoreType
<1>4. Scheduled(k)'
  <2>1. CASE ttl > 0
    <3>1. pttl'[k] = ttl /\ expiry'[k] = Score(now, ttl)
      BY <1>1, <2>1 DEF ttl, SetScript, ExpireScript, IncrScript, StoreType
    <3>2. k \notin Gone'
      BY <1>1, <2>1, <3>1 DEF Gone, Absent
    <3> QED
      BY <1>2, <3>1, <3>2, KvAssumption DEF Scheduled
  <2>2. CASE ttl = 0 /\ (pttl'[k] = NoTtl)
    BY <2>2 DEF Scheduled
  <2>3. CASE ttl = 0 /\ (pttl'[k] # NoTtl)
    <3>1. pttl'[k] = pttl[k] /\ expiry'[k] = expiry[k] /\ k \notin Gone
      BY <1>1, <2>3 DEF ttl, SetScript, ExpireScript, IncrScript, StoreType
    <3>2. k \in index /\ k \notin Gone'
      BY <3>1 DEF Present, Gone
    <3> QED
      BY <3>1, <3>2 DEF Scheduled, AllScheduled
  <2> QED
    BY <1>1, <2>1, <2>2, <2>3, KvAssumption
<1>5. ASSUME NEW j \in index', j # k PROVE Scheduled(j)'
  <2>1. j \in index /\ pttl'[j] = pttl[j] /\ expiry'[j] = expiry[j] /\ (j \in Gone' <=> j \in Gone)
    BY <1>3, <1>5 DEF StoreType, Gone
  <2> QED
    BY <2>1 DEF Scheduled, AllScheduled
<1> QED
  BY <1>4, <1>5 DEF Scheduled, AllScheduled

\* So do deletes and the upkeep scripts.
LEMMA UpkeepSchedules ==
  ASSUME StoreType, AllScheduled, Present \subseteq index,
         NEW S \in SUBSET Key, NEW now \in (Oldest - MaxTtl)..Ahead,
         \/ \E k \in Key : DelScript(k)
         \/ PruneScript(S)
         \/ SweepScript(S, now)
         \/ BackfillScript(S, now)
  PROVE  AllScheduled'
<1> SUFFICES ASSUME NEW j \in index' PROVE Scheduled(j)'
  BY DEF Scheduled, AllScheduled
<1>1. j \in index /\ j \in Key
  BY DEF DelScript, PruneScript, SweepScript, BackfillScript, StoreType, Present
<1>2. pttl'[j] = pttl[j] /\ (j \in Gone' <=> j \in Gone)
  BY <1>1 DEF DelScript, PruneScript, SweepScript, BackfillScript, StoreType, Gone
<1>3. Scheduled(j)
  BY <1>1 DEF Scheduled, AllScheduled
<1>4. CASE expiry'[j] = expiry[j]
  BY <1>2, <1>3, <1>4 DEF Scheduled
<1>5. CASE pttl[j] # NoTtl /\ j \notin Gone /\ expiry'[j] = Score(now, pttl[j])
  <2>1. pttl[j] \in 0..MaxTtl
    BY <1>1, <1>5, KvAssumption DEF StoreType, Gone, NoTtl, Absent
  <2> QED
    BY <1>2, <1>5, <2>1, ScoreRange, KvAssumption DEF Scheduled
<1>6. CASE pttl[j] = NoTtl
  BY <1>2, <1>6 DEF Scheduled
<1>7. CASE \E k \in Key : DelScript(k)
  BY <1>1, <1>4, <1>7 DEF DelScript, StoreType
<1>8. CASE PruneScript(S)
  BY <1>1, <1>4, <1>8 DEF PruneScript
<1>9. CASE SweepScript(S, now)
  BY <1>1, <1>4, <1>5, <1>6, <1>9 DEF SweepScript, Sweepable, Settled
<1>10. CASE BackfillScript(S, now)
  <2>1. pttl[j] > 0 => pttl[j] # NoTtl /\ j \notin Gone
    BY DEF Gone, NoTtl, Absent
  <2> QED
    BY <1>1, <1>4, <1>5, <1>10, <2>1 DEF BackfillScript
<1> QED
  BY <1>7, <1>8, <1>9, <1>10

\* A tick brings expiry times and scores nearer alike.
LEMMA AgeSchedules ==
  ASSUME StoreType, AllScheduled, AgeKeys
  PROVE  AllScheduled'
<1> SUFFICES ASSUME NEW j \in index' PROVE Scheduled(j)'
  BY DEF Scheduled, AllScheduled
<1>1. j \in index /\ j \in Key /\ Scheduled(j)
  BY DEF AgeKeys, StoreType, Scheduled, AllScheduled
<1>2. CASE pttl[j] = NoTtl
  BY <1>1, <1>2 DEF AgeKeys, Scheduled, NoTtl
<1>3. CASE pttl[j] # NoTtl
  <2>1. expiry[j] # NoScore /\ expiry[j] \in Int
    BY <1>1, <1>3, KvAssumption DEF Scheduled, StoreType, Oldest
  <2>2. expiry'[j] = Clamp(expiry[j] - 1)
    BY <1>1, <2>1 DEF AgeKeys
  <2>3. /\ expiry'[j] \in Int /\ expiry'[j] # NoScore
        /\ expiry'[j] <= expiry[j] - 1 \/ expiry'[j] <= Ahead - 1
    BY <2>1, <2>2, KvAssumption DEF Clamp, Oldest
  <2>4. CASE pttl[j] = Absent
    <3>1. pttl'[j] = Absent
      BY <1>1, <2>4 DEF AgeKeys, Absent
    <3> QED
      BY <1>1, <1>3, <2>1, <2>3, <2>4, <3>1, KvAssumption DEF Scheduled, Gone
  <2>5. CASE pttl[j] = 0
    <3>1. pttl'[j] = Absent
      BY <1>1, <2>5 DEF AgeKeys
    <3> QED
      BY <1>1, <1>3, <2>1, <2>3, <2>5, <3>1, KvAssumption DEF Scheduled, Gone, Absent
  <2>6. CASE pttl[j] > 0
    <3>1. pttl[j] \in Int /\ pttl'[j] = pttl[j] - 1
      BY <1>1, <2>6, KvAssumption DEF AgeKeys, StoreType, Absent
    <3> QED
      BY <1>1, <1>3, <2>1, <2>3, <2>6, <3>1, KvAssumption DEF Scheduled, Gone, Absent
  <2> QED
    BY <1>1, <1>3, <2>4, <2>5, <2>6, KvAssumption DEF StoreType, NoTtl, Absent
<1> QED
  BY <1>2, <1>3

\* No step of any actor loses the schedule of an indexed key.
LEMMA StepsKeepSchedule ==
  ASSUME TtlsAccepted, TypeOK, Present \subseteq index, AllScheduled, [Next]_vars
  PROVE  AllScheduled'
<1>1. StoreType /\ Oldest - MaxTtl \in (Oldest - MaxTtl)..Ahead
  BY KvAssumption DEF TypeOK, Oldest
<1>2. ASSUME UNCHANGED store PROVE AllScheduled'
  BY <1>2 DEF store, AllScheduled, Gone
<1>3. ASSUME NEW k \in Key, NEW d \in TtlArg, NEW now \in Stamp,
             Put(k, d, now) \/ PutIfAbsent(k, d, now) \/ Expire(k, d, now) \/ Incr(k, d, now)
      PROVE  AllScheduled'
  BY <1>1, <1>3, WritesSchedule DEF Put, PutIfAbsent, Expire, Incr
<1>4. ASSUME NEW k \in Key, Delete(k) PROVE AllScheduled'
  BY <1>1, <1>4, UpkeepSchedules DEF Delete
<1>5. CASE ListPrunes
  <2>1. gone \in SUBSET Key
    BY DEF TypeOK
  <2> QED
    BY <1>1, <1>2, <1>5, <2>1, UpkeepSchedules DEF ListPrunes
<1>6. ASSUME NEW s \in Sweeper, SweepSettle(s) PROVE AllScheduled'
  <2>1. sweep[s].due \in SUBSET Key /\ sweep[s].now \in (Oldest - MaxTtl)..Ahead
    BY DEF TypeOK
  <2> QED
    BY <1>1, <1>6, <2>1, UpkeepSchedules DEF SweepSettle
<1>7. ASSUME NEW now \in Stamp, BackfillIndex(now) PROVE AllScheduled'
  <2>1. batch \in SUBSET Key /\ now \in (Oldest - MaxTtl)..Ahead
    BY StampRange DEF TypeOK
  <2> QED
    BY <1>1, <1>7, <2>1, UpkeepSchedules DEF BackfillIndex
<1>8. CASE Tick
  BY <1>1, <1>8, AgeSchedules DEF Tick
<1>9. CASE ListFindsGone \/ BackfillStart \/ BackfillScan \/ BackfillFails \/ UNCHANGED vars
  BY <1>2, <1>9 DEF ListFindsGone, BackfillStart, BackfillScan, BackfillFails, vars
<1>10. ASSUME NEW s \in Sweeper, NEW now \in Stamp, SweepStart(s) \/ SweepRead(s, now) \/ SweepFails(s)
       PROVE  AllScheduled'
  BY <1>2, <1>10 DEF SweepStart, SweepRead, SweepFails
<1>11. Stamp # {}
  BY KvAssumption DEF Stamp
<1> QED
  BY <1>3, <1>4, <1>5, <1>6, <1>7, <1>8, <1>9, <1>10, <1>11 DEF Next

\* Where Redis accepts the TTLs and no older build left keys behind, an indexed
\* key is in the expiry index with a score at most the clock skew after its
\* expiry, so the sweep finds its entry in time.
THEOREM KeysAreScheduled ==
  ASSUME TtlsAccepted
  PROVE  Spec => []ScheduledInTime
<1> DEFINE Inv == Coverage /\ ScheduledInTime
<1>1. Init => Inv
  BY DEF Init, Coverage, IndexCoversPresent, ScheduledInTime, AllScheduled, Present, Gone
<1>2. TypeOK /\ Inv /\ [Next]_vars => Inv'
  <2> SUFFICES ASSUME TypeOK, Inv, [Next]_vars PROVE Inv'
    OBVIOUS
  <2>1. past' = "fresh" => past = "fresh"
    BY DEF Next, vars, Put, PutIfAbsent, Delete, Expire, Incr, ListFindsGone, ListPrunes,
           SweepStart, SweepRead, SweepSettle, SweepFails,
           BackfillStart, BackfillScan, BackfillIndex, BackfillFails, Tick
  <2>2. past = "fresh" => Present \subseteq index /\ AllScheduled
    BY DEF Coverage, IndexCoversPresent, ScheduledInTime
  <2>3. Coverage'
    BY StepsKeepCoverage
  <2>4. ScheduledInTime'
    BY <2>1, <2>2, StepsKeepSchedule DEF ScheduledInTime
  <2> QED
    BY <2>3, <2>4
<1>3. Inv => ScheduledInTime
  OBVIOUS
<1> QED
  BY <1>1, <1>2, <1>3, TypeCorrect, PTL DEF Spec
=============================================================================
