--------------------------- MODULE KvScriptProofs ---------------------------
(***************************************************************************)
(* The scripts of kv.rs, whoever calls them: what they leave of the        *)
(* store's types, and what INCR_FLOOR_LUA's sums in doubles come to.       *)
(***************************************************************************)
EXTENDS KvScripts, Counter, TLAPS

-----------------------------------------------------------------------------
(* Types *)

\* The ttl argument of a client is a natural number (ttl_ms).
LEMMA TtlMsType ==
  ASSUME NEW d \in Nat \cup {NoTtl}
  PROVE  TtlMs(d) \in Nat
BY DEF TtlMs, NoTtl

\* A score lies between the oldest score and now plus the TTL (ZADD's score).
LEMMA ScoreRange ==
  ASSUME NEW now \in (Oldest - MaxTtl)..Ahead, NEW ttl \in 0..MaxTtl
  PROVE  /\ Score(now, ttl) \in Oldest..(MaxTtl + Ahead)
         /\ Score(now, ttl) \in Int
         /\ Score(now, ttl) <= Ahead + ttl
BY KvAssumption DEF Score, Clamp, Oldest

\* A client's stamp is in the range of a sweep's.
LEMMA StampRange == Stamp \subseteq (Oldest - MaxTtl)..Ahead
BY KvAssumption DEF Stamp, Oldest

\* A write script leaves the store well typed (SET_LUA, EXPIRE_LUA, INCR_LUA, DEL_LUA).
LEMMA WriteType ==
  ASSUME StoreType, NEW k \in Key, NEW d \in Nat \cup {NoTtl}, NEW now \in Stamp, NEW nx \in BOOLEAN,
         \/ SetScript(k, TtlMs(d), now, nx)
         \/ ExpireScript(k, TtlMs(d), now)
         \/ IncrScript(k, TtlMs(d), now)
         \/ DelScript(k)
  PROVE  StoreType'
<1> DEFINE ttl == TtlMs(d)
<1>1. ttl \in Nat
  BY TtlMsType
<1> HIDE DEF ttl
<1>2. ~Refused(ttl) => ttl \in 0..MaxTtl
  BY <1>1, KvAssumption DEF Refused
<1>3. ~Refused(ttl) => Score(now, ttl) \in Oldest..(MaxTtl + Ahead)
  BY <1>2, ScoreRange, StampRange
<1>4. NoTtl \in Absent..MaxTtl /\ Absent \in Absent..MaxTtl
      /\ \A t \in 0..MaxTtl : t \in Absent..MaxTtl
  BY KvAssumption DEF NoTtl, Absent
<1>5. CASE SetScript(k, ttl, now, nx)
  BY <1>2, <1>3, <1>4, <1>5 DEF SetScript, StoreType
<1>6. CASE ExpireScript(k, ttl, now)
  BY <1>2, <1>3, <1>4, <1>6 DEF ExpireScript, StoreType
<1>7. CASE IncrScript(k, ttl, now)
  <2>1. CASE Refused(ttl)
    BY <1>4, <1>7, <2>1 DEF IncrScript, StoreType
  <2>2. CASE ~Refused(ttl)
    BY <1>2, <1>3, <1>4, <1>7, <2>2 DEF IncrScript, StoreType
  <2> QED
    BY <2>1, <2>2
<1>8. CASE DelScript(k)
  BY <1>4, <1>8 DEF DelScript, StoreType
<1> QED
  BY <1>5, <1>6, <1>7, <1>8 DEF ttl

\* An upkeep script leaves the store well typed (PRUNE_LUA, SWEEP_LUA, BACKFILL_LUA).
LEMMA UpkeepType ==
  ASSUME StoreType, NEW S \in SUBSET Key, NEW now \in (Oldest - MaxTtl)..Ahead,
         PruneScript(S) \/ SweepScript(S, now) \/ BackfillScript(S, now)
  PROVE  StoreType'
<1>1. \A k \in Key : pttl[k] \in Int /\ pttl[k] <= MaxTtl /\ -2 <= pttl[k]
  BY KvAssumption DEF StoreType, Absent
<1>2. \A k \in Key : pttl[k] >= 0 => Score(now, pttl[k]) \in Oldest..(MaxTtl + Ahead)
  <2> SUFFICES ASSUME NEW k \in Key, pttl[k] >= 0
               PROVE  Score(now, pttl[k]) \in Oldest..(MaxTtl + Ahead)
    OBVIOUS
  <2>1. pttl[k] \in 0..MaxTtl
    BY <1>1, KvAssumption
  <2> QED
    BY <2>1, ScoreRange
<1>3. CASE PruneScript(S)
  BY <1>3 DEF PruneScript, Prunable, StoreType
<1>4. CASE SweepScript(S, now)
  <2>1. \A k \in S \ Gone : Settled(k, now) \in Oldest..(MaxTtl + Ahead) \cup {NoScore}
    <3> SUFFICES ASSUME NEW k \in S \ Gone
                 PROVE  Settled(k, now) \in Oldest..(MaxTtl + Ahead) \cup {NoScore}
      OBVIOUS
    <3>1. CASE pttl[k] = NoTtl
      BY <3>1 DEF Settled
    <3>2. CASE pttl[k] # NoTtl
      <4>1. k \in Key /\ pttl[k] >= 0
        BY <1>1, <3>2 DEF Gone, NoTtl, Absent
      <4> QED
        BY <1>2, <3>2, <4>1 DEF Settled
    <3> QED
      BY <3>1, <3>2
  <2> QED
    BY <1>4, <2>1 DEF SweepScript, Sweepable, StoreType
<1>5. CASE BackfillScript(S, now)
  BY <1>1, <1>2, <1>5 DEF BackfillScript, StoreType
<1> QED
  BY <1>3, <1>4, <1>5

\* A tick leaves the store well typed.
LEMMA AgeType ==
  ASSUME StoreType, AgeKeys
  PROVE  StoreType'
<1>1. \A k \in Key : pttl'[k] \in Absent..MaxTtl
  <2> SUFFICES ASSUME NEW k \in Key PROVE pttl'[k] \in Absent..MaxTtl
    OBVIOUS
  <2>1. pttl[k] \in Absent..MaxTtl
    BY DEF StoreType
  <2>2. CASE pttl[k] = 0
    BY <2>2, KvAssumption DEF AgeKeys, Absent
  <2>3. CASE pttl[k] > 0
    BY <2>1, <2>3, KvAssumption DEF AgeKeys, Absent
  <2>4. CASE pttl[k] < 0
    BY <2>1, <2>4, KvAssumption DEF AgeKeys, Absent
  <2> QED
    BY <2>1, <2>2, <2>3, <2>4, KvAssumption DEF Absent
<1>2. pttl' \in [Key -> Absent..MaxTtl]
  BY <1>1 DEF AgeKeys
<1>3. \A s \in Oldest..(MaxTtl + Ahead) : Clamp(s - 1) \in Oldest..(MaxTtl + Ahead)
  BY KvAssumption DEF Clamp, Oldest
<1> QED
  BY <1>2, <1>3 DEF AgeKeys, StoreType

-----------------------------------------------------------------------------
(* The counter *)

\* An integer that a double holds is itself; any other is off by half the distance.
LEMMA DoubleOff ==
  ASSUME NEW x \in Int
  PROVE  /\ Double(x) \in Int
         /\ Abs(x) <= Exact => Double(x) = x
         /\ Abs(x) <= 2 * Exact => Abs(Double(x) - x) <= 1
         /\ Abs(Double(x) - x) <= 2
<1>1. CASE Abs(x) <= Exact
  <2>1. Spacing(x) = 1
    BY <1>1 DEF Spacing
  <2>2. Double(x) = x
    BY <2>1 DEF Double
  <2>. QED  BY <2>2, CounterAssumption DEF Abs
<1>2. CASE Abs(x) > Exact /\ Abs(x) <= 2 * Exact
  <2>1. Spacing(x) = 2
    BY <1>2, CounterAssumption DEF Spacing, Abs
  <2>2. Double(x) \in {x - 1, x, x + 1}
    BY <2>1 DEF Double
  <2>. QED  BY <1>2, <2>2, CounterAssumption DEF Abs
<1>3. CASE Abs(x) > 2 * Exact
  <2>1. Spacing(x) = 4
    BY <1>3, CounterAssumption DEF Spacing, Abs
  <2>2. Double(x) \in {x - 2, x - 1, x, x + 1, x + 2}
    BY <2>1 DEF Double
  <2>. QED  BY <1>3, <2>2, CounterAssumption DEF Abs
<1>. QED  BY <1>1, <1>2, <1>3, CounterAssumption DEF Abs

\* With a floor and a delta such as clocks and sequence numbers are, none below zero and
\* their sum no larger than 2^53, incr_floor is exact: it raises the counter to the floor
\* and adds (INCR_FLOOR_LUA).
THEOREM ClockFloorsExact ==
  ASSUME NEW current \in Nat, NEW floor \in Nat, NEW delta \in Nat,
         Accepted(current, floor, delta), floor + delta <= Exact
  PROVE  IncrFloor(current, floor, delta) = Promised(current, floor, delta)
<1> DEFINE d == Raised(current, floor) - current
<1>1. d \in Nat /\ d <= floor /\ d + delta <= Exact
  BY CounterAssumption DEF Raised, Accepted, Abs
<1>2. Double(d) = d /\ Double(d + delta) = d + delta
  BY <1>1, DoubleOff, CounterAssumption DEF Abs
<1>. QED  BY <1>1, <1>2 DEF IncrFloor, Increment, Promised, Raised

\* Whatever operands the script accepts, the counter is at most three off what is promised,
\* and far from the ends of an i64 if Exact is 2^53: INCRBY does not overflow.  Only the
\* operands are held against 2^53, their sum is not, and it may be rounded.
THEOREM NearlyExact ==
  ASSUME NEW current \in Int, NEW floor \in Int, NEW delta \in Int,
         Accepted(current, floor, delta)
  PROVE  /\ Abs(IncrFloor(current, floor, delta) - Promised(current, floor, delta)) <= 3
         /\ Abs(IncrFloor(current, floor, delta)) <= 2 * Exact + 3
<1> DEFINE d == Raised(current, floor) - current
           e == Double(d)
           f == Double(e + delta)
<1>1. d \in Int /\ Abs(d) <= 2 * Exact /\ Abs(Raised(current, floor) + delta) <= 2 * Exact
  BY CounterAssumption DEF Raised, Accepted, Abs
<1>2. e \in Int /\ Abs(e - d) <= 1
  BY <1>1, DoubleOff
<1>3. f \in Int /\ Abs(f - (e + delta)) <= 2
  BY <1>2, DoubleOff
<1>4. IncrFloor(current, floor, delta) = current + f
  BY DEF IncrFloor, Increment
<1>5. Raised(current, floor) \in Int
  BY DEF Raised
<1> HIDE DEF e, f
<1>. QED  BY <1>1, <1>2, <1>3, <1>4, <1>5, CounterAssumption DEF Promised, Abs

=============================================================================
