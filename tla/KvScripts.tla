------------------------------ MODULE KvScripts ------------------------------
(***************************************************************************)
(* The key-value store's Redis state and the scripts of kv.rs, one action  *)
(* per script.  Values are left out: only whether a key is there, what is  *)
(* left of its time to live, and its entries in the two indexes matter.    *)
(*                                                                         *)
(* Times are relative to Redis' clock, in ticks.  A stamp is a client's    *)
(* now_ms() minus Redis' clock when the script runs: the clock skew less   *)
(* the time the command was on its way.                                    *)
(***************************************************************************)
EXTENDS Integers

CONSTANTS
  Key,       \* data keys
  MaxTtl,    \* the longest time to live Redis accepts
  Behind,    \* the most a client's stamp is behind Redis' clock
  Ahead,     \* the most it is ahead
  NoScore    \* not a member of the expiry index

ASSUME KvAssumption ==
  /\ MaxTtl \in Nat \ {0}
  /\ Behind \in Nat /\ Ahead \in Nat
  /\ NoScore \notin Int

VARIABLES
  pttl,   \* [Key -> Int]: what PTTL answers: ticks left, NoTtl or Absent
  index,  \* the key index: a set of keys
  expiry  \* [Key -> score]: the expiry index; a score is relative to now

store == <<pttl, index, expiry>>

Absent == -2
NoTtl  == -1

Stamp  == (-Behind)..Ahead
Gone   == {k \in Key : pttl[k] = Absent}
Present == Key \ Gone

-----------------------------------------------------------------------------
(* Arguments *)

\* Option<Duration> to the ttl argument: None is 0, Some is at least 1.
TtlMs(d) == IF d = NoTtl THEN 0 ELSE IF d < 1 THEN 1 ELSE d

\* Redis refuses a PX or PEXPIRE that overflows its expiry time.
Refused(ttl) == ttl > MaxTtl

\* Scores so far in the past that every client finds them due are one.
Oldest == -Behind - 1
Clamp(s) == IF s < Oldest THEN Oldest ELSE s

\* Mutant: the score mixes seconds and milliseconds.
ScoreWrongUnit(now, ttl) == Clamp(now + 1000 * ttl)

\* `tonumber(now) + ttl'.
Score(now, ttl) == Clamp(now + ttl)

-----------------------------------------------------------------------------
(* Writes.  `now' is the client's stamp. *)

\* SET_LUA; nx is put_if_absent, which stores nothing over a key that is there.
\* A refused PX fails the SET, and nothing is written.
SetScript(k, ttl, now, nx) ==
  /\ ~Refused(ttl)
  /\ nx => k \in Gone
  /\ pttl' = [pttl EXCEPT ![k] = IF ttl > 0 THEN ttl ELSE NoTtl]
  /\ expiry' = [expiry EXCEPT ![k] = IF ttl > 0 THEN Score(now, ttl) ELSE NoScore]
  /\ index' = index \cup {k}

\* DEL_LUA.
DelScript(k) ==
  /\ pttl' = [pttl EXCEPT ![k] = Absent]
  /\ expiry' = [expiry EXCEPT ![k] = NoScore]
  /\ index' = index \ {k}

\* EXPIRE_LUA: set or clear the TTL of a key that is there.
ExpireScript(k, ttl, now) ==
  /\ k \in Present
  /\ ~Refused(ttl)
  /\ pttl' = [pttl EXCEPT ![k] = IF ttl > 0 THEN ttl ELSE NoTtl]
  /\ expiry' = [expiry EXCEPT ![k] = IF ttl > 0 THEN Score(now, ttl) ELSE NoScore]
  /\ index' = index \cup {k}

\* INCR_LUA and INCR_FLOOR_LUA after their INCRBY succeeded: it creates an
\* absent key without a TTL and keeps the TTL of one that is there.  A refused
\* PEXPIRE aborts the script, and the INCRBY stays.
IncrScript(k, ttl, now) ==
  LET kept == IF k \in Gone THEN NoTtl ELSE pttl[k] IN
  IF Refused(ttl)
  THEN /\ pttl' = [pttl EXCEPT ![k] = kept]
       /\ UNCHANGED <<index, expiry>>
  ELSE /\ pttl' = [pttl EXCEPT ![k] = IF ttl > 0 THEN ttl ELSE kept]
       /\ expiry' = [expiry EXCEPT ![k] = IF ttl > 0 THEN Score(now, ttl) ELSE @]
       /\ index' = index \cup {k}

-----------------------------------------------------------------------------
(* Index upkeep.  None of these scripts touches a data key. *)

\* Mutant: PRUNE_LUA trusts the caller.
PrunableUnchecked(S) == S

\* The keys PRUNE_LUA drops: those it finds absent.
Prunable(S) == S \cap Gone

PruneScript(S) ==
  /\ index' = index \ Prunable(S)
  /\ expiry' = [k \in Key |-> IF k \in Prunable(S) THEN NoScore ELSE expiry[k]]
  /\ UNCHANGED pttl

\* Mutant: SWEEP_LUA forgets every key that is still there.
SettledForgetful(k, now) == NoScore

\* The score SWEEP_LUA leaves a due key that is there: none without a TTL,
\* otherwise the caller's now plus what is left.
Settled(k, now) == IF pttl[k] = NoTtl THEN NoScore ELSE Score(now, pttl[k])

\* The keys SWEEP_LUA drops: PTTL says they are gone.
Sweepable(S) == S \cap Gone

SweepScript(S, now) ==
  /\ index' = index \ Sweepable(S)
  /\ expiry' = [k \in Key |->
                  IF k \in Sweepable(S) THEN NoScore
                  ELSE IF k \in S THEN Settled(k, now) ELSE expiry[k]]
  /\ UNCHANGED pttl

\* Mutant: BACKFILL_LUA indexes only keys with a TTL.
BackfillTimedOnly(S, now) ==
  /\ index' = index \cup {k \in S : pttl[k] > 0}
  /\ expiry' = [k \in Key |->
                  IF k \in S /\ pttl[k] > 0 THEN Score(now, pttl[k]) ELSE expiry[k]]
  /\ UNCHANGED pttl

\* BACKFILL_LUA: a key in its last tick (PTTL 0) gets no expiry entry.
BackfillScript(S, now) ==
  /\ index' = index \cup (S \ Gone)
  /\ expiry' = [k \in Key |->
                  IF k \in S /\ pttl[k] > 0 THEN Score(now, pttl[k]) ELSE expiry[k]]
  /\ UNCHANGED pttl

-----------------------------------------------------------------------------
(* Redis' clock *)

\* One tick: a key whose last tick has passed is gone.
AgeKeys ==
  /\ pttl' = [k \in Key |->
                CASE pttl[k] = 0 -> Absent
                  [] pttl[k] > 0 -> pttl[k] - 1
                  [] OTHER       -> pttl[k]]
  /\ expiry' = [k \in Key |-> IF expiry[k] = NoScore THEN NoScore ELSE Clamp(expiry[k] - 1)]
  /\ UNCHANGED index

StoreType ==
  /\ pttl \in [Key -> Absent..MaxTtl]
  /\ index \subseteq Key
  /\ expiry \in [Key -> Oldest..(MaxTtl + Ahead) \cup {NoScore}]
=============================================================================
