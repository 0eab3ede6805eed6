----------------------------- MODULE MCKvStore -----------------------------
(* Instances of KvStore for TLC, and Counter's operators on small numbers. *)
EXTENDS KvStore, Counter, TLC

\* Keys are interchangeable: sound for the safety runs.
Symmetric == Permutations(Key) \cup Permutations(Sweeper)

\* Arguments of the clients: None, zero, and TTLs up to the longest.
TtlArgs == {NoTtl} \cup 0..MaxTtl

\* The same with one duration that Redis refuses.
TtlArgsHuge == TtlArgs \cup {MaxTtl + 1}

Operand == (1 - Exact)..(Exact - 1)
Off(c, f, d) == Abs(IncrFloor(c, f, d) - Promised(c, f, d))

\* incr_floor keeps its promise unless a sum is past Exact; then it may be off, by up to
\* three.
ASSUME CounterOnSmallNumbers ==
  /\ \A c, f, d \in Operand :
       /\ Off(c, f, d) <= 3
       /\ Abs(Raised(c, f) - c) <= Exact /\ Abs(Raised(c, f) - c + d) <= Exact
            => Off(c, f, d) = 0
  /\ \E c, f, d \in Operand : Off(c, f, d) = 3
=============================================================================
