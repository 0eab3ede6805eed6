------------------------------ MODULE Counter ------------------------------
(***************************************************************************)
(* The arithmetic of incr_floor (INCR_FLOOR_LUA of state/kv.rs): Lua works *)
(* with doubles, which hold every integer up to Exact, every other one up  *)
(* to twice that, and every fourth up to four times; INCRBY itself works   *)
(* with integers.                                                          *)
(***************************************************************************)
EXTENDS Integers

CONSTANT Exact   \* 2^53, `exact' in the script

ASSUME CounterAssumption == Exact \in Nat \ {0}

Abs(x) == IF x < 0 THEN -x ELSE x

\* The distance of two doubles around x, for x below 4 * Exact.
Spacing(x) == IF Abs(x) <= Exact THEN 1 ELSE IF Abs(x) <= 2 * Exact THEN 2 ELSE 4

\* x as a double: the nearest there is, of two the even one.
Double(x) ==
  LET s == Spacing(x)
      q == x \div s
      r == x % s
  IN  IF 2 * r < s \/ (2 * r = s /\ q % 2 = 0) THEN q * s ELSE (q + 1) * s

\* The script refuses operands at or past `exact'.
Accepted(current, floor, delta) ==
  Abs(current) < Exact /\ Abs(floor) < Exact /\ Abs(delta) < Exact

\* The counter is raised to at least the floor.
Raised(current, floor) == IF current < floor THEN floor ELSE current

\* What INCRBY is called with, and the counter after it.
Increment(current, floor, delta) == Double(Double(Raised(current, floor) - current) + delta)
IncrFloor(current, floor, delta) == current + Increment(current, floor, delta)

\* What incr_floor promises: "raise the counter to at least the floor, then add".
Promised(current, floor, delta) == Raised(current, floor) + delta

=============================================================================
