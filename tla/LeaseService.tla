---------------------------- MODULE LeaseService ----------------------------
(***************************************************************************)
(* What the lease API promises, with no Redis keys, scripts, tasks or      *)
(* timers: each name has at most one owning node, an ownership period      *)
(* starts only on a name nobody owns, and each period has a fence token    *)
(* one above the token of the period before it.                            *)
(***************************************************************************)
EXTENDS Naturals

CONSTANTS Node, Name, Nobody

VARIABLES
  owner,  \* [Name -> Node \cup {Nobody}]: the node that owns the name
  epoch   \* [Name -> Nat]: the fence token of the newest ownership period

vars == <<owner, epoch>>

Init ==
  /\ owner = [nm \in Name |-> Nobody]
  /\ epoch = [nm \in Name |-> 0]

\* Ownership starts: the name is free, the new owner gets a fresh token.
Grant(n, nm) ==
  /\ owner[nm] = Nobody
  /\ owner' = [owner EXCEPT ![nm] = n]
  /\ epoch' = [epoch EXCEPT ![nm] = @ + 1]

\* Ownership ends, by release or by expiry; several names may expire at once.
Vacate(S) ==
  /\ owner' = [nm \in Name |-> IF nm \in S THEN Nobody ELSE owner[nm]]
  /\ UNCHANGED epoch

Next ==
  \/ \E n \in Node, nm \in Name : Grant(n, nm)
  \/ \E S \in SUBSET Name : Vacate(S)

Spec == Init /\ [][Next]_vars
=============================================================================
