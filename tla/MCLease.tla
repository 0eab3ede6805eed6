------------------------------ MODULE MCLease ------------------------------
(* Instances of Lease for TLC.                                             *)
EXTENDS Lease, TLC

\* Handles and nodes are interchangeable: sound for the safety runs.
Symmetric == Permutations(Handle) \cup Permutations(Node)
=============================================================================
