---------------------------- MODULE MCKvListing ----------------------------
(* Instances of KvListing for TLC.                                         *)
EXTENDS KvListing

\* Writers store keys that stay, and keys that expire.
TtlArgs == {NoTtl, 1}
=============================================================================
