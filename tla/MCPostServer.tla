----------------------------- MODULE MCPostServer -----------------------------
(* Small instances of PostServer for TLC. *)
EXTENDS PostServer, TLC

Alike == Permutations(Requests) \cup Permutations(Addresses)
=============================================================================
