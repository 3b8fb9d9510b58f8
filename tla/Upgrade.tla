------------------------------- MODULE Upgrade -------------------------------
(***************************************************************************)
(* What opening a database promises, with nothing said of statements,      *)
(* versions or processes: the schema appears at most once, as a whole and  *)
(* without touching what is stored; only then may rows be added; nothing   *)
(* stored is ever lost.                                                    *)
(***************************************************************************)
EXTENDS Integers

VARIABLES
  ready,   \* the whole schema is there
  data     \* rows stored

Init == ready \in BOOLEAN /\ data \in Nat

Migrate == ~ready /\ ready' /\ data' = data

Write == ready /\ ready' /\ data' = data + 1

Next == Migrate \/ Write

Spec == Init /\ [][Next]_<<ready, data>>
=============================================================================
