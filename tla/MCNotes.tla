-------------------------------- MODULE MCNotes --------------------------------
(* Small instances of Notes for TLC. *)
EXTENDS Notes
=============================================================================
