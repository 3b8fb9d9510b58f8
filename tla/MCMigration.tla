----------------------------- MODULE MCMigration -----------------------------
(* Two processes on one file, of the ledger or of the notes. *)
EXTENDS Migration
=============================================================================
