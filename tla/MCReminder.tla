------------------------------ MODULE MCReminder ------------------------------
(* Small instances of Reminder for TLC. *)
EXTENDS Reminder
=============================================================================
