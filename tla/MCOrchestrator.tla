--------------------------- MODULE MCOrchestrator ---------------------------
(* Small instances of Orchestrator for TLC. *)
EXTENDS Orchestrator, TLC

CONSTANT x

Search == [tool |-> "read"]
Export == [tool |-> "export"]
Create == [tool |-> "create", id |-> 0, content |-> x]
Restore == [tool |-> "restore", id |-> 1, content |-> None]
Delete == [tool |-> "delete", id |-> 1]

AllCalls == {Search, Export, Create, Restore, Delete}

\* One search or one mutation batch; the restore fails on a live row.
WriteRounds == { <<Create>>, <<Create, Restore>>, <<Search>> }

\* Everything the dispatcher knows.
ToolRounds == { <<Create>>, <<Create, Restore>>, <<Export>>, <<Search, Delete>>, <<Delete, Delete>>,
                <<Create, Search>> }

Interchangeable == Permutations(Messages)
=============================================================================
