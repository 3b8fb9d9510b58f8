------------------------------ MODULE Migration ------------------------------
(***************************************************************************)
(* Opening a database file: Open and migrate of the ledger                 *)
(* (internal/storage/sqlite) and of the notes (internal/storage/notes).    *)
(* Processes may start side by side on one file (a new container beside    *)
(* the old one), a statement may fail, and a process may die between any   *)
(* two statements; the container is restarted ("restart: unless-stopped"). *)
(* The specification is OpenSpec, as the proofs read this module beside    *)
(* Reminder.                                                               *)
(***************************************************************************)
EXTENDS Integers, Sequences

CONSTANTS
  Processes,   \* processes that open the file
  MaxData,     \* bound on the rows stored
  MaxFaults    \* bound on failing statements and deaths

ASSUME BoundsAssumption == MaxData \in Nat /\ MaxFaults \in Nat

Current == 1   \* schemaVersion

Stores == {"ledger", "notes"}

\* The tables in the order they are made.
TablesOf == [ledger |-> <<"transactions", "mutation_batches", "audit_events", "reminder_state">>,
             notes  |-> <<"notes">>]

All(s) == {TablesOf[s][i] : i \in DOMAIN TablesOf[s]}

Tables == {"schema_version"} \cup UNION {All(s) : s \in Stores}

\* A version of 0 is none: no schema_version table, no row in it, or the
\* user_version of a new file.
File == [version : 0..(Current + 1), tables : SUBSET Tables, data : Nat]

VARIABLES
  store,    \* which of the two programs this is
  file,     \* what is committed
  work,     \* the write transaction: its process, what it sees, statements done
  proc,     \* phase of each process
  faults    \* failures and deaths so far

openVars == <<store, file, work, proc, faults>>

NoWork == [by |-> "nobody"]

Phases == {"down", "open", "read", "migrate", "serving"}

OpenTypeOK ==
  /\ store \in Stores
  /\ file \in File
  /\ work = NoWork \/ work \in [by : Processes, file : File, done : 1..6]
  /\ proc \in [Processes -> Phases]
  /\ faults \in 0..MaxFaults

\* A new file; one with every table; one whose ledger tables were made before
\* their version was recorded; one left by a later release.
OpenInit ==
  /\ store \in Stores
  /\ \/ file = [version |-> 0, tables |-> {}, data |-> 0]
     \/ file = [version |-> Current, tables |-> All(store), data |-> 1]
     \/ store = "ledger" /\ file = [version |-> 0, tables |-> {"transactions"}, data |-> 1]
     \/ file = [version |-> Current + 1, tables |-> All(store), data |-> 1]
  /\ work = NoWork
  /\ proc = [p \in Processes |-> "down"]
  /\ faults = 0

Become(p, phase) == proc' = [proc EXCEPT ![p] = phase]

----------------------------------------------------------------------------
\* main calls Open.
Start(p) ==
  /\ proc[p] = "down"
  /\ Become(p, "open")
  /\ UNCHANGED <<store, file, work, faults>>

Creates == store = "ledger" /\ "schema_version" \notin file.tables

\* The pragmas, and for the ledger CREATE TABLE IF NOT EXISTS schema_version: a
\* transaction of its own, which needs the lock when there is one to create.
Prepare(p) ==
  /\ proc[p] = "open"
  /\ Creates => work = NoWork
  /\ file' = IF Creates THEN [file EXCEPT !.tables = @ \cup {"schema_version"}] ELSE file
  /\ Become(p, "read")
  /\ UNCHANGED <<store, work, faults>>

\* Faulty: a version that is not the current one is migrated.
ReadVersion_AnyOther(p) ==
  /\ proc[p] = "read"
  /\ Become(p, IF file.version = Current THEN "serving" ELSE "migrate")
  /\ UNCHANGED <<store, file, work, faults>>

\* The version is read outside the transaction: a later one is refused (main
\* returns the error), the current one needs nothing.
ReadVersion(p) ==
  /\ proc[p] = "read"
  /\ Become(p, IF file.version > Current THEN "down"
               ELSE IF file.version = Current THEN "serving" ELSE "migrate")
  /\ UNCHANGED <<store, file, work, faults>>

Mine(p) == work # NoWork /\ work.by = p

\* What the transaction of p sees, and how far it is.
View(p) == IF Mine(p) THEN work.file ELSE file
Done(p) == IF Mine(p) THEN work.done ELSE 0

\* Faulty: the version is never recorded.
After_Unversioned(f, k) ==
  [f EXCEPT !.tables = @ \cup {TablesOf[store][i] : i \in DOMAIN TablesOf[store] \cap 1..k}]

\* Statement k of migrateV1: the tables, DELETE FROM schema_version, INSERT of
\* the version.  The notes' one table, then PRAGMA user_version.
After(f, k) ==
  LET n == Len(TablesOf[store]) IN
  IF k <= n THEN [f EXCEPT !.tables = @ \cup {TablesOf[store][k]}]
  ELSE IF store = "ledger" /\ k = n + 1 THEN [f EXCEPT !.version = 0]
  ELSE [f EXCEPT !.version = Current]

Statements == Len(TablesOf[store]) + (IF store = "ledger" THEN 2 ELSE 1)

\* CREATE TABLE notes has no IF NOT EXISTS.
Clash(p) == store = "notes" /\ Done(p) = 0 /\ "notes" \in View(p).tables

\* Faulty: the statements run outside a transaction.
Statement_Autocommit(p) ==
  /\ proc[p] = "migrate"
  /\ work = NoWork \/ Mine(p)
  /\ Done(p) < Statements
  /\ ~Clash(p)
  /\ work' = [by |-> p, file |-> After(View(p), Done(p) + 1), done |-> Done(p) + 1]
  /\ file' = work'.file
  /\ UNCHANGED <<store, proc, faults>>

\* The next statement; the first takes the write lock.
Statement(p) ==
  /\ proc[p] = "migrate"
  /\ work = NoWork \/ Mine(p)
  /\ Done(p) < Statements
  /\ ~Clash(p)
  /\ work' = [by |-> p, file |-> After(View(p), Done(p) + 1), done |-> Done(p) + 1]
  /\ UNCHANGED <<store, file, proc, faults>>

\* A commit that a reader of the other process refuses (SQLITE_BUSY) is one of
\* the failures of Fault.
Commit(p) ==
  /\ proc[p] = "migrate"
  /\ Mine(p) /\ Done(p) = Statements
  /\ file' = work.file
  /\ work' = NoWork
  /\ Become(p, "serving")
  /\ UNCHANGED <<store, faults>>

\* Open fails: the transaction, if any, is rolled back and the process ends.
Stop(p) ==
  /\ work' = IF Mine(p) THEN NoWork ELSE work
  /\ Become(p, "down")
  /\ UNCHANGED <<store, file>>

\* The other process has the lock (SQLITE_BUSY: the ledger at once, the notes
\* after busy_timeout), or has made the table in the meantime.
Refused(p) ==
  /\ \/ proc[p] = "open" /\ Creates /\ work # NoWork
     \/ proc[p] = "migrate" /\ (Clash(p) \/ (work # NoWork /\ ~Mine(p)))
  /\ Stop(p)
  /\ UNCHANGED faults

\* Any other failure, or the death of the process, also while it serves.
Fault(p) ==
  /\ proc[p] # "down"
  /\ faults < MaxFaults
  /\ faults' = faults + 1
  /\ Stop(p)

\* A serving process commits a row.
Write(p) ==
  /\ proc[p] = "serving"
  /\ work = NoWork
  /\ file.data < MaxData
  /\ file' = [file EXCEPT !.data = @ + 1]
  /\ UNCHANGED <<store, work, proc, faults>>

Opening(p) == Start(p) \/ Prepare(p) \/ ReadVersion(p) \/ Statement(p) \/ Commit(p) \/ Refused(p)

OpenNext == \E p \in Processes : Opening(p) \/ Fault(p) \/ Write(p)

OpenSpec == OpenInit /\ [][OpenNext]_openVars

\* The container is restarted and statements return.
FairSpec == OpenSpec /\ \A p \in Processes : WF_openVars(Opening(p))

----------------------------------------------------------------------------
(* Properties *)

Ready == file.version >= Current

U == INSTANCE Upgrade WITH ready <- Ready, data <- file.data

\* The version stands for the whole schema, which appears in one step, once,
\* and keeps what older releases or a parallel process stored, whatever dies
\* half way; nothing is written to a file without it.
ImplementsUpgrade == U!Spec

\* A process serves only a file of its own version with every table in it, and
\* a file of a later release is left as it was.
ServesItsOwnSchema ==
  /\ \A p \in Processes :
       proc[p] = "serving" => file.version = Current /\ All(store) \subseteq file.tables
  /\ file.version > Current => work = NoWork /\ file.data = 1

\* Starting side by side, with statements failing and processes dying a few
\* times, does not keep a process from coming up, unless the file is newer.
ComesUp == \A p \in Processes : file.version <= Current ~> proc[p] = "serving"
=============================================================================
