----------------------------- MODULE LedgerStore -----------------------------
(***************************************************************************)
(* Store.ApplyBatch (internal/storage/sqlite/store.go) statement by        *)
(* statement: message handlers, button handlers and redeliveries call it   *)
(* concurrently, the pool has one connection (SetMaxOpenConns(1)), any     *)
(* statement may fail and the process may die between any two of them.     *)
(***************************************************************************)
EXTENDS LedgerOps, SequencesExt

CONSTANTS
  Callers,    \* goroutines that may be inside ApplyBatch
  Batches     \* mutation sequences they submit

ASSUME BatchesAssumption == Batches \subseteq Seq(Mutation)

Request == [scope : Scopes, source : Sources, batch : Batches]

VARIABLES
  db,       \* what the database file holds (committed)
  tx,       \* the transaction on the only connection, or None
  call      \* what each caller is doing

vars == <<db, tx, call>>

Idle == [phase |-> "idle"]

\* tx.db is what the connection sees: the committed content and the
\* uncommitted writes; tx.ids are the ids of the mutations done so far.
Transaction == [caller : Callers, phase : {"lookup", "apply", "commit"},
                db : Database, ids : Seq(Nat)]

Call == {Idle}
        \cup [phase : {"queued", "open"}, req : Request]
        \cup [phase : {"done"}, req : Request, ok : BOOLEAN, ids : Seq(Nat),
              rows : Seq(Row)]

TypeOK ==
  /\ db \in Database
  /\ tx \in Transaction \cup {None}
  /\ call \in [Callers -> Call]

Init ==
  /\ db = EmptyDatabase
  /\ tx = None
  /\ call = [c \in Callers |-> Idle]

----------------------------------------------------------------------------
Answer(c, r, ok, ids, rows) ==
  call' = [call EXCEPT ![c] = [phase |-> "done", req |-> r, ok |-> ok,
                               ids |-> ids, rows |-> rows]]

\* Faulty: no deferred Rollback, so the connection is never given back.
Abort_NoRollback(c) ==
  /\ tx' = [tx EXCEPT !.phase = "leaked"]
  /\ Answer(c, call[c].req, FALSE, <<>>, <<>>)
  /\ UNCHANGED db

\* An error return: the deferred Rollback drops the working copy and frees the
\* connection.
Abort(c) ==
  /\ tx' = None
  /\ Answer(c, call[c].req, FALSE, <<>>, <<>>)
  /\ UNCHANGED db

\* Entry: an empty or invalid batch is refused before any transaction.
Submit(c, r) ==
  /\ call[c] = Idle
  /\ IF r.batch # <<>> /\ \A i \in DOMAIN r.batch : ValidMutation(r.batch[i])
     THEN call' = [call EXCEPT ![c] = [phase |-> "queued", req |-> r]]
     ELSE Answer(c, r, FALSE, <<>>, <<>>)
  /\ UNCHANGED <<db, tx>>

\* BeginTx waits for the connection.
Begin(c) ==
  /\ call[c].phase = "queued"
  /\ tx = None
  /\ tx' = [caller |-> c, phase |-> "lookup", db |-> db, ids |-> <<>>]
  /\ call' = [call EXCEPT ![c] = [phase |-> "open", req |-> call[c].req]]
  /\ UNCHANGED db

\* BeginTx gives up: the caller's context ended while it waited, or an error.
BeginFails(c) ==
  /\ call[c].phase = "queued"
  /\ Answer(c, call[c].req, FALSE, <<>>, <<>>)
  /\ UNCHANGED <<db, tx>>

Holds(c, phase) == tx # None /\ tx.caller = c /\ tx.phase = phase

\* Faulty: the source message is not looked up.
LookupNew_Unchecked(c) ==
  /\ Holds(c, "lookup")
  /\ tx' = [tx EXCEPT !.phase = "apply"]
  /\ UNCHANGED <<db, call>>

\* The source message has no batch yet.
LookupNew(c) ==
  /\ Holds(c, "lookup")
  /\ tx.db.batches[call[c].req.source] = None
  /\ tx' = [tx EXCEPT !.phase = "apply"]
  /\ UNCHANGED <<db, call>>

\* Faulty: a batch recorded under another identity is replayed too.
LookupReplay_AnyScope(c) ==
  /\ Holds(c, "lookup")
  /\ LET known == tx.db.batches[call[c].req.source] IN
       /\ known # None
       /\ tx' = [tx EXCEPT !.phase = "commit", !.ids = known.ids]
  /\ UNCHANGED <<db, call>>

\* The source message was handled already: its ids are the answer.
LookupReplay(c) ==
  /\ Holds(c, "lookup")
  /\ LET known == tx.db.batches[call[c].req.source] IN
       /\ known # None
       /\ known.scope = call[c].req.scope
       /\ tx' = [tx EXCEPT !.phase = "commit", !.ids = known.ids]
  /\ UNCHANGED <<db, call>>

\* ... under another identity: refused.
LookupForeign(c) ==
  /\ Holds(c, "lookup")
  /\ LET known == tx.db.batches[call[c].req.source] IN
       known # None /\ known.scope # call[c].req.scope
  /\ Abort(c)

\* The mutation whose turn it is.
NextMutation(c) == call[c].req.batch[Len(tx.ids) + 1]

ApplyOne(c) ==
  /\ Holds(c, "apply")
  /\ Len(tx.ids) < Len(call[c].req.batch)
  /\ Applicable(tx.db, call[c].req.scope, NextMutation(c))
  /\ tx' = [tx EXCEPT
              !.db  = Applied(@, call[c].req.scope, call[c].req.source, NextMutation(c)),
              !.ids = Append(@, Target(tx.db, NextMutation(c)))]
  /\ UNCHANGED <<db, call>>

\* Faulty: the writes made before the error are kept.
ApplyRefused_Keep(c) ==
  /\ Holds(c, "apply")
  /\ Len(tx.ids) < Len(call[c].req.batch)
  /\ ~Applicable(tx.db, call[c].req.scope, NextMutation(c))
  /\ tx' = None
  /\ db' = tx.db
  /\ Answer(c, call[c].req, FALSE, <<>>, <<>>)

ApplyRefused(c) ==
  /\ Holds(c, "apply")
  /\ Len(tx.ids) < Len(call[c].req.batch)
  /\ ~Applicable(tx.db, call[c].req.scope, NextMutation(c))
  /\ Abort(c)

\* Faulty: the idempotency key is not written.
RecordBatch_Forgotten(c) ==
  /\ Holds(c, "apply")
  /\ Len(tx.ids) = Len(call[c].req.batch)
  /\ tx' = [tx EXCEPT !.phase = "commit"]
  /\ UNCHANGED <<db, call>>

RecordBatch(c) ==
  /\ Holds(c, "apply")
  /\ Len(tx.ids) = Len(call[c].req.batch)
  /\ tx' = [tx EXCEPT !.phase = "commit",
                      !.db = Recorded(@, call[c].req.scope, call[c].req.source, tx.ids)]
  /\ UNCHANGED <<db, call>>

\* getTransactionsByIDs and Commit; for a replay the commit ends a read, and
\* the rows returned are as they are now, not as the first call left them.
Commit(c) ==
  /\ Holds(c, "commit")
  /\ db' = tx.db
  /\ tx' = None
  /\ Answer(c, call[c].req, TRUE, tx.ids, [i \in DOMAIN tx.ids |-> tx.db.rows[tx.ids[i]]])

\* Any statement, or the commit, fails (I/O error, cancelled context).
StatementFails(c) ==
  /\ \E phase \in {"lookup", "apply", "commit"} : Holds(c, phase)
  /\ Abort(c)

\* The handler takes its result and ends.
Return(c) ==
  /\ call[c].phase = "done"
  /\ call' = [call EXCEPT ![c] = Idle]
  /\ UNCHANGED <<db, tx>>

\* The process dies and is started again: SQLite keeps what was committed.
Crash ==
  /\ \E c \in Callers : call[c] # Idle
  /\ tx' = None
  /\ call' = [c \in Callers |-> Idle]
  /\ UNCHANGED db

\* What ApplyBatch does on its own once called.
Progress(c) ==
  \/ LookupNew(c) \/ LookupReplay(c) \/ LookupForeign(c)
  \/ ApplyOne(c) \/ ApplyRefused(c) \/ RecordBatch(c) \/ Commit(c)

Next ==
  \/ \E c \in Callers, r \in Request : Submit(c, r)
  \/ \E c \in Callers : Begin(c) \/ BeginFails(c) \/ Progress(c)
                         \/ StatementFails(c) \/ Return(c)
  \/ Crash

Spec == Init /\ [][Next]_vars

\* A started transaction runs on, and database/sql hands the connection to
\* the callers that wait for it, so none of them waits for ever.
Fairness == \A c \in Callers : WF_vars(Progress(c)) /\ SF_vars(Begin(c))

FairSpec == Spec /\ Fairness
----------------------------------------------------------------------------
(* Properties *)

RunOf(d, s, start) ==
  LET ids == d.batches[s].ids IN
  /\ start + Len(ids) <= Len(d.audit)
  /\ \A k \in 1..Len(d.audit) :
       d.audit[k].source = s <=> k \in (start + 1)..(start + Len(ids))
  /\ \A i \in 1..Len(ids) : /\ d.audit[start + i].id = ids[i]
                            /\ d.audit[start + i].scope = d.batches[s].scope

InRuns(d) ==
  \A s \in Sources :
    IF d.batches[s] = None
    THEN \A k \in 1..Len(d.audit) : d.audit[k].source # s
    ELSE \E start \in 0..Len(d.audit) : RunOf(d, s, start)

\* A source message takes effect as one unit: no audit event carries its id
\* while it has no batch row, and once it has one, its events are exactly one
\* uninterrupted run of the audit table, one per recorded id, in order, all
\* under the identity of the batch row.  A crash, an error half way, a
\* redelivery or another caller must not break the run.
BatchesAreRuns == InRuns(db)

\* Event k is the latest of its row among the first n.
LatestOf(audit, id, k, n) ==
  /\ k \in 1..n
  /\ audit[k].id = id
  /\ \A j \in (k + 1)..n : audit[j].id # id

Chained(audit) ==
  \A k \in 1..Len(audit) :
    IF audit[k].action = "create"
    THEN audit[k].before = None /\ \A j \in 1..(k - 1) : audit[j].id # audit[k].id
    ELSE \E j \in 1..(k - 1) :
           /\ LatestOf(audit, audit[k].id, j, k - 1)
           /\ audit[k].before = Outcome(audit[j])
           /\ audit[k].action = "restore" <=> audit[k].before.deleted

\* The audit trail is a chain per row: it starts with the one create, and the
\* before image of any later event is what the previous event of that row left
\* behind; a restore comes only after a delete, and nothing else does.
AuditIsAChain == Chained(db.audit)

Explained(d) ==
  \A id \in 1..Len(d.rows) :
    \E k \in 1..Len(d.audit) :
      LatestOf(d.audit, id, k, Len(d.audit)) /\ Outcome(d.audit[k]) = d.rows[id]

\* The ledger can be rebuilt from the audit trail: the last event of a row,
\* applied to its before image, gives the row as it is.
AuditExplainsRows == Explained(db)

RowsOf(d, scope) == {id \in 1..Len(d.rows) : d.rows[id].scope = scope}

Isolated(d) ==
  /\ \A k \in 1..Len(d.audit) : d.audit[k].id \in RowsOf(d, d.audit[k].scope)
  /\ \A s \in Sources : d.batches[s] # None =>
       \A i \in 1..Len(d.batches[s].ids) :
         d.batches[s].ids[i] \in RowsOf(d, d.batches[s].scope)

\* Nobody but the identity that created a row ever changes it, and every
\* batch row names rows of its own identity only.
ScopeIsolation == Isolated(db)

\* A caller told "ok" holds the ids that are durably recorded for its source
\* message, whatever failed or was redelivered, and sees only its own rows.
AnswersAreDurable ==
  \A c \in Callers :
    (call[c].phase = "done" /\ call[c].ok) =>
      LET r == call[c].req IN
      /\ db.batches[r.source] = [scope |-> r.scope, ids |-> call[c].ids]
      /\ \A i \in DOMAIN call[c].rows : call[c].rows[i].scope = r.scope

AsIfAlone ==
  \/ db' = db /\ \A c \in Callers :
       (call'[c] # call[c] /\ call'[c].phase = "done" /\ call'[c].ok) =>
         LET r == call[c].req IN
         ApplyBatch(db, r.scope, r.source, r.batch)
           = [ok |-> TRUE, db |-> db, ids |-> call'[c].ids]
  \/ \E c \in Callers :
       /\ call'[c].phase = "done"
       /\ call'[c].ok
       /\ call[c].phase = "open"
       /\ LET r == call[c].req IN
            ApplyBatch(db, r.scope, r.source, r.batch)
              = [ok |-> TRUE, db |-> db', ids |-> call'[c].ids]

\* Linearizability: the database changes only when a call is answered, and an
\* accepted call changes it, and answers, exactly as ApplyBatch run alone on
\* the committed content at that moment would.
AnswersAsIfAlone == [][AsIfAlone]_vars

L == INSTANCE Ledger WITH db <- db

\* ApplyBatch implements the ledger's promise: the committed content moves by
\* whole batches of one source message each.
ImplementsLedger == L!Spec

\* Every call that got past validation is answered, unless the process dies.
EveryCallAnswered ==
  \A c \in Callers : call[c].phase = "queued" ~> call[c].phase \in {"done", "idle"}
=============================================================================
