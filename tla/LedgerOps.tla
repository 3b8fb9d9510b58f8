------------------------------ MODULE LedgerOps ------------------------------
(***************************************************************************)
(* What one mutation does to the SQLite ledger                             *)
(* (internal/storage/sqlite/store.go).  A database content is a record     *)
(*                                                                         *)
(*   rows     the transactions table; the AUTOINCREMENT id of a row is its *)
(*            position, for rows are soft-deleted and never removed        *)
(*   audit    the audit_events table, in insertion order                   *)
(*   batches  the mutation_batches table, by source_message_id             *)
(*                                                                         *)
(* The identity (user, guild, channel) of a request is one value, a scope. *)
(* The validated columns of a row (type, amount, category, note, date) are *)
(* one value, a content; timestamps are left out.                          *)
(***************************************************************************)
EXTENDS Naturals, Sequences

CONSTANTS
  Scopes,     \* identities a RequestContext may carry
  Sources,    \* source message ids
  Contents,   \* transaction inputs that pass TransactionInput.Validate
  None        \* SQL NULL, and an input that does not validate

Kinds == {"create", "update", "delete", "restore"}

Mutation == [kind : Kinds, id : Nat, content : Contents \cup {None}]

Row == [scope : Scopes, source : Sources, content : Contents, deleted : BOOLEAN]

AuditEvent == [id : Nat, scope : Scopes, source : Sources, action : Kinds,
               before : Row \cup {None}, after : Contents \cup {None}]

BatchRow == [scope : Scopes, ids : Seq(Nat)]

Database == [rows : Seq(Row), audit : Seq(AuditEvent),
             batches : [Sources -> BatchRow \cup {None}]]

\* None is told apart from every value it can stand in for.
ASSUME NoneAssumption == None \notin Contents \cup Row \cup BatchRow

EmptyDatabase == [rows |-> <<>>, audit |-> <<>>, batches |-> [s \in Sources |-> None]]

\* Faulty: the input of a create or an update is not validated.
ValidMutation_AnyInput(m) == m.kind # "create" => m.id > 0

\* validateMutation: an input where one is needed, a positive id elsewhere.
ValidMutation(m) ==
  /\ m.kind \in {"create", "update"} => m.content \in Contents
  /\ m.kind # "create" => m.id > 0

\* Faulty: rows are looked up by id alone.
Owned_AnyScope(d, scope, id) == id \in DOMAIN d.rows

\* getScopedTransaction finds the row, deleted or not.
Owned(d, scope, id) == id \in DOMAIN d.rows /\ d.rows[id].scope = scope

\* applyMutation returns no error: only a deleted row can be restored, only a
\* live one updated or deleted.
Applicable(d, scope, m) ==
  \/ m.kind = "create"
  \/ Owned(d, scope, m.id) /\ (m.kind = "restore" <=> d.rows[m.id].deleted)

\* The id applyMutation returns.
Target(d, m) == IF m.kind = "create" THEN Len(d.rows) + 1 ELSE m.id

\* The row after an audit event: the before image with what the action changes.
Outcome(e) ==
  CASE e.action = "create"  -> [scope |-> e.scope, source |-> e.source,
                                content |-> e.after, deleted |-> FALSE]
    [] e.action = "update"  -> [e.before EXCEPT !.content = e.after]
    [] e.action = "delete"  -> [e.before EXCEPT !.deleted = TRUE]
    [] e.action = "restore" -> [e.before EXCEPT !.deleted = FALSE]

\* Faulty: the before image is the row as updated, not as read.
EventOf_LateBefore(d, scope, source, m) ==
  [id |-> Target(d, m), scope |-> scope, source |-> source, action |-> m.kind,
   before |-> IF m.kind = "create" THEN None
              ELSE IF m.kind = "update" THEN [d.rows[m.id] EXCEPT !.content = m.content]
              ELSE d.rows[m.id],
   after  |-> IF m.kind \in {"create", "update"} THEN m.content ELSE None]

\* insertAudit as applyMutation calls it: before image read ahead of the write,
\* after image only for create and update.
EventOf(d, scope, source, m) ==
  [id |-> Target(d, m), scope |-> scope, source |-> source, action |-> m.kind,
   before |-> IF m.kind = "create" THEN None ELSE d.rows[m.id],
   after  |-> IF m.kind \in {"create", "update"} THEN m.content ELSE None]

\* The INSERT or UPDATE statement of applyMutation.
RowsAfter(d, scope, source, m) ==
  CASE m.kind = "create"  -> Append(d.rows, [scope |-> scope, source |-> source,
                                             content |-> m.content, deleted |-> FALSE])
    [] m.kind = "update"  -> [d.rows EXCEPT ![m.id].content = m.content]
    [] m.kind = "delete"  -> [d.rows EXCEPT ![m.id].deleted = TRUE]
    [] m.kind = "restore" -> [d.rows EXCEPT ![m.id].deleted = FALSE]

\* Faulty: an update leaves no audit row.
Applied_SilentUpdate(d, scope, source, m) ==
  [d EXCEPT !.rows  = RowsAfter(d, scope, source, m),
            !.audit = IF m.kind = "update" THEN @
                      ELSE Append(@, EventOf(d, scope, source, m))]

\* applyMutation: the statement and its audit row.
Applied(d, scope, source, m) ==
  [d EXCEPT !.rows  = RowsAfter(d, scope, source, m),
            !.audit = Append(@, EventOf(d, scope, source, m))]

\* The INSERT into mutation_batches.
Recorded(d, scope, source, ids) ==
  [d EXCEPT !.batches[source] = [scope |-> scope, ids |-> ids]]

----------------------------------------------------------------------------
(* The whole of ApplyBatch seen from outside, as one step. *)

\* A mutation on what the ones before it left; nothing follows a failure.
Then(left, scope, source, m) ==
  IF left.ok /\ Applicable(left.db, scope, m)
  THEN [ok  |-> TRUE,
        db  |-> Applied(left.db, scope, source, m),
        ids |-> Append(left.ids, Target(left.db, m))]
  ELSE [left EXCEPT !.ok = FALSE]

\* What the first k mutations leave, for every k.
Stages(d, scope, source, batch) ==
  LET left[k \in 0..Len(batch)] ==
        IF k = 0 THEN [ok |-> TRUE, db |-> d, ids |-> <<>>]
        ELSE Then(left[k - 1], scope, source, batch[k])
  IN left

\* The mutations in order.
Run(d, scope, source, batch) == Stages(d, scope, source, batch)[Len(batch)]

\* Validation first, then the replay of a recorded source message, then the
\* batch; an error anywhere leaves the database as it was.
ApplyBatch(d, scope, source, batch) ==
  LET failed == [ok |-> FALSE, db |-> d, ids |-> <<>>]
      known  == d.batches[source]
      done   == Run(d, scope, source, batch)
  IN IF batch = <<>> \/ \E i \in DOMAIN batch : ~ValidMutation(batch[i]) THEN failed
     ELSE IF known # None
          THEN IF known.scope = scope THEN [ok |-> TRUE, db |-> d, ids |-> known.ids]
               ELSE failed
     ELSE IF done.ok THEN [done EXCEPT !.db = Recorded(@, scope, source, done.ids)]
     ELSE failed
=============================================================================
