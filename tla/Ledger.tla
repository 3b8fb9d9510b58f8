-------------------------------- MODULE Ledger --------------------------------
(***************************************************************************)
(* What the ledger promises its callers, with nothing said of transactions *)
(* or of the order of statements: the committed database changes one whole *)
(* batch at a time, a source message has at most one batch, and a batch    *)
(* touches only rows of its own scope and leaves one audit event per id it *)
(* returns.                                                                *)
(***************************************************************************)
EXTENDS LedgerOps, SequencesExt

VARIABLE db

Init == db = EmptyDatabase

\* The audit events a step adds.
Added == SubSeq(db'.audit, Len(db.audit) + 1, Len(db'.audit))

\* One batch of `source` becomes visible, whole.
Accept(scope, source) ==
  /\ db.batches[source] = None
  /\ db'.batches[source] # None
  /\ db'.batches = [db.batches EXCEPT ![source] = db'.batches[source]]
  /\ db'.batches[source].scope = scope
  /\ IsPrefix(db.audit, db'.audit)
  /\ Added # <<>>
  /\ db'.batches[source].ids = [i \in DOMAIN Added |-> Added[i].id]
  /\ \A i \in DOMAIN Added : Added[i].scope = scope /\ Added[i].source = source
  /\ Len(db.rows) <= Len(db'.rows)
  /\ \A id \in DOMAIN db'.rows :
       IF id \in DOMAIN db.rows
       THEN /\ db'.rows[id].scope = db.rows[id].scope
            /\ db'.rows[id].source = db.rows[id].source
            /\ db'.rows[id] # db.rows[id] =>
                 /\ db.rows[id].scope = scope
                 /\ \E i \in DOMAIN Added : Added[i].id = id
       ELSE /\ db'.rows[id].scope = scope
            /\ db'.rows[id].source = source
            /\ \E i \in DOMAIN Added : Added[i].id = id /\ Added[i].action = "create"

Next == \E scope \in Scopes, source \in Sources : Accept(scope, source)

Spec == Init /\ [][Next]_db
=============================================================================
