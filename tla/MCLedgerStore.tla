--------------------------- MODULE MCLedgerStore ---------------------------
(* Small instances of LedgerStore for TLC. *)
EXTENDS LedgerStore

CONSTANTS x, y

Create(v) == [kind |-> "create", id |-> 0, content |-> v]
Update(i, v) == [kind |-> "update", id |-> i, content |-> v]
Delete(i) == [kind |-> "delete", id |-> i, content |-> None]
Restore(i) == [kind |-> "restore", id |-> i, content |-> None]

\* Batches that succeed alone, that depend on an earlier one, that touch a row
\* twice, that fail half way, that name a row made in the batch itself, and
\* that do not validate.
SomeBatches ==
  { <<Create(x)>>, <<Delete(1)>>, <<Create(x), Delete(1)>>,
    <<Restore(1), Update(1, y)>>, <<Update(1, y), Restore(2)>>, <<Create(None)>> }
=============================================================================
