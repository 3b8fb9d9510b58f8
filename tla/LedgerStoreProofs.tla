-------------------------- MODULE LedgerStoreProofs --------------------------
(***************************************************************************)
(* Theorems about LedgerStore, for any number of callers, identities,      *)
(* source messages and batches of any length.                              *)
(***************************************************************************)
EXTENDS LedgerStore, LedgerOpsProofs

\* ScopeIsolation in the terms of the code's own look-up.
AllOwned(d) ==
  /\ \A k \in 1..Len(d.audit) : Owned(d, d.audit[k].scope, d.audit[k].id)
  /\ \A s \in Sources : d.batches[s] # None =>
       \A i \in 1..Len(d.batches[s].ids) :
         Owned(d, d.batches[s].scope, d.batches[s].ids[i])

\* What a database content satisfies at every moment, committed or not.
Sound(d) == d \in Database /\ AllOwned(d) /\ Chained(d.audit) /\ Explained(d)

----------------------------------------------------------------------------
(* Lemmas about the operations on a database content. *)

LEMMA EmptyDatabaseIsSound == Sound(EmptyDatabase)
  BY SMT DEF Sound, EmptyDatabase, Database, AllOwned, Chained, Explained

\* An accepted mutation keeps a database content sound.
LEMMA AppliedIsSound ==
  ASSUME NEW d, Sound(d), NEW scope \in Scopes, NEW source \in Sources,
         NEW m \in Mutation, ValidMutation(m), Applicable(d, scope, m)
  PROVE  /\ Sound(Applied(d, scope, source, m))
         /\ Owned(Applied(d, scope, source, m), scope, Target(d, m))
         /\ \A s, id : Owned(d, s, id) => Owned(Applied(d, scope, source, m), s, id)
<1> DEFINE new == Applied(d, scope, source, m)
           rows == RowsAfter(d, scope, source, m)
           e == EventOf(d, scope, source, m)
           n == Len(d.audit)
           t == Target(d, m)
<1>0. d \in Database /\ AllOwned(d) /\ Chained(d.audit) /\ Explained(d)
  BY DEF Sound
<1>1. /\ d.rows \in Seq(Row) /\ d.audit \in Seq(AuditEvent) /\ n \in Nat
      /\ Len(d.rows) \in Nat /\ DOMAIN d.rows = 1..Len(d.rows)
      /\ d.batches \in [Sources -> BatchRow \cup {None}]
  BY <1>0 DEF Database
<1>2. /\ rows \in Seq(Row)
      /\ Len(rows) = IF m.kind = "create" THEN Len(d.rows) + 1 ELSE Len(d.rows)
      /\ t \in 1..Len(rows)
      /\ rows[t].scope = scope
      /\ \A id \in 1..Len(d.rows) : rows[id].scope = d.rows[id].scope
      /\ \A id \in 1..Len(d.rows) : id # t => rows[id] = d.rows[id]
  BY <1>0, RowsAfterFacts
<1>3. /\ e \in AuditEvent
      /\ e.id = t /\ e.scope = scope /\ e.source = source
      /\ e.action = m.kind
      /\ Outcome(e) = rows[t]
      /\ m.kind = "create" => e.before = None
      /\ m.kind # "create" => /\ m.id \in 1..Len(d.rows)
                              /\ e.before = d.rows[m.id]
                              /\ m.kind = "restore" <=> e.before.deleted
  BY <1>0, EventFacts
<1>4. /\ new.rows = rows
      /\ new.audit = Append(d.audit, e)
      /\ new.batches = d.batches
      /\ new \in Database
  BY <1>0, AppliedFacts
<1>5. /\ Len(new.audit) = n + 1
      /\ new.audit[n + 1] = e
      /\ \A k \in 1..n : new.audit[k] = d.audit[k]
  BY <1>1, <1>3, <1>4, AppendProperties
<1>6. DOMAIN new.rows = 1..Len(rows) /\ Len(rows) >= Len(d.rows) /\ Len(rows) \in Nat
  BY <1>1, <1>2, <1>4
<1> HIDE DEF new, rows, e, n, t
<1>7. \A s, id : Owned(d, s, id) => Owned(new, s, id)
  BY <1>1, <1>2, <1>4, <1>6 DEF Owned
<1>8. Owned(new, scope, t)
  BY <1>2, <1>4, <1>6 DEF Owned
<1>9. AllOwned(new)
  <2>1. ASSUME NEW k \in 1..Len(new.audit)
        PROVE  Owned(new, new.audit[k].scope, new.audit[k].id)
    <3>1. CASE k = n + 1
      BY <1>3, <1>5, <1>8, <3>1
    <3>2. CASE k # n + 1
      <4>1. k \in 1..n
        BY <1>1, <1>5, <3>2
      <4> QED
        BY <1>0, <1>5, <1>7, <4>1 DEF AllOwned, n
    <3> QED BY <3>1, <3>2
  <2>2. ASSUME NEW s \in Sources, new.batches[s] # None,
               NEW i \in 1..Len(new.batches[s].ids)
        PROVE  Owned(new, new.batches[s].scope, new.batches[s].ids[i])
    BY <1>0, <1>4, <1>7, <2>2 DEF AllOwned
  <2> QED BY <2>1, <2>2 DEF AllOwned
<1>10. \A k \in 1..n : d.audit[k].id \in 1..Len(d.rows)
  BY <1>0, <1>1 DEF AllOwned, Owned, n
<1>11. Chained(new.audit)
  <2> SUFFICES ASSUME NEW k \in 1..(n + 1)
      PROVE IF new.audit[k].action = "create"
            THEN /\ new.audit[k].before = None
                 /\ \A j \in 1..(k - 1) : new.audit[j].id # new.audit[k].id
            ELSE \E j \in 1..(k - 1) :
                   /\ LatestOf(new.audit, new.audit[k].id, j, k - 1)
                   /\ new.audit[k].before = Outcome(new.audit[j])
                   /\ new.audit[k].action = "restore" <=> new.audit[k].before.deleted
    BY <1>5 DEF Chained
  <2>1. CASE k \in 1..n
    <3>1. \A j \in 1..k : new.audit[j] = d.audit[j]
      BY <1>1, <1>5, <2>1
    <3>2. IF d.audit[k].action = "create"
          THEN /\ d.audit[k].before = None
               /\ \A j \in 1..(k - 1) : d.audit[j].id # d.audit[k].id
          ELSE \E j \in 1..(k - 1) :
                 /\ LatestOf(d.audit, d.audit[k].id, j, k - 1)
                 /\ d.audit[k].before = Outcome(d.audit[j])
                 /\ d.audit[k].action = "restore" <=> d.audit[k].before.deleted
      BY <1>0, <2>1 DEF Chained, n
    <3>3. \A j \in 1..(k - 1) : \A id :
            LatestOf(d.audit, id, j, k - 1) => LatestOf(new.audit, id, j, k - 1)
      <4> SUFFICES ASSUME NEW j \in 1..(k - 1), NEW id, LatestOf(d.audit, id, j, k - 1)
                   PROVE  LatestOf(new.audit, id, j, k - 1)
        OBVIOUS
      <4>1. \A i \in 1..(k - 1) : new.audit[i] = d.audit[i]
        BY <2>1, <3>1, <1>1
      <4>2. \A i \in (j + 1)..(k - 1) : i \in 1..(k - 1)
        BY <2>1, <1>1
      <4> QED
        BY <4>1, <4>2 DEF LatestOf
    <3> QED
      BY <2>1, <3>1, <3>2, <3>3, <1>1
  <2>2. CASE k = n + 1 /\ m.kind = "create"
    <3>1. t = Len(d.rows) + 1
      BY <2>2 DEF t, Target
    <3> QED
      BY <1>1, <1>3, <1>5, <1>10, <2>2, <3>1, SMTT(30)
  <2>3. CASE k = n + 1 /\ m.kind # "create"
    <3>1. t = m.id /\ m.id \in 1..Len(d.rows)
      BY <1>3, <2>3 DEF t, Target
    <3>2. PICK j \in 1..n : LatestOf(d.audit, m.id, j, n) /\ Outcome(d.audit[j]) = d.rows[m.id]
      BY <1>0, <3>1 DEF Explained, n
    <3>3. LatestOf(new.audit, m.id, j, n)
      <4>1. d.audit[j].id = m.id /\ \A i \in (j + 1)..n : d.audit[i].id # m.id
        BY <3>2 DEF LatestOf
      <4>2. \A i \in (j + 1)..n : i \in 1..n
        BY <1>1
      <4> QED
        BY <1>5, <4>1, <4>2 DEF LatestOf
    <3>4. k - 1 = n /\ new.audit[k] = e /\ new.audit[j] = d.audit[j]
      BY <1>1, <1>5, <2>3, <3>2
    <3>5. /\ LatestOf(new.audit, new.audit[k].id, j, k - 1)
          /\ new.audit[k].before = Outcome(new.audit[j])
          /\ new.audit[k].action = "restore" <=> new.audit[k].before.deleted
          /\ new.audit[k].action # "create"
      BY <1>3, <2>3, <3>1, <3>2, <3>3, <3>4
    <3>6. j \in 1..(k - 1)
      BY <3>4
    <3> QED
      BY <3>5, <3>6
  <2> QED
    BY <1>1, <2>1, <2>2, <2>3
<1>12. Explained(new)
  <2> SUFFICES ASSUME NEW id \in 1..Len(rows)
      PROVE \E k \in 1..(n + 1) :
              LatestOf(new.audit, id, k, n + 1) /\ Outcome(new.audit[k]) = rows[id]
    BY <1>4, <1>5 DEF Explained
  <2>1. CASE id = t
    <3>1. LatestOf(new.audit, id, n + 1, n + 1)
      BY <1>1, <1>3, <1>5, <2>1 DEF LatestOf
    <3> QED
      BY <1>1, <1>3, <1>5, <2>1, <3>1
  <2>2. CASE id # t
    <3>1. id \in 1..Len(d.rows)
      BY <1>1, <1>2, <2>2 DEF t, Target
    <3>2. PICK k \in 1..n : LatestOf(d.audit, id, k, n) /\ Outcome(d.audit[k]) = d.rows[id]
      BY <1>0, <3>1 DEF Explained, n
    <3>3. LatestOf(new.audit, id, k, n + 1)
      <4>1. \A i \in (k + 1)..(n + 1) : i = n + 1 \/ (i \in (k + 1)..n /\ i \in 1..n)
        BY <1>1
      <4>2. k \in 1..(n + 1) /\ new.audit[k].id = id
        BY <1>1, <1>5, <3>2, SMTT(30) DEF LatestOf
      <4> QED
        BY <1>3, <1>5, <2>2, <3>2, <4>1, <4>2 DEF LatestOf
    <3> QED
      BY <1>1, <1>2, <1>5, <2>2, <3>1, <3>2, <3>3
  <2> QED BY <2>1, <2>2
<1> QED
  BY <1>4, <1>7, <1>8, <1>9, <1>11, <1>12 DEF Sound, new, t

----------------------------------------------------------------------------
(* The inductive invariant. *)

\* A caller past the entry of ApplyBatch has a batch that validated.
CallsAccepted ==
  \A c \in Callers :
    call[c].phase \in {"queued", "open"} => AcceptedBatch(call[c].req.batch)

\* The working copy e holds the mutations done so far for request r on top of
\* the committed content d, and nothing else.
WorkingCopy(d, e, ids, r) ==
  /\ e.batches = d.batches
  /\ d.batches[r.source] = None
  /\ Extends(d, e, ids, r)

\* Transaction t of request r over the committed content d, by phase: half way
\* it is at a stage of the batch run alone on d, at its commit at the end of it.
InProgress(d, t, r) ==
  /\ Sound(t.db)
  /\ \A i \in 1..Len(t.ids) : Owned(t.db, r.scope, t.ids[i])
  /\ t.phase = "lookup" => t.db = d /\ t.ids = <<>>
  /\ t.phase = "apply" =>
       /\ d.batches[r.source] = None
       /\ Len(t.ids) <= Len(r.batch)
       /\ Stages(d, r.scope, r.source, r.batch)[Len(t.ids)]
            = [ok |-> TRUE, db |-> t.db, ids |-> t.ids]
  /\ t.phase = "commit" =>
       /\ InRuns(t.db)
       /\ t.db.batches[r.source] = [scope |-> r.scope, ids |-> t.ids]
       /\ \A s \in Sources : d.batches[s] # None => t.db.batches[s] = d.batches[s]
       /\ ApplyBatch(d, r.scope, r.source, r.batch) = [ok |-> TRUE, db |-> t.db, ids |-> t.ids]

TxProgress ==
  tx # None => /\ call[tx.caller].phase = "open"
               /\ InProgress(db, tx, call[tx.caller].req)

IInv ==
  /\ TypeOK
  /\ Sound(db)
  /\ InRuns(db)
  /\ CallsAccepted
  /\ TxProgress
  /\ AnswersAreDurable

LEMMA InitIInv == Init => IInv
<1> SUFFICES ASSUME Init PROVE IInv
  OBVIOUS
<1>1. Sound(db)
  BY EmptyDatabaseIsSound DEF Init
<1>2. InRuns(db)
  BY DEF Init, EmptyDatabase, InRuns
<1>3. TypeOK
  BY <1>1 DEF Init, TypeOK, Sound, Call
<1>4. CallsAccepted /\ TxProgress /\ AnswersAreDurable
  BY DEF Init, CallsAccepted, TxProgress, AnswersAreDurable, Idle
<1> QED
  BY <1>1, <1>2, <1>3, <1>4 DEF IInv

\* The request of a caller that is past the entry.
LEMMA OpenCallFacts ==
  ASSUME TypeOK, NEW c \in Callers, call[c].phase \in {"queued", "open"}
  PROVE  /\ call[c].req \in Request
         /\ call[c].req.scope \in Scopes /\ call[c].req.source \in Sources
         /\ call[c].req.batch \in Seq(Mutation)
<1>1. call[c] \in Call /\ call[c].phase # "idle" /\ call[c].phase # "done"
  BY DEF TypeOK
<1>2. call[c] \in [phase : {"queued", "open"}, req : Request]
  BY <1>1 DEF Call, Idle
<1> QED
  BY <1>2, BatchesAssumption DEF Request

\* The transaction of a caller, as its actions find it.
LEMMA HeldFacts ==
  ASSUME IInv, NEW c \in Callers, tx # None, tx.caller = c
  PROVE  /\ tx \in Transaction
         /\ call[c].phase = "open"
         /\ call[c].req \in Request
         /\ call[c].req.scope \in Scopes /\ call[c].req.source \in Sources
         /\ call[c].req.batch \in Seq(Mutation)
         /\ AcceptedBatch(call[c].req.batch)
         /\ tx.db \in Database /\ tx.ids \in Seq(Nat)
<1>1. tx \in Transaction /\ call[c].phase = "open"
  BY DEF IInv, TypeOK, TxProgress
<1>2. AcceptedBatch(call[c].req.batch)
  BY <1>1 DEF IInv, CallsAccepted
<1> QED
  BY <1>1, <1>2, OpenCallFacts DEF IInv, Transaction

\* An error return, from any state of the transaction.
LEMMA AbortStep ==
  ASSUME IInv, NEW c \in Callers, tx # None, tx.caller = c, Abort(c)
  PROVE  IInv'
<1>1. call[c].req \in Request
  BY HeldFacts
<1>2. call' = [call EXCEPT ![c] = [phase |-> "done", req |-> call[c].req, ok |-> FALSE,
                                   ids |-> <<>>, rows |-> <<>>]]
  BY DEF Abort, Answer
<1>3. [phase |-> "done", req |-> call[c].req, ok |-> FALSE, ids |-> <<>>, rows |-> <<>>]
        \in Call
  BY <1>1 DEF Call
<1>4. TypeOK'
  BY <1>2, <1>3 DEF IInv, TypeOK, Abort
<1>5. CallsAccepted'
  BY <1>2 DEF IInv, TypeOK, CallsAccepted
<1>6. TxProgress' /\ Sound(db)' /\ InRuns(db)'
  BY DEF IInv, TxProgress, Abort
<1>7. AnswersAreDurable'
  BY <1>2 DEF IInv, TypeOK, AnswersAreDurable, Abort
<1> QED
  BY <1>4, <1>5, <1>6, <1>7 DEF IInv
LEMMA SubmitStep ==
  ASSUME IInv, NEW c \in Callers, NEW r \in Request, Submit(c, r)
  PROVE  IInv'
<1>1. /\ db' = db /\ tx' = tx /\ call[c] = Idle
      /\ call \in [Callers -> Call]
  BY DEF IInv, TypeOK, Submit
<1>2. PICK new \in Call : /\ call' = [call EXCEPT ![c] = new]
                          /\ new.phase = "queued" \/ (new.phase = "done" /\ ~new.ok)
                          /\ new.phase = "queued" => new.req = r /\ AcceptedBatch(r.batch)
  <2>0. /\ r.batch \in Seq(Mutation)
        /\ AcceptedBatch(r.batch) <=>
             r.batch # <<>> /\ \A i \in DOMAIN r.batch : ValidMutation(r.batch[i])
    <3>1. r.batch \in Seq(Mutation)
      BY BatchesAssumption DEF Request
    <3>2. DOMAIN r.batch = 1..Len(r.batch)
      BY <3>1
    <3> QED BY <3>1, <3>2 DEF AcceptedBatch
  <2>1. CASE AcceptedBatch(r.batch)
    <3>1. call' = [call EXCEPT ![c] = [phase |-> "queued", req |-> r]]
      BY <2>0, <2>1 DEF Submit
    <3>2. [phase |-> "queued", req |-> r] \in Call
      BY DEF Call
    <3> QED
      BY <2>1, <3>1, <3>2
  <2>2. CASE ~AcceptedBatch(r.batch)
    <3>1. call' = [call EXCEPT ![c] = [phase |-> "done", req |-> r, ok |-> FALSE,
                                       ids |-> <<>>, rows |-> <<>>]]
      BY <2>0, <2>2 DEF Submit, Answer
    <3>2. [phase |-> "done", req |-> r, ok |-> FALSE, ids |-> <<>>, rows |-> <<>>] \in Call
      BY DEF Call
    <3> QED
      BY <3>1, <3>2
  <2> QED BY <2>1, <2>2
<1>3. TypeOK'
  BY <1>1, <1>2 DEF IInv, TypeOK
<1>4. CallsAccepted'
  BY <1>1, <1>2 DEF IInv, CallsAccepted
<1>5. TxProgress'
  <2> SUFFICES ASSUME tx # None PROVE TxProgress'
    BY <1>1 DEF TxProgress
  <2>1. tx.caller # c
    BY <1>1 DEF IInv, TxProgress, Idle
  <2>2. tx.caller \in Callers
    BY DEF IInv, TypeOK, Transaction
  <2>3. call'[tx.caller] = call[tx.caller]
    BY <1>1, <1>2, <2>1, <2>2
  <2> QED
    BY <1>1, <2>3 DEF IInv, TxProgress
<1>6. AnswersAreDurable'
  BY <1>1, <1>2 DEF IInv, AnswersAreDurable
<1> QED
  BY <1>1, <1>3, <1>4, <1>5, <1>6 DEF IInv

LEMMA BeginStep ==
  ASSUME IInv, NEW c \in Callers, Begin(c)
  PROVE  IInv'
<1> DEFINE new == [phase |-> "open", req |-> call[c].req]
           t == [caller |-> c, phase |-> "lookup", db |-> db, ids |-> <<>>]
<1>1. /\ db' = db /\ tx' = t /\ call' = [call EXCEPT ![c] = new]
      /\ call[c].phase = "queued"
      /\ call \in [Callers -> Call]
  BY DEF IInv, TypeOK, Begin
<1>2. call[c].req \in Request /\ AcceptedBatch(call[c].req.batch)
  BY <1>1, OpenCallFacts DEF IInv, CallsAccepted
<1>3. new \in Call
  BY <1>2 DEF Call
<1>4. t \in Transaction
  BY DEF IInv, TypeOK, Transaction
<1>5. TypeOK'
  BY <1>1, <1>3, <1>4 DEF IInv, TypeOK
<1>6. CallsAccepted'
  BY <1>1, <1>2 DEF IInv, CallsAccepted
<1>7. InProgress(db, t, call[c].req)
  BY DEF IInv, InProgress
<1>8. TxProgress'
  BY <1>1, <1>7 DEF TxProgress
<1>9. AnswersAreDurable'
  BY <1>1 DEF IInv, AnswersAreDurable
<1> QED
  BY <1>1, <1>5, <1>6, <1>8, <1>9 DEF IInv

\* A step that only replaces the open transaction by one of the same caller.
LEMMA TxStep ==
  ASSUME IInv, NEW c \in Callers, tx # None, tx.caller = c,
         NEW t \in Transaction, t.caller = c, InProgress(db, t, call[c].req),
         tx' = t, UNCHANGED <<db, call>>
  PROVE  IInv'
<1>1. TxProgress'
  BY DEF IInv, TxProgress
<1> QED
  BY <1>1 DEF IInv, TypeOK, CallsAccepted, AnswersAreDurable

LEMMA LookupNewStep ==
  ASSUME IInv, NEW c \in Callers, LookupNew(c)
  PROVE  IInv'
<1> DEFINE r == call[c].req
           t == [tx EXCEPT !.phase = "apply"]
<1>1. /\ tx # None /\ tx.caller = c /\ tx.phase = "lookup"
      /\ tx.db.batches[r.source] = None
      /\ tx' = t /\ UNCHANGED <<db, call>>
  BY DEF LookupNew, Holds
<1>2. tx \in Transaction
  BY <1>1, HeldFacts
<1>3. t \in Transaction /\ t.caller = c /\ t.phase = "apply" /\ t.db = tx.db /\ t.ids = tx.ids
  BY <1>1, <1>2 DEF Transaction
<1>4. tx.db = db /\ tx.ids = <<>> /\ Sound(db) /\ Len(db.audit) \in Nat
  BY <1>1 DEF IInv, TxProgress, InProgress, Sound, Database
<1>5. /\ t.db = db /\ t.ids = <<>> /\ db.batches[r.source] = None
      /\ Len(t.ids) <= Len(r.batch)
      /\ Stages(db, r.scope, r.source, r.batch)[Len(t.ids)]
           = [ok |-> TRUE, db |-> t.db, ids |-> t.ids]
  <2>1. t.db = db /\ t.ids = <<>> /\ Len(t.ids) = 0 /\ db.batches[r.source] = None
    BY <1>1, <1>3, <1>4
  <2>2. Len(r.batch) \in Nat
    BY <1>1, HeldFacts
  <2>3. Stages(db, r.scope, r.source, r.batch)[0] = [ok |-> TRUE, db |-> db, ids |-> <<>>]
    BY <2>2, StagesUnfold
  <2> HIDE DEF t, r
  <2> QED BY <2>1, <2>2, <2>3
<1>6. InProgress(db, t, r)
  BY <1>3, <1>4, <1>5 DEF InProgress
<1> QED
  BY <1>1, <1>3, <1>6, TxStep

LEMMA LookupReplayStep ==
  ASSUME IInv, NEW c \in Callers, LookupReplay(c)
  PROVE  IInv'
<1> DEFINE r == call[c].req
           known == tx.db.batches[r.source]
           t == [tx EXCEPT !.phase = "commit", !.ids = known.ids]
<1>1. /\ tx # None /\ tx.caller = c /\ tx.phase = "lookup"
      /\ known # None /\ known.scope = r.scope
      /\ tx' = t /\ UNCHANGED <<db, call>>
  BY DEF LookupReplay, Holds
<1>2. tx \in Transaction /\ r.source \in Sources /\ tx.db \in Database
  BY <1>1, HeldFacts
<1>3. known.ids \in Seq(Nat)
  BY <1>1, <1>2 DEF Database, BatchRow
<1>4. /\ t \in Transaction /\ t.caller = c /\ t.phase = "commit"
      /\ t.db = tx.db /\ t.ids = known.ids
  BY <1>1, <1>2, <1>3 DEF Transaction
<1>5. tx.db = db /\ Sound(db) /\ InRuns(db)
  BY <1>1 DEF IInv, TxProgress, InProgress
<1>6. \A i \in 1..Len(known.ids) : Owned(tx.db, r.scope, known.ids[i])
  BY <1>1, <1>2, <1>5 DEF Sound, AllOwned
<1>7. known = [scope |-> r.scope, ids |-> known.ids]
  BY <1>1, <1>2 DEF Database, BatchRow
<1>8. ApplyBatch(db, r.scope, r.source, r.batch)
        = [ok |-> TRUE, db |-> db, ids |-> known.ids]
  <2>1. r.batch \in Seq(Mutation) /\ AcceptedBatch(r.batch)
    BY <1>1, HeldFacts
  <2>2. db.batches[r.source] # None /\ db.batches[r.source].scope = r.scope
    BY <1>1, <1>5
  <2>3. ApplyBatch(db, r.scope, r.source, r.batch)
          = [ok |-> TRUE, db |-> db, ids |-> db.batches[r.source].ids]
    <3> HIDE DEF r
    <3> QED BY <2>1, <2>2, ApplyBatchOfKnown
  <2> QED BY <1>5, <2>3
<1> HIDE DEF t, known
<1>9. InProgress(db, t, r)
  BY <1>4, <1>5, <1>6, <1>7, <1>8 DEF InProgress, known
<1> QED
  BY <1>1, <1>4, <1>9, TxStep

\* The open transaction, half way, holds what its mutations so far have done.
LEMMA WorkingCopyFacts ==
  ASSUME IInv, NEW c \in Callers, tx # None, tx.caller = c, tx.phase = "apply"
  PROVE  WorkingCopy(db, tx.db, tx.ids, call[c].req)
<1> DEFINE r == call[c].req
           left == Stages(db, r.scope, r.source, r.batch)
           k == Len(tx.ids)
<1>1. /\ r.scope \in Scopes /\ r.source \in Sources /\ r.batch \in Seq(Mutation)
      /\ AcceptedBatch(r.batch) /\ tx.ids \in Seq(Nat)
  BY HeldFacts
<1>2. /\ db.batches[r.source] = None /\ k <= Len(r.batch)
      /\ left[k] = [ok |-> TRUE, db |-> tx.db, ids |-> tx.ids]
  BY DEF IInv, TxProgress, InProgress
<1>3. db \in Database /\ \A i \in 1..Len(r.batch) : ValidMutation(r.batch[i])
  BY <1>1 DEF IInv, TypeOK, AcceptedBatch
<1>4. k \in 0..Len(r.batch)
  BY <1>1, <1>2
<1> HIDE DEF r
<1>5. \A j \in 0..Len(r.batch) :
        LET x == Stages(db, r.scope, r.source, r.batch)[j] IN
        x.ok => /\ x.db \in Database
                /\ x.ids \in Seq(Nat) /\ Len(x.ids) = j
                /\ x.db.batches = db.batches
                /\ Extends(db, x.db, x.ids, r)
  BY <1>1, <1>3, StagesExtend
<1>6. /\ left[k].ok => /\ left[k].db.batches = db.batches
                       /\ Extends(db, left[k].db, left[k].ids, r)
  BY <1>4, <1>5
<1> HIDE DEF left, k
<1> QED
  BY <1>2, <1>6 DEF WorkingCopy, r

LEMMA ApplyOneStep ==
  ASSUME IInv, NEW c \in Callers, ApplyOne(c)
  PROVE  IInv'
<1> DEFINE r == call[c].req
           m == NextMutation(c)
           d == tx.db
           new == Applied(d, r.scope, r.source, m)
           id == Target(d, m)
           t == [tx EXCEPT !.db = new, !.ids = Append(tx.ids, id)]
<1>1. /\ tx # None /\ tx.caller = c /\ tx.phase = "apply"
      /\ Len(tx.ids) < Len(r.batch)
      /\ Applicable(d, r.scope, m)
      /\ tx' = t
      /\ UNCHANGED <<db, call>>
  <2>1. tx' = [tx EXCEPT !.db = new, !.ids = Append(@, id)]
    BY Zenon DEF ApplyOne
  <2> QED BY <2>1 DEF ApplyOne, Holds
<1>2. /\ tx \in Transaction /\ r.scope \in Scopes /\ r.source \in Sources
      /\ r.batch \in Seq(Mutation) /\ AcceptedBatch(r.batch)
      /\ d \in Database /\ tx.ids \in Seq(Nat) /\ Len(tx.ids) \in Nat
  BY <1>1, HeldFacts
<1>3. m \in Mutation /\ ValidMutation(m)
  <2>1. Len(tx.ids) + 1 \in 1..Len(r.batch)
    BY <1>1, <1>2
  <2> QED BY <1>2, <2>1, ElementOfSeq DEF NextMutation, AcceptedBatch
<1>4. /\ Sound(d)
      /\ db.batches[r.source] = None
      /\ Stages(db, r.scope, r.source, r.batch)[Len(tx.ids)]
           = [ok |-> TRUE, db |-> d, ids |-> tx.ids]
      /\ \A i \in 1..Len(tx.ids) : Owned(d, r.scope, tx.ids[i])
  BY <1>1 DEF IInv, TxProgress, InProgress
<1>5. /\ Sound(new) /\ Owned(new, r.scope, id)
      /\ \A s, i : Owned(d, s, i) => Owned(new, s, i)
  BY <1>1, <1>2, <1>3, <1>4, AppliedIsSound
<1>6. id \in Nat
  BY <1>2, <1>3 DEF Target, Mutation, Database
<1>7. Stages(db, r.scope, r.source, r.batch)[Len(tx.ids) + 1]
        = [ok |-> TRUE, db |-> new, ids |-> Append(tx.ids, id)]
  <2> DEFINE left == Stages(db, r.scope, r.source, r.batch)
             k == Len(tx.ids) + 1
             x == [ok |-> TRUE, db |-> d, ids |-> tx.ids]
  <2>1. k \in 1..Len(r.batch) /\ k - 1 = Len(tx.ids) /\ Len(r.batch) \in Nat
    BY <1>1, <1>2
  <2>2. /\ left[0] = [ok |-> TRUE, db |-> db, ids |-> <<>>]
        /\ \A j \in 1..Len(r.batch) : left[j] = Then(left[j - 1], r.scope, r.source, r.batch[j])
    BY <2>1, StagesUnfold
  <2>3. left[k - 1] = x
    BY <1>4, <2>1
  <2> HIDE DEF left, x
  <2>4. left[k] = Then(x, r.scope, r.source, r.batch[k])
    BY <2>1, <2>2, <2>3
  <2>5. r.batch[k] = m
    BY DEF NextMutation
  <2>6. x.ok /\ x.db = d /\ x.ids = tx.ids
    BY DEF x
  <2> HIDE DEF m
  <2>7. left[k] = [ok |-> TRUE, db |-> new, ids |-> Append(tx.ids, id)]
    BY <1>1, <2>4, <2>5, <2>6, Zenon DEF Then
  <2> QED BY <2>7 DEF left
<1>8. Len(Append(tx.ids, id)) = Len(tx.ids) + 1
  BY <1>2, <1>6, AppendProperties
<1>9. Len(tx.ids) + 1 <= Len(r.batch)
  BY <1>1, <1>2
<1>10. /\ t \in Transaction /\ t.caller = c /\ t.phase = "apply"
       /\ t.db = new /\ t.ids = Append(tx.ids, id)
  <2>1. new \in Database /\ Append(tx.ids, id) \in Seq(Nat)
    BY <1>2, <1>5, <1>6 DEF Sound
  <2> HIDE DEF new, id
  <2> QED BY <1>1, <1>2, <2>1 DEF Transaction
<1>11. \A i \in 1..Len(Append(tx.ids, id)) : Owned(new, r.scope, Append(tx.ids, id)[i])
  <2> SUFFICES ASSUME NEW i \in 1..(Len(tx.ids) + 1)
               PROVE  Owned(new, r.scope, Append(tx.ids, id)[i])
    BY <1>2, <1>6, AppendProperties
  <2>1. CASE i = Len(tx.ids) + 1
    BY <1>2, <1>5, <1>6, <2>1, AppendProperties
  <2>2. CASE i \in 1..Len(tx.ids)
    <3>1. Append(tx.ids, id)[i] = tx.ids[i]
      BY <1>2, <1>6, <2>2, AppendProperties
    <3> QED BY <1>4, <1>5, <2>2, <3>1
  <2> QED BY <1>2, <2>1, <2>2
<1> HIDE DEF new, id, t
<1>12. InProgress(db, t, r)
  BY <1>4, <1>5, <1>7, <1>8, <1>9, <1>10, <1>11 DEF InProgress
<1> QED
  BY <1>1, <1>10, <1>12, TxStep

\* The batch row turns the working copy's tail into the run of its source.
LEMMA RecordedIsSound ==
  ASSUME NEW d, NEW e, Sound(d), Sound(e), InRuns(d),
         NEW ids \in Seq(Nat), NEW r, r.scope \in Scopes, r.source \in Sources,
         WorkingCopy(d, e, ids, r),
         \A i \in 1..Len(ids) : Owned(e, r.scope, ids[i])
  PROVE  LET new == Recorded(e, r.scope, r.source, ids) IN
         Sound(new) /\ InRuns(new) /\ \A s, i : Owned(e, s, i) => Owned(new, s, i)
<1> DEFINE new == Recorded(e, r.scope, r.source, ids)
           row == [scope |-> r.scope, ids |-> ids]
           n == Len(d.audit)
           k == Len(ids)
<1>1. e \in Database /\ d \in Database /\ AllOwned(e) /\ Chained(e.audit) /\ Explained(e)
  BY DEF Sound
<1>2. /\ Recorded(e, r.scope, r.source, ids) \in Database
      /\ Recorded(e, r.scope, r.source, ids).rows = e.rows
      /\ Recorded(e, r.scope, r.source, ids).audit = e.audit
      /\ Recorded(e, r.scope, r.source, ids).batches
           = [e.batches EXCEPT ![r.source] = [scope |-> r.scope, ids |-> ids]]
      /\ Recorded(e, r.scope, r.source, ids).batches[r.source] = [scope |-> r.scope, ids |-> ids]
      /\ [scope |-> r.scope, ids |-> ids] \in BatchRow
      /\ [scope |-> r.scope, ids |-> ids] # None
  BY <1>1, RecordedFacts
<1>3. /\ new.rows = e.rows /\ new.audit = e.audit
      /\ new.batches = [e.batches EXCEPT ![r.source] = row]
      /\ new \in Database
      /\ row \in BatchRow /\ row # None /\ row.ids = ids /\ row.scope = r.scope
  BY <1>2
<1>4. /\ new.batches[r.source] = row
      /\ \A s \in Sources : s # r.source => new.batches[s] = e.batches[s]
  BY <1>1, <1>3 DEF Database
<1>5. /\ e.batches = d.batches /\ d.batches[r.source] = None
      /\ Len(e.audit) = n + k
      /\ \A i \in 1..n : e.audit[i] = d.audit[i]
      /\ \A i \in 1..k : /\ e.audit[n + i].id = ids[i]
                         /\ e.audit[n + i].source = r.source
                         /\ e.audit[n + i].scope = r.scope
      /\ n \in Nat /\ k \in Nat
  BY <1>1 DEF WorkingCopy, Extends, Database
<1> HIDE DEF new, row, n, k
<1>6. \A s, i : Owned(e, s, i) => Owned(new, s, i)
  BY <1>3 DEF Owned
<1>7. AllOwned(new)
  <2>1. \A i \in 1..Len(new.audit) : Owned(new, new.audit[i].scope, new.audit[i].id)
    BY <1>1, <1>3, <1>6 DEF AllOwned
  <2>2. ASSUME NEW s \in Sources, new.batches[s] # None,
               NEW i \in 1..Len(new.batches[s].ids)
        PROVE  Owned(new, new.batches[s].scope, new.batches[s].ids[i])
    <3>1. CASE s = r.source
      BY <1>3, <1>4, <1>6, <2>2, <3>1
    <3>2. CASE s # r.source
      BY <1>1, <1>4, <1>6, <2>2, <3>2 DEF AllOwned
    <3> QED BY <3>1, <3>2
  <2> QED BY <2>1, <2>2 DEF AllOwned
<1>8. Sound(new)
  BY <1>1, <1>3, <1>7 DEF Sound, Explained
<1>9. InRuns(new)
  <2> SUFFICES ASSUME NEW s \in Sources
      PROVE IF new.batches[s] = None
            THEN \A i \in 1..Len(new.audit) : new.audit[i].source # s
            ELSE \E start \in 0..Len(new.audit) : RunOf(new, s, start)
    BY DEF InRuns
  <2>0. \A i \in 1..(n + k) : \/ i \in 1..n /\ e.audit[i] = d.audit[i]
                              \/ i \in (n + 1)..(n + k) /\ e.audit[i].source = r.source
    <3> SUFFICES ASSUME NEW i \in 1..(n + k), i \notin 1..n
                 PROVE  i \in (n + 1)..(n + k) /\ e.audit[i].source = r.source
      BY <1>5
    <3>1. i - n \in 1..k /\ n + (i - n) = i
      BY <1>5
    <3>2. e.audit[n + (i - n)].source = r.source
      BY <1>5, <3>1
    <3>3. i \in (n + 1)..(n + k)
      BY <1>5
    <3> QED BY <3>1, <3>2, <3>3
  <2>1. CASE s = r.source
    <3>1. /\ new.batches[s] = row /\ row # None
          /\ row.ids = ids /\ row.scope = r.scope
      BY <1>3, <1>4, <2>1
    <3>2. \A i \in 1..n : d.audit[i].source # s
      BY <1>5, <2>1 DEF InRuns, n
    <3>3. \A i \in 1..(n + k) : e.audit[i].source = s <=> i \in (n + 1)..(n + k)
      <4> SUFFICES ASSUME NEW i \in 1..(n + k)
                   PROVE  e.audit[i].source = s <=> i \in (n + 1)..(n + k)
        OBVIOUS
      <4>1. CASE i \in 1..n /\ e.audit[i] = d.audit[i]
        <5>1. i \notin (n + 1)..(n + k)
          BY <1>5, <4>1
        <5> QED BY <3>2, <4>1, <5>1
      <4>2. CASE i \in (n + 1)..(n + k) /\ e.audit[i].source = r.source
        BY <2>1, <4>2
      <4> QED BY <2>0, <4>1, <4>2
    <3>4. RunOf(new, s, n)
      BY <1>3, <1>5, <3>1, <3>3 DEF RunOf, k
    <3>5. n \in 0..Len(new.audit)
      BY <1>3, <1>5
    <3> QED BY <3>1, <3>4, <3>5
  <2>2. CASE s # r.source /\ d.batches[s] = None
    <3>1. \A i \in 1..n : d.audit[i].source # s
      BY <2>2 DEF InRuns, n
    <3>2. \A i \in 1..(n + k) : e.audit[i].source # s
      BY <2>0, <2>2, <3>1
    <3>3. new.batches[s] = None
      BY <1>4, <1>5, <2>2
    <3> QED BY <1>3, <1>5, <3>2, <3>3
  <2>3. CASE s # r.source /\ d.batches[s] # None
    <3> DEFINE known == d.batches[s]
               l == Len(known.ids)
    <3>1. PICK start \in 0..n : RunOf(d, s, start)
      BY <2>3 DEF InRuns, n
    <3>2. known \in BatchRow
      BY <1>1, <2>3 DEF Database
    <3>3. l \in Nat
      BY <3>2 DEF BatchRow
    <3>4. /\ start + l <= n
          /\ \A i \in 1..n : d.audit[i].source = s <=> i \in (start + 1)..(start + l)
          /\ \A i \in 1..l : /\ d.audit[start + i].id = known.ids[i]
                             /\ d.audit[start + i].scope = known.scope
      BY <3>1 DEF RunOf, n
    <3>5. new.batches[s] = known /\ start \in 0..(n + k) /\ start \in Nat
      BY <1>4, <1>5, <2>3
    <3> HIDE DEF known, l
    <3>6. \A i \in 1..(n + k) : e.audit[i].source = s <=> i \in (start + 1)..(start + l)
      <4> SUFFICES ASSUME NEW i \in 1..(n + k)
                   PROVE  e.audit[i].source = s <=> i \in (start + 1)..(start + l)
        OBVIOUS
      <4>1. CASE i \in 1..n /\ e.audit[i] = d.audit[i]
        BY <3>4, <4>1
      <4>2. CASE i \in (n + 1)..(n + k) /\ e.audit[i].source = r.source
        <5>1. i \notin (start + 1)..(start + l)
          BY <1>5, <3>3, <3>4, <3>5, <4>2
        <5> QED BY <2>3, <4>2, <5>1
      <4> QED BY <2>0, <4>1, <4>2
    <3>7. \A i \in 1..l : e.audit[start + i] = d.audit[start + i]
      <4> SUFFICES ASSUME NEW i \in 1..l PROVE e.audit[start + i] = d.audit[start + i]
        OBVIOUS
      <4>1. start + i \in 1..n
        BY <1>5, <3>3, <3>4, <3>5
      <4> QED BY <1>5, <4>1
    <3>8. start + l <= n + k
      BY <1>5, <3>3, <3>4, <3>5
    <3>9. RunOf(new, s, start)
      <4>1. \A i \in 1..l : /\ new.audit[start + i].id = known.ids[i]
                            /\ new.audit[start + i].scope = known.scope
        BY <1>3, <3>4, <3>7
      <4>2. Len(new.audit) = n + k /\ new.audit = e.audit /\ Len(known.ids) = l
        BY <1>3, <1>5 DEF l
      <4> QED BY <3>5, <3>6, <3>8, <4>1, <4>2 DEF RunOf
    <3> QED BY <1>3, <1>5, <2>3, <3>5, <3>9 DEF known
  <2> QED BY <1>4, <1>5, <2>1, <2>2, <2>3
<1> QED
  BY <1>6, <1>8, <1>9 DEF new
LEMMA RecordBatchStep ==
  ASSUME IInv, NEW c \in Callers, RecordBatch(c)
  PROVE  IInv'
<1> DEFINE r == call[c].req
           new == Recorded(tx.db, r.scope, r.source, tx.ids)
           t == [tx EXCEPT !.phase = "commit", !.db = new]
<1>1. /\ tx # None /\ tx.caller = c /\ tx.phase = "apply"
      /\ tx' = t
      /\ UNCHANGED <<db, call>>
  <2>1. tx' = [tx EXCEPT !.phase = "commit",
                         !.db = Recorded(@, r.scope, r.source, tx.ids)]
    BY Zenon DEF RecordBatch
  <2> QED BY <2>1 DEF RecordBatch, Holds
<1>2. /\ tx \in Transaction /\ r.scope \in Scopes /\ r.source \in Sources
      /\ tx.db \in Database /\ tx.ids \in Seq(Nat)
  BY <1>1, HeldFacts
<1>3. /\ Sound(db) /\ InRuns(db) /\ Sound(tx.db) /\ WorkingCopy(db, tx.db, tx.ids, r)
      /\ \A i \in 1..Len(tx.ids) : Owned(tx.db, r.scope, tx.ids[i])
      /\ Stages(db, r.scope, r.source, r.batch)[Len(tx.ids)]
           = [ok |-> TRUE, db |-> tx.db, ids |-> tx.ids]
  BY <1>1, WorkingCopyFacts DEF IInv, TxProgress, InProgress
<1>4. /\ Sound(new) /\ InRuns(new)
      /\ \A s, i : Owned(tx.db, s, i) => Owned(new, s, i)
  BY <1>2, <1>3, RecordedIsSound
<1>5. /\ new.batches[r.source] = [scope |-> r.scope, ids |-> tx.ids]
      /\ \A s \in Sources : s # r.source => new.batches[s] = tx.db.batches[s]
  BY <1>2 DEF Recorded, Database
<1>6. \A s \in Sources : db.batches[s] # None => new.batches[s] = db.batches[s]
  BY <1>3, <1>5 DEF WorkingCopy
<1>7. t \in Transaction /\ t.caller = c /\ t.phase = "commit" /\ t.db = new /\ t.ids = tx.ids
  <2>1. new \in Database
    BY <1>4 DEF Sound
  <2> HIDE DEF new
  <2> QED BY <1>1, <1>2, <2>1 DEF Transaction
<1>8. ApplyBatch(db, r.scope, r.source, r.batch) = [ok |-> TRUE, db |-> new, ids |-> tx.ids]
  <2>1. r.batch \in Seq(Mutation) /\ AcceptedBatch(r.batch) /\ Len(tx.ids) = Len(r.batch)
    BY <1>1, HeldFacts DEF RecordBatch
  <2>2. db.batches[r.source] = None
    BY <1>3 DEF WorkingCopy
  <2> DEFINE e == tx.db
             ids == tx.ids
  <2>3. Stages(db, r.scope, r.source, r.batch)[Len(r.batch)]
          = [ok |-> TRUE, db |-> e, ids |-> ids]
    BY <1>3, <2>1
  <2> HIDE DEF r, e, ids
  <2>4. ApplyBatch(db, r.scope, r.source, r.batch)
          = [ok |-> TRUE, db |-> Recorded(e, r.scope, r.source, ids), ids |-> ids]
    BY <2>1, <2>2, <2>3, ApplyBatchOfNew
  <2> QED BY <2>4 DEF e, ids
<1> HIDE DEF new, t
<1>9. InProgress(db, t, r)
  BY <1>3, <1>4, <1>5, <1>6, <1>7, <1>8 DEF InProgress
<1> QED
  BY <1>1, <1>7, <1>9, TxStep

LEMMA CommitStep ==
  ASSUME IInv, NEW c \in Callers, Commit(c)
  PROVE  IInv'
<1> DEFINE r == call[c].req
           rows == [i \in DOMAIN tx.ids |-> tx.db.rows[tx.ids[i]]]
           answer == [phase |-> "done", req |-> r, ok |-> TRUE, ids |-> tx.ids, rows |-> rows]
<1>1. /\ tx # None /\ tx.caller = c /\ tx.phase = "commit"
      /\ db' = tx.db /\ tx' = None
      /\ call' = [call EXCEPT ![c] = answer]
  BY DEF Commit, Holds, Answer
<1>2. /\ r \in Request /\ tx.db \in Database /\ tx.ids \in Seq(Nat)
  BY <1>1, HeldFacts
<1>3. /\ Sound(tx.db) /\ InRuns(tx.db)
      /\ \A i \in 1..Len(tx.ids) : Owned(tx.db, r.scope, tx.ids[i])
      /\ tx.db.batches[r.source] = [scope |-> r.scope, ids |-> tx.ids]
      /\ \A s \in Sources : db.batches[s] # None => tx.db.batches[s] = db.batches[s]
  BY <1>1 DEF IInv, TxProgress, InProgress
<1>4. /\ DOMAIN tx.ids = 1..Len(tx.ids) /\ Len(tx.ids) \in Nat
      /\ \A i \in 1..Len(tx.ids) : /\ tx.db.rows[tx.ids[i]] \in Row
                                   /\ tx.db.rows[tx.ids[i]].scope = r.scope
  BY <1>2, <1>3 DEF Owned, Database
<1>5. rows \in Seq(Row) /\ DOMAIN rows = 1..Len(tx.ids)
  BY <1>4
<1>6. answer \in Call
  <2> HIDE DEF rows, r
  <2> QED BY <1>2, <1>5 DEF Call
<1>7. TypeOK'
  BY <1>1, <1>2, <1>6 DEF IInv, TypeOK
<1>8. CallsAccepted'
  BY <1>1 DEF IInv, TypeOK, CallsAccepted
<1>9. TxProgress'
  BY <1>1 DEF TxProgress
<1>10. \A i \in DOMAIN rows : rows[i].scope = r.scope
  BY <1>4, <1>5
<1>11. AnswersAreDurable'
  <2> SUFFICES ASSUME NEW b \in Callers, call'[b].phase = "done", call'[b].ok
      PROVE /\ db'.batches[call'[b].req.source]
                 = [scope |-> call'[b].req.scope, ids |-> call'[b].ids]
            /\ \A i \in DOMAIN call'[b].rows : call'[b].rows[i].scope = call'[b].req.scope
    BY DEF AnswersAreDurable
  <2>1. CASE b = c
    <3>1. call'[b] = answer
      BY <1>1, <2>1 DEF IInv, TypeOK
    <3> HIDE DEF rows
    <3> QED BY <1>1, <1>3, <1>10, <3>1
  <2>2. CASE b # c
    <3>1. call'[b] = call[b]
      BY <1>1, <2>2 DEF IInv, TypeOK
    <3>2. /\ db.batches[call[b].req.source]
               = [scope |-> call[b].req.scope, ids |-> call[b].ids]
          /\ \A i \in DOMAIN call[b].rows : call[b].rows[i].scope = call[b].req.scope
      BY <3>1 DEF IInv, AnswersAreDurable
    <3>3. call[b].req \in Request /\ call[b].ids \in Seq(Nat)
      <4>1. call[b] \in Call /\ call[b].phase = "done"
        BY <3>1 DEF IInv, TypeOK
      <4> QED BY <4>1 DEF Call, Idle
    <3>4. call[b].req.source \in Sources /\ call[b].req.scope \in Scopes
      BY <3>3 DEF Request
    <3>5. db.batches[call[b].req.source] # None
      BY <3>2, <3>3, <3>4, NoneAssumption DEF BatchRow
    <3>6. db'.batches[call[b].req.source] = db.batches[call[b].req.source]
      BY <1>1, <1>3, <3>4, <3>5
    <3> QED BY <3>1, <3>2, <3>6
  <2> QED BY <2>1, <2>2
<1> QED
  BY <1>1, <1>3, <1>7, <1>8, <1>9, <1>11 DEF IInv

LEMMA ReturnStep ==
  ASSUME IInv, NEW c \in Callers, Return(c)
  PROVE  IInv'
<1>1. /\ db' = db /\ tx' = tx /\ call' = [call EXCEPT ![c] = Idle]
      /\ call[c].phase = "done" /\ call \in [Callers -> Call]
  BY DEF IInv, TypeOK, Return
<1>2. TypeOK'
  BY <1>1 DEF IInv, TypeOK, Call
<1>3. CallsAccepted' /\ AnswersAreDurable'
  BY <1>1 DEF IInv, CallsAccepted, AnswersAreDurable, Idle
<1>4. TxProgress'
  <2> SUFFICES ASSUME tx # None PROVE TxProgress'
    BY <1>1 DEF TxProgress
  <2>1. tx.caller # c /\ tx.caller \in Callers
    BY <1>1 DEF IInv, TypeOK, TxProgress, Transaction
  <2>2. call'[tx.caller] = call[tx.caller]
    BY <1>1, <2>1
  <2> QED BY <1>1, <2>2 DEF IInv, TxProgress
<1> QED
  BY <1>1, <1>2, <1>3, <1>4 DEF IInv

LEMMA CrashStep ==
  ASSUME IInv, Crash
  PROVE  IInv'
<1>1. db' = db /\ tx' = None /\ call' = [c \in Callers |-> Idle]
  BY DEF Crash
<1>2. TypeOK'
  BY <1>1 DEF IInv, TypeOK, Call
<1>3. CallsAccepted' /\ TxProgress' /\ AnswersAreDurable'
  BY <1>1 DEF CallsAccepted, TxProgress, AnswersAreDurable, Idle
<1> QED
  BY <1>1, <1>2, <1>3 DEF IInv

LEMMA BeginFailsStep ==
  ASSUME IInv, NEW c \in Callers, BeginFails(c)
  PROVE  IInv'
<1>1. /\ db' = db /\ tx' = tx /\ call[c].phase = "queued"
      /\ call \in [Callers -> Call]
  BY DEF IInv, TypeOK, BeginFails
<1>2. call[c].req \in Request
  BY <1>1 DEF Call, Idle
<1> DEFINE new == [phase |-> "done", req |-> call[c].req, ok |-> FALSE,
                   ids |-> <<>>, rows |-> <<>>]
<1>3. call' = [call EXCEPT ![c] = new] /\ new \in Call /\ new.phase = "done" /\ ~new.ok
  BY <1>2 DEF BeginFails, Answer, Call
<1> HIDE DEF new
<1>4. TypeOK'
  BY <1>1, <1>3 DEF IInv, TypeOK
<1>5. CallsAccepted'
  BY <1>1, <1>3 DEF IInv, CallsAccepted
<1>6. TxProgress'
  <2> SUFFICES ASSUME tx # None PROVE TxProgress'
    BY <1>1 DEF TxProgress
  <2>1. tx.caller # c
    BY <1>1 DEF IInv, TxProgress
  <2>2. tx.caller \in Callers
    BY DEF IInv, TypeOK, Transaction
  <2>3. call'[tx.caller] = call[tx.caller]
    BY <1>1, <1>3, <2>1, <2>2
  <2> QED
    BY <1>1, <2>3 DEF IInv, TxProgress
<1>7. AnswersAreDurable'
  BY <1>1, <1>3 DEF IInv, AnswersAreDurable
<1> QED
  BY <1>1, <1>4, <1>5, <1>6, <1>7 DEF IInv

LEMMA NextIInv == IInv /\ [Next]_vars => IInv'
<1> SUFFICES ASSUME IInv, [Next]_vars PROVE IInv'
  OBVIOUS
<1>1. ASSUME NEW c \in Callers, NEW r \in Request, Submit(c, r) PROVE IInv'
  BY <1>1, SubmitStep
<1>2. ASSUME NEW c \in Callers, Begin(c) PROVE IInv'
  BY <1>2, BeginStep
<1>3. ASSUME NEW c \in Callers, Progress(c) PROVE IInv'
  <2>1. CASE LookupNew(c)
    BY <2>1, LookupNewStep
  <2>2. CASE LookupReplay(c)
    BY <2>2, LookupReplayStep
  <2>3. CASE LookupForeign(c)
    BY <2>3, AbortStep DEF LookupForeign, Holds
  <2>4. CASE ApplyOne(c)
    BY <2>4, ApplyOneStep
  <2>5. CASE ApplyRefused(c)
    BY <2>5, AbortStep DEF ApplyRefused, Holds
  <2>6. CASE RecordBatch(c)
    BY <2>6, RecordBatchStep
  <2>7. CASE Commit(c)
    BY <2>7, CommitStep
  <2> QED
    BY <1>3, <2>1, <2>2, <2>3, <2>4, <2>5, <2>6, <2>7 DEF Progress
<1>4. ASSUME NEW c \in Callers, StatementFails(c) PROVE IInv'
  BY <1>4, AbortStep DEF StatementFails, Holds
<1>5. ASSUME NEW c \in Callers, Return(c) PROVE IInv'
  BY <1>5, ReturnStep
<1>6. CASE Crash
  BY <1>6, CrashStep
<1>7. CASE UNCHANGED vars
  BY <1>7 DEF vars, IInv, TypeOK, CallsAccepted, TxProgress, AnswersAreDurable
<1>8. ASSUME NEW c \in Callers, BeginFails(c) PROVE IInv'
  BY <1>8, BeginFailsStep
<1> QED
  BY <1>1, <1>2, <1>3, <1>4, <1>5, <1>6, <1>7, <1>8 DEF Next

----------------------------------------------------------------------------
(* The results. *)

\* The inductive invariant holds in every reachable state.
THEOREM Invariance == Spec => []IInv
<1> QED
  BY InitIInv, NextIInv, PTL DEF Spec

\* Database, transaction and calls keep their types: in particular every id
\* that ApplyBatch returns has a row to read back (getTransactionsByIDs).
THEOREM TypeCorrect == Spec => []TypeOK
<1>1. IInv => TypeOK
  BY DEF IInv
<1> QED
  BY <1>1, Invariance, PTL

\* A source message takes effect exactly once and whole, through crashes,
\* failing statements, refused mutations and redeliveries.
THEOREM ExactlyOnce == Spec => []BatchesAreRuns
<1>1. IInv => BatchesAreRuns
  BY DEF IInv, BatchesAreRuns
<1> QED
  BY <1>1, Invariance, PTL

\* The audit trail of every row is an unbroken chain of before images.
THEOREM AuditChain == Spec => []AuditIsAChain
<1>1. IInv => AuditIsAChain
  BY DEF IInv, Sound, AuditIsAChain
<1> QED
  BY <1>1, Invariance, PTL

\* The last audit event of a row tells its present content.
THEOREM AuditComplete == Spec => []AuditExplainsRows
<1>1. IInv => AuditExplainsRows
  BY DEF IInv, Sound, AuditExplainsRows
<1> QED
  BY <1>1, Invariance, PTL

\* What getScopedTransaction finds is what belongs to the scope.
LEMMA AllOwnedIsIsolated ==
  ASSUME NEW d \in Database, AllOwned(d)
  PROVE  Isolated(d)
<1>1. DOMAIN d.rows = 1..Len(d.rows)
  BY DEF Database
<1>2. \A s, id : Owned(d, s, id) => id \in RowsOf(d, s)
  BY <1>1 DEF Owned, RowsOf
<1> QED
  BY <1>2 DEF AllOwned, Isolated

\* No identity ever changes a row, or has a batch row naming a row, of another.
THEOREM Isolation == Spec => []ScopeIsolation
<1>1. IInv => ScopeIsolation
  BY AllOwnedIsIsolated DEF IInv, Sound, ScopeIsolation
<1> QED
  BY <1>1, Invariance, PTL

\* What a caller was told is in the database and stays there.
THEOREM DurableAnswers == Spec => []AnswersAreDurable
<1>1. IInv => AnswersAreDurable
  BY DEF IInv
<1> QED
  BY <1>1, Invariance, PTL

----------------------------------------------------------------------------
(* Linearizability, and from it the refinement. *)

\* A step that accepts no call leaves the database alone.
Silent ==
  /\ db' = db
  /\ \A c \in Callers : call'[c] = call[c] \/ call'[c].phase # "done" \/ ~ call'[c].ok

LEMMA AbortIsSilent ==
  ASSUME TypeOK, NEW c \in Callers, Abort(c)
  PROVE  Silent
  BY DEF TypeOK, Abort, Answer, Silent

LEMMA OnlyCommitSpeaks ==
  ASSUME IInv, Next
  PROVE  Silent \/ \E c \in Callers : Commit(c)
<1> USE DEF Silent
<1>0. call \in [Callers -> Call] /\ TypeOK
  BY DEF IInv, TypeOK
<1>1. ASSUME NEW c \in Callers, NEW r \in Request, Submit(c, r) PROVE Silent
  BY <1>0, <1>1 DEF Submit, Answer
<1>2. ASSUME NEW c \in Callers, Begin(c) PROVE Silent
  BY <1>0, <1>2 DEF Begin
<1>3. ASSUME NEW c \in Callers, BeginFails(c) PROVE Silent
  BY <1>0, <1>3 DEF BeginFails, Answer
<1>4. ASSUME NEW c \in Callers, Progress(c) PROVE Silent \/ Commit(c)
  <2>1. CASE LookupNew(c) \/ LookupReplay(c) \/ ApplyOne(c) \/ RecordBatch(c)
    BY <2>1 DEF LookupNew, LookupReplay, ApplyOne, RecordBatch
  <2>2. CASE LookupForeign(c) \/ ApplyRefused(c)
    BY <1>0, <2>2, AbortIsSilent DEF LookupForeign, ApplyRefused
  <2> QED BY <1>4, <2>1, <2>2 DEF Progress
<1>5. ASSUME NEW c \in Callers, StatementFails(c) PROVE Silent
  BY <1>0, <1>5, AbortIsSilent DEF StatementFails
<1>6. ASSUME NEW c \in Callers, Return(c) PROVE Silent
  BY <1>0, <1>6 DEF Return, Idle
<1>7. CASE Crash
  BY <1>7 DEF Crash, Idle
<1> QED
  BY <1>1, <1>2, <1>3, <1>4, <1>5, <1>6, <1>7 DEF Next

LEMMA NextIsAsIfAlone ==
  ASSUME IInv, Next
  PROVE  AsIfAlone
<1>1. CASE Silent
  BY <1>1 DEF Silent, AsIfAlone
<1>2. ASSUME NEW c \in Callers, Commit(c) PROVE AsIfAlone
  <2> DEFINE r == call[c].req
             rows == [i \in DOMAIN tx.ids |-> tx.db.rows[tx.ids[i]]]
             answer == [phase |-> "done", req |-> r, ok |-> TRUE, ids |-> tx.ids, rows |-> rows]
  <2>1. /\ tx # None /\ tx.caller = c /\ tx.phase = "commit"
        /\ db' = tx.db
        /\ call' = [call EXCEPT ![c] = answer]
    BY <1>2 DEF Commit, Holds, Answer
  <2>2. ApplyBatch(db, r.scope, r.source, r.batch) = [ok |-> TRUE, db |-> db', ids |-> tx.ids]
    BY <2>1 DEF IInv, TxProgress, InProgress
  <2>3. call[c].phase = "open"
    BY <2>1 DEF IInv, TxProgress
  <2>4. call'[c] = answer
    BY <2>1 DEF IInv, TypeOK
  <2> HIDE DEF rows
  <2>5. call'[c].phase = "done" /\ call'[c].ok /\ call'[c].ids = tx.ids
    BY <2>4
  <2> QED BY <2>2, <2>3, <2>5 DEF AsIfAlone
<1> QED
  BY <1>1, <1>2, OnlyCommitSpeaks

\* ApplyBatch is linearizable: callers that run beside each other, fail and are
\* redelivered see what one caller after the other would.
THEOREM Linearizable == Spec => AnswersAsIfAlone
<1>1. IInv /\ [Next]_vars => [AsIfAlone]_vars
  BY NextIsAsIfAlone
<1> QED
  BY <1>1, Invariance, PTL DEF Spec, AnswersAsIfAlone

\* A whole batch is what the abstract ledger accepts.
LEMMA BatchIsAccepted ==
  ASSUME NEW r \in Request, db \in Database, db' \in Database,
         NEW ids \in Seq(Nat), ids # <<>>,
         db.batches[r.source] = None,
         db'.batches[r.source] = [scope |-> r.scope, ids |-> ids],
         db'.batches[r.source] # None,
         db'.batches = [db.batches EXCEPT ![r.source] = [scope |-> r.scope, ids |-> ids]],
         Extends(db, db', ids, r)
  PROVE  L!Accept(r.scope, r.source)
<1> DEFINE n == Len(db.audit)
           k == Len(ids)
           added == SubSeq(db'.audit, n + 1, Len(db'.audit))
<1>1. /\ db.audit \in Seq(AuditEvent) /\ db'.audit \in Seq(AuditEvent)
      /\ n \in Nat /\ k \in Nat /\ k # 0
      /\ Len(db.rows) \in Nat /\ Len(db'.rows) \in Nat
      /\ DOMAIN db.rows = 1..Len(db.rows) /\ DOMAIN db'.rows = 1..Len(db'.rows)
      /\ DOMAIN ids = 1..k
  BY DEF Database
<1>2. Len(db'.audit) = n + k
  BY DEF Extends
<1>3. /\ added \in Seq(AuditEvent) /\ Len(added) = k
      /\ \A i \in 1..k : added[i] = db'.audit[n + i]
  <2> DEFINE a == db'.audit
  <2>1. \A i \in (n + 1)..(n + k) : a[i] \in AuditEvent
    BY <1>1, <1>2
  <2>2. added = SubSeq(a, n + 1, n + k)
    BY <1>2
  <2> HIDE DEF a, n, k, added
  <2>3. n + 1 \in Int /\ n + k \in Int /\ n + 1 <= n + k /\ (n + k) - (n + 1) + 1 = k
    BY <1>1
  <2>4. /\ SubSeq(a, n + 1, n + k) \in Seq(AuditEvent)
        /\ Len(SubSeq(a, n + 1, n + k)) = k
        /\ \A i \in 1..k : SubSeq(a, n + 1, n + k)[i] = a[(n + 1) + i - 1]
    BY <2>1, <2>3, SubSeqProperties
  <2>5. \A i \in 1..k : (n + 1) + i - 1 = n + i
    BY <1>1
  <2> QED BY <2>2, <2>4, <2>5 DEF a
<1>4. DOMAIN added = 1..k /\ added # <<>>
  <2> HIDE DEF added
  <2> QED BY <1>1, <1>3
<1>5. \A i \in 1..k : /\ added[i].id = ids[i] /\ added[i].scope = r.scope
                      /\ added[i].source = r.source /\ added[i].action = r.batch[i].kind
  <2> HIDE DEF added
  <2> QED BY <1>3, ZenonT(40) DEF Extends
<1>6. ids = [i \in DOMAIN added |-> added[i].id]
  <2> HIDE DEF added, k
  <2>1. ids = [i \in 1..k |-> ids[i]]
    BY <1>1
  <2> QED BY <1>4, <1>5, <2>1
<1>7. IsPrefix(db.audit, db'.audit)
  <2>1. \A i \in 1..n : db'.audit[i] = db.audit[i]
    BY DEF Extends
  <2> DEFINE a == db.audit
             b == db'.audit
             p == SubSeq(b, 1, n)
  <2>2. /\ p \in Seq(AuditEvent) /\ Len(p) = n
        /\ \A i \in 1..n : p[i] = b[i]
    <3>1. \A i \in 1..n : b[i] \in AuditEvent
      BY <1>1, <1>2
    <3>2. n - 1 + 1 = n /\ n \in Int /\ 1 \in Int /\ (n = 0 \/ 1 <= n)
      BY <1>1
    <3> HIDE DEF a, b, n
    <3>3. /\ SubSeq(b, 1, n) \in Seq(AuditEvent)
          /\ Len(SubSeq(b, 1, n)) = IF 1 <= n THEN n - 1 + 1 ELSE 0
          /\ \A i \in 1..(n - 1 + 1) : SubSeq(b, 1, n)[i] = b[1 + i - 1]
      BY <3>1, <3>2, SubSeqProperties
    <3>4. \A i \in 1..n : 1 + i - 1 = i
      BY <1>1
    <3> QED BY <1>1, <3>2, <3>3, <3>4
  <2>3. p = a
    <3> HIDE DEF p, b
    <3> QED BY <1>1, <2>1, <2>2, SeqEqual DEF b
  <2>4. SubSeq(a, 1, n) = a
    BY <1>1, SubSeqFull
  <2>5. n <= Len(db'.audit)
    BY <1>1, <1>2
  <2> QED BY <2>3, <2>4, <2>5 DEF IsPrefix
<1>8. Len(db.rows) <= Len(db'.rows)
  BY DEF Extends
<1>9. \A id \in DOMAIN db'.rows :
        IF id \in DOMAIN db.rows
        THEN /\ db'.rows[id].scope = db.rows[id].scope
             /\ db'.rows[id].source = db.rows[id].source
             /\ db'.rows[id] # db.rows[id] =>
                  /\ db.rows[id].scope = r.scope
                  /\ \E i \in DOMAIN added : added[i].id = id
        ELSE /\ db'.rows[id].scope = r.scope
             /\ db'.rows[id].source = r.source
             /\ \E i \in DOMAIN added : added[i].id = id /\ added[i].action = "create"
  <2> DEFINE old == db.rows
             new == db'.rows
             By(id) == \E i \in DOMAIN added : added[i].id = id
             Creates(id) == \E i \in DOMAIN added : added[i].id = id /\ added[i].action = "create"
  <2>1. \A id \in 1..Len(old) :
          /\ new[id].scope = old[id].scope
          /\ new[id].source = old[id].source
          /\ \/ new[id] = old[id]
             \/ old[id].scope = r.scope /\ \E i \in 1..Len(ids) : ids[i] = id
    BY DEF Extends
  <2>2. \A id \in (Len(old) + 1)..Len(new) :
          /\ new[id].scope = r.scope
          /\ new[id].source = r.source
          /\ \E i \in 1..Len(ids) : ids[i] = id /\ r.batch[i].kind = "create"
    BY DEF Extends
  <2>3. DOMAIN old = 1..Len(old) /\ DOMAIN new = 1..Len(new)
    BY <1>1
  <2>4. Len(old) \in Nat /\ Len(new) \in Nat
    BY <1>1
  <2> HIDE DEF added, old, new, k
  <2>5. \A id : (\E i \in 1..k : ids[i] = id) => By(id)
    BY <1>4, <1>5
  <2>6. \A id : (\E i \in 1..k : ids[i] = id /\ r.batch[i].kind = "create") => Creates(id)
    BY <1>4, <1>5
  <2>7. \A id \in DOMAIN new : id \notin DOMAIN old => id \in (Len(old) + 1)..Len(new)
    BY <2>3, <2>4
  <2>8. k = Len(ids)
    BY DEF k
  <2> HIDE DEF By, Creates
  <2>9. \A id \in DOMAIN new :
          IF id \in DOMAIN old
          THEN /\ new[id].scope = old[id].scope
               /\ new[id].source = old[id].source
               /\ new[id] # old[id] => old[id].scope = r.scope /\ By(id)
          ELSE /\ new[id].scope = r.scope
               /\ new[id].source = r.source
               /\ Creates(id)
    BY <2>1, <2>2, <2>3, <2>5, <2>6, <2>7, <2>8, ZenonT(40)
  <2> QED BY <2>9 DEF By, Creates, old, new
<1>10. L!Added = added
  BY DEF L!Added
<1>11. \A i \in DOMAIN added : added[i].scope = r.scope /\ added[i].source = r.source
  <2> HIDE DEF added
  <2> QED BY <1>4, <1>5
<1> HIDE DEF added, n, k
<1> QED
  BY <1>4, <1>6, <1>7, <1>8, <1>9, <1>10, <1>11 DEF L!Accept, L!IsPrefix, IsPrefix

\* Store.ApplyBatch, statement by statement, implements the abstract ledger: the
\* committed content moves by whole batches of one source message each.
THEOREM Refinement == Spec => ImplementsLedger
<1>1. Init => L!Init
  BY DEF Init, L!Init, EmptyDatabase, L!EmptyDatabase
<1>2. ASSUME IInv, IInv', [AsIfAlone]_vars PROVE [L!Next]_db
  <2>1. CASE db' = db
    BY <2>1
  <2>2. CASE db' # db
    <3>1. PICK c \in Callers :
            /\ call[c].phase = "open"
            /\ LET r == call[c].req IN
                 ApplyBatch(db, r.scope, r.source, r.batch)
                   = [ok |-> TRUE, db |-> db', ids |-> call'[c].ids]
      BY <1>2, <2>2 DEF AsIfAlone, vars
    <3> DEFINE r == call[c].req
               x == ApplyBatch(db, r.scope, r.source, r.batch)
    <3>2. r \in Request /\ r.scope \in Scopes /\ r.source \in Sources /\ r.batch \in Seq(Mutation)
      BY <1>2, <3>1, OpenCallFacts DEF IInv
    <3>3. db \in Database /\ db' \in Database
      BY <1>2 DEF IInv, TypeOK
    <3> HIDE DEF r
    <3>4. /\ x.db = db' /\ x.ok
      BY <3>1 DEF r
    <3>5. /\ x.db \in Database
          /\ x.ok \in BOOLEAN
          /\ \/ x.db = db /\ (x.ok => db.batches[r.source] # None)
             \/ /\ x.ok /\ AcceptedBatch(r.batch) /\ db.batches[r.source] = None
                /\ x.ids \in Seq(Nat) /\ Len(x.ids) = Len(r.batch)
                /\ Extends(db, x.db, x.ids, r)
                /\ x.db.batches = [db.batches EXCEPT ![r.source] =
                                     [scope |-> r.scope, ids |-> x.ids]]
                /\ x.db.batches[r.source] = [scope |-> r.scope, ids |-> x.ids]
                /\ x.db.batches[r.source] # None
      BY <3>2, <3>3, ApplyBatchFacts
    <3> HIDE DEF x
    <3>6. x.ids # <<>>
      BY <2>2, <3>2, <3>4, <3>5 DEF AcceptedBatch
    <3>7. L!Accept(r.scope, r.source)
      BY <2>2, <3>2, <3>3, <3>4, <3>5, <3>6, BatchIsAccepted
    <3> QED BY <3>2, <3>7 DEF L!Next
  <2> QED BY <2>1, <2>2
<1>3. Spec => []IInv /\ [][AsIfAlone]_vars
  BY Invariance, Linearizable DEF AnswersAsIfAlone
<1> QED
  BY <1>1, <1>2, <1>3, PTL DEF Spec, ImplementsLedger, L!Spec
=============================================================================
