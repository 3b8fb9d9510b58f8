---------------------------- MODULE LedgerOpsProofs ----------------------------
(***************************************************************************)
(* Lemmas about the operations of LedgerOps: what one mutation does to a   *)
(* database content, and what a batch of any length does.                  *)
(***************************************************************************)
EXTENDS LedgerOps, SequenceTheorems, WellFoundedInduction, TLAPS

----------------------------------------------------------------------------
(* Induction, for sets of numbers: the library's induction theorems are    *)
(* about operators.                                                        *)

\* A nonempty set of numbers has a least one.
LEMMA LeastNat ==
  ASSUME NEW T \in SUBSET Nat, T # {}
  PROVE  \E m \in T : \A k \in T : m <= k
<1> DEFINE R == {ss \in Nat \X Nat : ss[1] < ss[2]}
<1>1. IsWellFoundedOn(R, Nat)
  BY NatLessThanWellFounded, Zenon DEF OpToRel
<1>2. PICK m \in T : \A k \in T : ~ (<<k, m>> \in R)
  <2> HIDE DEF R
  <2> QED BY <1>1, WFMin, Zenon
<1>3. \A k \in T : <<k, m>> \in R <=> k < m
  OBVIOUS
<1> HIDE DEF R
<1>4. \A k \in T : ~ (k < m)
  BY <1>2, <1>3
<1>5. m \in Nat /\ \A k \in T : k \in Nat
  OBVIOUS
<1> QED
  BY <1>4, <1>5

\* A set with 0 and the successor of each of its numbers up to n has them all.
LEMMA SetInduction ==
  ASSUME NEW n \in Nat, NEW S, 0 \in S,
         \A k \in 0..(n - 1) : k \in S => k + 1 \in S
  PROVE  0..n \subseteq S
<1> DEFINE T == (0..n) \ S
<1>1. ASSUME T # {} PROVE FALSE
  <2>1. PICK m \in T : \A k \in T : m <= k
    <3>1. T \in SUBSET Nat
      OBVIOUS
    <3> HIDE DEF T
    <3> QED BY <1>1, <3>1, LeastNat
  <2>2. m \in 1..n
    BY <2>1
  <2>3. m - 1 \in 0..(n - 1) /\ ~ (m <= m - 1)
    BY <2>2
  <2>4. m - 1 \in S
    BY <2>1, <2>3
  <2>5. (m - 1) + 1 \in S /\ (m - 1) + 1 = m
    BY <2>2, <2>3, <2>4
  <2> QED BY <2>1, <2>5
<1> QED
  BY <1>1

----------------------------------------------------------------------------
(* One mutation. *)

\* A mutation that applyMutation accepts leaves rows of the right type, names
\* a row of the caller, and keeps the identity and the origin of every row.
LEMMA RowsAfterFacts ==
  ASSUME NEW d \in Database, NEW scope \in Scopes, NEW source \in Sources,
         NEW m \in Mutation, ValidMutation(m), Applicable(d, scope, m)
  PROVE  LET rows == RowsAfter(d, scope, source, m) IN
         /\ rows \in Seq(Row)
         /\ Len(rows) = IF m.kind = "create" THEN Len(d.rows) + 1 ELSE Len(d.rows)
         /\ Target(d, m) \in 1..Len(rows)
         /\ rows[Target(d, m)].scope = scope
         /\ \A id \in 1..Len(d.rows) : /\ rows[id].scope = d.rows[id].scope
                                       /\ rows[id].source = d.rows[id].source
         /\ m.kind = "create" => rows[Target(d, m)].source = source
         /\ \A id \in 1..Len(d.rows) : id # Target(d, m) => rows[id] = d.rows[id]
<1> DEFINE rows == RowsAfter(d, scope, source, m)
           id == m.id
           old == d.rows[id]
           Kept(row) == row.scope = old.scope /\ row.source = old.source
<1>0. d.rows \in Seq(Row) /\ Len(d.rows) \in Nat /\ DOMAIN d.rows = 1..Len(d.rows)
  BY DEF Database
<1>1. CASE m.kind = "create"
  <2> DEFINE new == [scope |-> scope, source |-> source, content |-> m.content,
                     deleted |-> FALSE]
  <2>1. new \in Row
    BY <1>1 DEF ValidMutation, Row
  <2>2. rows = Append(d.rows, new)
    BY <1>1 DEF RowsAfter
  <2>3. /\ rows \in Seq(Row)
        /\ Len(rows) = Len(d.rows) + 1
        /\ \A k \in 1..Len(d.rows) : rows[k] = d.rows[k]
        /\ rows[Len(d.rows) + 1] = new
    BY <1>0, <2>1, <2>2, AppendProperties
  <2> QED
    BY <1>0, <1>1, <2>3 DEF Target
<1>2. CASE m.kind # "create"
  <2>1. id \in 1..Len(d.rows) /\ old.scope = scope /\ old \in Row
    BY <1>0, <1>2 DEF Applicable, Owned
  <2>2. \E new \in Row : rows = [d.rows EXCEPT ![id] = new] /\ Kept(new)
    <3>1. CASE m.kind = "update"
      <4> DEFINE new == [old EXCEPT !.content = m.content]
      <4>1. new \in Row /\ Kept(new)
        BY <2>1, <3>1 DEF Row, ValidMutation
      <4>2. rows = [d.rows EXCEPT ![id] = new]
        BY <1>0, <2>1, <3>1 DEF RowsAfter
      <4> QED BY <4>1, <4>2
    <3>2. CASE m.kind = "delete"
      <4> DEFINE new == [old EXCEPT !.deleted = TRUE]
      <4>1. new \in Row /\ Kept(new)
        BY <2>1 DEF Row
      <4>2. rows = [d.rows EXCEPT ![id] = new]
        BY <1>0, <2>1, <3>2 DEF RowsAfter
      <4> QED BY <4>1, <4>2
    <3>3. CASE m.kind = "restore"
      <4> DEFINE new == [old EXCEPT !.deleted = FALSE]
      <4>1. new \in Row /\ Kept(new)
        BY <2>1 DEF Row
      <4>2. rows = [d.rows EXCEPT ![id] = new]
        BY <1>0, <2>1, <3>3 DEF RowsAfter
      <4> QED BY <4>1, <4>2
    <3> QED
      BY <1>2, <3>1, <3>2, <3>3 DEF Mutation, Kinds
  <2>3. PICK new \in Row : rows = [d.rows EXCEPT ![id] = new] /\ Kept(new)
    BY <2>2
  <2>4. /\ rows \in Seq(Row)
        /\ Len(rows) = Len(d.rows)
        /\ \A k \in 1..Len(d.rows) : rows[k] = IF k = id THEN new ELSE d.rows[k]
    BY <1>0, <2>1, <2>3, ExceptSeq
  <2>5. Target(d, m) = id
    BY <1>2 DEF Target
  <2> QED
    BY <1>0, <1>2, <2>1, <2>3, <2>4, <2>5
<1> QED
  BY <1>1, <1>2

\* The audit row of a mutation: its before image is the row as it was, and its
\* outcome the row as the mutation leaves it.
LEMMA EventFacts ==
  ASSUME NEW d \in Database, NEW scope \in Scopes, NEW source \in Sources,
         NEW m \in Mutation, ValidMutation(m), Applicable(d, scope, m)
  PROVE  LET e == EventOf(d, scope, source, m) IN
         /\ e \in AuditEvent
         /\ e.id = Target(d, m) /\ e.scope = scope /\ e.source = source
         /\ e.action = m.kind
         /\ Outcome(e) = RowsAfter(d, scope, source, m)[Target(d, m)]
         /\ m.kind = "create" => e.before = None
         /\ m.kind # "create" => /\ m.id \in 1..Len(d.rows)
                                 /\ e.before = d.rows[m.id]
                                 /\ m.kind = "restore" <=> e.before.deleted
<1> DEFINE e == EventOf(d, scope, source, m)
<1>0. d.rows \in Seq(Row) /\ Len(d.rows) \in Nat /\ DOMAIN d.rows = 1..Len(d.rows)
  BY DEF Database
<1>1. CASE m.kind = "create"
  <2> DEFINE new == [scope |-> scope, source |-> source, content |-> m.content,
                     deleted |-> FALSE]
  <2>1. new \in Row /\ m.content \in Contents
    BY <1>1 DEF ValidMutation, Row
  <2>2. RowsAfter(d, scope, source, m) = Append(d.rows, new)
    BY <1>1 DEF RowsAfter
  <2>3. Target(d, m) = Len(d.rows) + 1
    BY <1>1 DEF Target
  <2>4. RowsAfter(d, scope, source, m)[Target(d, m)] = new
    BY <1>0, <2>1, <2>2, <2>3, AppendProperties
  <2>5. e = [id |-> Len(d.rows) + 1, scope |-> scope, source |-> source,
             action |-> "create", before |-> None, after |-> m.content]
    BY <1>1, <2>3 DEF EventOf
  <2>6. Outcome(e) = new
    BY <2>5 DEF Outcome
  <2>7. e \in AuditEvent
    BY <1>0, <2>1, <2>5 DEF AuditEvent, Kinds
  <2> QED
    BY <1>1, <2>3, <2>4, <2>5, <2>6, <2>7
<1>2. CASE m.kind # "create"
  <2> DEFINE old == d.rows[m.id]
  <2>1. m.id \in 1..Len(d.rows) /\ old \in Row /\ (m.kind = "restore" <=> old.deleted)
    BY <1>0, <1>2 DEF Applicable, Owned
  <2>2. Target(d, m) = m.id
    BY <1>2 DEF Target
  <2>3. /\ e.id = m.id /\ e.scope = scope /\ e.source = source /\ e.action = m.kind
        /\ e.before = old
        /\ e.after = IF m.kind = "update" THEN m.content ELSE None
    BY <1>2, <2>2 DEF EventOf, Mutation, Kinds
  <2>4. e \in AuditEvent
    BY <1>0, <1>2, <2>1, <2>2 DEF EventOf, AuditEvent, Mutation, Kinds
  <2>5. Outcome(e) = RowsAfter(d, scope, source, m)[m.id]
    <3>1. CASE m.kind = "update"
      BY <1>0, <2>1, <2>3, <3>1 DEF Outcome, RowsAfter
    <3>2. CASE m.kind = "delete"
      BY <1>0, <2>1, <2>3, <3>2 DEF Outcome, RowsAfter
    <3>3. CASE m.kind = "restore"
      BY <1>0, <2>1, <2>3, <3>3 DEF Outcome, RowsAfter
    <3> QED
      BY <1>2, <3>1, <3>2, <3>3 DEF Mutation, Kinds
  <2> QED
    BY <1>2, <2>1, <2>2, <2>3, <2>4, <2>5
<1> QED
  BY <1>1, <1>2

----------------------------------------------------------------------------
(* A batch. *)

\* d with one mutation more, as a record.
LEMMA AppliedFacts ==
  ASSUME NEW d \in Database, NEW scope \in Scopes, NEW source \in Sources,
         NEW m \in Mutation, ValidMutation(m), Applicable(d, scope, m)
  PROVE  LET new == Applied(d, scope, source, m) IN
         /\ new \in Database
         /\ new.rows = RowsAfter(d, scope, source, m)
         /\ new.audit = Append(d.audit, EventOf(d, scope, source, m))
         /\ new.batches = d.batches
<1> DEFINE new == Applied(d, scope, source, m)
           rows == RowsAfter(d, scope, source, m)
           e == EventOf(d, scope, source, m)
<1>1. rows \in Seq(Row) /\ e \in AuditEvent
  BY RowsAfterFacts, EventFacts
<1>2. new.rows = rows /\ new.audit = Append(d.audit, e) /\ new.batches = d.batches
  BY DEF Applied, Database
<1>3. Append(d.audit, e) \in Seq(AuditEvent)
  BY <1>1, AppendProperties DEF Database
<1>4. new = [rows |-> rows, audit |-> Append(d.audit, e), batches |-> d.batches]
  <2>1. d = [rows |-> d.rows, audit |-> d.audit, batches |-> d.batches]
    BY DEF Database
  <2> DEFINE r == d.rows a == d.audit b == d.batches
  <2>2. new = [[rows |-> r, audit |-> a, batches |-> b]
                 EXCEPT !.rows = rows, !.audit = Append(a, e)]
    BY <2>1, Zenon DEF Applied
  <2> HIDE DEF r, a, b, rows, e
  <2> QED BY <2>2 DEF r, a, b
<1> QED
  BY <1>1, <1>2, <1>3, <1>4 DEF Database

\* The batch row changes nothing but the batches.
LEMMA RecordedFacts ==
  ASSUME NEW d \in Database, NEW scope \in Scopes, NEW source \in Sources, NEW ids \in Seq(Nat)
  PROVE  /\ Recorded(d, scope, source, ids) \in Database
         /\ Recorded(d, scope, source, ids).rows = d.rows
         /\ Recorded(d, scope, source, ids).audit = d.audit
         /\ Recorded(d, scope, source, ids).batches
              = [d.batches EXCEPT ![source] = [scope |-> scope, ids |-> ids]]
         /\ Recorded(d, scope, source, ids).batches[source] = [scope |-> scope, ids |-> ids]
         /\ [scope |-> scope, ids |-> ids] \in BatchRow
         /\ [scope |-> scope, ids |-> ids] # None
<1> DEFINE new == Recorded(d, scope, source, ids)
           row == [scope |-> scope, ids |-> ids]
<1>1. row \in BatchRow /\ row # None
  BY NoneAssumption DEF BatchRow
<1>2. /\ new.rows = d.rows /\ new.audit = d.audit
      /\ new.batches = [d.batches EXCEPT ![source] = row]
  BY DEF Recorded, Database
<1>3. /\ new.batches \in [Sources -> BatchRow \cup {None}]
      /\ new.batches[source] = row
  BY <1>1, <1>2 DEF Database
<1>4. new = [rows |-> d.rows, audit |-> d.audit, batches |-> new.batches]
  <2>1. d = [rows |-> d.rows, audit |-> d.audit, batches |-> d.batches]
    BY DEF Database
  <2> DEFINE r == d.rows a == d.audit b == d.batches
  <2>2. new = [[rows |-> r, audit |-> a, batches |-> b] EXCEPT !.batches[source] = row]
    BY <2>1, Zenon DEF Recorded
  <2> HIDE DEF r, a, b, row
  <2> QED BY <2>2 DEF r, a, b
<1> QED
  BY <1>1, <1>2, <1>3, <1>4 DEF Database

\* e is d after the first mutations of request r, which returned ids: their
\* events follow those of d, changed rows are of the scope of r and have an
\* event, and new rows have a create event.
Extends(d, e, ids, r) ==
  /\ Len(e.audit) = Len(d.audit) + Len(ids)
  /\ \A k \in 1..Len(d.audit) : e.audit[k] = d.audit[k]
  /\ \A i \in 1..Len(ids) : /\ e.audit[Len(d.audit) + i].id = ids[i]
                            /\ e.audit[Len(d.audit) + i].source = r.source
                            /\ e.audit[Len(d.audit) + i].scope = r.scope
                            /\ e.audit[Len(d.audit) + i].action = r.batch[i].kind
                            /\ r.batch[i].kind # "create" => e.audit[Len(d.audit) + i].id = r.batch[i].id
  /\ Len(d.rows) <= Len(e.rows)
  /\ \A id \in 1..Len(d.rows) :
       /\ e.rows[id].scope = d.rows[id].scope
       /\ e.rows[id].source = d.rows[id].source
       /\ \/ e.rows[id] = d.rows[id]
          \/ d.rows[id].scope = r.scope /\ \E i \in 1..Len(ids) : ids[i] = id
  /\ \A id \in (Len(d.rows) + 1)..Len(e.rows) :
       /\ e.rows[id].scope = r.scope
       /\ e.rows[id].source = r.source
       /\ \E i \in 1..Len(ids) : ids[i] = id /\ r.batch[i].kind = "create"

LEMMA ExtendsItself ==
  ASSUME NEW d \in Database, NEW r
  PROVE  Extends(d, d, <<>>, r)
<1>1. Len(d.audit) \in Nat /\ Len(d.rows) \in Nat
  BY DEF Database
<1> QED
  BY <1>1 DEF Extends

\* One more mutation: one more event, one more id, at most one more row.
LEMMA ExtendsFurther ==
  ASSUME NEW d \in Database, NEW e \in Database, NEW ids \in Seq(Nat), NEW r,
         r.scope \in Scopes, r.source \in Sources,
         NEW m \in Mutation, m = r.batch[Len(ids) + 1], ValidMutation(m),
         Applicable(e, r.scope, m), Extends(d, e, ids, r)
  PROVE  /\ Target(e, m) \in Nat
         /\ Append(ids, Target(e, m)) \in Seq(Nat)
         /\ Extends(d, Applied(e, r.scope, r.source, m), Append(ids, Target(e, m)), r)
<1> DEFINE t == Target(e, m)
           more == Append(ids, t)
           new == Applied(e, r.scope, r.source, m)
           event == EventOf(e, r.scope, r.source, m)
           rows == RowsAfter(e, r.scope, r.source, m)
           n == Len(d.audit)
           k == Len(ids)
           old == Len(d.rows)
<1>1. /\ n \in Nat /\ k \in Nat /\ old \in Nat /\ Len(e.rows) \in Nat
      /\ e.audit \in Seq(AuditEvent)
  BY DEF Database
<1>2. /\ new.rows = rows /\ new.audit = Append(e.audit, event)
  BY AppliedFacts
<1>3. /\ Len(rows) = IF m.kind = "create" THEN Len(e.rows) + 1 ELSE Len(e.rows)
      /\ t \in 1..Len(rows)
      /\ rows[t].scope = r.scope
      /\ m.kind = "create" => rows[t].source = r.source
      /\ \A id \in 1..Len(e.rows) : /\ rows[id].scope = e.rows[id].scope
                                    /\ rows[id].source = e.rows[id].source
                                    /\ id # t => rows[id] = e.rows[id]
  BY RowsAfterFacts
<1>4. /\ event \in AuditEvent
      /\ event.id = t /\ event.scope = r.scope /\ event.source = r.source
      /\ event.action = m.kind
  BY EventFacts
<1>5. /\ Len(e.audit) = n + k
      /\ \A i \in 1..n : e.audit[i] = d.audit[i]
      /\ \A i \in 1..k : /\ e.audit[n + i].id = ids[i]
                         /\ e.audit[n + i].source = r.source
                         /\ e.audit[n + i].scope = r.scope
                         /\ e.audit[n + i].action = r.batch[i].kind
                         /\ r.batch[i].kind # "create" => e.audit[n + i].id = r.batch[i].id
      /\ old <= Len(e.rows)
      /\ \A id \in 1..old :
           /\ e.rows[id].scope = d.rows[id].scope
           /\ e.rows[id].source = d.rows[id].source
           /\ \/ e.rows[id] = d.rows[id]
              \/ d.rows[id].scope = r.scope /\ \E i \in 1..k : ids[i] = id
      /\ \A id \in (old + 1)..Len(e.rows) :
           /\ e.rows[id].scope = r.scope
           /\ e.rows[id].source = r.source
           /\ \E i \in 1..k : ids[i] = id /\ r.batch[i].kind = "create"
  BY DEF Extends
<1>6. t \in Nat /\ (m.kind = "create" => t = Len(e.rows) + 1)
      /\ (m.kind # "create" => t \in 1..Len(e.rows) /\ t = m.id)
  <2>1. Len(rows) \in Nat /\ t \in Nat
    BY <1>1, <1>3
  <2>2. m.kind = "create" => t = Len(e.rows) + 1
    BY DEF Target
  <2>3. m.kind # "create" => t = m.id
    BY DEF Target
  <2> QED BY <1>3, <2>1, <2>2, <2>3
<1>7. /\ more \in Seq(Nat) /\ Len(more) = k + 1 /\ more[k + 1] = t
      /\ \A i \in 1..k : more[i] = ids[i]
  BY <1>6, AppendProperties
<1>9. r.batch[k + 1] = m
  OBVIOUS
<1> HIDE DEF t, more, event, rows, n, k, old
<1>8. /\ Len(new.audit) = (n + k) + 1
      /\ new.audit[(n + k) + 1] = event
      /\ \A i \in 1..(n + k) : new.audit[i] = e.audit[i]
  <2> HIDE DEF new
  <2>1. /\ Len(new.audit) = Len(e.audit) + 1
        /\ new.audit[Len(e.audit) + 1] = event
        /\ \A i \in 1..Len(e.audit) : new.audit[i] = e.audit[i]
    BY <1>1, <1>2, <1>4, AppendProperties
  <2> QED BY <1>5, <2>1
<1> HIDE DEF new
<1>10. \A i \in 1..(k + 1) : /\ new.audit[n + i].id = more[i]
                             /\ new.audit[n + i].source = r.source
                             /\ new.audit[n + i].scope = r.scope
                             /\ new.audit[n + i].action = r.batch[i].kind
                             /\ r.batch[i].kind # "create" => new.audit[n + i].id = r.batch[i].id
  <2> SUFFICES ASSUME NEW i \in 1..(k + 1)
               PROVE  /\ new.audit[n + i].id = more[i]
                      /\ new.audit[n + i].source = r.source
                      /\ new.audit[n + i].scope = r.scope
                      /\ new.audit[n + i].action = r.batch[i].kind
                      /\ r.batch[i].kind # "create" => new.audit[n + i].id = r.batch[i].id
    OBVIOUS
  <2>1. CASE i = k + 1
    <3>1. n + i = (n + k) + 1
      BY <1>1, <2>1
    <3>2. new.audit[n + i] = event
      BY <1>8, <3>1
    <3> QED BY <1>4, <1>6, <1>7, <1>9, <2>1, <3>2
  <2>2. CASE i # k + 1
    <3>1. i \in 1..k /\ n + i \in 1..(n + k)
      BY <1>1, <2>2
    <3>2. new.audit[n + i] = e.audit[n + i]
      BY <1>8, <3>1
    <3> QED BY <1>5, <1>7, <3>1, <3>2
  <2> QED BY <2>1, <2>2
<1>11. \A i \in 1..n : new.audit[i] = d.audit[i]
  <2> SUFFICES ASSUME NEW i \in 1..n PROVE new.audit[i] = d.audit[i]
    OBVIOUS
  <2>1. i \in 1..(n + k)
    BY <1>1
  <2> QED BY <1>5, <1>8, <2>1
<1>12. \A id : (\E i \in 1..k : ids[i] = id) => \E i \in 1..(k + 1) : more[i] = id
  <2> SUFFICES ASSUME NEW id, NEW i \in 1..k, ids[i] = id
               PROVE  \E j \in 1..(k + 1) : more[j] = id
    OBVIOUS
  <2>1. i \in 1..(k + 1) /\ more[i] = id
    BY <1>1, <1>7
  <2> QED BY <2>1
<1>13. \A id \in 1..old :
         /\ rows[id].scope = d.rows[id].scope
         /\ rows[id].source = d.rows[id].source
         /\ \/ rows[id] = d.rows[id]
            \/ d.rows[id].scope = r.scope /\ \E i \in 1..(k + 1) : more[i] = id
  <2> SUFFICES ASSUME NEW id \in 1..old
               PROVE  /\ rows[id].scope = d.rows[id].scope
                      /\ rows[id].source = d.rows[id].source
                      /\ \/ rows[id] = d.rows[id]
                         \/ d.rows[id].scope = r.scope /\ \E i \in 1..(k + 1) : more[i] = id
    OBVIOUS
  <2>1. id \in 1..Len(e.rows)
    BY <1>1, <1>5
  <2>2. rows[id].scope = d.rows[id].scope /\ rows[id].source = d.rows[id].source
    BY <1>3, <1>5, <2>1
  <2>3. CASE id = t
    <3>1. k + 1 \in 1..(k + 1) /\ more[k + 1] = id
      BY <1>1, <1>7, <2>3
    <3>2. d.rows[id].scope = r.scope
      BY <1>3, <2>2, <2>3
    <3> QED BY <2>2, <3>1, <3>2
  <2>4. CASE id # t
    <3>1. rows[id] = e.rows[id]
      BY <1>3, <2>1, <2>4
    <3> QED BY <1>5, <1>12, <2>2, <3>1
  <2> QED BY <2>3, <2>4
<1>14. \A id \in (old + 1)..Len(rows) :
         /\ rows[id].scope = r.scope
         /\ rows[id].source = r.source
         /\ \E i \in 1..(k + 1) : more[i] = id /\ r.batch[i].kind = "create"
  <2> SUFFICES ASSUME NEW id \in (old + 1)..Len(rows)
               PROVE  /\ rows[id].scope = r.scope
                      /\ rows[id].source = r.source
                      /\ \E i \in 1..(k + 1) : more[i] = id /\ r.batch[i].kind = "create"
    OBVIOUS
  <2>1. CASE id \in 1..Len(e.rows)
    <3>1. id \in (old + 1)..Len(e.rows)
      BY <1>1, <2>1
    <3>2. PICK i \in 1..k : ids[i] = id /\ r.batch[i].kind = "create"
      BY <1>5, <3>1
    <3>3. i \in 1..(k + 1) /\ more[i] = id
      BY <1>1, <1>7, <3>2
    <3> QED BY <1>3, <1>5, <2>1, <3>1, <3>2, <3>3
  <2>2. CASE id \notin 1..Len(e.rows)
    <3>1. id \in Nat /\ id > Len(e.rows) /\ id <= Len(rows) /\ id >= 1
      BY <1>1, <1>3, <2>2
    <3>2. m.kind = "create" /\ id = Len(e.rows) + 1
      BY <1>1, <1>3, <3>1, SMTT(30)
    <3>3. id = t
      BY <1>6, <3>2
    <3>4. k + 1 \in 1..(k + 1) /\ more[k + 1] = id /\ r.batch[k + 1].kind = "create"
      BY <1>1, <1>7, <1>9, <3>2, <3>3
    <3> QED BY <1>3, <3>2, <3>3, <3>4
  <2> QED BY <2>1, <2>2
<1>15. old <= Len(rows) /\ Len(new.audit) = n + (k + 1)
  BY <1>1, <1>3, <1>5, <1>8
<1>16. Extends(d, new, more, r)
  <2>1. /\ Len(new.audit) = n + Len(more)
        /\ \A i \in 1..Len(more) : /\ new.audit[n + i].id = more[i]
                                   /\ new.audit[n + i].source = r.source
                                   /\ new.audit[n + i].scope = r.scope
                                   /\ new.audit[n + i].action = r.batch[i].kind
                                   /\ r.batch[i].kind # "create" => new.audit[n + i].id = r.batch[i].id
        /\ old <= Len(new.rows)
    BY <1>2, <1>7, <1>10, <1>15
  <2>2. /\ \A id \in 1..old :
             /\ new.rows[id].scope = d.rows[id].scope
             /\ new.rows[id].source = d.rows[id].source
             /\ \/ new.rows[id] = d.rows[id]
                \/ d.rows[id].scope = r.scope /\ \E i \in 1..Len(more) : more[i] = id
        /\ \A id \in (old + 1)..Len(new.rows) :
             /\ new.rows[id].scope = r.scope
             /\ new.rows[id].source = r.source
             /\ \E i \in 1..Len(more) : more[i] = id /\ r.batch[i].kind = "create"
    BY <1>2, <1>7, <1>13, <1>14, ZenonT(40)
  <2> QED
    BY <1>11, <2>1, <2>2, Zenon DEF Extends, n, old
<1> QED
  BY <1>6, <1>7, <1>16 DEF t, more, new

\* The stages of a batch are what their recursive definition says.
LEMMA StagesUnfold ==
  ASSUME NEW d, NEW scope, NEW source, NEW batch, Len(batch) \in Nat
  PROVE  LET left == Stages(d, scope, source, batch) IN
         /\ left[0] = [ok |-> TRUE, db |-> d, ids |-> <<>>]
         /\ \A k \in 1..Len(batch) : left[k] = Then(left[k - 1], scope, source, batch[k])
<1> DEFINE first == [ok |-> TRUE, db |-> d, ids |-> <<>>]
           F(f, k) == IF k = 0 THEN first ELSE Then(f[k - 1], scope, source, batch[k])
           Solves(f, n) == f = [k \in 0..n |-> F(f, k)]
           S == {n \in Nat : \E f : Solves(f, n)}
<1>1. 0..Len(batch) \subseteq S
  <2>1. 0 \in S
    <3> DEFINE f == [k \in 0..0 |-> first]
    <3>1. Solves(f, 0)
      OBVIOUS
    <3> QED BY <3>1
  <2>2. ASSUME NEW m \in 0..(Len(batch) - 1), m \in S PROVE m + 1 \in S
    <3>1. m \in Nat /\ m + 1 \in Nat
      OBVIOUS
    <3>2. PICK g : Solves(g, m)
      BY <2>2
    <3> DEFINE f == [k \in 0..(m + 1) |->
                       IF k = m + 1 THEN Then(g[m], scope, source, batch[m + 1]) ELSE g[k]]
    <3>3. \A k \in 0..(m + 1) : f[k] = F(f, k)
      <4> SUFFICES ASSUME NEW k \in 0..(m + 1) PROVE f[k] = F(f, k)
        OBVIOUS
      <4>1. CASE k = m + 1
        <5>1. k # 0 /\ k - 1 = m /\ m \in 0..(m + 1) /\ m # m + 1
          BY <3>1, <4>1
        <5>2. f[k] = Then(g[m], scope, source, batch[k]) /\ f[k - 1] = g[m]
          BY <4>1, <5>1
        <5> QED BY <5>1, <5>2
      <4>2. CASE k # m + 1
        <5>1. k \in 0..m
          BY <3>1, <4>2
        <5>2. f[k] = g[k] /\ g[k] = F(g, k)
          BY <3>2, <4>2, <5>1
        <5>3. k # 0 => f[k - 1] = g[k - 1]
          BY <3>1, <5>1
        <5> QED BY <5>2, <5>3
      <4> QED BY <4>1, <4>2
    <3>4. Solves(f, m + 1)
      <4> HIDE DEF F
      <4>1. f = [k \in 0..(m + 1) |-> f[k]]
        OBVIOUS
      <4> HIDE DEF f
      <4>2. [k \in 0..(m + 1) |-> f[k]] = [k \in 0..(m + 1) |-> F(f, k)]
        BY <3>3
      <4> QED BY <4>1, <4>2
    <3> QED BY <3>1, <3>4
  <2> HIDE DEF S
  <2> QED BY <2>1, <2>2, SetInduction
<1>2. PICK g : Solves(g, Len(batch))
  BY <1>1
<1>3. Stages(d, scope, source, batch) = CHOOSE f : Solves(f, Len(batch))
  BY Zenon DEF Stages
<1>4. Solves(CHOOSE f : Solves(f, Len(batch)), Len(batch))
  <2> HIDE DEF Solves
  <2> QED BY <1>2
<1> DEFINE left == Stages(d, scope, source, batch)
<1>5. left = [k \in 0..Len(batch) |-> F(left, k)]
  BY <1>3, <1>4
<1> HIDE DEF left, first
<1>6. \A k \in 1..Len(batch) : k \in 0..Len(batch) /\ k # 0
  OBVIOUS
<1>7. left[0] = first
  BY <1>5
<1>8. \A k \in 1..Len(batch) : left[k] = Then(left[k - 1], scope, source, batch[k])
  BY <1>5, <1>6
<1> QED
  BY <1>7, <1>8 DEF left, first

\* As long as nothing failed, the stages grow from d one mutation at a time.
LEMMA StagesExtend ==
  ASSUME NEW d \in Database, NEW r, r.scope \in Scopes, r.source \in Sources,
         r.batch \in Seq(Mutation), \A i \in 1..Len(r.batch) : ValidMutation(r.batch[i])
  PROVE  \A k \in 0..Len(r.batch) :
           LET left == Stages(d, r.scope, r.source, r.batch)[k] IN
           left.ok => /\ left.db \in Database
                      /\ left.ids \in Seq(Nat) /\ Len(left.ids) = k
                      /\ left.db.batches = d.batches
                      /\ Extends(d, left.db, left.ids, r)
<1> DEFINE left == Stages(d, r.scope, r.source, r.batch)
           Good(x, k) == x.ok => /\ x.db \in Database
                                 /\ x.ids \in Seq(Nat) /\ Len(x.ids) = k
                                 /\ x.db.batches = d.batches
                                 /\ Extends(d, x.db, x.ids, r)
           S == {k \in Nat : Good(left[k], k)}
<1>1. Len(r.batch) \in Nat
  OBVIOUS
<1>2. /\ left[0] = [ok |-> TRUE, db |-> d, ids |-> <<>>]
      /\ \A k \in 1..Len(r.batch) : left[k] = Then(left[k - 1], r.scope, r.source, r.batch[k])
  BY <1>1, StagesUnfold
<1> HIDE DEF left
<1>3. 0 \in S
  <2>1. Good(left[0], 0)
    <3>1. Extends(d, d, <<>>, r)
      BY ExtendsItself
    <3>2. /\ left[0].db = d /\ left[0].ids = <<>>
      BY <1>2
    <3> QED BY <3>1, <3>2
  <2> HIDE DEF Good
  <2> QED BY <2>1
<1>4. ASSUME NEW k \in 0..(Len(r.batch) - 1), k \in S PROVE k + 1 \in S
  <2> DEFINE m == r.batch[k + 1]
             x == left[k]
  <2>1. k + 1 \in 1..Len(r.batch) /\ (k + 1) - 1 = k /\ k + 1 \in Nat
    OBVIOUS
  <2>2. left[k + 1] = Then(x, r.scope, r.source, m)
    BY <1>2, <2>1
  <2>3. m \in Mutation /\ ValidMutation(m)
    BY <2>1, ElementOfSeq
  <2>4. Good(x, k)
    BY <1>4
  <2>5. CASE x.ok /\ Applicable(x.db, r.scope, m)
    <3>1. left[k + 1] = [ok  |-> TRUE, db |-> Applied(x.db, r.scope, r.source, m),
                         ids |-> Append(x.ids, Target(x.db, m))]
      BY <2>2, <2>5 DEF Then
    <3>2. /\ x.db \in Database /\ x.ids \in Seq(Nat) /\ Len(x.ids) = k
          /\ x.db.batches = d.batches /\ Extends(d, x.db, x.ids, r)
      BY <2>4, <2>5
    <3> HIDE DEF x
    <3>3. m = r.batch[Len(x.ids) + 1]
      BY <3>2
    <3> HIDE DEF m
    <3>4. /\ Applied(x.db, r.scope, r.source, m) \in Database
          /\ Applied(x.db, r.scope, r.source, m).batches = d.batches
      BY <2>3, <2>5, <3>2, AppliedFacts
    <3>5. /\ Target(x.db, m) \in Nat
          /\ Append(x.ids, Target(x.db, m)) \in Seq(Nat)
          /\ Extends(d, Applied(x.db, r.scope, r.source, m), Append(x.ids, Target(x.db, m)), r)
      BY <2>3, <2>5, <3>2, <3>3, ExtendsFurther
    <3>6. Len(Append(x.ids, Target(x.db, m))) = k + 1
      BY <3>2, <3>5, AppendProperties
    <3>7. Good(left[k + 1], k + 1)
      <4> DEFINE y == left[k + 1]
      <4>1. /\ y.db = Applied(x.db, r.scope, r.source, m)
            /\ y.ids = Append(x.ids, Target(x.db, m))
        BY <3>1
      <4> HIDE DEF y
      <4> QED BY <3>4, <3>5, <3>6, <4>1 DEF y
    <3> HIDE DEF Good
    <3> QED BY <2>1, <3>7
  <2>6. CASE ~ (x.ok /\ Applicable(x.db, r.scope, m))
    <3>1. left[k + 1] = [x EXCEPT !.ok = FALSE]
      BY <2>2, <2>6 DEF Then
    <3>2. ~ left[k + 1].ok
      BY <3>1
    <3> QED BY <2>1, <3>2
  <2> QED BY <2>5, <2>6
<1>5. 0..Len(r.batch) \subseteq S
  <2> HIDE DEF S
  <2> QED BY <1>1, <1>3, <1>4, SetInduction
<1> QED
  BY <1>5 DEF left

\* A batch row more is still an extension.
LEMMA RecordedExtends ==
  ASSUME NEW d, NEW e \in Database, NEW r, r.scope \in Scopes, r.source \in Sources,
         NEW ids \in Seq(Nat), Extends(d, e, ids, r)
  PROVE  Extends(d, Recorded(e, r.scope, r.source, ids), ids, r)
<1> DEFINE new == Recorded(e, r.scope, r.source, ids)
<1>1. new.rows = e.rows /\ new.audit = e.audit
  BY DEF Recorded, Database
<1> HIDE DEF new
<1> QED
  BY <1>1 DEF Extends, new

AcceptedBatch(batch) ==
  batch # <<>> /\ \A i \in 1..Len(batch) : ValidMutation(batch[i])

\* A run without a failure ends with its last mutation.
LEMMA RunThatIsOk ==
  ASSUME NEW d, NEW scope, NEW source, NEW batch \in Seq(Mutation), batch # <<>>,
         Run(d, scope, source, batch).ok
  PROVE  LET done == Run(d, scope, source, batch) IN
         done = [ok |-> TRUE, db |-> done.db, ids |-> done.ids]
<1> DEFINE done == Run(d, scope, source, batch)
           left == Stages(d, scope, source, batch)
           n == Len(batch)
           m == batch[n]
<1>1. n \in Nat /\ n \in 1..n
  OBVIOUS
<1>2. /\ left[0] = [ok |-> TRUE, db |-> d, ids |-> <<>>]
      /\ \A k \in 1..n : left[k] = Then(left[k - 1], scope, source, batch[k])
  BY <1>1, StagesUnfold
<1>3. done = left[n]
  BY DEF Run
<1> HIDE DEF left, n, m, done
<1>4. PICK before : done = Then(before, scope, source, m)
  BY <1>1, <1>2, <1>3 DEF m
<1>5. CASE before.ok /\ Applicable(before.db, scope, m)
  <2>1. done = [ok  |-> TRUE, db |-> Applied(before.db, scope, source, m),
                ids |-> Append(before.ids, Target(before.db, m))]
    BY <1>4, <1>5, Zenon DEF Then
  <2> QED BY <2>1 DEF done
<1>6. CASE ~ (before.ok /\ Applicable(before.db, scope, m))
  <2>1. done = [before EXCEPT !.ok = FALSE]
    BY <1>4, <1>6, Zenon DEF Then
  <2>2. done.ok
    BY DEF done
  <2> QED BY <2>1, <2>2
<1> QED
  BY <1>5, <1>6

\* ApplyBatch of a source message that has no batch row is its last stage,
\* recorded, when every mutation succeeds.
LEMMA ApplyBatchOfNew ==
  ASSUME NEW d, NEW r, r.batch \in Seq(Mutation), AcceptedBatch(r.batch),
         d.batches[r.source] = None, NEW e, NEW ids,
         Stages(d, r.scope, r.source, r.batch)[Len(r.batch)]
           = [ok |-> TRUE, db |-> e, ids |-> ids]
  PROVE  ApplyBatch(d, r.scope, r.source, r.batch)
           = [ok |-> TRUE, db |-> Recorded(e, r.scope, r.source, ids), ids |-> ids]
<1> DEFINE done == Run(d, r.scope, r.source, r.batch)
<1>1. done = [ok |-> TRUE, db |-> e, ids |-> ids]
  BY DEF Run
<1>2. ~ (r.batch = <<>> \/ \E i \in DOMAIN r.batch : ~ ValidMutation(r.batch[i]))
  BY DEF AcceptedBatch
<1> HIDE DEF done
<1>3. ApplyBatch(d, r.scope, r.source, r.batch)
        = [done EXCEPT !.db = Recorded(done.db, r.scope, r.source, done.ids)]
  <2>1. done.ok
    BY <1>1
  <2> QED BY <1>2, <2>1, Zenon DEF ApplyBatch, done
<1> QED
  BY <1>1, <1>3

\* ApplyBatch of a source message that was handled under the same identity.
LEMMA ApplyBatchOfKnown ==
  ASSUME NEW d, NEW r, r.batch \in Seq(Mutation), AcceptedBatch(r.batch),
         d.batches[r.source] # None, d.batches[r.source].scope = r.scope
  PROVE  ApplyBatch(d, r.scope, r.source, r.batch)
           = [ok |-> TRUE, db |-> d, ids |-> d.batches[r.source].ids]
<1>1. ~ (r.batch = <<>> \/ \E i \in DOMAIN r.batch : ~ ValidMutation(r.batch[i]))
  BY DEF AcceptedBatch
<1> QED
  BY <1>1, Zenon DEF ApplyBatch

\* What any ApplyBatch does to a database content: nothing, or a whole batch.
LEMMA ApplyBatchFacts ==
  ASSUME NEW d \in Database, NEW r, r.scope \in Scopes, r.source \in Sources,
         r.batch \in Seq(Mutation)
  PROVE  LET x == ApplyBatch(d, r.scope, r.source, r.batch) IN
         /\ x.db \in Database
         /\ x.ok \in BOOLEAN
         /\ \/ x.db = d /\ (x.ok => d.batches[r.source] # None)
            \/ /\ x.ok /\ AcceptedBatch(r.batch) /\ d.batches[r.source] = None
               /\ x.ids \in Seq(Nat) /\ Len(x.ids) = Len(r.batch)
               /\ Extends(d, x.db, x.ids, r)
               /\ x.db.batches = [d.batches EXCEPT ![r.source] =
                                    [scope |-> r.scope, ids |-> x.ids]]
               /\ x.db.batches[r.source] = [scope |-> r.scope, ids |-> x.ids]
               /\ x.db.batches[r.source] # None
<1> DEFINE x == ApplyBatch(d, r.scope, r.source, r.batch)
           failed == [ok |-> FALSE, db |-> d, ids |-> <<>>]
           done == Run(d, r.scope, r.source, r.batch)
           known == d.batches[r.source]
           bad == r.batch = <<>> \/ \E i \in DOMAIN r.batch : ~ ValidMutation(r.batch[i])
<1>1. x = IF bad THEN failed
          ELSE IF known # None
               THEN IF known.scope = r.scope THEN [ok |-> TRUE, db |-> d, ids |-> known.ids]
                    ELSE failed
          ELSE IF done.ok
               THEN [done EXCEPT !.db = Recorded(done.db, r.scope, r.source, done.ids)]
          ELSE failed
  BY Zenon DEF ApplyBatch
<1>2. bad <=> ~ AcceptedBatch(r.batch)
  <2>1. DOMAIN r.batch = 1..Len(r.batch)
    OBVIOUS
  <2> QED BY <2>1 DEF AcceptedBatch
<1>3. CASE AcceptedBatch(r.batch) /\ known = None /\ done.ok
  <2> DEFINE new == Recorded(done.db, r.scope, r.source, done.ids)
  <2>1. /\ done.db \in Database
        /\ done.ids \in Seq(Nat) /\ Len(done.ids) = Len(r.batch)
        /\ done.db.batches = d.batches
        /\ Extends(d, done.db, done.ids, r)
    <3>1. Len(r.batch) \in 0..Len(r.batch)
      OBVIOUS
    <3>2. \A i \in 1..Len(r.batch) : ValidMutation(r.batch[i])
      BY <1>3 DEF AcceptedBatch
    <3> QED BY <1>3, <3>1, <3>2, StagesExtend DEF Run
  <2>2. x = [done EXCEPT !.db = new]
    BY <1>1, <1>2, <1>3, Zenon
  <2>3. x.ok /\ x.ids = done.ids /\ x.db = new
    <3>2. done = [ok |-> TRUE, db |-> done.db, ids |-> done.ids]
      BY <1>3, RunThatIsOk DEF AcceptedBatch
    <3> HIDE DEF new, done, x
    <3> QED BY <2>2, <3>2
  <2>4. /\ new \in Database
        /\ new.batches = [d.batches EXCEPT ![r.source] = [scope |-> r.scope, ids |-> done.ids]]
        /\ new.batches[r.source] = [scope |-> r.scope, ids |-> done.ids]
        /\ new.batches[r.source] # None
        /\ Extends(d, new, done.ids, r)
    <3> DEFINE e == done.db
               ids == done.ids
               scope == r.scope
               source == r.source
    <3>1. e \in Database /\ ids \in Seq(Nat) /\ e.batches = d.batches
      BY <2>1
    <3>2. Extends(d, Recorded(e, r.scope, r.source, ids), ids, r)
      <4> HIDE DEF e, ids
      <4> QED BY <2>1, <3>1, RecordedExtends DEF e, ids
    <3> HIDE DEF e, ids, scope, source, done
    <3>3. scope \in Scopes /\ source \in Sources
      BY DEF scope, source
    <3>4. /\ Recorded(e, scope, source, ids) \in Database
          /\ Recorded(e, scope, source, ids).rows = e.rows
          /\ Recorded(e, scope, source, ids).audit = e.audit
          /\ Recorded(e, scope, source, ids).batches
               = [e.batches EXCEPT ![source] = [scope |-> scope, ids |-> ids]]
          /\ Recorded(e, scope, source, ids).batches[source] = [scope |-> scope, ids |-> ids]
          /\ [scope |-> scope, ids |-> ids] \in BatchRow
          /\ [scope |-> scope, ids |-> ids] # None
      BY <3>1, <3>3, RecordedFacts
    <3> QED BY <3>1, <3>2, <3>4 DEF e, ids, scope, source
  <2> HIDE DEF x, done, new
  <2> QED BY <1>3, <2>1, <2>3, <2>4 DEF x
<1>4. CASE AcceptedBatch(r.batch) /\ known # None /\ known.scope = r.scope
  <2>1. x = [ok |-> TRUE, db |-> d, ids |-> known.ids]
    BY <1>1, <1>2, <1>4, Zenon
  <2> QED BY <1>4, <2>1
<1>5. CASE x = failed
  BY <1>5
<1> QED
  <2>1. \/ AcceptedBatch(r.batch) /\ known = None /\ done.ok
        \/ AcceptedBatch(r.batch) /\ known # None /\ known.scope = r.scope
        \/ x = failed
    BY <1>1, <1>2, Zenon
  <2> QED BY <1>3, <1>4, <1>5, <2>1, Zenon
=============================================================================
