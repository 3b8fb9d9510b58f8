------------------------- MODULE DeleteConfirmProofs -------------------------
(***************************************************************************)
(* Proofs about DeleteConfirm: for any number of messages, buttons,        *)
(* presses, redeliveries and restarts, a deletion is the one that somebody *)
(* pressed for, in time and once, and the reply to a press is true.        *)
(***************************************************************************)
EXTENDS DeleteConfirm, LedgerOpsProofs

----------------------------------------------------------------------------
(* The inductive invariant. *)

\* No two prompts share a token.
AsksInv == \A p, q \in asks : p.token = q.token => p = q

\* The request is the one the prompt was made with, in this life.
MadeWith(p, request) ==
  /\ request.scope = p.scope /\ request.id = p.id
  /\ request.expires = p.at + TTL /\ p.life = life

PendingInv ==
  \A t \in Tokens :
    pending[t] # None => \E p \in asks : p.token = t /\ MadeWith(p, pending[t])

\* A handler that has taken a request and may still delete by it.
Holds(i) == press[i] # None /\ press[i].phase \in {"taken", "cleared"} /\ press[i].found # None

PressInv ==
  \A i \in Interactions :
    press[i] # None =>
      /\ press[i].prompt \in asks
      /\ press[i].at <= now
      /\ press[i].phase \in {"entered", "taken", "cleared"} => ~press[i].ok
      /\ Holds(i) => MadeWith(press[i].prompt, press[i].found)
      /\ press[i].phase = "cleared" =>
           /\ press[i].found # None
           /\ press[i].found.scope = press[i].scope
           /\ press[i].at <= press[i].found.expires

\* No deletion was made by this token.
Unused(t) == \A k \in Deletes : db.audit[k].source[2] # t

\* The right to delete that a token stands for is in one place: with the
\* confirmer, with one handler, or spent on one deletion.
TokenInv ==
  /\ \A t \in Tokens :
       pending[t] # None =>
         Unused(t) /\ \A i \in Interactions : Holds(i) => press[i].prompt.token # t
  /\ \A i \in Interactions :
       Holds(i) => /\ Unused(press[i].prompt.token)
                   /\ \A j \in Interactions :
                        Holds(j) /\ press[j].prompt.token = press[i].prompt.token => i = j
  /\ TokenIsOneUse

\* A recorded batch of a press is a deletion in the audit trail.
BatchInv ==
  \A i \in Interactions, t \in Tokens :
    db.batches[<<i, t>>] # None => \E k \in Deletes : db.audit[k].source = <<i, t>>

\* What a press has deleted, and what it has been told.
ReplyInv ==
  \A i \in Interactions :
    /\ press[i] # None /\ press[i].phase = "answered" /\ press[i].ok =>
         \E k \in Deletes : db.audit[k].source = <<i, press[i].prompt.token>>
    /\ press[i] = None \/ (~press[i].again /\ ~(press[i].phase = "answered" /\ press[i].ok)) =>
         \A k \in Deletes : db.audit[k].source[1] # i

IInv ==
  /\ TypeOK
  /\ AsksInv
  /\ PendingInv
  /\ PressInv
  /\ TokenInv
  /\ DeletesWhatWasPressed
  /\ BatchInv
  /\ ReplyInv

----------------------------------------------------------------------------
(* What the steps below need of the types. *)

LEMMA Types ==
  ASSUME TypeOK
  PROVE  /\ now \in Nat /\ life \in Nat /\ TTL \in Nat /\ MaxTime \in Nat /\ MaxLife \in Nat
         /\ None \notin Press /\ None \notin DeleteRequest /\ None \notin Aim
         /\ \A i \in Interactions :
              press[i] # None => /\ press[i] \in Press
                                 /\ press[i].prompt \in Prompt /\ press[i].prompt.token \in Tokens
                                 /\ press[i].prompt.scope \in Scopes /\ press[i].prompt.id \in Nat
                                 /\ press[i].prompt.at \in Nat
                                 /\ press[i].scope \in Scopes /\ press[i].at \in Nat
                                 /\ press[i].found \in DeleteRequest \cup {None}
                                 /\ press[i].again \in BOOLEAN /\ press[i].ok \in BOOLEAN
         /\ \A t \in Tokens : pending[t] \in DeleteRequest \cup {None}
         /\ Len(db.audit) \in Nat /\ DOMAIN db.audit = 1..Len(db.audit)
         /\ Deletes \subseteq 1..Len(db.audit)
<1>1. now \in Nat /\ life \in Nat /\ TTL \in Nat /\ MaxTime \in Nat /\ MaxLife \in Nat
  BY BoundsAssumption DEF TypeOK
<1>2. \A i \in Interactions :
        press[i] # None => /\ press[i] \in Press
                           /\ press[i].prompt \in Prompt /\ press[i].prompt.token \in Tokens
                           /\ press[i].prompt.scope \in Scopes /\ press[i].prompt.id \in Nat
                           /\ press[i].prompt.at \in Nat
                           /\ press[i].scope \in Scopes /\ press[i].at \in Nat
                           /\ press[i].found \in DeleteRequest \cup {None}
                           /\ press[i].again \in BOOLEAN /\ press[i].ok \in BOOLEAN
  <2> SUFFICES ASSUME NEW i \in Interactions, press[i] # None
               PROVE  /\ press[i] \in Press
                      /\ press[i].prompt \in Prompt /\ press[i].prompt.token \in Tokens
                      /\ press[i].prompt.scope \in Scopes /\ press[i].prompt.id \in Nat
                      /\ press[i].prompt.at \in Nat
                      /\ press[i].scope \in Scopes /\ press[i].at \in Nat
                      /\ press[i].found \in DeleteRequest \cup {None}
                      /\ press[i].again \in BOOLEAN /\ press[i].ok \in BOOLEAN
    OBVIOUS
  <2>1. press[i] \in Press
    BY DEF TypeOK
  <2>2. /\ press[i].prompt \in Prompt /\ press[i].scope \in Scopes /\ press[i].at \in Nat
        /\ press[i].found \in DeleteRequest \cup {None}
        /\ press[i].again \in BOOLEAN /\ press[i].ok \in BOOLEAN
    BY <2>1 DEF Press
  <2>3. /\ press[i].prompt.token \in Tokens /\ press[i].prompt.scope \in Scopes
        /\ press[i].prompt.id \in Nat /\ press[i].prompt.at \in Nat
    BY <2>2 DEF Prompt
  <2> QED BY <2>1, <2>2, <2>3
<1>3. \A t \in Tokens : pending[t] \in DeleteRequest \cup {None}
  BY DEF TypeOK
<1>4. Len(db.audit) \in Nat /\ DOMAIN db.audit = 1..Len(db.audit) /\ Deletes \subseteq 1..Len(db.audit)
  <2>1. db.audit \in Seq(AuditEvent)
    BY DEF TypeOK, Database
  <2> QED BY <2>1 DEF Deletes
<1> QED
  BY <1>1, <1>2, <1>3, <1>4, NothingAssumption

----------------------------------------------------------------------------
(* Steps that delete nothing. *)

\* A step that adds no deletion, records no batch of a press, and keeps the
\* presses what they were about.
Harmless ==
  /\ Deletes' = Deletes
  /\ \A k \in Deletes : db'.audit[k] = db.audit[k]
  /\ \A i \in Interactions, t \in Tokens : db'.batches[<<i, t>>] = db.batches[<<i, t>>]
  /\ \A i \in Interactions :
       press[i] # None => /\ press'[i] # None
                          /\ press'[i].prompt = press[i].prompt
                          /\ press'[i].scope = press[i].scope

\* Its handlers hold what they held, or less.
HoldsLess ==
  /\ \A i \in Interactions : Holds(i)' => Holds(i)
  /\ \A t \in Tokens : pending'[t] # None => pending[t] # None

\* A press that changes has not been told of a deletion that it has not made.
TellsNothing ==
  \A i \in Interactions :
    \/ press'[i] = press[i]
    \/ /\ press'[i] # None /\ ~(press'[i].phase = "answered" /\ press'[i].ok)
       /\ \/ press'[i].again
          \/ press[i] = None
          \/ ~press[i].again /\ ~(press[i].phase = "answered" /\ press[i].ok)

LEMMA SameDb ==
  ASSUME db' = db,
         \A i \in Interactions :
           press[i] # None => /\ press'[i] # None
                              /\ press'[i].prompt = press[i].prompt
                              /\ press'[i].scope = press[i].scope
  PROVE  Harmless
BY DEF Harmless, Deletes

LEMMA HarmlessFrame ==
  ASSUME IInv, Harmless
  PROVE  DeletesWhatWasPressed' /\ BatchInv' /\ TokenIsOneUse'
<1>1. DeletesWhatWasPressed'
  <2> SUFFICES ASSUME NEW k \in Deletes
               PROVE  \E i \in Interactions :
                        /\ press'[i] # None
                        /\ db'.audit[k].source = <<i, press'[i].prompt.token>>
                        /\ db'.audit[k].id = press'[i].prompt.id
                        /\ db'.audit[k].scope = press'[i].prompt.scope
                        /\ press'[i].scope = press'[i].prompt.scope
    BY DEF DeletesWhatWasPressed, Harmless
  <2>1. PICK i \in Interactions :
          /\ press[i] # None
          /\ db.audit[k].source = <<i, press[i].prompt.token>>
          /\ db.audit[k].id = press[i].prompt.id
          /\ db.audit[k].scope = press[i].prompt.scope
          /\ press[i].scope = press[i].prompt.scope
    BY DEF IInv, DeletesWhatWasPressed
  <2>2. /\ press'[i] # None /\ press'[i].prompt = press[i].prompt
        /\ press'[i].scope = press[i].scope /\ db'.audit[k] = db.audit[k]
    BY <2>1 DEF Harmless
  <2> QED BY <2>1, <2>2
<1>2. BatchInv'
  BY DEF IInv, BatchInv, Harmless
<1>3. TokenIsOneUse'
  BY DEF IInv, TokenInv, TokenIsOneUse, Harmless
<1> QED
  BY <1>1, <1>2, <1>3

LEMMA TokenFrame ==
  ASSUME IInv, Harmless, HoldsLess
  PROVE  TokenInv'
<1>1. \A t : Unused(t)' <=> Unused(t)
  BY DEF Harmless, Unused
<1>2. \A i \in Interactions : Holds(i)' => press'[i].prompt = press[i].prompt
  BY DEF HoldsLess, Harmless, Holds
<1>3. TokenIsOneUse'
  BY HarmlessFrame
<1>4. ASSUME NEW t \in Tokens, pending'[t] # None
      PROVE  Unused(t)' /\ \A i \in Interactions : Holds(i)' => press'[i].prompt.token # t
  BY <1>1, <1>2, <1>4 DEF IInv, TokenInv, HoldsLess
<1>5. ASSUME NEW i \in Interactions, Holds(i)'
      PROVE  /\ Unused(press[i].prompt.token)'
             /\ \A j \in Interactions :
                  Holds(j)' /\ press'[j].prompt.token = press'[i].prompt.token => i = j
  <2>1. Holds(i) /\ press'[i].prompt = press[i].prompt
    BY <1>2, <1>5 DEF HoldsLess
  <2>2. Unused(press[i].prompt.token)
    BY <2>1 DEF IInv, TokenInv
  <2>3. Unused(press[i].prompt.token)'
    BY <2>1, <2>2 DEF Harmless, Unused
  <2>4. ASSUME NEW j \in Interactions, Holds(j)', press'[j].prompt.token = press'[i].prompt.token
        PROVE  i = j
    BY <1>2, <2>1, <2>4 DEF IInv, TokenInv, HoldsLess
  <2> QED BY <2>3, <2>4
<1> QED
  BY <1>3, <1>4, <1>5 DEF TokenInv

LEMMA ReplyFrame ==
  ASSUME IInv, Harmless, TellsNothing
  PROVE  ReplyInv'
<1> SUFFICES ASSUME NEW i \in Interactions
             PROVE  /\ press'[i] # None /\ press'[i].phase = "answered" /\ press'[i].ok =>
                         \E k \in Deletes : db'.audit[k].source = <<i, press'[i].prompt.token>>
                    /\ press'[i] = None
                       \/ (~press'[i].again /\ ~(press'[i].phase = "answered" /\ press'[i].ok)) =>
                         \A k \in Deletes : db'.audit[k].source[1] # i
  BY DEF ReplyInv, Harmless
<1>1. CASE press'[i] = press[i]
  BY <1>1 DEF IInv, ReplyInv, Harmless
<1>2. CASE /\ press'[i] # None /\ ~(press'[i].phase = "answered" /\ press'[i].ok)
           /\ \/ press'[i].again
              \/ press[i] = None
              \/ ~press[i].again /\ ~(press[i].phase = "answered" /\ press[i].ok)
  BY <1>2 DEF IInv, ReplyInv, Harmless
<1> QED
  BY <1>1, <1>2 DEF TellsNothing

----------------------------------------------------------------------------
(* The two kinds of batches. *)

\* A batch of the message handler adds no deletion and is no press's.
LEMMA EditFacts ==
  ASSUME TypeOK, NEW scope \in Scopes, NEW m \in Messages, NEW b \in Edits,
         db' = ApplyBatch(db, scope, m, b).db
  PROVE  /\ db' \in Database
         /\ Deletes' = Deletes
         /\ \A k \in Deletes : db'.audit[k] = db.audit[k]
         /\ \A i \in Interactions, t \in Tokens : db'.batches[<<i, t>>] = db.batches[<<i, t>>]
         /\ Len(db'.audit) > Len(db.audit) => db'.audit[Len(db'.audit)].action # "delete"
<1> DEFINE r == [scope |-> scope, source |-> m, batch |-> b]
           x == ApplyBatch(db, r.scope, r.source, r.batch)
           n == Len(db.audit)
<1>1. /\ r.scope = scope /\ r.source = m /\ r.batch = b
      /\ r.scope \in Scopes /\ r.source \in Sources /\ r.batch \in Seq(Mutation)
  BY SourcesAssumption, EditsAssumption
<1>2. \A j \in DOMAIN b : b[j].kind # "delete"
  BY EditsAssumption
<1>3. db' = x.db
  BY <1>1, Zenon
<1>4. db \in Database /\ n \in Nat /\ DOMAIN db.audit = 1..n
  BY Types DEF TypeOK
<1>5. \A i \in Interactions, t \in Tokens : <<i, t>> # m
  BY SourcesAssumption
<1> HIDE DEF r
<1>6. /\ x.db \in Database
      /\ x.ok \in BOOLEAN
      /\ \/ x.db = db /\ (x.ok => db.batches[r.source] # None)
         \/ /\ x.ok /\ AcceptedBatch(r.batch) /\ db.batches[r.source] = None
            /\ x.ids \in Seq(Nat) /\ Len(x.ids) = Len(r.batch)
            /\ Extends(db, x.db, x.ids, r)
            /\ x.db.batches = [db.batches EXCEPT ![r.source] =
                                 [scope |-> r.scope, ids |-> x.ids]]
            /\ x.db.batches[r.source] = [scope |-> r.scope, ids |-> x.ids]
            /\ x.db.batches[r.source] # None
  BY <1>1, <1>4, ApplyBatchFacts
<1>7. CASE x.db = db
  BY <1>3, <1>4, <1>7 DEF Deletes
<1>8. CASE /\ x.ids \in Seq(Nat) /\ Len(x.ids) = Len(r.batch)
           /\ Extends(db, x.db, x.ids, r)
           /\ x.db.batches = [db.batches EXCEPT ![r.source] =
                                [scope |-> r.scope, ids |-> x.ids]]
  <2> DEFINE c == Len(r.batch)
  <2>1. c \in Nat /\ DOMAIN b = 1..c
    BY <1>1
  <2>2. /\ Len(db'.audit) = n + c
        /\ \A k \in 1..n : db'.audit[k] = db.audit[k]
        /\ \A j \in 1..c : db'.audit[n + j].action = b[j].kind
    BY <1>1, <1>3, <1>8 DEF Extends
  <2> HIDE DEF c, x, n
  <2>3. db'.audit \in Seq(AuditEvent) /\ db' \in Database
    BY <1>3, <1>6 DEF Database
  <2>4. DOMAIN db'.audit = 1..(n + c)
    BY <2>2, <2>3
  <2>5. \A k \in 1..(n + c) : k \in 1..n \/ \E j \in 1..c : k = n + j
    <3> SUFFICES ASSUME NEW k \in 1..(n + c), k \notin 1..n PROVE \E j \in 1..c : k = n + j
      OBVIOUS
    <3>1. k - n \in 1..c /\ k = n + (k - n)
      BY <1>4, <2>1
    <3> QED BY <3>1
  <2>6. \A k \in 1..(n + c) : k \notin 1..n => db'.audit[k].action # "delete"
    BY <1>2, <2>1, <2>2, <2>5
  <2>7. 1..n \subseteq 1..(n + c)
    BY <1>4, <2>1
  <2>8. Deletes' = Deletes
    BY <1>4, <2>2, <2>4, <2>6, <2>7 DEF Deletes
  <2>9. \A i \in Interactions, t \in Tokens : db'.batches[<<i, t>>] = db.batches[<<i, t>>]
    <3> DEFINE row == [scope |-> r.scope, ids |-> x.ids]
    <3>1. db'.batches = [db.batches EXCEPT ![m] = row]
      BY <1>1, <1>3, <1>8
    <3>2. \A i \in Interactions, t \in Tokens : <<i, t>> \in DOMAIN db.batches
      BY <1>4, SourcesAssumption DEF Database
    <3> HIDE DEF row
    <3> SUFFICES ASSUME NEW i \in Interactions, NEW t \in Tokens
                 PROVE  db'.batches[<<i, t>>] = db.batches[<<i, t>>]
      OBVIOUS
    <3> DEFINE s == <<i, t>>
    <3>3. s # m /\ s \in DOMAIN db.batches
      BY <1>5, <3>2
    <3> HIDE DEF s
    <3>4. db'.batches[s] = db.batches[s]
      BY <3>1, <3>3
    <3> QED BY <3>4 DEF s
  <2>10. ASSUME Len(db'.audit) > n PROVE db'.audit[Len(db'.audit)].action # "delete"
    <3>1. n + c \in 1..(n + c) /\ n + c \notin 1..n
      BY <1>4, <2>1, <2>2, <2>10
    <3> QED BY <2>2, <2>6, <3>1
  <2>11. \A k \in Deletes : db'.audit[k] = db.audit[k]
    BY <1>4, <2>2 DEF Deletes
  <2> QED BY <2>3, <2>8, <2>9, <2>10, <2>11 DEF n
<1> QED
  BY <1>6, <1>7, <1>8

\* DeleteTransactions of a handler that holds a request: it is not a replay, so
\* it fails and changes nothing, or adds the one deletion that was asked for.
LEMMA DeleteFacts ==
  ASSUME IInv, NEW i \in Interactions, At(i, "cleared"), NEW done,
         done = ApplyBatch(db, press[i].scope, <<i, press[i].prompt.token>>,
                           <<Deletion(press[i].found.id)>>)
  PROVE  /\ done.db \in Database
         /\ done.ok \in BOOLEAN
         /\ \/ ~done.ok /\ done.db = db
            \/ /\ done.ok
               /\ Len(done.db.audit) = Len(db.audit) + 1
               /\ \A k \in 1..Len(db.audit) : done.db.audit[k] = db.audit[k]
               /\ done.db.audit[Len(db.audit) + 1].action = "delete"
               /\ done.db.audit[Len(db.audit) + 1].source = <<i, press[i].prompt.token>>
               /\ done.db.audit[Len(db.audit) + 1].id = press[i].prompt.id
               /\ done.db.audit[Len(db.audit) + 1].scope = press[i].prompt.scope
               /\ press[i].scope = press[i].prompt.scope
               /\ \A j \in Interactions, t \in Tokens :
                    <<j, t>> # <<i, press[i].prompt.token>> =>
                      done.db.batches[<<j, t>>] = db.batches[<<j, t>>]
<1> DEFINE p == press[i]
           m == Deletion(p.found.id)
           r == [scope |-> p.scope, source |-> <<i, p.prompt.token>>, batch |-> <<m>>]
           x == ApplyBatch(db, r.scope, r.source, r.batch)
           n == Len(db.audit)
<1>1. TypeOK /\ p # None /\ p.phase = "cleared"
  BY DEF IInv, At
<1>2. /\ p.found # None /\ p.found.scope = p.scope /\ MadeWith(p.prompt, p.found) /\ Holds(i)
      /\ Unused(p.prompt.token)
  BY <1>1 DEF IInv, PressInv, Holds, TokenInv
<1>3. p.found.id = p.prompt.id /\ p.scope = p.prompt.scope
  BY <1>2 DEF MadeWith
<1>4. p.scope \in Scopes /\ p.prompt.token \in Tokens /\ p.prompt.id \in Nat
  BY <1>1, Types
<1>5. m \in Mutation /\ m.kind = "delete" /\ m.id = p.prompt.id
  BY <1>3, <1>4 DEF Deletion, Mutation, Kinds
<1>6. <<m>> \in Seq(Mutation) /\ Len(<<m>>) = 1 /\ <<m>>[1] = m
  <2> HIDE DEF m
  <2> QED BY <1>5
<1>7. <<i, p.prompt.token>> \in Sources
  BY <1>4, SourcesAssumption
<1>8. db.batches[<<i, p.prompt.token>>] = None
  <2> SUFFICES ASSUME db.batches[<<i, p.prompt.token>>] # None PROVE FALSE
    OBVIOUS
  <2>1. PICK k \in Deletes : db.audit[k].source = <<i, p.prompt.token>>
    BY <1>4 DEF IInv, BatchInv
  <2>2. db.audit[k].source[2] = p.prompt.token
    BY <2>1
  <2> QED BY <1>2, <2>2 DEF Unused
<1>9. /\ r.scope = p.scope /\ r.source = <<i, p.prompt.token>> /\ r.batch = <<m>>
      /\ r.scope \in Scopes /\ r.source \in Sources /\ r.batch \in Seq(Mutation)
  <2> HIDE DEF m, p
  <2> QED BY <1>4, <1>6, <1>7
<1>10. db \in Database /\ n \in Nat
  BY <1>1, Types DEF TypeOK
<1> HIDE DEF r, m, p
<1>11. /\ x.db \in Database
       /\ x.ok \in BOOLEAN
       /\ \/ x.db = db /\ (x.ok => db.batches[r.source] # None)
          \/ /\ x.ok /\ AcceptedBatch(r.batch) /\ db.batches[r.source] = None
             /\ x.ids \in Seq(Nat) /\ Len(x.ids) = Len(r.batch)
             /\ Extends(db, x.db, x.ids, r)
             /\ x.db.batches = [db.batches EXCEPT ![r.source] =
                                  [scope |-> r.scope, ids |-> x.ids]]
             /\ x.db.batches[r.source] = [scope |-> r.scope, ids |-> x.ids]
             /\ x.db.batches[r.source] # None
  BY <1>9, <1>10, ApplyBatchFacts
<1>12. x = done
  <2>1. x = ApplyBatch(db, p.scope, <<i, p.prompt.token>>, <<m>>)
    BY <1>9, Zenon
  <2> QED BY <2>1 DEF m, p
<1>13. CASE /\ x.ok /\ Len(x.ids) = Len(r.batch)
            /\ Extends(db, x.db, x.ids, r)
            /\ x.db.batches = [db.batches EXCEPT ![r.source] =
                                 [scope |-> r.scope, ids |-> x.ids]]
  <2> DEFINE e == x.db
             row == [scope |-> r.scope, ids |-> x.ids]
  <2>1. /\ Len(e.audit) = Len(db.audit) + Len(x.ids)
        /\ \A k \in 1..n : e.audit[k] = db.audit[k]
        /\ \A j \in 1..Len(x.ids) :
             /\ e.audit[n + j].source = r.source
             /\ e.audit[n + j].scope = r.scope
             /\ e.audit[n + j].action = r.batch[j].kind
             /\ r.batch[j].kind # "create" => e.audit[n + j].id = r.batch[j].id
    BY <1>13 DEF Extends
  <2>2. Len(x.ids) = 1
    BY <1>6, <1>9, <1>13
  <2>6. 1 \in 1..Len(x.ids) /\ r.batch[1] = m
    <3>1. 1 \in 1..Len(x.ids)
      BY <2>2
    <3>2. r.batch[1] = m
      BY <1>6, <1>9, Zenon
    <3> QED BY <3>1, <3>2
  <2> HIDE DEF e, x, n
  <2>3. /\ e.audit[n + 1].source = r.source
        /\ e.audit[n + 1].scope = r.scope
        /\ e.audit[n + 1].action = m.kind
        /\ e.audit[n + 1].id = m.id
    BY <1>5, <2>1, <2>6
  <2>4. e.batches = [db.batches EXCEPT ![<<i, p.prompt.token>>] = row]
    BY <1>9, <1>13 DEF e
  <2> HIDE DEF row
  <2>5. \A j \in Interactions, t \in Tokens :
          <<j, t>> # <<i, p.prompt.token>> => e.batches[<<j, t>>] = db.batches[<<j, t>>]
    <3>1. \A j \in Interactions, t \in Tokens : <<j, t>> \in DOMAIN db.batches
      BY <1>10, SourcesAssumption DEF Database
    <3> DEFINE mine == <<i, p.prompt.token>>
    <3> SUFFICES ASSUME NEW j \in Interactions, NEW t \in Tokens, <<j, t>> # mine
                 PROVE  e.batches[<<j, t>>] = db.batches[<<j, t>>]
      OBVIOUS
    <3> DEFINE s == <<j, t>>
    <3>2. s # mine /\ s \in DOMAIN db.batches /\ e.batches = [db.batches EXCEPT ![mine] = row]
      BY <2>4, <3>1
    <3> HIDE DEF s, mine
    <3>3. e.batches[s] = db.batches[s]
      BY <3>2
    <3> QED BY <3>3 DEF s
  <2> HIDE DEF x
  <2> QED
    BY <1>3, <1>5, <1>9, <1>11, <1>12, <1>13, <2>1, <2>2, <2>3, <2>5, ZenonT(40) DEF e, p, n
<1>14. CASE x.db = db /\ ~x.ok
  <2> HIDE DEF x
  <2> QED BY <1>11, <1>12, <1>14 DEF p
<1> QED
  BY <1>8, <1>9, <1>11, <1>13, <1>14

----------------------------------------------------------------------------
(* The initial state, and the message handler's steps. *)

LEMMA InitIInv == Init => IInv
<1> SUFFICES ASSUME Init PROVE IInv
  OBVIOUS
<1> USE DEF Init
<1>1. /\ EmptyDatabase \in Database /\ EmptyDatabase.audit = <<>>
      /\ \A s \in Sources : EmptyDatabase.batches[s] = None
  BY DEF EmptyDatabase, Database
<1>2. Deletes = {}
  BY <1>1 DEF Deletes
<1>3. TypeOK
  BY <1>1, BoundsAssumption DEF TypeOK
<1>4. AsksInv /\ PendingInv /\ PressInv
  BY DEF AsksInv, PendingInv, PressInv
<1>5. TokenInv /\ DeletesWhatWasPressed /\ ReplyInv
  BY <1>2 DEF TokenInv, TokenIsOneUse, DeletesWhatWasPressed, ReplyInv, Holds
<1>6. BatchInv
  BY <1>1, SourcesAssumption DEF BatchInv
<1> QED
  BY <1>3, <1>4, <1>5, <1>6 DEF IInv

LEMMA EditIInv ==
  ASSUME IInv, NEW scope \in Scopes, NEW m \in Messages, NEW b \in Edits, Edit(scope, m, b)
  PROVE  IInv'
<1>1. UNCHANGED <<now, life, asking, pending, asks, press>>
      /\ db' = ApplyBatch(db, scope, m, b).db
  BY DEF Edit
<1>2. Harmless /\ db' \in Database
  BY <1>1, EditFacts DEF IInv, Harmless
<1>3. HoldsLess /\ TellsNothing
  BY <1>1 DEF HoldsLess, TellsNothing, Holds
<1>4. TypeOK'
  BY <1>1, <1>2 DEF IInv, TypeOK
<1>5. AsksInv' /\ PendingInv' /\ PressInv'
  BY <1>1 DEF IInv, AsksInv, PendingInv, PressInv, MadeWith, Holds
<1> QED
  BY <1>2, <1>3, <1>4, <1>5, HarmlessFrame, TokenFrame, ReplyFrame DEF IInv

\* Steps that leave the database and the presses alone, the clock aside.
LEMMA AsideIInv ==
  ASSUME IInv, UNCHANGED <<db, life, pending, asks, press>>,
         asking' \in Aim \cup {None}, now' \in 0..MaxTime, now <= now'
  PROVE  IInv'
<1>1. Harmless /\ HoldsLess /\ TellsNothing
  BY SameDb DEF HoldsLess, TellsNothing, Holds
<1>2. TypeOK'
  BY DEF IInv, TypeOK
<1>3. AsksInv' /\ PendingInv'
  BY DEF IInv, AsksInv, PendingInv, MadeWith
<1>4. PressInv'
  <2>1. \A i \in Interactions : press[i] # None /\ press[i].at <= now => press[i].at <= now'
    BY Types DEF IInv, TypeOK
  <2> QED BY <2>1 DEF IInv, PressInv, MadeWith, Holds
<1> QED
  BY <1>1, <1>2, <1>3, <1>4, HarmlessFrame, TokenFrame, ReplyFrame DEF IInv

\* A new token has no handler and no deletion.
LEMMA PrepareIInv ==
  ASSUME IInv, NEW token \in Tokens, Prepare(token)
  PROVE  IInv'
<1> DEFINE req == [scope |-> asking.scope, id |-> asking.id, expires |-> now + TTL]
           new == [token |-> token, scope |-> asking.scope, id |-> asking.id,
                   at |-> now, life |-> life]
<1>1. TypeOK /\ asking \in Aim
  BY DEF IInv, TypeOK, Prepare
<1>2. /\ pending' = [pending EXCEPT ![token] = req] /\ asks' = asks \cup {new}
      /\ asking' = None /\ UNCHANGED <<db, now, life, press>>
  BY DEF Prepare
<1>3. asking.scope \in Scopes /\ asking.id \in Nat /\ now \in Nat /\ life \in Nat /\ TTL \in Nat
  BY <1>1, Types DEF Aim
<1>4. req \in DeleteRequest /\ new \in Prompt /\ MadeWith(new, req) /\ new.token = token
  BY <1>3 DEF DeleteRequest, Prompt, MadeWith
<1> HIDE DEF req, new
<1>5. req # None
  BY <1>1, <1>4, Types
<1>6. Harmless /\ TellsNothing
  BY <1>2, SameDb DEF TellsNothing
<1>7. TypeOK'
  BY <1>1, <1>2, <1>4 DEF TypeOK
<1>8. AsksInv'
  BY <1>2, <1>4 DEF IInv, AsksInv, Prepare, Fresh
<1>9. pending'[token] = req /\ \A t \in Tokens : t # token => pending'[t] = pending[t]
  BY <1>1, <1>2 DEF TypeOK
<1>10. \A p, request : MadeWith(p, request)' <=> MadeWith(p, request)
  BY <1>2 DEF MadeWith
<1>11. PendingInv'
  <2> SUFFICES ASSUME NEW t \in Tokens, pending'[t] # None
               PROVE  \E p \in asks' : p.token = t /\ MadeWith(p, pending'[t])
    BY <1>2 DEF PendingInv, MadeWith
  <2>1. CASE t = token
    BY <1>2, <1>4, <1>9, <2>1
  <2>2. CASE t # token
    BY <1>2, <1>9, <2>2 DEF IInv, PendingInv
  <2> QED BY <2>1, <2>2
<1>12. PressInv'
  BY <1>2 DEF IInv, PressInv, MadeWith, Holds
<1>13. Unused(token)
  <2> SUFFICES ASSUME NEW k \in Deletes, db.audit[k].source[2] = token PROVE FALSE
    BY DEF Unused
  <2>1. PICK i \in Interactions : press[i] # None /\ db.audit[k].source = <<i, press[i].prompt.token>>
    BY DEF IInv, DeletesWhatWasPressed
  <2>2. press[i].prompt \in asks /\ press[i].prompt.token = token
    BY <2>1 DEF IInv, PressInv
  <2> QED BY <2>2 DEF Prepare, Fresh
<1>14. \A i \in Interactions : Holds(i) => press[i].prompt.token # token
  BY DEF IInv, PressInv, Holds, Prepare, Fresh
<1>15. TokenInv'
  <2>1. \A t : Unused(t)' <=> Unused(t)
    BY <1>2 DEF Unused, Deletes
  <2>2. \A i \in Interactions : Holds(i)' <=> Holds(i)
    BY <1>2 DEF Holds
  <2>3. ASSUME NEW t \in Tokens, pending'[t] # None
        PROVE  Unused(t)' /\ \A i \in Interactions : Holds(i)' => press'[i].prompt.token # t
    <3>1. CASE t = token
      BY <1>2, <1>13, <1>14, <2>1, <2>2, <3>1
    <3>2. CASE t # token
      BY <1>2, <1>9, <2>1, <2>2, <2>3, <3>2 DEF IInv, TokenInv
    <3> QED BY <3>1, <3>2
  <2>4. ASSUME NEW i \in Interactions, Holds(i)'
        PROVE  /\ Unused(press[i].prompt.token)'
               /\ \A j \in Interactions :
                    Holds(j)' /\ press'[j].prompt.token = press'[i].prompt.token => i = j
    <3>1. Holds(i) /\ Unused(press[i].prompt.token)
      BY <2>2, <2>4 DEF IInv, TokenInv
    <3>2. Unused(press[i].prompt.token)'
      BY <1>2, <3>1 DEF Unused, Deletes
    <3> QED BY <1>2, <2>2, <3>1, <3>2 DEF IInv, TokenInv
  <2> QED BY <1>6, <2>3, <2>4, HarmlessFrame DEF TokenInv
<1> QED
  BY <1>6, <1>7, <1>8, <1>11, <1>12, <1>15, HarmlessFrame, ReplyFrame DEF IInv

----------------------------------------------------------------------------
(* The steps of a press. *)

LEMMA OnePress ==
  ASSUME TypeOK, NEW i \in Interactions, NEW q \in Press, press' = [press EXCEPT ![i] = q]
  PROVE  /\ press' \in [Interactions -> Press \cup {None}]
         /\ press'[i] = q /\ q # None
         /\ \A j \in Interactions : j # i => press'[j] = press[j]
BY NothingAssumption DEF TypeOK

\* A step of a handler on its press alone: it holds no request, or the one it
\* held, and tells of no deletion.
LEMMA PressIInv ==
  ASSUME IInv, UNCHANGED <<db, now, life, asking, pending, asks>>,
         NEW i \in Interactions, NEW q \in Press, press' = [press EXCEPT ![i] = q],
         q.prompt \in asks, q.at <= now, ~q.ok,
         press[i] # None => q.prompt = press[i].prompt /\ q.scope = press[i].scope,
         \/ q.phase \notin {"taken", "cleared"}
         \/ press[i] # None /\ press[i].phase = "taken" /\ q.found = press[i].found,
         q.phase = "cleared" =>
           q.found # None /\ q.found.scope = q.scope /\ q.at <= q.found.expires,
         q.again \/ press[i] = None \/ (~press[i].again /\ ~press[i].ok)
  PROVE  IInv'
<1>1. /\ press' \in [Interactions -> Press \cup {None}]
      /\ press'[i] = q /\ q # None
      /\ \A j \in Interactions : j # i => press'[j] = press[j]
  BY OnePress DEF IInv
<1>2. Harmless
  BY <1>1, SameDb
<1>3. \A j \in Interactions : Holds(j)' => Holds(j) /\ press'[j].found = press[j].found
                                           /\ press'[j].prompt = press[j].prompt
  BY <1>1 DEF Holds
<1>4. HoldsLess
  BY <1>3 DEF HoldsLess
<1>5. TellsNothing
  BY <1>1 DEF TellsNothing
<1>6. TypeOK' /\ AsksInv' /\ PendingInv'
  BY <1>1 DEF IInv, TypeOK, AsksInv, PendingInv, MadeWith
<1>7. PressInv'
  <2> SUFFICES ASSUME NEW j \in Interactions, press'[j] # None
               PROVE  /\ press'[j].prompt \in asks
                      /\ press'[j].at <= now
                      /\ press'[j].phase \in {"entered", "taken", "cleared"} => ~press'[j].ok
                      /\ Holds(j)' => MadeWith(press'[j].prompt, press'[j].found)
                      /\ press'[j].phase = "cleared" =>
                           /\ press'[j].found # None
                           /\ press'[j].found.scope = press'[j].scope
                           /\ press'[j].at <= press'[j].found.expires
    BY DEF PressInv, MadeWith
  <2>1. Holds(j)' => MadeWith(press'[j].prompt, press'[j].found)
    BY <1>3 DEF IInv, PressInv, Holds
  <2>2. CASE j = i
    BY <1>1, <2>1, <2>2
  <2>3. CASE j # i
    BY <1>1, <2>1, <2>3 DEF IInv, PressInv
  <2> QED BY <2>2, <2>3
<1> QED
  BY <1>2, <1>4, <1>5, <1>6, <1>7, HarmlessFrame, TokenFrame, ReplyFrame DEF IInv

LEMMA ClickIInv ==
  ASSUME IInv, NEW i \in Interactions, NEW prompt \in asks, NEW scope \in Scopes,
         Click(i, prompt, scope)
  PROVE  IInv'
<1> DEFINE q == [phase |-> "entered", prompt |-> prompt, scope |-> scope, at |-> now,
                 again |-> FALSE, found |-> None, ok |-> FALSE]
<1>1. /\ q \in Press /\ q.prompt \in asks /\ q.at <= now /\ ~q.ok /\ q.phase = "entered"
  BY Types DEF IInv, TypeOK, Press
<1>2. press' = [press EXCEPT ![i] = q] /\ press[i] = None
      /\ UNCHANGED <<db, now, life, asking, pending, asks>>
  BY DEF Click
<1> HIDE DEF q
<1> QED
  BY <1>1, <1>2, PressIInv

LEMMA RedeliverIInv ==
  ASSUME IInv, NEW i \in Interactions, Redeliver(i)
  PROVE  IInv'
<1> DEFINE q == [press[i] EXCEPT !.phase = "entered", !.at = now, !.again = TRUE,
                                 !.found = None, !.ok = FALSE]
<1>1. press[i] \in Press /\ press[i] # None /\ press[i].prompt \in asks /\ now \in Nat
  BY Types DEF IInv, PressInv, Redeliver
<1>2. /\ q \in Press /\ q.prompt = press[i].prompt /\ q.scope = press[i].scope
      /\ q.at <= now /\ ~q.ok /\ q.phase = "entered" /\ q.again
  <2> DEFINE half == [press[i] EXCEPT !.phase = "entered", !.at = now]
  <2>1. /\ half \in Press /\ half.prompt = press[i].prompt /\ half.scope = press[i].scope
        /\ half.at = now /\ half.phase = "entered"
    BY <1>1 DEF Press
  <2> DEFINE most == [half EXCEPT !.again = TRUE, !.found = None]
  <2> HIDE DEF half
  <2>2. /\ most \in Press /\ most.prompt = press[i].prompt /\ most.scope = press[i].scope
        /\ most.at = now /\ most.phase = "entered" /\ most.again
    BY <2>1 DEF Press
  <2>3. q = [most EXCEPT !.ok = FALSE]
    BY DEF half
  <2> HIDE DEF most, q
  <2>4. /\ q \in Press /\ q.prompt = most.prompt /\ q.scope = most.scope
        /\ q.at = most.at /\ q.phase = most.phase /\ q.again = most.again /\ q.ok = FALSE
    BY <2>2, <2>3 DEF Press
  <2> QED BY <1>1, <2>2, <2>4
<1>3. press' = [press EXCEPT ![i] = q]
      /\ UNCHANGED <<db, now, life, asking, pending, asks>>
  BY DEF Redeliver
<1> HIDE DEF q
<1> QED
  BY <1>1, <1>2, <1>3, PressIInv

LEMMA CheckIInv ==
  ASSUME IInv, NEW i \in Interactions, Check(i)
  PROVE  IInv'
<1> DEFINE phase == IF Cleared(press[i]) THEN "cleared" ELSE "answered"
           q == [press[i] EXCEPT !.phase = phase]
<1>1. /\ press[i] \in Press /\ press[i] # None /\ press[i].phase = "taken"
      /\ press[i].prompt \in asks /\ ~press[i].ok /\ press[i].at <= now
      /\ press[i].at \in Nat /\ now \in Nat /\ press[i].found \in DeleteRequest \cup {None}
  BY Types DEF IInv, PressInv, Check, At
<1>2. phase \in {"cleared", "answered"}
  OBVIOUS
<1>3. phase = "cleared" => /\ press[i].found # None
                           /\ press[i].found.scope = press[i].scope
                           /\ press[i].at <= press[i].found.expires
  <2> SUFFICES ASSUME Cleared(press[i]) PROVE press[i].at <= press[i].found.expires
    BY DEF Cleared
  <2>1. press[i].found.expires \in Nat /\ now <= press[i].found.expires
    BY <1>1 DEF Cleared, DeleteRequest
  <2> QED BY <1>1, <2>1
<1> HIDE DEF phase
<1>4. /\ q \in Press /\ q.prompt = press[i].prompt /\ q.scope = press[i].scope
      /\ q.at = press[i].at /\ q.found = press[i].found /\ q.phase = phase
      /\ q.ok = press[i].ok /\ q.again = press[i].again /\ q.again \in BOOLEAN
  BY <1>1, <1>2 DEF Press
<1>5. press' = [press EXCEPT ![i] = q]
      /\ UNCHANGED <<db, now, life, asking, pending, asks>>
  BY DEF Check, phase
<1> HIDE DEF q
<1> QED
  BY <1>1, <1>2, <1>3, <1>4, <1>5, PressIInv

\* The answer to a press that did not delete.
LEMMA RefusedIInv ==
  ASSUME IInv, NEW i \in Interactions, At(i, "cleared"),
         UNCHANGED <<db, now, life, asking, pending, asks>>,
         press' = [press EXCEPT ![i].phase = "answered", ![i].ok = FALSE]
  PROVE  IInv'
<1> DEFINE q == [press[i] EXCEPT !.phase = "answered", !.ok = FALSE]
<1>1. /\ press[i] \in Press /\ press[i] # None
      /\ press[i].prompt \in asks /\ ~press[i].ok /\ press[i].at <= now
  BY Types DEF IInv, PressInv, At
<1>2. /\ q \in Press /\ q.prompt = press[i].prompt /\ q.scope = press[i].scope
      /\ q.at = press[i].at /\ ~q.ok /\ q.phase = "answered" /\ q.again = press[i].again
      /\ q.again \in BOOLEAN
  BY <1>1 DEF Press
<1>3. press' = [press EXCEPT ![i] = q]
  OBVIOUS
<1> HIDE DEF q
<1> QED
  BY <1>1, <1>2, <1>3, PressIInv

\* Under the confirmer's lock the right to delete passes to the handler.
LEMMA TakeIInv ==
  ASSUME IInv, NEW i \in Interactions, Take(i)
  PROVE  IInv'
<1> DEFINE t0 == press[i].prompt.token
           q == [press[i] EXCEPT !.phase = "taken", !.found = pending[t0]]
<1>1. /\ TypeOK /\ press[i] \in Press /\ press[i] # None /\ press[i].phase = "entered"
      /\ press[i].prompt \in asks /\ ~press[i].ok /\ press[i].at <= now
      /\ t0 \in Tokens /\ pending[t0] \in DeleteRequest \cup {None}
  BY Types DEF IInv, PressInv, Take, At
<1>2. /\ q \in Press /\ q.prompt = press[i].prompt /\ q.scope = press[i].scope
      /\ q.at = press[i].at /\ q.ok = press[i].ok /\ q.phase = "taken"
      /\ q.again = press[i].again /\ q.again \in BOOLEAN /\ q.found = pending[t0]
  BY <1>1 DEF Press
<1>3. press' = [press EXCEPT ![i] = q] /\ pending' = [pending EXCEPT ![t0] = None]
      /\ UNCHANGED <<db, now, life, asking, asks>>
  BY DEF Take
<1>4. /\ pending' \in [Tokens -> DeleteRequest \cup {None}] /\ pending'[t0] = None
      /\ \A t \in Tokens : t # t0 => pending'[t] = pending[t]
  BY <1>1, <1>3 DEF TypeOK
<1> HIDE DEF q
<1>5. /\ press' \in [Interactions -> Press \cup {None}]
      /\ press'[i] = q /\ q # None
      /\ \A j \in Interactions : j # i => press'[j] = press[j]
  BY <1>1, <1>2, <1>3, OnePress
<1>6. Harmless /\ TellsNothing
  BY <1>1, <1>2, <1>3, <1>5, SameDb DEF TellsNothing
<1>7. TypeOK' /\ AsksInv'
  BY <1>1, <1>3, <1>4, <1>5 DEF IInv, TypeOK, AsksInv
<1>8. PendingInv'
  <2> SUFFICES ASSUME NEW t \in Tokens, pending'[t] # None
               PROVE  \E p \in asks : p.token = t /\ MadeWith(p, pending'[t])
    BY <1>3 DEF PendingInv, MadeWith
  <2>1. t # t0 /\ pending'[t] = pending[t]
    BY <1>4
  <2> QED BY <2>1 DEF IInv, PendingInv
<1>9. pending[t0] # None => MadeWith(press[i].prompt, pending[t0])
  <2> SUFFICES ASSUME pending[t0] # None PROVE MadeWith(press[i].prompt, pending[t0])
    OBVIOUS
  <2>1. PICK p \in asks : p.token = t0 /\ MadeWith(p, pending[t0])
    BY <1>1 DEF IInv, PendingInv
  <2>2. p = press[i].prompt
    BY <1>1, <2>1 DEF IInv, AsksInv
  <2> QED BY <2>1, <2>2
<1>10. PressInv'
  <2> SUFFICES ASSUME NEW j \in Interactions, press'[j] # None
               PROVE  /\ press'[j].prompt \in asks
                      /\ press'[j].at <= now
                      /\ press'[j].phase \in {"entered", "taken", "cleared"} => ~press'[j].ok
                      /\ Holds(j)' => MadeWith(press'[j].prompt, press'[j].found)
                      /\ press'[j].phase = "cleared" =>
                           /\ press'[j].found # None
                           /\ press'[j].found.scope = press'[j].scope
                           /\ press'[j].at <= press'[j].found.expires
    BY <1>3 DEF PressInv, MadeWith
  <2>1. CASE j = i
    BY <1>1, <1>2, <1>5, <1>9, <2>1 DEF Holds
  <2>2. CASE j # i
    BY <1>5, <2>2 DEF IInv, PressInv, Holds
  <2> QED BY <2>1, <2>2
<1>11. /\ Holds(i)' <=> pending[t0] # None
       /\ \A j \in Interactions : j # i => (Holds(j)' <=> Holds(j))
  BY <1>2, <1>5 DEF Holds
<1>12. press'[i].prompt.token = t0
  BY <1>2, <1>5
<1> HIDE DEF t0
<1>13. TokenInv'
  <2>1. \A t : Unused(t)' <=> Unused(t)
    BY <1>3 DEF Unused, Deletes
  <2>2. ASSUME NEW t \in Tokens, pending'[t] # None
        PROVE  Unused(t)' /\ \A j \in Interactions : Holds(j)' => press'[j].prompt.token # t
    <3>1. t # t0 /\ pending[t] # None
      BY <1>4, <2>2
    <3>2. Unused(t) /\ \A j \in Interactions : Holds(j) => press[j].prompt.token # t
      BY <3>1 DEF IInv, TokenInv
    <3> QED BY <1>5, <1>11, <1>12, <2>1, <3>1, <3>2
  <2>3. ASSUME NEW j \in Interactions, Holds(j)'
        PROVE  /\ Unused(press[j].prompt.token)'
               /\ \A k \in Interactions :
                    Holds(k)' /\ press'[k].prompt.token = press'[j].prompt.token => j = k
    <3>1. pending[t0] # None => /\ Unused(t0)
                                /\ \A k \in Interactions : Holds(k) => press[k].prompt.token # t0
      BY <1>1 DEF IInv, TokenInv
    <3>2. CASE j = i
      <4>1. pending[t0] # None
        BY <1>11, <2>3, <3>2
      <4>2. \A d \in Deletes : db.audit[d].source[2] # press'[j].prompt.token
        BY <1>12, <3>1, <3>2, <4>1 DEF Unused
      <4>3. Unused(press[j].prompt.token)'
        BY <1>3, <4>2 DEF Unused, Deletes
      <4> QED BY <1>5, <1>11, <1>12, <3>1, <3>2, <4>1, <4>3
    <3>3. CASE j # i
      <4>1. Holds(j) /\ press'[j] = press[j]
        BY <1>5, <1>11, <2>3, <3>3
      <4>2. /\ \A d \in Deletes : db.audit[d].source[2] # press[j].prompt.token
            /\ \A k \in Interactions :
                 Holds(k) /\ press[k].prompt.token = press[j].prompt.token => j = k
        BY <4>1 DEF IInv, TokenInv, Unused
      <4>3. Unused(press[j].prompt.token)'
        BY <1>3, <4>1, <4>2 DEF Unused, Deletes
      <4> QED BY <1>5, <1>11, <1>12, <3>1, <4>1, <4>2, <4>3
    <3> QED BY <3>2, <3>3
  <2> QED BY <1>6, <2>2, <2>3, HarmlessFrame DEF TokenInv
<1> QED
  BY <1>6, <1>7, <1>8, <1>10, <1>13, HarmlessFrame, ReplyFrame DEF IInv

\* The deletion spends the right: one more deletion in the audit trail, by the
\* identity and of the row that the button was made for.
LEMMA DeletedIInv ==
  ASSUME IInv, NEW i \in Interactions, At(i, "cleared"),
         UNCHANGED <<now, life, asking, pending, asks>>,
         press' = [press EXCEPT ![i].phase = "answered", ![i].ok = TRUE],
         db' \in Database,
         Len(db'.audit) = Len(db.audit) + 1,
         \A k \in 1..Len(db.audit) : db'.audit[k] = db.audit[k],
         db'.audit[Len(db.audit) + 1].action = "delete",
         db'.audit[Len(db.audit) + 1].source = <<i, press[i].prompt.token>>,
         db'.audit[Len(db.audit) + 1].id = press[i].prompt.id,
         db'.audit[Len(db.audit) + 1].scope = press[i].prompt.scope,
         press[i].scope = press[i].prompt.scope,
         \A j \in Interactions, t \in Tokens :
           <<j, t>> # <<i, press[i].prompt.token>> => db'.batches[<<j, t>>] = db.batches[<<j, t>>]
  PROVE  IInv'
<1> DEFINE t0 == press[i].prompt.token
           new == Len(db.audit) + 1
           q == [press[i] EXCEPT !.phase = "answered", !.ok = TRUE]
<1>1. /\ TypeOK /\ press[i] \in Press /\ press[i] # None /\ press[i].phase = "cleared"
      /\ press[i].prompt \in asks /\ press[i].at <= now /\ t0 \in Tokens
      /\ Holds(i) /\ Unused(t0)
  BY Types DEF IInv, PressInv, At, Holds, TokenInv
<1>2. /\ q \in Press /\ q.prompt = press[i].prompt /\ q.scope = press[i].scope
      /\ q.at = press[i].at /\ q.ok /\ q.phase = "answered" /\ q.again = press[i].again
      /\ q.again \in BOOLEAN
  BY <1>1 DEF Press
<1>3. press' = [press EXCEPT ![i] = q]
  OBVIOUS
<1> HIDE DEF q
<1>4. /\ press' \in [Interactions -> Press \cup {None}]
      /\ press'[i] = q /\ q # None
      /\ \A j \in Interactions : j # i => press'[j] = press[j]
  BY <1>1, <1>2, <1>3, OnePress
<1>5. /\ new \notin Deletes /\ Deletes' = Deletes \cup {new}
      /\ \A k \in Deletes : db'.audit[k] = db.audit[k]
  <2>1. DOMAIN db'.audit = 1..Len(db'.audit) /\ Len(db.audit) \in Nat
        /\ DOMAIN db.audit = 1..Len(db.audit)
    BY <1>1, Types DEF Database
  <2>2. 1..Len(db'.audit) = 1..Len(db.audit) \cup {new} /\ new \notin 1..Len(db.audit)
    BY <2>1
  <2> HIDE DEF new
  <2>3. db'.audit[new].action = "delete"
    BY DEF new
  <2> QED BY <2>1, <2>2, <2>3 DEF Deletes
<1>6. /\ db'.audit[new].source = <<i, t0>> /\ db'.audit[new].id = press[i].prompt.id
      /\ db'.audit[new].scope = press[i].prompt.scope
      /\ db'.audit[new].source[1] = i /\ db'.audit[new].source[2] = t0
  OBVIOUS
<1> HIDE DEF new
<1>7. ~Holds(i)' /\ \A j \in Interactions : j # i => (Holds(j)' <=> Holds(j))
  BY <1>2, <1>4 DEF Holds
<1>8. \A j \in Interactions : press[j] # None =>
        press'[j] # None /\ press'[j].prompt = press[j].prompt /\ press'[j].scope = press[j].scope
  BY <1>2, <1>4
<1>9. TypeOK' /\ AsksInv' /\ PendingInv'
  BY <1>4 DEF IInv, TypeOK, AsksInv, PendingInv, MadeWith
<1>10. PressInv'
  <2> SUFFICES ASSUME NEW j \in Interactions, press'[j] # None
               PROVE  /\ press'[j].prompt \in asks
                      /\ press'[j].at <= now
                      /\ press'[j].phase \in {"entered", "taken", "cleared"} => ~press'[j].ok
                      /\ Holds(j)' => MadeWith(press'[j].prompt, press'[j].found)
                      /\ press'[j].phase = "cleared" =>
                           /\ press'[j].found # None
                           /\ press'[j].found.scope = press'[j].scope
                           /\ press'[j].at <= press'[j].found.expires
    BY DEF PressInv, MadeWith
  <2>1. CASE j = i
    BY <1>1, <1>2, <1>4, <1>7, <2>1
  <2>2. CASE j # i
    BY <1>4, <2>2 DEF IInv, PressInv, Holds
  <2> QED BY <2>1, <2>2
<1>11. DeletesWhatWasPressed'
  <2> SUFFICES ASSUME NEW k \in Deletes'
               PROVE  \E j \in Interactions :
                        /\ press'[j] # None
                        /\ db'.audit[k].source = <<j, press'[j].prompt.token>>
                        /\ db'.audit[k].id = press'[j].prompt.id
                        /\ db'.audit[k].scope = press'[j].prompt.scope
                        /\ press'[j].scope = press'[j].prompt.scope
    BY DEF DeletesWhatWasPressed
  <2>1. CASE k = new
    BY <1>1, <1>6, <1>8, <2>1, ZenonT(40)
  <2>2. CASE k \in Deletes
    <3>1. PICK j \in Interactions :
            /\ press[j] # None
            /\ db.audit[k].source = <<j, press[j].prompt.token>>
            /\ db.audit[k].id = press[j].prompt.id
            /\ db.audit[k].scope = press[j].prompt.scope
            /\ press[j].scope = press[j].prompt.scope
      BY <2>2 DEF IInv, DeletesWhatWasPressed
    <3>2. /\ press'[j] # None /\ press'[j].prompt = press[j].prompt
          /\ press'[j].scope = press[j].scope
      BY <1>8, <3>1
    <3>3. db'.audit[k] = db.audit[k]
      BY <1>5, <2>2
    <3> QED BY <3>1, <3>2, <3>3
  <2> QED BY <1>5, <2>1, <2>2
<1>12. BatchInv'
  <2> SUFFICES ASSUME NEW j \in Interactions, NEW t \in Tokens, db'.batches[<<j, t>>] # None
               PROVE  \E k \in Deletes' : db'.audit[k].source = <<j, t>>
    BY DEF BatchInv
  <2>1. CASE <<j, t>> = <<i, t0>>
    BY <1>5, <1>6, <2>1
  <2>2. CASE <<j, t>> # <<i, t0>>
    <3>1. db.batches[<<j, t>>] # None
      BY <2>2
    <3>2. PICK k \in Deletes : db.audit[k].source = <<j, t>>
      BY <3>1 DEF IInv, BatchInv
    <3> QED BY <1>5, <3>2
  <2> QED BY <2>1, <2>2
<1>13. \A t : Unused(t) /\ t # t0 => Unused(t)'
  BY <1>5, <1>6 DEF Unused
<1>14. TokenIsOneUse'
  <2> SUFFICES ASSUME NEW j \in Deletes', NEW k \in Deletes',
                      db'.audit[j].source[2] = db'.audit[k].source[2]
               PROVE  j = k
    BY DEF TokenIsOneUse
  <2>1. CASE j \in Deletes /\ k \in Deletes
    BY <1>5, <2>1 DEF IInv, TokenInv, TokenIsOneUse
  <2>2. CASE j = new /\ k \in Deletes
    BY <1>1, <1>5, <1>6, <2>2 DEF Unused
  <2>3. CASE k = new /\ j \in Deletes
    BY <1>1, <1>5, <1>6, <2>3 DEF Unused
  <2> QED BY <1>5, <2>1, <2>2, <2>3
<1>15. TokenInv'
  <2>1. ASSUME NEW t \in Tokens, pending'[t] # None
        PROVE  Unused(t)' /\ \A j \in Interactions : Holds(j)' => press'[j].prompt.token # t
    <3>1. Unused(t) /\ \A j \in Interactions : Holds(j) => press[j].prompt.token # t
      BY <2>1 DEF IInv, TokenInv
    <3>2. t # t0
      BY <1>1, <3>1
    <3> QED BY <1>4, <1>7, <1>13, <3>1, <3>2
  <2>2. ASSUME NEW j \in Interactions, Holds(j)'
        PROVE  /\ Unused(press[j].prompt.token)'
               /\ \A k \in Interactions :
                    Holds(k)' /\ press'[k].prompt.token = press'[j].prompt.token => j = k
    <3>1. j # i /\ Holds(j) /\ press'[j] = press[j]
      BY <1>4, <1>7, <2>2
    <3>2. /\ \A d \in Deletes : db.audit[d].source[2] # press[j].prompt.token
          /\ \A k \in Interactions :
               Holds(k) /\ press[k].prompt.token = press[j].prompt.token => j = k
      BY <3>1 DEF IInv, TokenInv, Unused
    <3>3. press[j].prompt.token # t0
      BY <1>1, <3>1, <3>2
    <3>4. Unused(press[j].prompt.token)'
      BY <1>5, <1>6, <3>1, <3>2, <3>3 DEF Unused
    <3> QED BY <1>4, <1>7, <3>1, <3>2, <3>4
  <2> QED BY <1>14, <2>1, <2>2 DEF TokenInv
<1>16. ReplyInv'
  <2> SUFFICES ASSUME NEW j \in Interactions
               PROVE  /\ press'[j] # None /\ press'[j].phase = "answered" /\ press'[j].ok =>
                           \E k \in Deletes' : db'.audit[k].source = <<j, press'[j].prompt.token>>
                      /\ press'[j] = None
                         \/ (~press'[j].again /\ ~(press'[j].phase = "answered" /\ press'[j].ok)) =>
                           \A k \in Deletes' : db'.audit[k].source[1] # j
    BY DEF ReplyInv
  <2>1. CASE j = i
    BY <1>2, <1>4, <1>5, <1>6, <2>1
  <2>2. CASE j # i
    <3>1. press'[j] = press[j]
      BY <1>4, <2>2
    <3>2. ASSUME press[j] # None, press[j].phase = "answered", press[j].ok
          PROVE  \E k \in Deletes' : db'.audit[k].source = <<j, press[j].prompt.token>>
      <4>1. PICK k \in Deletes : db.audit[k].source = <<j, press[j].prompt.token>>
        BY <3>2 DEF IInv, ReplyInv
      <4>2. k \in Deletes' /\ db'.audit[k] = db.audit[k]
        BY <1>5
      <4> QED BY <4>1, <4>2
    <3>3. ASSUME press[j] = None
                 \/ (~press[j].again /\ ~(press[j].phase = "answered" /\ press[j].ok)),
                 NEW k \in Deletes'
          PROVE  db'.audit[k].source[1] # j
      <4>1. CASE k = new
        BY <1>6, <2>2, <4>1
      <4>2. CASE k \in Deletes
        <5>1. db.audit[k].source[1] # j
          BY <3>3, <4>2 DEF IInv, ReplyInv
        <5> QED BY <1>5, <4>2, <5>1
      <4> QED BY <1>5, <4>1, <4>2
    <3> QED BY <3>1, <3>2, <3>3
  <2> QED BY <2>1, <2>2
<1> QED
  BY <1>9, <1>10, <1>11, <1>12, <1>15, <1>16 DEF IInv

LEMMA DeleteIInv ==
  ASSUME IInv, NEW i \in Interactions, Delete(i)
  PROVE  IInv'
<1> DEFINE done == ApplyBatch(db, press[i].scope, <<i, press[i].prompt.token>>,
                              <<Deletion(press[i].found.id)>>)
<1>1. /\ At(i, "cleared") /\ db' = done.db
      /\ press' = [press EXCEPT ![i].phase = "answered", ![i].ok = done.ok]
      /\ UNCHANGED <<now, life, asking, pending, asks>>
  BY DEF Delete
<1>2. done = ApplyBatch(db, press[i].scope, <<i, press[i].prompt.token>>,
                        <<Deletion(press[i].found.id)>>)
  OBVIOUS
<1> HIDE DEF done
<1>3. /\ done.db \in Database
      /\ done.ok \in BOOLEAN
      /\ \/ ~done.ok /\ done.db = db
         \/ /\ done.ok
            /\ Len(done.db.audit) = Len(db.audit) + 1
            /\ \A k \in 1..Len(db.audit) : done.db.audit[k] = db.audit[k]
            /\ done.db.audit[Len(db.audit) + 1].action = "delete"
            /\ done.db.audit[Len(db.audit) + 1].source = <<i, press[i].prompt.token>>
            /\ done.db.audit[Len(db.audit) + 1].id = press[i].prompt.id
            /\ done.db.audit[Len(db.audit) + 1].scope = press[i].prompt.scope
            /\ press[i].scope = press[i].prompt.scope
            /\ \A j \in Interactions, t \in Tokens :
                 <<j, t>> # <<i, press[i].prompt.token>> =>
                   done.db.batches[<<j, t>>] = db.batches[<<j, t>>]
  BY <1>1, <1>2, DeleteFacts
<1>4. CASE ~done.ok /\ done.db = db
  <2>1. press' = [press EXCEPT ![i].phase = "answered", ![i].ok = FALSE]
    <3>1. done.ok = FALSE
      BY <1>3, <1>4
    <3> QED BY <1>1, <3>1
  <2> QED BY <1>1, <1>4, <2>1, RefusedIInv
<1>5. CASE done.ok
  <2>1. press' = [press EXCEPT ![i].phase = "answered", ![i].ok = TRUE]
    <3>1. done.ok = TRUE
      BY <1>3, <1>5
    <3> QED BY <1>1, <3>1
  <2> QED BY <1>1, <1>3, <1>5, <2>1, DeletedIInv, ZenonT(40)
<1> QED
  BY <1>3, <1>4, <1>5

LEMMA DeleteFailsIInv ==
  ASSUME IInv, NEW i \in Interactions, DeleteFails(i)
  PROVE  IInv'
<1> DEFINE q == [press[i] EXCEPT !.phase = "answered"]
<1>1. /\ press[i] \in Press /\ press[i] # None
      /\ press[i].prompt \in asks /\ ~press[i].ok /\ press[i].at <= now
  BY Types DEF IInv, PressInv, DeleteFails, At
<1>2. /\ q \in Press /\ q.prompt = press[i].prompt /\ q.scope = press[i].scope
      /\ q.at = press[i].at /\ q.ok = press[i].ok /\ q.phase = "answered"
      /\ q.again = press[i].again /\ q.again \in BOOLEAN
  BY <1>1 DEF Press
<1>3. press' = [press EXCEPT ![i] = q]
      /\ UNCHANGED <<db, now, life, asking, pending, asks>>
  BY DEF DeleteFails
<1> HIDE DEF q
<1> QED
  BY <1>1, <1>2, <1>3, PressIInv

\* A restart: the requests are gone, and so are the handlers.
LEMMA CrashIInv ==
  ASSUME IInv, Crash
  PROVE  IInv'
<1>1. TypeOK
  BY DEF IInv
<1>2. /\ UNCHANGED <<db, now, asks>> /\ asking' = None
      /\ life \in Nat /\ life' = life + 1 /\ life < MaxLife /\ MaxLife \in Nat
      /\ pending' = [t \in Tokens |-> None]
  BY <1>1, Types DEF Crash
<1>3. \A i \in Interactions :
        \/ press'[i] = press[i] /\ (press[i] = None \/ At(i, "answered"))
        \/ press[i] # None /\ press'[i] = [press[i] EXCEPT !.phase = "ended"]
  BY DEF Crash
<1>4. \A i \in Interactions :
        press'[i] # press[i] =>
          /\ press[i] # None /\ press'[i] \in Press
          /\ press'[i].phase = "ended"
          /\ press'[i].prompt = press[i].prompt /\ press'[i].scope = press[i].scope
          /\ press'[i].at = press[i].at /\ press'[i].again = press[i].again
          /\ press'[i].again \in BOOLEAN
  <2> SUFFICES ASSUME NEW i \in Interactions, press'[i] # press[i]
               PROVE  /\ press[i] # None /\ press'[i] \in Press
                      /\ press'[i].phase = "ended"
                      /\ press'[i].prompt = press[i].prompt /\ press'[i].scope = press[i].scope
                      /\ press'[i].at = press[i].at /\ press'[i].again = press[i].again
                      /\ press'[i].again \in BOOLEAN
    OBVIOUS
  <2>1. press[i] # None /\ press[i] \in Press /\ press'[i] = [press[i] EXCEPT !.phase = "ended"]
    BY <1>1, <1>3, Types
  <2> QED BY <2>1 DEF Press
<1>5. \A i \in Interactions : press'[i] # press[i] => ~At(i, "answered")
  BY <1>3, <1>4 DEF Crash
<1>6. \A i \in Interactions : press[i] # None => press'[i] # None
  BY <1>4, NothingAssumption
<1>14. \A i \in Interactions : press'[i] # None => press'[i].phase \in {"answered", "ended"}
  <2> SUFFICES ASSUME NEW i \in Interactions, press'[i] # None
               PROVE  press'[i].phase \in {"answered", "ended"}
    OBVIOUS
  <2>1. CASE press'[i] = press[i] /\ (press[i] = None \/ At(i, "answered"))
    BY <2>1 DEF At
  <2>2. CASE press[i] # None /\ press'[i] = [press[i] EXCEPT !.phase = "ended"]
    BY <1>1, <2>2, Types DEF Press
  <2> QED BY <1>3, <2>1, <2>2
<1>7. \A i \in Interactions : ~Holds(i)'
  BY <1>14 DEF Holds
<1>8. Harmless
  <2>1. \A i \in Interactions :
          press[i] # None => /\ press'[i] # None
                             /\ press'[i].prompt = press[i].prompt
                             /\ press'[i].scope = press[i].scope
    BY <1>4, <1>6
  <2> QED BY <1>2, <2>1, SameDb
<1>9. HoldsLess
  BY <1>2, <1>7 DEF HoldsLess
<1>10. TellsNothing
  <2> SUFFICES ASSUME NEW i \in Interactions, press'[i] # press[i]
               PROVE  /\ press'[i] # None
                      /\ ~(press'[i].phase = "answered" /\ press'[i].ok)
                      /\ \/ press'[i].again
                         \/ ~press[i].again /\ ~(press[i].phase = "answered" /\ press[i].ok)
    BY DEF TellsNothing
  <2> QED BY <1>4, <1>5, <1>6 DEF At
<1>11. TypeOK'
  <2>1. DOMAIN press' = Interactions /\ press' = [i \in Interactions |-> press'[i]]
    BY DEF Crash
  <2>2. \A i \in Interactions : press'[i] \in Press \cup {None}
    BY <1>1, <1>4 DEF TypeOK
  <2>3. press' \in [Interactions -> Press \cup {None}]
    BY <2>1, <2>2
  <2> QED BY <1>1, <1>2, <2>3 DEF TypeOK
<1>12. AsksInv' /\ PendingInv'
  BY <1>2 DEF IInv, AsksInv, PendingInv
<1>13. PressInv'
  <2> SUFFICES ASSUME NEW i \in Interactions, press'[i] # None
               PROVE  /\ press'[i].prompt \in asks
                      /\ press'[i].at <= now
                      /\ press'[i].phase \notin {"entered", "taken", "cleared"}
    BY <1>2, <1>7 DEF PressInv
  <2>1. CASE press'[i] = press[i]
    BY <1>14, <2>1 DEF IInv, PressInv
  <2>2. CASE press'[i] # press[i]
    BY <1>4, <2>2 DEF IInv, PressInv
  <2> QED BY <2>1, <2>2
<1> QED
  BY <1>8, <1>9, <1>10, <1>11, <1>12, <1>13, HarmlessFrame, TokenFrame, ReplyFrame DEF IInv

----------------------------------------------------------------------------
(* Invariance *)

LEMMA NextIInv == IInv /\ [Next]_vars => IInv'
<1> SUFFICES ASSUME IInv, [Next]_vars PROVE IInv'
  OBVIOUS
<1>1. /\ now \in Nat /\ now \in 0..MaxTime /\ MaxTime \in Nat /\ asking \in Aim \cup {None}
      /\ Len(db.rows) \in Nat /\ DOMAIN db.rows = 1..Len(db.rows)
  BY Types DEF IInv, TypeOK, Database
<1>2. ASSUME NEW scope \in Scopes, NEW m \in Messages, NEW b \in Edits, Edit(scope, m, b)
      PROVE  IInv'
  BY <1>2, EditIInv
<1>3. ASSUME NEW scope \in Scopes, NEW id \in DOMAIN db.rows, Look(scope, id)
      PROVE  IInv'
  <2>1. id \in Nat /\ asking' \in Aim
    BY <1>1, <1>3 DEF Look, Aim
  <2> QED BY <1>1, <1>3, <2>1, AsideIInv DEF Look
<1>4. ASSUME NEW token \in Tokens, Prepare(token) PROVE IInv'
  BY <1>4, PrepareIInv
<1>5. ASSUME NEW i \in Interactions, NEW prompt \in asks, NEW scope \in Scopes,
             Click(i, prompt, scope)
      PROVE  IInv'
  BY <1>5, ClickIInv
<1>6. ASSUME NEW i \in Interactions, Redeliver(i) \/ Handler(i) PROVE IInv'
  BY <1>6, RedeliverIInv, TakeIInv, CheckIInv, DeleteIInv, DeleteFailsIInv DEF Handler
<1>7. CASE Tick
  BY <1>1, <1>7, AsideIInv DEF Tick
<1>8. CASE Crash
  BY <1>8, CrashIInv
<1>9. CASE UNCHANGED vars
  BY <1>1, <1>9, AsideIInv DEF vars
<1> QED
  BY <1>2, <1>3, <1>4, <1>5, <1>6, <1>7, <1>8, <1>9 DEF Next

LEMMA Invariance == Spec => []IInv
<1> QED
  BY InitIInv, NextIInv, PTL DEF Spec

----------------------------------------------------------------------------
(* The theorems *)

\* Prepare, Confirm and the handlers around them keep to the types.
THEOREM TypeCorrect == Spec => []TypeOK
<1>1. IInv => TypeOK
  BY DEF IInv
<1> QED
  BY <1>1, Invariance, PTL

\* Confirm takes a request out of the pending map under its lock, and the batch
\* is recorded under the press: a token deletes at most once, ever.
THEOREM OneUse == Spec => []TokenIsOneUse
<1>1. IInv => TokenIsOneUse
  BY DEF IInv, TokenInv
<1> QED
  BY <1>1, Invariance, PTL

\* Every deletion is of the row, and by the identity, of a pressed button.
THEOREM Pressed == Spec => []DeletesWhatWasPressed
<1>1. IInv => DeletesWhatWasPressed
  BY DEF IInv
<1> QED
  BY <1>1, Invariance, PTL

\* "Deleted" is said of a deletion that is in the audit trail; a press delivered
\* once and refused deleted nothing.
THEOREM TrueReplies == Spec => []RepliesAreTrue
<1>1. ASSUME IInv PROVE RepliesAreTrue
  <2> SUFFICES ASSUME NEW i \in Interactions, At(i, "answered")
               PROVE  /\ press[i].ok => ByPress(i) # {}
                      /\ ~press[i].ok /\ ~press[i].again => ByPress(i) = {}
    BY DEF RepliesAreTrue
  <2>1. press[i] # None /\ press[i].phase = "answered"
    BY DEF At
  <2>2. ASSUME press[i].ok PROVE ByPress(i) # {}
    <3>1. PICK k \in Deletes : db.audit[k].source = <<i, press[i].prompt.token>>
      BY <1>1, <2>1, <2>2 DEF IInv, ReplyInv
    <3> QED BY <3>1 DEF ByPress
  <2>3. ASSUME ~press[i].ok, ~press[i].again PROVE ByPress(i) = {}
    <3>1. \A k \in Deletes : db.audit[k].source[1] # i
      BY <1>1, <2>1, <2>3 DEF IInv, ReplyInv
    <3>2. \A k \in Deletes : db.audit[k].source # <<i, press[i].prompt.token>>
      BY <3>1
    <3> QED BY <3>2 DEF ByPress
  <2> QED BY <2>2, <2>3
<1> QED
  BY <1>1, Invariance, PTL

\* A late press, or one of a button from before the restart, deletes nothing:
\* the step that deletes is by a handler whose request is of this life and
\* whose press came before it expired.
THEOREM StaleIsInert == Spec => StalePressesAreInert
<1>1. ASSUME IInv, [Next]_vars PROVE OnlyFreshPresses
  <2>1. ASSUME db' = db PROVE OnlyFreshPresses
    <3>1. Len(db.audit) \in Nat
      BY <1>1, Types DEF IInv
    <3> QED BY <2>1, <3>1 DEF OnlyFreshPresses
  <2>2. ASSUME NEW scope \in Scopes, NEW m \in Messages, NEW b \in Edits, Edit(scope, m, b)
        PROVE  OnlyFreshPresses
    BY <1>1, <2>2, EditFacts DEF IInv, Edit, OnlyFreshPresses
  <2>3. ASSUME NEW i \in Interactions, Delete(i) PROVE OnlyFreshPresses
    <3> DEFINE done == ApplyBatch(db, press[i].scope, <<i, press[i].prompt.token>>,
                                  <<Deletion(press[i].found.id)>>)
    <3>1. At(i, "cleared") /\ db' = done.db
      BY <2>3 DEF Delete
    <3>2. done = ApplyBatch(db, press[i].scope, <<i, press[i].prompt.token>>,
                            <<Deletion(press[i].found.id)>>)
      OBVIOUS
    <3> HIDE DEF done
    <3>3. \/ done.db = db
          \/ /\ Len(done.db.audit) = Len(db.audit) + 1
             /\ done.db.audit[Len(db.audit) + 1].source = <<i, press[i].prompt.token>>
      BY <1>1, <3>1, <3>2, DeleteFacts
    <3>4. /\ press[i] # None /\ press[i].prompt.life = life
          /\ press[i].at <= press[i].prompt.at + TTL
      <4>1. /\ press[i] # None /\ press[i].phase = "cleared" /\ press[i].found # None
            /\ MadeWith(press[i].prompt, press[i].found)
            /\ press[i].at <= press[i].found.expires
        BY <1>1, <3>1 DEF IInv, PressInv, At, Holds
      <4> QED BY <4>1 DEF MadeWith
    <3>5. CASE db' = db
      BY <2>1, <3>5
    <3>6. CASE db'.audit[Len(db'.audit)].source = <<i, press[i].prompt.token>>
      BY <3>4, <3>6 DEF OnlyFreshPresses
    <3> QED BY <3>1, <3>3, <3>5, <3>6
  <2>4. ASSUME NEW i \in Interactions, Redeliver(i) \/ Take(i) \/ Check(i) \/ DeleteFails(i)
        PROVE  db' = db
    BY <2>4 DEF Redeliver, Take, Check, DeleteFails
  <2>5. ASSUME NEW scope \in Scopes, NEW id \in DOMAIN db.rows, Look(scope, id)
        PROVE  db' = db
    BY <2>5 DEF Look
  <2>6. ASSUME NEW token \in Tokens, Prepare(token) PROVE db' = db
    BY <2>6 DEF Prepare
  <2>7. ASSUME NEW i \in Interactions, NEW prompt \in asks, NEW scope \in Scopes,
               Click(i, prompt, scope)
        PROVE  db' = db
    BY <2>7 DEF Click
  <2>8. CASE Tick \/ Crash \/ UNCHANGED vars
    BY <2>1, <2>8 DEF Tick, Crash, vars
  <2> QED
    BY <1>1, <2>1, <2>2, <2>3, <2>4, <2>5, <2>6, <2>7, <2>8 DEF Next, Handler
<1> QED
  BY <1>1, Invariance, PTL DEF Spec, StalePressesAreInert
=============================================================================
