---------------------------- MODULE DeleteConfirm ----------------------------
(***************************************************************************)
(* Deletion by button (internal/app/confirmation.go, the delete_transaction*)
(* tool of internal/app/orchestrator.go, the interaction handler of        *)
(* cmd/nyan-go/main.go).  A message handler, alone under Orchestrator.mu,  *)
(* looks a row up and prepares a one-use token that a Discord button       *)
(* carries.  Button handlers run beside it, and beside each other, without *)
(* that lock.  A batch is one atomic step here: that ApplyBatch behaves so *)
(* is what LedgerStore shows.                                              *)
(***************************************************************************)
EXTENDS LedgerOps

CONSTANTS
  Messages,       \* source message ids of the message handler
  Edits,          \* the batches it applies: never a delete
  Interactions,   \* ids of button presses
  Tokens,         \* confirmation tokens crypto/rand may produce
  TTL,            \* confirmation lifetime (5 minutes)
  MaxTime,        \* bound on the clock
  MaxLife         \* bound on the restarts

\* The source id of a press is made of two ids with text between them: no
\* message has it.
ASSUME SourcesAssumption ==
  /\ Messages \cup (Interactions \X Tokens) \subseteq Sources
  /\ Messages \cap (Interactions \X Tokens) = {}
ASSUME EditsAssumption ==
  /\ Edits \subseteq Seq(Mutation)
  /\ \A b \in Edits : \A i \in DOMAIN b : b[i].kind # "delete"
ASSUME BoundsAssumption == {TTL, MaxTime, MaxLife} \subseteq Nat

VARIABLES
  db,        \* the committed database
  now,       \* the clock
  life,      \* restarts so far
  asking,    \* target the message handler has read and not yet prepared, or None
  pending,   \* DeleteConfirmer.pending: per token, a request or None
  asks,      \* every prompt ever prepared; its button stays on Discord
  press      \* what became of each button press

vars == <<db, now, life, asking, pending, asks, press>>

Aim == [scope : Scopes, id : Nat]
DeleteRequest == [scope : Scopes, id : Nat, expires : Nat]
Prompt == [token : Tokens, scope : Scopes, id : Nat, at : Nat, life : Nat]
Press == [phase : {"entered", "taken", "cleared", "answered", "ended"}, prompt : Prompt,
          scope : Scopes, at : Nat, again : BOOLEAN, found : DeleteRequest \cup {None},
          ok : BOOLEAN]

ASSUME NothingAssumption == None \notin Aim \cup DeleteRequest \cup Press

TypeOK ==
  /\ db \in Database
  /\ now \in 0..MaxTime
  /\ life \in 0..MaxLife
  /\ asking \in Aim \cup {None}
  /\ pending \in [Tokens -> DeleteRequest \cup {None}]
  /\ asks \subseteq Prompt
  /\ press \in [Interactions -> Press \cup {None}]

Init ==
  /\ db = EmptyDatabase
  /\ now = 0
  /\ life = 0
  /\ asking = None
  /\ pending = [t \in Tokens |-> None]
  /\ asks = {}
  /\ press = [i \in Interactions |-> None]

----------------------------------------------------------------------------
(* The message handler, under Orchestrator.mu. *)

\* The batch at the end of a message; a redelivered message is replayed.
Edit(scope, m, batch) ==
  /\ asking = None
  /\ db' = ApplyBatch(db, scope, m, batch).db
  /\ db' # db
  /\ UNCHANGED <<now, life, asking, pending, asks, press>>

\* delete_transaction reads its target: GetTransaction finds live rows only.
Look(scope, id) ==
  /\ asking = None
  /\ Owned(db, scope, id) /\ ~db.rows[id].deleted
  /\ asking' = [scope |-> scope, id |-> id]
  /\ UNCHANGED <<db, now, life, pending, asks, press>>

Fresh(token) == \A p \in asks : p.token # token

\* Faulty: the random bytes are not read, so every prompt has the same token.
Prepare_FixedToken(token) ==
  /\ asking # None
  /\ token = CHOOSE t \in Tokens : TRUE
  /\ pending' = [pending EXCEPT ![token] =
                   [scope |-> asking.scope, id |-> asking.id, expires |-> now + TTL]]
  /\ asks' = asks \cup {[token |-> token, scope |-> asking.scope, id |-> asking.id,
                         at |-> now, life |-> life]}
  /\ asking' = None
  /\ UNCHANGED <<db, now, life, press>>

\* Prepare: the row may have changed since it was read.  If the prompt does not
\* reach Discord (SendButton fails, Handle drops it), nobody ever presses it.
Prepare(token) ==
  /\ asking # None
  /\ Fresh(token)
  /\ pending' = [pending EXCEPT ![token] =
                   [scope |-> asking.scope, id |-> asking.id, expires |-> now + TTL]]
  /\ asks' = asks \cup {[token |-> token, scope |-> asking.scope, id |-> asking.id,
                         at |-> now, life |-> life]}
  /\ asking' = None
  /\ UNCHANGED <<db, now, life, press>>

----------------------------------------------------------------------------
(* A button handler: Confirm, and the reply to the press. *)

\* Somebody who sees the button presses it.
Click(i, prompt, scope) ==
  /\ press[i] = None
  /\ prompt \in asks
  /\ press' = [press EXCEPT ![i] =
                 [phase |-> "entered", prompt |-> prompt, scope |-> scope, at |-> now,
                  again |-> FALSE, found |-> None, ok |-> FALSE]]
  /\ UNCHANGED <<db, now, life, asking, pending, asks>>

\* Discord delivers the same interaction once more.
Redeliver(i) ==
  /\ press[i] # None /\ press[i].phase \in {"answered", "ended"} /\ ~press[i].again
  /\ press' = [press EXCEPT ![i].phase = "entered", ![i].at = now, ![i].again = TRUE,
                            ![i].found = None, ![i].ok = FALSE]
  /\ UNCHANGED <<db, now, life, asking, pending, asks>>

At(i, phase) == press[i] # None /\ press[i].phase = phase

\* Faulty: the token is read and stays usable.
Take_Peek(i) ==
  /\ At(i, "entered")
  /\ press' = [press EXCEPT ![i].phase = "taken",
                            ![i].found = pending[press[i].prompt.token]]
  /\ UNCHANGED <<db, now, life, asking, pending, asks>>

\* Under DeleteConfirmer.mu: the request is read and the token used up.
Take(i) ==
  /\ At(i, "entered")
  /\ press' = [press EXCEPT ![i].phase = "taken",
                            ![i].found = pending[press[i].prompt.token]]
  /\ pending' = [pending EXCEPT ![press[i].prompt.token] = None]
  /\ UNCHANGED <<db, now, life, asking, asks>>

\* Faulty: the age of the request is not looked at.
Cleared_AnyAge(p) == p.found # None /\ p.found.scope = p.scope

\* Not `After(expires)`: the last instant still counts.
Cleared(p) == p.found # None /\ now <= p.found.expires /\ p.found.scope = p.scope

Check(i) ==
  /\ At(i, "taken")
  /\ press' = [press EXCEPT ![i].phase = IF Cleared(press[i]) THEN "cleared" ELSE "answered"]
  /\ UNCHANGED <<db, now, life, asking, pending, asks>>

Deletion(id) == [kind |-> "delete", id |-> id, content |-> None]

\* Faulty: the error of DeleteTransactions is dropped.
Delete_ErrorDropped(i) ==
  /\ At(i, "cleared")
  /\ db' = ApplyBatch(db, press[i].scope, <<i, press[i].prompt.token>>,
                      <<Deletion(press[i].found.id)>>).db
  /\ press' = [press EXCEPT ![i].phase = "answered", ![i].ok = TRUE]
  /\ UNCHANGED <<now, life, asking, pending, asks>>

\* DeleteTransactions under the source id `interaction:delete:token`.
Delete(i) ==
  /\ At(i, "cleared")
  /\ LET done == ApplyBatch(db, press[i].scope, <<i, press[i].prompt.token>>,
                            <<Deletion(press[i].found.id)>>)
     IN /\ db' = done.db
        /\ press' = [press EXCEPT ![i].phase = "answered", ![i].ok = done.ok]
  /\ UNCHANGED <<now, life, asking, pending, asks>>

\* ... which fails for a reason of its own (I/O, a cancelled context).
DeleteFails(i) ==
  /\ At(i, "cleared")
  /\ press' = [press EXCEPT ![i].phase = "answered"]
  /\ UNCHANGED <<db, now, life, asking, pending, asks>>

----------------------------------------------------------------------------
Tick ==
  /\ now < MaxTime
  /\ now' = now + 1
  /\ UNCHANGED <<db, life, asking, pending, asks, press>>

\* Tokens live in memory only; buttons outlive them on Discord.
Crash ==
  /\ life < MaxLife
  /\ life' = life + 1
  /\ asking' = None
  /\ pending' = [t \in Tokens |-> None]
  /\ press' = [i \in Interactions |->
                 IF press[i] = None \/ At(i, "answered") THEN press[i]
                 ELSE [press[i] EXCEPT !.phase = "ended"]]
  /\ UNCHANGED <<db, now, asks>>

Handler(i) == Take(i) \/ Check(i) \/ Delete(i) \/ DeleteFails(i)

Next ==
  \/ \E scope \in Scopes, m \in Messages, b \in Edits : Edit(scope, m, b)
  \/ \E scope \in Scopes, id \in DOMAIN db.rows : Look(scope, id)
  \/ \E token \in Tokens : Prepare(token)
  \/ \E i \in Interactions, prompt \in asks, scope \in Scopes : Click(i, prompt, scope)
  \/ \E i \in Interactions : Redeliver(i) \/ Handler(i)
  \/ Tick
  \/ Crash

Spec == Init /\ [][Next]_vars

----------------------------------------------------------------------------
(* Properties *)

Deletes == {k \in DOMAIN db.audit : db.audit[k].action = "delete"}

\* A token deletes at most once: not when the button is pressed twice at the
\* same time, not when the press is delivered again, not when the row was
\* restored in between and could be deleted once more, not after a restart.
TokenIsOneUse ==
  \A j, k \in Deletes : db.audit[j].source[2] = db.audit[k].source[2] => j = k

\* Every deletion in the audit trail goes back to a press of a button that
\* named that very row, by the identity the button was made for.
DeletesWhatWasPressed ==
  \A k \in Deletes : \E i \in Interactions :
    /\ press[i] # None
    /\ db.audit[k].source = <<i, press[i].prompt.token>>
    /\ db.audit[k].id = press[i].prompt.id
    /\ db.audit[k].scope = press[i].prompt.scope
    /\ press[i].scope = press[i].prompt.scope

\* A deletion that this step adds is by a press in time of a button of this life.
OnlyFreshPresses ==
  Len(db'.audit) > Len(db.audit) =>
    LET e == db'.audit[Len(db'.audit)] IN
    e.action = "delete" =>
      \E i \in Interactions :
        /\ press[i] # None /\ e.source = <<i, press[i].prompt.token>>
        /\ press[i].prompt.life = life
        /\ press[i].at <= press[i].prompt.at + TTL

\* A press that came too late, or on a button of an earlier life of the
\* process, deletes nothing, however its handler is interleaved.
StalePressesAreInert == [][OnlyFreshPresses]_vars

ByPress(i) == {k \in Deletes : db.audit[k].source = <<i, press[i].prompt.token>>}

\* The user is told the truth: "deleted" means this press deleted the row and
\* left its audit event; the refusal of a press delivered once means it did not.
RepliesAreTrue ==
  \A i \in Interactions :
    At(i, "answered") =>
      /\ press[i].ok => ByPress(i) # {}
      /\ ~press[i].ok /\ ~press[i].again => ByPress(i) = {}
=============================================================================
