----------------------------- MODULE Orchestrator -----------------------------
(***************************************************************************)
(* The life of an authorized message: one goroutine per Discord event      *)
(* (internal/discord/adapter.go), Orchestrator.Handle under Orchestrator.mu*)
(* (internal/app/orchestrator.go) with the provider's function-call loop   *)
(* inside it, and the delivery of the result by the message handler of     *)
(* cmd/nyan-go/main.go, which no longer holds the mutex.  A batch is one   *)
(* step (LedgerStore); what becomes of a button is in DeleteConfirm.       *)
(***************************************************************************)
EXTENDS LedgerOps, ProviderLoop

CONSTANTS
  MaxDeliveries, \* bound on the message events
  Messages,      \* Discord message ids; one may be delivered twice
  TTL,           \* lifetime of a clarification (10 minutes)
  MaxTime,       \* bound on the clock
  MaxLife        \* bound on the restarts

\* Message events, each with its goroutine, in the order Discord sends them.
Deliveries == 1..MaxDeliveries

\* An export half written.
Torn == 0

ASSUME MessagesAssumption == Messages \subseteq Sources /\ None \notin {Torn} \cup Deliveries
ASSUME BoundsAssumption == {MaxDeliveries, TTL, MaxTime, MaxLife} \subseteq Nat
ASSUME CallsAssumption == \A call \in Calls :
  call.tool \in {"create", "update", "restore"} =>
    [kind |-> call.tool, id |-> call.id, content |-> call.content] \in Mutation

VARIABLES
  db,        \* the committed database
  now,       \* the clock
  life,      \* restarts so far
  mu,        \* the delivery that holds Orchestrator.mu, or None
  pending,   \* Orchestrator.pending: per user, an unanswered request or None
  export,    \* Orchestrator.export: whose CSV it holds, or None
  hand,      \* the goroutine of each delivery
  turns,     \* history: deliveries in the order Handle took them
  dropped    \* history: deliveries whose request was cancelled or expired

vars == <<loop, db, now, life, mu, pending, export, hand, turns, dropped>>

Replies == {"silent", "error", "cancelled", "expired", "question", "confirm", "text", "prompts"}
Phases == {"unborn", "waiting", "turn", "exporting", "deliver", "taken", "done", "dead"}

\* text: the deliveries whose words the provider is given; queue: mutations
\* collected by the dispatcher; prompts: delete prompts it prepared; said: the
\* provider's last text; err: how the loop failed; file: the export taken;
\* sent: what it sent to the channel.
Hand == [phase : Phases, msg : Messages \cup {None}, scope : Scopes \cup {None},
         cancel : BOOLEAN, text : Seq(Deliveries), queue : Seq(Mutation), prompts : Nat,
         exported : BOOLEAN, said : {"none", "answer", "question", "json"},
         err : {"plain", "clarify"}, reply : Replies, file : Deliveries \cup {None, Torn},
         sent : {"nothing", "message", "button", "file"}]

PendingRequest == [text : Seq(Deliveries), expires : Nat]

ASSUME NothingAssumption == None \notin PendingRequest

TypeOK ==
  /\ LoopTypeOK
  /\ db \in Database
  /\ now \in 0..MaxTime
  /\ life \in 0..MaxLife
  /\ mu \in Deliveries \cup {None}
  /\ pending \in [Scopes -> PendingRequest \cup {None}]
  /\ export \in Deliveries \cup {None, Torn}
  /\ hand \in [Deliveries -> Hand]
  /\ turns \in Seq(Deliveries)
  /\ dropped \subseteq Deliveries

Unborn == [phase |-> "unborn", msg |-> None, scope |-> None, cancel |-> FALSE,
           text |-> <<>>, queue |-> <<>>, prompts |-> 0, exported |-> FALSE,
           said |-> "none", err |-> "plain", reply |-> "silent", file |-> None,
           sent |-> "nothing"]

Init ==
  /\ LoopInit
  /\ db = EmptyDatabase
  /\ now = 0
  /\ life = 0
  /\ mu = None
  /\ pending = [s \in Scopes |-> None]
  /\ export = None
  /\ hand = [d \in Deliveries |-> Unborn]
  /\ turns = <<>>
  /\ dropped = {}

\* discordgo starts a goroutine for the event.
Arrive(d, m, s, cancel) ==
  /\ hand[d].phase = "unborn"
  /\ \A e \in 1..(d - 1) : hand[e].phase # "unborn"
  /\ hand' = [hand EXCEPT ![d].phase = "waiting", ![d].msg = m, ![d].scope = s,
                          ![d].cancel = cancel]
  /\ UNCHANGED <<loop, db, now, life, mu, pending, export, turns, dropped>>

----------------------------------------------------------------------------
(* Orchestrator.Handle, up to the call of the provider. *)

\* The mutex goes to any of the goroutines that wait.
Lock(d) ==
  /\ hand[d].phase = "waiting"
  /\ mu = None
  /\ turns' = Append(turns, d)

\* An answer that needs no provider: mu is taken and given back.
AnswerAtOnce(d, reply) ==
  /\ Lock(d)
  /\ hand' = [hand EXCEPT ![d].phase = "deliver", ![d].reply = reply]
  /\ UNCHANGED <<loop, db, now, life, mu, export>>

Waiting(d) == pending[hand[d].scope]

\* The deliveries a pending request stands for.
Words(p) == IF p = None THEN {} ELSE {p.text[i] : i \in DOMAIN p.text}

\* Faulty: the early return of "huy" leaves the mutex locked.
Cancel_KeepsLock(d) ==
  /\ Lock(d)
  /\ hand[d].cancel
  /\ mu' = d
  /\ hand' = [hand EXCEPT ![d].phase = "deliver", ![d].reply = "cancelled"]
  /\ dropped' = dropped \cup Words(Waiting(d))
  /\ pending' = [pending EXCEPT ![hand[d].scope] = None]
  /\ UNCHANGED <<loop, db, now, life, export>>

\* Faulty: "huy" is answered and the request kept.
Cancel_KeepsPending(d) ==
  /\ hand[d].cancel
  /\ AnswerAtOnce(d, "cancelled")
  /\ dropped' = dropped \cup Words(Waiting(d))
  /\ UNCHANGED pending

\* "huy".
Cancel(d) ==
  /\ hand[d].cancel
  /\ AnswerAtOnce(d, "cancelled")
  /\ dropped' = dropped \cup Words(Waiting(d))
  /\ pending' = [pending EXCEPT ![hand[d].scope] = None]

Live(p) == now < p.expires

\* The pending request is too old: it goes, and the new message with it.
Expire(d) ==
  /\ ~hand[d].cancel
  /\ AnswerAtOnce(d, "expired")
  /\ Waiting(d) # None /\ ~Live(Waiting(d))
  /\ dropped' = dropped \cup Words(Waiting(d)) \cup {d}
  /\ pending' = [pending EXCEPT ![hand[d].scope] = None]

\* Faulty: the request that is being answered stays pending.
Enter_KeepsPending(d) ==
  /\ Lock(d)
  /\ ~hand[d].cancel
  /\ Waiting(d) # None => Live(Waiting(d))
  /\ mu' = d
  /\ Start
  /\ hand' = [hand EXCEPT ![d].phase = "turn",
                          ![d].text = IF Waiting(d) = None THEN <<d>>
                                      ELSE Append(Waiting(d).text, d)]
  /\ UNCHANGED <<db, now, life, pending, export, dropped>>

\* The message, after the request it answers if there is one, goes to the
\* provider.
Enter(d) ==
  /\ Lock(d)
  /\ ~hand[d].cancel
  /\ Waiting(d) # None => Live(Waiting(d))
  /\ mu' = d
  /\ Start
  /\ hand' = [hand EXCEPT ![d].phase = "turn",
                          ![d].text = IF Waiting(d) = None THEN <<d>>
                                      ELSE Append(Waiting(d).text, d)]
  /\ pending' = [pending EXCEPT ![hand[d].scope] = None]
  /\ UNCHANGED <<db, now, life, export, dropped>>

----------------------------------------------------------------------------
(* The provider's loop, and the dispatch closure it calls. *)

InTurn(d) == mu = d /\ hand[d].phase = "turn"

OnlyHand(d, h) ==
  /\ hand' = [hand EXCEPT ![d] = h]
  /\ UNCHANGED <<db, now, life, mu, pending, export, turns, dropped>>

\* A request fails, or the loop refuses the order of the calls.
LoopFails(d) ==
  /\ InTurn(d)
  /\ RespondFails \/ RefuseOrder
  /\ OnlyHand(d, [hand[d] EXCEPT !.err = "plain"])

\* A text, or nothing at all (NoAction).
Said(d, said) ==
  /\ InTurn(d)
  /\ \E usage \in BOOLEAN : RespondFinal(usage)
  /\ OnlyHand(d, [hand[d] EXCEPT !.said = said])

\* Tool calls, perhaps with a text of any kind.  Handle sees the last answer
\* only, and one with reads alone is not the last.
Called(d, calls, said) ==
  /\ InTurn(d)
  /\ \E usage \in BOOLEAN : RespondCalls(calls, usage)
  /\ OnlyHand(d, [hand[d] EXCEPT !.said =
                    IF \E i \in DOMAIN calls : IsMutation(calls[i]) THEN said ELSE "none"])

ThisCall == Head(loop.left)

\* Arguments that do not decode, a fact that is missing, a target that is not
\* found, a query that fails: an error, or a question to the user.
DispatchFails(d, err) ==
  /\ InTurn(d)
  /\ CallFails
  /\ OnlyHand(d, [hand[d] EXCEPT !.err = err])

\* create, update and restore are collected, not carried out.
QueueMutation(d) ==
  /\ InTurn(d)
  /\ CallDone
  /\ ThisCall.tool \in {"create", "update", "restore"}
  /\ OnlyHand(d, [hand[d] EXCEPT !.queue = Append(@,
       [kind |-> ThisCall.tool, id |-> ThisCall.id, content |-> ThisCall.content])])

\* delete_transaction reads a live row and prepares a prompt.
PreparePrompt(d) ==
  /\ InTurn(d)
  /\ CallDone
  /\ ThisCall.tool = "delete"
  /\ Owned(db, hand[d].scope, ThisCall.id) /\ ~db.rows[ThisCall.id].deleted
  /\ OnlyHand(d, [hand[d] EXCEPT !.prompts = @ + 1])

\* A search or a statistic.
Read(d) ==
  /\ InTurn(d)
  /\ CallDone
  /\ ThisCall.tool = "read"
  /\ OnlyHand(d, hand[d])

\* o.export is assigned without regard to TakeExport, which reads it outside
\* the mutex: a reader may meet the slice half written.
StoreExport(d) ==
  /\ InTurn(d)
  /\ loop.phase = "call" /\ ~OutOfOrder(ThisCall)
  /\ ThisCall.tool = "export"
  /\ export' = Torn
  /\ hand' = [hand EXCEPT ![d].phase = "exporting"]
  /\ UNCHANGED <<loop, db, now, life, mu, pending, turns, dropped>>

ExportStored(d) ==
  /\ mu = d /\ hand[d].phase = "exporting"
  /\ CallDone
  /\ export' = d
  /\ hand' = [hand EXCEPT ![d].phase = "turn", ![d].exported = TRUE]
  /\ UNCHANGED <<db, now, life, mu, pending, turns, dropped>>

----------------------------------------------------------------------------
(* Handle after the loop. *)

\* Handle returns: its locals are gone, its deferred Unlock has run.
Leave(d, reply) ==
  /\ hand' = [hand EXCEPT ![d].phase = "deliver", ![d].reply = reply, ![d].queue = <<>>,
                          ![d].said = "none", ![d].err = "plain"]
  /\ LoopReset
  /\ mu' = None
  /\ UNCHANGED <<now, life, export, turns, dropped>>

\* The text is kept for the user's answer.
Keep(d) ==
  pending' = [pending EXCEPT ![hand[d].scope] = [text |-> hand[d].text, expires |-> now + TTL]]

\* The loop ended in an error: a question if a fact was missing.
EndFailed(d) ==
  /\ InTurn(d)
  /\ loop.phase = "failed"
  /\ UNCHANGED db
  /\ \/ hand[d].err = "clarify" /\ Keep(d) /\ Leave(d, "question")
     \/ hand[d].err = "plain" /\ UNCHANGED pending /\ Leave(d, "error")

Batch(d) == ApplyBatch(db, hand[d].scope, hand[d].msg, hand[d].queue)

\* Faulty: the error of ApplyMutations is not looked at.
EndMutations_ErrorDropped(d) ==
  /\ InTurn(d)
  /\ loop.phase = "returned" /\ hand[d].queue # <<>>
  /\ db' = Batch(d).db
  /\ UNCHANGED pending
  /\ Leave(d, "confirm")

\* The queued mutations are applied as one batch.  A failure (the batch, or
\* SQLite) is an error, or a question if its text names a missing fact.
EndMutations(d) ==
  /\ InTurn(d)
  /\ loop.phase = "returned" /\ hand[d].queue # <<>>
  /\ \/ Batch(d).ok /\ db' = Batch(d).db /\ UNCHANGED pending /\ Leave(d, "confirm")
     \/ UNCHANGED <<db, pending>> /\ Leave(d, "error")
     \/ UNCHANGED db /\ Keep(d) /\ Leave(d, "question")

\* Faulty: a question is put, and the request it is about is forgotten.
EndText_NotKept(d) ==
  /\ InTurn(d)
  /\ loop.phase = "returned" /\ hand[d].queue = <<>>
  /\ UNCHANGED <<db, pending>>
  /\ \/ hand[d].said = "none" /\ hand[d].prompts = 0 /\ Leave(d, "silent")
     \/ hand[d].said = "none" /\ hand[d].prompts > 0 /\ Leave(d, "prompts")
     \/ hand[d].said = "question" /\ Leave(d, "question")
     \/ hand[d].said = "json" /\ \E reply \in {"text", "error"} : Leave(d, reply)
     \/ hand[d].said = "answer" /\ Leave(d, "text")

\* Nothing to apply.  An answer without text is silence, unless its calls were
\* deletes, whose prompts are then the reply; a text hides them.  A question
\* keeps the request pending; JSON is an analysis, well formed or not.
EndText(d) ==
  /\ InTurn(d)
  /\ loop.phase = "returned" /\ hand[d].queue = <<>>
  /\ UNCHANGED db
  /\ IF hand[d].said = "question" THEN Keep(d) ELSE UNCHANGED pending
  /\ \/ hand[d].said = "none" /\ hand[d].prompts = 0 /\ Leave(d, "silent")
     \/ hand[d].said = "none" /\ hand[d].prompts > 0 /\ Leave(d, "prompts")
     \/ hand[d].said = "question" /\ Leave(d, "question")
     \/ hand[d].said = "json" /\ \E reply \in {"text", "error"} : Leave(d, reply)
     \/ hand[d].said = "answer" /\ Leave(d, "text")

----------------------------------------------------------------------------
(* The message handler, after Handle: mu is free for the next message. *)

\* The handler ends.  Whether Discord accepted what it sent changes nothing:
\* the error is dropped.
Finish(d, sent) ==
  /\ hand' = [hand EXCEPT ![d].phase = "done", ![d].sent = sent]
  /\ UNCHANGED <<loop, db, now, life, mu, pending, turns, dropped>>

\* Silence, the fixed text for an error, or the button of a single prompt; of
\* several prompts the token is unusable, and Discord refuses the button.
DeliverShort(d) ==
  /\ hand[d].phase = "deliver"
  /\ \/ hand[d].reply = "silent" /\ Finish(d, "nothing")
     \/ hand[d].reply = "error" /\ Finish(d, "message")
     \/ hand[d].reply = "prompts" /\ Finish(d, IF hand[d].prompts = 1 THEN "button" ELSE "nothing")
  /\ UNCHANGED export

\* TakeExport copies the export, without the mutex.  Of one half written it
\* gets nothing or a mixture.
TakeExport(d) ==
  /\ hand[d].phase = "deliver"
  /\ hand[d].reply \notin {"silent", "error", "prompts"}
  /\ \E file \in {export} \cup (IF export = Torn THEN {None} ELSE {}) :
       hand' = [hand EXCEPT ![d].phase = "taken", ![d].file = file]
  /\ UNCHANGED <<loop, db, now, life, mu, pending, export, turns, dropped>>

\* It forgets the export, and the handler sends what it took.
Deliver(d) ==
  /\ hand[d].phase = "taken"
  /\ export' = None
  /\ Finish(d, IF hand[d].file = None THEN "message" ELSE "file")

----------------------------------------------------------------------------
Tick ==
  /\ now < MaxTime
  /\ now' = now + 1
  /\ UNCHANGED <<loop, db, life, mu, pending, export, hand, turns, dropped>>

\* The process dies: only the database is left.
Crash ==
  /\ life < MaxLife
  /\ life' = life + 1
  /\ LoopReset
  /\ mu' = None
  /\ pending' = [s \in Scopes |-> None]
  /\ export' = None
  /\ hand' = [d \in Deliveries |->
                IF hand[d].phase \in {"unborn", "done"} THEN hand[d]
                ELSE [hand[d] EXCEPT !.phase = "dead"]]
  /\ UNCHANGED <<db, now, turns, dropped>>

\* What a goroutine that has its turn does on its own.
Proceed(d) ==
  \/ LoopFails(d)
  \/ \E said \in {"none", "answer", "question", "json"} : Said(d, said)
  \/ \E calls \in Rounds, said \in {"none", "answer", "question", "json"} : Called(d, calls, said)
  \/ \E err \in {"plain", "clarify"} : DispatchFails(d, err)
  \/ QueueMutation(d) \/ PreparePrompt(d) \/ Read(d) \/ StoreExport(d) \/ ExportStored(d)
  \/ EndFailed(d) \/ EndMutations(d) \/ EndText(d)
  \/ DeliverShort(d) \/ TakeExport(d) \/ Deliver(d)

TakeTurn(d) == Cancel(d) \/ Expire(d) \/ Enter(d)

Next ==
  \/ \E d \in Deliveries, m \in Messages, s \in Scopes, cancel \in BOOLEAN :
       Arrive(d, m, s, cancel)
  \/ \E d \in Deliveries : TakeTurn(d) \/ Proceed(d)
  \/ Tick
  \/ Crash

Spec == Init /\ [][Next]_vars

\* Requests to the provider and to Discord end, and sync.Mutex starves nobody.
FairSpec == Spec /\ \A d \in Deliveries : WF_vars(Proceed(d)) /\ SF_vars(TakeTurn(d))

----------------------------------------------------------------------------
(* Properties *)

Confirmed == {d \in Deliveries : hand[d].reply = "confirm"}

\* The words of a delivery are carried out at most once, in its own turn or with
\* the answer that completes them: no delivery is among the words of two confirmed
\* batches.  A message that is delivered again is a new delivery, for which only
\* the batch of its own id is known: see RetriesAreNoDuplicates.
CarriedOutOnce ==
  \A d, e \in Confirmed :
    d # e => {hand[d].text[i] : i \in DOMAIN hand[d].text}
             \cap {hand[e].text[i] : i \in DOMAIN hand[e].text} = {}

\* A delivery that was cancelled or has expired is never shown to the provider
\* again.  (Its message, delivered again, is new to the bot.)
AbandonedStaysAbandoned ==
  mu # None => \A i \in DOMAIN hand[mu].text : hand[mu].text[i] \notin dropped

Answered(d) == hand[d].phase \in {"deliver", "taken", "done"}

\* Replies tell the truth about the ledger: a confirmation stands for a batch
\* recorded under that very message, and a message none of whose deliveries came
\* to a confirmation (but to an error, a question, silence, a provider failure
\* half way through the calls) has left no trace.
ConfirmationsAreTrue ==
  \A d \in Deliveries :
    /\ d \in Confirmed => /\ db.batches[hand[d].msg] # None
                          /\ Len(db.batches[hand[d].msg].ids) > 0
    /\ Answered(d) /\ d \notin Confirmed
         /\ (\A e \in Confirmed : hand[e].msg # hand[d].msg)
         => db.batches[hand[d].msg] = None

\* A question the user was asked can still be answered, with all the words it
\* was about, until another message of the user has had its turn.
QuestionsStayOpen ==
  \A i \in DOMAIN turns :
    LET d == turns[i] IN
    (/\ Answered(d) /\ hand[d].reply = "question"
     /\ life = 0
     /\ \A j \in (i + 1)..Len(turns) : hand[turns[j]].scope # hand[d].scope)
      => /\ pending[hand[d].scope] # None
         /\ pending[hand[d].scope].text = hand[d].text

\* Every message is answered, whatever the others and the provider do.
EveryMessageAnswered ==
  \A d \in Deliveries : hand[d].phase = "waiting" ~> hand[d].phase \in {"done", "dead"}

\* The claim "Authorized messages process serially in source order".
SourceOrder ==
  \A i, j \in DOMAIN turns : i < j => turns[i] < turns[j]

\* The claim "Every deletion creates a short-lived Discord button": a turn that
\* prepared a prompt and did not fail has its button, unless sending failed.
PromptsReachTheUser ==
  \A d \in Deliveries :
    hand[d].phase = "done" /\ hand[d].prompts > 0 /\ hand[d].reply # "error" => hand[d].sent = "button"

\* The messages whose words a turn gave to the provider.
MessagesOf(d) == {hand[hand[d].text[i]].msg : i \in DOMAIN hand[d].text}

\* The claim "duplicate Discord delivery retries [do] not create duplicate
\* transactions": no message is carried out by the batches of two messages.  The
\* batches of one message are one, LedgerStore sees to that.
RetriesAreNoDuplicates ==
  \A d, e \in Confirmed : hand[d].msg # hand[e].msg => MessagesOf(d) \cap MessagesOf(e) = {}

\* The claim "export_transactions creates a CSV ... and sends it": the answer
\* to an export request that is delivered carries that request's own file.
ExportsReachTheirRequest ==
  \A d \in Deliveries :
    hand[d].phase = "done" /\ hand[d].exported /\ hand[d].reply = "text"
      => hand[d].file = d

\* The claim "Preserve one pending request per user for ten minutes": a turn
\* that fails does not take the request it was answering with it.
FailuresKeepTheRequest ==
  \A d \in Deliveries :
    hand[d].phase = "deliver" /\ hand[d].reply = "error" /\ Len(hand[d].text) > 1
      => pending[hand[d].scope] # None
=============================================================================
