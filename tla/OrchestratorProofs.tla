-------------------------- MODULE OrchestratorProofs --------------------------
(***************************************************************************)
(* Theorems about Orchestrator, and the function-call loop inside it, for  *)
(* any number of deliveries and identities, any tools, any round limit.    *)
(***************************************************************************)
EXTENDS Orchestrator, LedgerOpsProofs

----------------------------------------------------------------------------
(* The provider's loop. *)

\* The requests made are those of the rounds begun, below the limit; an answer
\* being worked through has calls left, and no mutation among those done unless
\* mutationInRound says so.
LoopProgress ==
  /\ loop.phase = "ask" => loop.asked = loop.round /\ loop.round < MaxRounds
  /\ loop.phase = "call" =>
       /\ loop.asked = loop.round + 1 /\ loop.round < MaxRounds
       /\ loop.left # <<>>
       /\ ~loop.mutated => \A i \in DOMAIN loop.done : ~IsMutation(loop.done[i])

LoopInv == LoopTypeOK /\ LoopProgress /\ MutationsComeLast /\ UsageRecordsAreTrue

LEMMA LoopTypes ==
  ASSUME LoopTypeOK
  PROVE  /\ loop.phase \in {"idle", "ask", "call", "returned", "failed"}
         /\ loop.round \in 0..MaxRounds /\ loop.asked \in 0..MaxRounds
         /\ loop.left \in Seq(Calls) /\ loop.done \in Seq(Calls)
         /\ loop.mutated \in BOOLEAN /\ loop.usage \in BOOLEAN
         /\ loop.records \in Seq(UsageRecord)
         /\ MaxRounds \in Nat /\ MaxRounds > 0
BY RoundsAssumption DEF LoopTypeOK, Loop

\* The first record of a loop.
LEMMA OneRecord ==
  ASSUME loop.records = <<>>, NEW rounds \in Nat, NEW ok \in BOOLEAN, NEW usage \in BOOLEAN
  PROVE  Record(rounds, ok, usage) \in Seq(UsageRecord)
BY DEF Record, UsageRecord

LEMMA AppendToNone ==
  ASSUME NEW r, NEW s, s = Append(<<>>, r)
  PROVE  Len(s) <= 1 /\ \A i \in DOMAIN s : s[i] = r
<1>1. r \in {r} /\ <<>> \in Seq({r}) /\ Len(<<>>) = 0
  OBVIOUS
<1>2. s \in Seq({r}) /\ Len(s) = 1 /\ s[1] = r
  BY <1>1, AppendProperties
<1> QED
  BY <1>2

\* A loop that ends with its one record.
LEMMA LoopEnds ==
  ASSUME loop' \in Loop, loop'.phase \in {"returned", "failed"},
         NEW ok, ok = (loop'.phase = "returned"),
         loop.records = <<>>, loop'.records = Record(loop'.asked, ok, loop'.usage),
         \A i, j \in DOMAIN loop'.done :
           i < j /\ IsMutation(loop'.done[i]) => IsMutation(loop'.done[j])
  PROVE  LoopInv'
<1>1. LoopTypeOK' /\ LoopProgress' /\ MutationsComeLast'
  BY DEF LoopTypeOK, LoopProgress, MutationsComeLast
<1> DEFINE r == [rounds |-> loop'.asked, ok |-> ok, usage |-> loop'.usage]
<1>2. /\ r.rounds = loop'.asked
      /\ r.ok <=> loop'.phase = "returned"
      /\ r.usage <=> loop'.usage
  OBVIOUS
<1>3. loop'.records = Append(<<>>, r)
  BY Zenon DEF Record
<1> HIDE DEF r
<1>5. Len(loop'.records) <= 1 /\ \A i \in DOMAIN loop'.records : loop'.records[i] = r
  BY <1>3, AppendToNone, Zenon
<1>6. \A i \in DOMAIN loop'.records : /\ loop'.records[i].rounds = loop'.asked
                                      /\ loop'.records[i].ok <=> loop'.phase = "returned"
                                      /\ loop'.records[i].usage <=> loop'.usage
  BY <1>2, <1>5, Zenon
<1>7. Ended'
  BY DEF Ended
<1>8. UsageRecordsAreTrue'
  BY <1>5, <1>6, <1>7, Zenon DEF UsageRecordsAreTrue
<1> QED
  BY <1>1, <1>8 DEF LoopInv

LEMMA LoopResetKeeps ==
  ASSUME LoopReset
  PROVE  LoopInv'
<1>1. loop' = [phase |-> "idle", round |-> 0, left |-> <<>>, mutated |-> FALSE,
               done |-> <<>>, usage |-> FALSE, asked |-> 0, records |-> <<>>]
  BY DEF LoopReset, Unused, Fresh
<1>2. /\ loop' \in Loop /\ loop'.phase = "idle" /\ loop'.done = <<>> /\ loop'.records = <<>>
  BY <1>1, RoundsAssumption DEF Loop
<1> QED
  BY <1>2 DEF LoopInv, LoopTypeOK, LoopProgress, MutationsComeLast, UsageRecordsAreTrue, Ended

LEMMA StartKeeps ==
  ASSUME Start
  PROVE  LoopInv'
<1>1. /\ loop' \in Loop /\ loop'.phase = "ask" /\ loop'.done = <<>> /\ loop'.records = <<>>
      /\ loop'.round = 0 /\ loop'.asked = 0
  BY RoundsAssumption DEF Start, Fresh, Loop
<1> QED
  BY <1>1, RoundsAssumption
  DEF LoopInv, LoopTypeOK, LoopProgress, MutationsComeLast, UsageRecordsAreTrue, Ended

LEMMA RespondFailsKeeps ==
  ASSUME LoopInv, RespondFails
  PROVE  LoopInv'
<1>1. /\ LoopTypeOK /\ loop.phase = "ask" /\ loop.asked = loop.round /\ loop.round < MaxRounds
      /\ loop.records = <<>>
  BY DEF LoopInv, RespondFails, LoopProgress, UsageRecordsAreTrue, Ended
<1>2. /\ loop.round + 1 \in Nat /\ loop.round + 1 \in 0..MaxRounds /\ loop.usage \in BOOLEAN
      /\ Counted(loop.asked) = loop.round + 1
  BY <1>1, LoopTypes DEF Counted
<1> DEFINE records == Record(loop.round + 1, FALSE, loop.usage)
<1>3. records \in Seq(UsageRecord)
  BY <1>1, <1>2, OneRecord, Zenon
<1>4. loop' = [loop EXCEPT !.phase = "failed", !.asked = loop.round + 1, !.records = records]
  BY <1>2 DEF RespondFails
<1> HIDE DEF records
<1>5. /\ loop' \in Loop /\ loop'.phase = "failed" /\ loop'.asked = loop.round + 1
      /\ loop'.records = records /\ loop'.usage = loop.usage /\ loop'.done = loop.done
  BY <1>1, <1>2, <1>3, <1>4 DEF LoopTypeOK, Loop
<1>6. FALSE = (loop'.phase = "returned")
  BY <1>5
<1>7. \A i, j \in DOMAIN loop'.done :
        i < j /\ IsMutation(loop'.done[i]) => IsMutation(loop'.done[j])
  BY <1>5, Zenon DEF LoopInv, MutationsComeLast
<1> QED
  BY <1>1, <1>2, <1>5, <1>6, <1>7, LoopEnds, Zenon DEF records

LEMMA RespondFinalKeeps ==
  ASSUME LoopInv, NEW usage \in BOOLEAN, RespondFinal(usage)
  PROVE  LoopInv'
<1>1. /\ LoopTypeOK /\ loop.phase = "ask" /\ loop.asked = loop.round /\ loop.round < MaxRounds
      /\ loop.records = <<>>
  BY DEF LoopInv, RespondFinal, LoopProgress, UsageRecordsAreTrue, Ended
<1> DEFINE used == loop.usage \/ usage
<1>2. /\ loop.round + 1 \in Nat /\ loop.round + 1 \in 0..MaxRounds /\ loop.usage \in BOOLEAN
      /\ used \in BOOLEAN
      /\ Counted(loop.asked) = loop.round + 1
  BY <1>1, LoopTypes DEF Counted
<1> DEFINE records == Record(loop.round + 1, TRUE, used)
<1>4. loop' = [loop EXCEPT !.phase = "returned", !.asked = loop.round + 1,
                           !.usage = used, !.records = records]
  BY <1>2, Zenon DEF RespondFinal
<1> HIDE DEF used
<1>3. records \in Seq(UsageRecord)
  BY <1>1, <1>2, OneRecord, Zenon
<1> HIDE DEF records
<1>5. /\ loop' \in Loop /\ loop'.phase = "returned" /\ loop'.asked = loop.round + 1
      /\ loop'.records = records /\ loop'.usage = used /\ loop'.done = loop.done
  BY <1>1, <1>2, <1>3, <1>4 DEF LoopTypeOK, Loop
<1>6. TRUE = (loop'.phase = "returned")
  BY <1>5
<1>7. \A i, j \in DOMAIN loop'.done :
        i < j /\ IsMutation(loop'.done[i]) => IsMutation(loop'.done[j])
  BY <1>5, Zenon DEF LoopInv, MutationsComeLast
<1> QED
  BY <1>1, <1>2, <1>5, <1>6, <1>7, LoopEnds, Zenon DEF records

LEMMA RespondCallsKeeps ==
  ASSUME LoopInv, NEW calls \in Rounds, NEW usage \in BOOLEAN, RespondCalls(calls, usage)
  PROVE  LoopInv'
<1>1. /\ LoopTypeOK /\ loop.phase = "ask" /\ loop.asked = loop.round /\ loop.round < MaxRounds
      /\ loop.records = <<>> /\ \A i \in DOMAIN loop.done : ~IsMutation(loop.done[i])
  BY DEF LoopInv, RespondCalls, LoopProgress, UsageRecordsAreTrue, MutationsComeLast, Ended
<1> DEFINE used == loop.usage \/ usage
<1>2. /\ loop.round + 1 \in Nat /\ loop.round + 1 \in 0..MaxRounds /\ used \in BOOLEAN
      /\ Counted(loop.asked) = loop.round + 1
      /\ calls \in Seq(Calls) /\ calls # <<>>
  BY <1>1, LoopTypes, RoundsAssumption DEF Counted
<1>3. loop' = [loop EXCEPT !.phase = "call", !.asked = loop.round + 1, !.left = calls,
                           !.mutated = FALSE, !.usage = used]
  BY <1>2, Zenon DEF RespondCalls
<1> HIDE DEF used
<1>4. /\ loop' \in Loop /\ loop'.phase = "call" /\ loop'.asked = loop.round + 1
      /\ loop'.left = calls /\ loop'.mutated = FALSE /\ loop'.round = loop.round
      /\ loop'.records = <<>> /\ loop'.done = loop.done
  BY <1>1, <1>2, <1>3 DEF LoopTypeOK, Loop
<1>5. LoopTypeOK' /\ LoopProgress'
  BY <1>1, <1>2, <1>4 DEF LoopTypeOK, LoopProgress
<1>6. MutationsComeLast'
  BY <1>1, <1>4 DEF MutationsComeLast
<1>7. UsageRecordsAreTrue'
  BY <1>4 DEF UsageRecordsAreTrue, Ended
<1> QED
  BY <1>5, <1>6, <1>7 DEF LoopInv

LEMMA RefuseOrderKeeps ==
  ASSUME LoopInv, RefuseOrder
  PROVE  LoopInv'
<1>1. /\ LoopTypeOK /\ loop.phase = "call" /\ loop.records = <<>>
      /\ loop' = [loop EXCEPT !.phase = "failed"]
  BY DEF LoopInv, RefuseOrder, UsageRecordsAreTrue, Ended
<1>2. /\ loop' \in Loop /\ loop'.phase = "failed"
      /\ loop'.records = <<>> /\ loop'.done = loop.done
  BY <1>1 DEF LoopTypeOK, Loop
<1>3. LoopTypeOK' /\ LoopProgress'
  BY <1>2 DEF LoopTypeOK, LoopProgress
<1>4. MutationsComeLast'
  BY <1>2 DEF LoopInv, MutationsComeLast
<1>5. UsageRecordsAreTrue'
  BY <1>2 DEF UsageRecordsAreTrue, Ended
<1> QED
  BY <1>3, <1>4, <1>5 DEF LoopInv

LEMMA CallFailsKeeps ==
  ASSUME LoopInv, CallFails
  PROVE  LoopInv'
<1>1. /\ LoopTypeOK /\ loop.phase = "call" /\ loop.asked = loop.round + 1
      /\ loop.round < MaxRounds /\ loop.records = <<>>
  BY DEF LoopInv, CallFails, LoopProgress, UsageRecordsAreTrue, Ended
<1>2. loop.round \in Nat /\ loop.round + 1 \in Nat /\ loop.usage \in BOOLEAN
  BY <1>1, LoopTypes
<1> DEFINE records == Record(loop.round + 1, FALSE, loop.usage)
<1>3. records \in Seq(UsageRecord)
  BY <1>1, <1>2, OneRecord, Zenon
<1>4. loop' = [loop EXCEPT !.phase = "failed", !.records = records]
  BY DEF CallFails
<1> HIDE DEF records
<1>5. /\ loop' \in Loop /\ loop'.phase = "failed" /\ loop'.asked = loop.round + 1
      /\ loop'.records = records /\ loop'.usage = loop.usage /\ loop'.done = loop.done
  BY <1>1, <1>3, <1>4 DEF LoopTypeOK, Loop
<1>6. FALSE = (loop'.phase = "returned")
  BY <1>5
<1>7. \A i, j \in DOMAIN loop'.done :
        i < j /\ IsMutation(loop'.done[i]) => IsMutation(loop'.done[j])
  BY <1>5, Zenon DEF LoopInv, MutationsComeLast
<1> QED
  BY <1>1, <1>2, <1>5, <1>6, <1>7, LoopEnds, Zenon DEF records

LEMMA CallDoneKeeps ==
  ASSUME LoopInv, CallDone
  PROVE  LoopInv'
<1> DEFINE call == Head(loop.left)
           mutated == loop.mutated \/ IsMutation(call)
           next == [loop EXCEPT !.left = Tail(loop.left), !.done = Append(loop.done, call),
                                !.mutated = mutated]
<1>1. /\ LoopTypeOK /\ loop.phase = "call" /\ loop.asked = loop.round + 1
      /\ loop.round < MaxRounds /\ loop.records = <<>> /\ loop.left # <<>>
      /\ ~loop.mutated => \A i \in DOMAIN loop.done : ~IsMutation(loop.done[i])
      /\ \A i, j \in DOMAIN loop.done :
           i < j /\ IsMutation(loop.done[i]) => IsMutation(loop.done[j])
      /\ ~(loop.mutated /\ ~IsMutation(call))
  BY DEF LoopInv, CallDone, LoopProgress, UsageRecordsAreTrue, MutationsComeLast, Ended, OutOfOrder
<1>2. loop' = IF next.left = <<>> THEN RoundOver(next) ELSE next
  BY Zenon DEF CallDone
<1>3. /\ loop.round \in Nat /\ loop.round + 1 \in 0..MaxRounds /\ loop.usage \in BOOLEAN
      /\ loop.round + 1 \in Nat
      /\ loop.left \in Seq(Calls) /\ loop.done \in Seq(Calls) /\ mutated \in BOOLEAN
      /\ call \in Calls /\ Tail(loop.left) \in Seq(Calls)
      /\ MaxRounds \in Nat
  BY <1>1, LoopTypes
<1> DEFINE done == Append(loop.done, call)
<1>4. /\ done \in Seq(Calls)
      /\ \A i, j \in DOMAIN done : i < j /\ IsMutation(done[i]) => IsMutation(done[j])
      /\ ~mutated => \A i \in DOMAIN done : ~IsMutation(done[i])
  <2>1. /\ done \in Seq(Calls) /\ DOMAIN loop.done = 1..Len(loop.done) /\ Len(loop.done) \in Nat
        /\ DOMAIN done = 1..(Len(loop.done) + 1)
        /\ done[Len(loop.done) + 1] = call
        /\ \A i \in DOMAIN loop.done : done[i] = loop.done[i]
    BY <1>3
  <2> HIDE DEF done
  <2>2. \A i, j \in DOMAIN done : i < j /\ IsMutation(done[i]) => IsMutation(done[j])
    <3> SUFFICES ASSUME NEW i \in DOMAIN done, NEW j \in DOMAIN done, i < j, IsMutation(done[i])
                 PROVE  IsMutation(done[j])
      OBVIOUS
    <3>1. i \in DOMAIN loop.done /\ IsMutation(loop.done[i]) /\ loop.mutated
      BY <1>1, <2>1
    <3> QED BY <1>1, <2>1, <3>1
  <2> QED BY <1>1, <2>1, <2>2
<1>5. /\ next \in Loop /\ next.phase = "call" /\ next.asked = loop.round + 1
      /\ next.round = loop.round /\ next.records = <<>> /\ next.usage = loop.usage
      /\ next.left = Tail(loop.left) /\ next.done = done /\ next.mutated = mutated
  <2> HIDE DEF call, mutated, done
  <2>1. next = [loop EXCEPT !.left = Tail(loop.left), !.done = done, !.mutated = mutated]
    BY DEF done
  <2> HIDE DEF next
  <2> QED BY <1>1, <1>3, <1>4, <2>1 DEF LoopTypeOK, Loop
<1> HIDE DEF call, mutated, done, next
<1> DEFINE failed == [next EXCEPT !.phase = "failed", !.round = MaxRounds,
                                  !.records = Record(MaxRounds, FALSE, loop.usage)]
           returned == [next EXCEPT !.phase = "returned",
                                    !.records = Record(loop.round + 1, TRUE, loop.usage)]
           again == [next EXCEPT !.phase = "ask", !.round = loop.round + 1]
<1>6. \/ next.left # <<>> /\ loop' = next
      \/ mutated /\ loop' = returned
      \/ ~mutated /\ loop.round + 1 = MaxRounds /\ loop' = failed
      \/ ~mutated /\ loop.round + 1 # MaxRounds /\ loop' = again
  BY <1>2, <1>5, Zenon DEF RoundOver
<1>7. /\ Record(MaxRounds, FALSE, loop.usage) \in Seq(UsageRecord)
      /\ Record(loop.round + 1, TRUE, loop.usage) \in Seq(UsageRecord)
  BY <1>1, <1>3, OneRecord, Zenon
<1>8. CASE next.left # <<>> /\ loop' = next
  <2>1. LoopTypeOK' /\ LoopProgress'
    BY <1>1, <1>4, <1>5, <1>8 DEF LoopTypeOK, LoopProgress
  <2>2. MutationsComeLast'
    BY <1>4, <1>5, <1>8 DEF MutationsComeLast
  <2>3. UsageRecordsAreTrue'
    BY <1>5, <1>8 DEF UsageRecordsAreTrue, Ended
  <2> QED BY <2>1, <2>2, <2>3 DEF LoopInv
<1>9. CASE mutated /\ loop' = returned
  <2>1. /\ loop' \in Loop /\ loop'.phase = "returned" /\ loop'.asked = loop.round + 1
        /\ loop'.records = Record(loop.round + 1, TRUE, loop.usage)
        /\ loop'.usage = loop.usage /\ loop'.done = done
    BY <1>5, <1>7, <1>9 DEF Loop
  <2>2. TRUE = (loop'.phase = "returned")
    BY <2>1
  <2> QED BY <1>1, <1>3, <1>4, <2>1, <2>2, LoopEnds, Zenon
<1>10. CASE ~mutated /\ loop.round + 1 = MaxRounds /\ loop' = failed
  <2>1. /\ loop' \in Loop /\ loop'.phase = "failed" /\ loop'.asked = MaxRounds
        /\ loop'.records = Record(MaxRounds, FALSE, loop.usage)
        /\ loop'.usage = loop.usage /\ loop'.done = done
    BY <1>3, <1>5, <1>7, <1>10 DEF Loop
  <2> QED BY <1>1, <1>3, <1>4, <2>1, LoopEnds
<1>11. CASE ~mutated /\ loop.round + 1 # MaxRounds /\ loop' = again
  <2>1. /\ loop' \in Loop /\ loop'.phase = "ask" /\ loop'.asked = loop.round + 1
        /\ loop'.round = loop.round + 1 /\ loop'.records = <<>> /\ loop'.done = done
    BY <1>3, <1>5, <1>11 DEF Loop
  <2>2. LoopTypeOK' /\ LoopProgress'
    BY <1>3, <1>11, <2>1 DEF LoopTypeOK, LoopProgress
  <2>3. MutationsComeLast'
    BY <1>4, <1>11, <2>1 DEF MutationsComeLast
  <2>4. UsageRecordsAreTrue'
    BY <2>1 DEF UsageRecordsAreTrue, Ended
  <2> QED BY <2>2, <2>3, <2>4 DEF LoopInv
<1> QED
  BY <1>6, <1>8, <1>9, <1>10, <1>11

LEMMA LoopUnchanged ==
  ASSUME LoopInv, loop' = loop
  PROVE  LoopInv'
BY DEF LoopInv, LoopTypeOK, LoopProgress, MutationsComeLast, UsageRecordsAreTrue, Ended

----------------------------------------------------------------------------
(* The inductive invariant. *)

\* A delivery that has not had its turn, one that has it, and one whose words
\* are its own: it is being worked on, or its batch is confirmed.
Early(d) == hand[d].phase \in {"unborn", "waiting"}
Working(d) == hand[d].phase \in {"turn", "exporting"}
Holder(d) == Working(d) \/ d \in Confirmed

HandWords(d) == {hand[d].text[i] : i \in DOMAIN hand[d].text}

\* The mutex belongs to the delivery at work, and a reply comes after the work.
HandInv ==
  \A d \in Deliveries :
    /\ hand[d].phase # "unborn" => hand[d].msg \in Messages /\ hand[d].scope \in Scopes
    /\ Early(d) \/ Working(d) => hand[d].reply = "silent"
    /\ Working(d) <=> mu = d

\* Words wait, are worked on, or are carried out, in one place each; what was
\* dropped is in neither of the first two.  All are of deliveries that have had
\* their turn.
WordsInv ==
  /\ \A d \in Deliveries : \A e \in HandWords(d) : ~Early(e)
  /\ \A s \in Scopes : \A e \in Words(pending[s]) : ~Early(e)
  /\ \A e \in dropped : ~Early(e)
  /\ \A d, e \in Deliveries :
       d # e /\ Holder(d) /\ Holder(e) => HandWords(d) \cap HandWords(e) = {}
  /\ \A d \in Deliveries, s \in Scopes :
       Holder(d) => HandWords(d) \cap Words(pending[s]) = {}
  /\ \A s, t \in Scopes : s # t => Words(pending[s]) \cap Words(pending[t]) = {}
  /\ \A d \in Deliveries : Working(d) => HandWords(d) \cap dropped = {}
  /\ \A s \in Scopes : Words(pending[s]) \cap dropped = {}

\* The recorded batches are those of the confirmed deliveries' messages.
BatchInv ==
  /\ \A m \in Sources : db.batches[m] # None =>
       /\ Len(db.batches[m].ids) > 0
       /\ \E e \in Confirmed : hand[e].msg = m
  /\ \A d \in Confirmed : db.batches[hand[d].msg] # None

\* The delivery at work is the last that took its turn.
TurnInv ==
  /\ \A i \in DOMAIN turns : ~Early(turns[i])
  /\ mu # None => turns # <<>> /\ turns[Len(turns)] = mu

IInv == TypeOK /\ LoopInv /\ HandInv /\ WordsInv /\ BatchInv /\ TurnInv /\ QuestionsStayOpen

----------------------------------------------------------------------------
(* Lemmas about one delivery. *)

LEMMA DeliveryFacts ==
  ASSUME TypeOK, NEW d \in Deliveries
  PROVE  /\ hand[d] \in Hand
         /\ hand[d].phase \in Phases /\ hand[d].reply \in Replies
         /\ hand[d].text \in Seq(Deliveries) /\ hand[d].queue \in Seq(Mutation)
         /\ hand[d].prompts \in Nat
         /\ d # None /\ d \in Nat
<1>1. hand[d] \in Hand /\ d # None /\ d \in Nat
  BY MessagesAssumption, BoundsAssumption DEF TypeOK, Deliveries
<1>2. /\ hand[d].phase \in Phases /\ hand[d].reply \in Replies
      /\ hand[d].text \in Seq(Deliveries) /\ hand[d].queue \in Seq(Mutation)
      /\ hand[d].prompts \in Nat
  BY <1>1 DEF Hand
<1> QED
  BY <1>1, <1>2

LEMMA PendingWords ==
  ASSUME TypeOK, NEW s \in Scopes
  PROVE  /\ Words(pending[s]) \subseteq Deliveries
         /\ pending[s] # None => pending[s] \in PendingRequest /\ pending[s].text \in Seq(Deliveries)
<1>1. pending[s] # None => pending[s] \in PendingRequest /\ pending[s].text \in Seq(Deliveries)
  BY DEF TypeOK, PendingRequest
<1> QED
  BY <1>1 DEF Words

\* What the invariant sees of a hand.
Alike(h, g) == h.msg = g.msg /\ h.scope = g.scope /\ h.text = g.text /\ h.reply = g.reply

LEMMA OneHand ==
  ASSUME TypeOK, NEW d \in Deliveries, NEW h \in Hand, hand' = [hand EXCEPT ![d] = h]
  PROVE  /\ hand' \in [Deliveries -> Hand]
         /\ hand'[d] = h
         /\ \A e \in Deliveries : e # d => hand'[e] = hand[e]
BY DEF TypeOK

LEMMA ErrHand ==
  ASSUME NEW h \in Hand, NEW err \in {"plain", "clarify"}, NEW g, g = [h EXCEPT !.err = err]
  PROVE  g \in Hand /\ Alike(h, g) /\ g.phase = h.phase
BY DEF Hand, Alike

LEMMA SaidHand ==
  ASSUME NEW h \in Hand, NEW said \in {"none", "answer", "question", "json"},
         NEW g, g = [h EXCEPT !.said = said]
  PROVE  g \in Hand /\ Alike(h, g) /\ g.phase = h.phase
BY DEF Hand, Alike

LEMMA QueueHand ==
  ASSUME NEW h \in Hand, NEW queue \in Seq(Mutation), NEW g, g = [h EXCEPT !.queue = queue]
  PROVE  g \in Hand /\ Alike(h, g) /\ g.phase = h.phase
BY DEF Hand, Alike

LEMMA PromptHand ==
  ASSUME NEW h \in Hand, NEW prompts \in Nat, NEW g, g = [h EXCEPT !.prompts = prompts]
  PROVE  g \in Hand /\ Alike(h, g) /\ g.phase = h.phase
BY DEF Hand, Alike

LEMMA PhaseHand ==
  ASSUME NEW h \in Hand, NEW phase \in Phases, NEW g, g = [h EXCEPT !.phase = phase]
  PROVE  g \in Hand /\ Alike(h, g) /\ g.phase = phase
BY DEF Hand, Alike

LEMMA ExportedHand ==
  ASSUME NEW h \in Hand, NEW phase \in Phases,
         NEW g, g = [h EXCEPT !.phase = phase, !.exported = TRUE]
  PROVE  g \in Hand /\ Alike(h, g) /\ g.phase = phase
BY DEF Hand, Alike

----------------------------------------------------------------------------
(* Steps that leave every word and every reply where it is. *)

LEMMA QuietStep ==
  ASSUME IInv, TypeOK', LoopInv',
         \A d \in Deliveries :
           /\ Alike(hand[d], hand'[d])
           /\ \/ hand'[d].phase = hand[d].phase
              \/ Working(d) /\ Working(d)'
              \/ Answered(d) /\ Answered(d)',
         UNCHANGED <<db, life, mu, pending, turns, dropped>>
  PROVE  IInv'
<1>1. \A d \in Deliveries : /\ Early(d)' <=> Early(d)
                            /\ Working(d)' <=> Working(d)
                            /\ Answered(d)' <=> Answered(d)
                            /\ hand'[d].phase = "unborn" <=> hand[d].phase = "unborn"
                            /\ HandWords(d)' = HandWords(d)
  <2> TAKE d \in Deliveries
  <2>1. /\ Alike(hand[d], hand'[d])
        /\ \/ hand'[d].phase = hand[d].phase
           \/ Working(d) /\ Working(d)'
           \/ Answered(d) /\ Answered(d)'
    OBVIOUS
  <2> QED BY ONLY <2>1 DEF Early, Working, Answered, HandWords, Alike
<1>2. \A d \in Deliveries : /\ hand'[d].msg = hand[d].msg /\ hand'[d].scope = hand[d].scope
                            /\ hand'[d].text = hand[d].text /\ hand'[d].reply = hand[d].reply
  BY DEF Alike
<1>3. Confirmed' = Confirmed
  BY <1>2 DEF Confirmed
<1>4. \A d \in Deliveries : Holder(d)' <=> Holder(d)
  BY <1>1, <1>3 DEF Holder
<1>5. HandInv'
  BY <1>1, <1>2 DEF IInv, HandInv
<1>6. \A d \in Deliveries : HandWords(d) \subseteq Deliveries
  <2>1. \A d \in Deliveries : hand[d].text \in Seq(Deliveries)
    BY DeliveryFacts DEF IInv
  <2> QED BY <2>1 DEF HandWords
<1>7. \A s \in Scopes : Words(pending[s]) \subseteq Deliveries
  BY PendingWords DEF IInv
<1>8. WordsInv'
  <2>1. dropped \subseteq Deliveries
    BY DEF IInv, TypeOK
  <2>2. \A s \in Scopes : Words(pending[s])' = Words(pending[s])
    BY DEF Words
  <2>3. /\ \A d \in Deliveries : \A e \in HandWords(d)' : ~Early(e)'
        /\ \A s \in Scopes : \A e \in Words(pending[s])' : ~Early(e)'
        /\ \A e \in dropped' : ~Early(e)'
    BY <1>1, <1>6, <1>7, <2>1, <2>2 DEF IInv, WordsInv
  <2>4. /\ \A d, e \in Deliveries :
             d # e /\ Holder(d)' /\ Holder(e)' => HandWords(d)' \cap HandWords(e)' = {}
        /\ \A d \in Deliveries, s \in Scopes :
             Holder(d)' => HandWords(d)' \cap Words(pending[s])' = {}
        /\ \A s, t \in Scopes : s # t => Words(pending[s])' \cap Words(pending[t])' = {}
        /\ \A d \in Deliveries : Working(d)' => HandWords(d)' \cap dropped' = {}
        /\ \A s \in Scopes : Words(pending[s])' \cap dropped' = {}
    BY <1>1, <1>4, <2>2, Zenon DEF IInv, WordsInv
  <2> QED BY <2>3, <2>4, Zenon DEF WordsInv
<1>9. BatchInv'
  <2>1. \A d \in Confirmed : d \in Deliveries
    BY DEF Confirmed
  <2> QED BY <1>2, <1>3, <2>1 DEF IInv, BatchInv
<1>10. \A i \in DOMAIN turns : turns[i] \in Deliveries
  BY DEF IInv, TypeOK
<1>11. TurnInv'
  BY <1>1, <1>10 DEF IInv, TurnInv
<1>12. QuestionsStayOpen'
  <2> SUFFICES ASSUME NEW i \in DOMAIN turns,
                      Answered(turns[i])', hand'[turns[i]].reply = "question", life = 0,
                      \A j \in (i + 1)..Len(turns) : hand'[turns[j]].scope # hand'[turns[i]].scope
               PROVE  /\ pending[hand'[turns[i]].scope] # None
                      /\ pending[hand'[turns[i]].scope].text = hand'[turns[i]].text
    BY DEF QuestionsStayOpen
  <2>1. \A j \in (i + 1)..Len(turns) : j \in DOMAIN turns
    BY DEF IInv, TypeOK
  <2>2. /\ Answered(turns[i]) /\ hand[turns[i]].reply = "question"
        /\ \A j \in (i + 1)..Len(turns) : hand[turns[j]].scope # hand[turns[i]].scope
    BY <1>1, <1>2, <1>10, <2>1
  <2>3. /\ pending[hand[turns[i]].scope] # None
        /\ pending[hand[turns[i]].scope].text = hand[turns[i]].text
    BY <2>2 DEF IInv, QuestionsStayOpen
  <2> QED BY <1>2, <1>10, <2>3
<1> QED
  BY <1>5, <1>8, <1>9, <1>11, <1>12 DEF IInv

\* One delivery moves on within its stage.
LEMMA QuietHand ==
  ASSUME IInv, LoopInv', NEW d \in Deliveries, NEW h \in Hand, hand' = [hand EXCEPT ![d] = h],
         Alike(hand[d], h),
         \/ h.phase = hand[d].phase
         \/ {h.phase, hand[d].phase} \subseteq {"turn", "exporting"}
         \/ {h.phase, hand[d].phase} \subseteq {"deliver", "taken", "done"},
         export' \in Deliveries \cup {None, Torn},
         UNCHANGED <<db, now, life, mu, pending, turns, dropped>>
  PROVE  IInv'
<1>1. TypeOK /\ LoopTypeOK'
  BY DEF IInv, LoopInv
<1>2. /\ hand' \in [Deliveries -> Hand] /\ hand'[d] = h
      /\ \A e \in Deliveries : e # d => hand'[e] = hand[e]
  BY <1>1, OneHand
<1>3. TypeOK'
  BY <1>1, <1>2 DEF TypeOK
<1>4. ASSUME NEW e \in Deliveries
      PROVE  /\ Alike(hand[e], hand'[e])
             /\ \/ hand'[e].phase = hand[e].phase
                \/ Working(e) /\ Working(e)'
                \/ Answered(e) /\ Answered(e)'
  <2>1. CASE e # d
    BY <1>2, <2>1 DEF Alike
  <2>2. CASE e = d
    <3>1. Alike(hand[e], hand'[e])
      BY <1>2, <2>2
    <3>2. \/ hand'[e].phase = hand[e].phase
          \/ {hand'[e].phase, hand[e].phase} \subseteq {"turn", "exporting"}
          \/ {hand'[e].phase, hand[e].phase} \subseteq {"deliver", "taken", "done"}
      BY <1>2, <2>2
    <3> QED BY <3>1, <3>2 DEF Working, Answered
  <2> QED BY <2>1, <2>2
<1> QED
  BY <1>3, <1>4, QuietStep

----------------------------------------------------------------------------
(* The steps of the loop and of the dispatch closure. *)

LEMMA InTurnFacts ==
  ASSUME IInv, NEW d \in Deliveries, mu = d
  PROVE  /\ TypeOK /\ LoopInv /\ hand[d] \in Hand /\ hand[d].queue \in Seq(Mutation)
         /\ hand[d].prompts \in Nat /\ hand[d].scope \in Scopes /\ hand[d].msg \in Messages
         /\ Working(d) /\ export \in Deliveries \cup {None, Torn}
<1>1. Working(d) /\ TypeOK /\ LoopInv
  BY DEF IInv, HandInv
<1>2. hand[d].phase # "unborn"
  BY <1>1 DEF Working
<1>3. hand[d].scope \in Scopes /\ hand[d].msg \in Messages
  BY <1>2 DEF IInv, HandInv
<1> QED
  BY <1>1, <1>3, DeliveryFacts DEF TypeOK

LEMMA LoopFailsStep ==
  ASSUME IInv, NEW d \in Deliveries, LoopFails(d)
  PROVE  IInv'
<1> DEFINE h == [hand[d] EXCEPT !.err = "plain"]
<1>1. LoopInv'
  BY InTurnFacts, RespondFailsKeeps, RefuseOrderKeeps DEF LoopFails, InTurn
<1>2. /\ hand' = [hand EXCEPT ![d] = h] /\ mu = d
      /\ UNCHANGED <<db, now, life, mu, pending, export, turns, dropped>>
  BY DEF LoopFails, OnlyHand, InTurn
<1>3. h \in Hand /\ Alike(hand[d], h) /\ h.phase = hand[d].phase
  BY <1>2, InTurnFacts, ErrHand
<1> HIDE DEF h
<1> QED
  BY <1>1, <1>2, <1>3, InTurnFacts, QuietHand

LEMMA SaidStep ==
  ASSUME IInv, NEW d \in Deliveries, NEW said \in {"none", "answer", "question", "json"},
         Said(d, said)
  PROVE  IInv'
<1> DEFINE h == [hand[d] EXCEPT !.said = said]
<1>1. PICK usage \in BOOLEAN : RespondFinal(usage)
  BY DEF Said
<1>2. /\ hand' = [hand EXCEPT ![d] = h] /\ mu = d
      /\ UNCHANGED <<db, now, life, mu, pending, export, turns, dropped>>
  BY DEF Said, OnlyHand, InTurn
<1>3. h \in Hand /\ Alike(hand[d], h) /\ h.phase = hand[d].phase
  BY <1>2, InTurnFacts, SaidHand
<1> HIDE DEF h
<1>4. LoopInv'
  BY <1>1, RespondFinalKeeps, Zenon DEF IInv
<1> QED
  BY <1>2, <1>3, <1>4, InTurnFacts, QuietHand

LEMMA CalledStep ==
  ASSUME IInv, NEW d \in Deliveries, NEW calls \in Rounds,
         NEW said \in {"none", "answer", "question", "json"}, Called(d, calls, said)
  PROVE  IInv'
<1> DEFINE last == IF \E i \in DOMAIN calls : IsMutation(calls[i]) THEN said ELSE "none"
           h == [hand[d] EXCEPT !.said = last]
<1>1. PICK usage \in BOOLEAN : RespondCalls(calls, usage)
  BY DEF Called
<1>2. /\ hand' = [hand EXCEPT ![d] = h] /\ mu = d
      /\ UNCHANGED <<db, now, life, mu, pending, export, turns, dropped>>
  BY DEF Called, OnlyHand, InTurn
<1>3. last \in {"none", "answer", "question", "json"}
  OBVIOUS
<1> HIDE DEF last
<1>4. h \in Hand /\ Alike(hand[d], h) /\ h.phase = hand[d].phase
  BY <1>2, <1>3, InTurnFacts, SaidHand
<1> HIDE DEF h
<1>5. LoopInv'
  BY <1>1, RespondCallsKeeps, Zenon DEF IInv
<1> QED
  BY <1>2, <1>4, <1>5, InTurnFacts, QuietHand

LEMMA DispatchFailsStep ==
  ASSUME IInv, NEW d \in Deliveries, NEW err \in {"plain", "clarify"}, DispatchFails(d, err)
  PROVE  IInv'
<1> DEFINE h == [hand[d] EXCEPT !.err = err]
<1>1. LoopInv'
  BY InTurnFacts, CallFailsKeeps DEF DispatchFails, InTurn
<1>2. /\ hand' = [hand EXCEPT ![d] = h] /\ mu = d
      /\ UNCHANGED <<db, now, life, mu, pending, export, turns, dropped>>
  BY DEF DispatchFails, OnlyHand, InTurn
<1>3. h \in Hand /\ Alike(hand[d], h) /\ h.phase = hand[d].phase
  BY <1>2, InTurnFacts, ErrHand
<1> HIDE DEF h
<1> QED
  BY <1>1, <1>2, <1>3, InTurnFacts, QuietHand

LEMMA ThisCallFacts ==
  ASSUME IInv, loop.phase = "call"
  PROVE  ThisCall \in Calls
<1>1. loop.left \in Seq(Calls) /\ loop.left # <<>>
  BY LoopTypes DEF IInv, LoopInv, LoopProgress
<1> QED
  BY <1>1 DEF ThisCall

LEMMA QueueMutationStep ==
  ASSUME IInv, NEW d \in Deliveries, QueueMutation(d)
  PROVE  IInv'
<1> DEFINE m == [kind |-> ThisCall.tool, id |-> ThisCall.id, content |-> ThisCall.content]
           queue == Append(hand[d].queue, m)
           h == [hand[d] EXCEPT !.queue = queue]
<1>1. LoopInv'
  BY InTurnFacts, CallDoneKeeps DEF QueueMutation, InTurn
<1>2. /\ mu = d /\ loop.phase = "call" /\ ThisCall.tool \in {"create", "update", "restore"}
      /\ UNCHANGED <<db, now, life, mu, pending, export, turns, dropped>>
  BY DEF QueueMutation, OnlyHand, InTurn, CallDone
<1>3. hand' = [hand EXCEPT ![d] = h]
  BY Zenon DEF QueueMutation, OnlyHand
<1>4. m \in Mutation
  BY <1>2, ThisCallFacts, CallsAssumption
<1> HIDE DEF m
<1>5. queue \in Seq(Mutation)
  BY <1>2, <1>4, InTurnFacts
<1> HIDE DEF queue
<1>6. h \in Hand /\ Alike(hand[d], h) /\ h.phase = hand[d].phase
  BY <1>2, <1>5, InTurnFacts, QueueHand
<1> HIDE DEF h
<1> QED
  BY <1>1, <1>2, <1>3, <1>6, InTurnFacts, QuietHand

LEMMA PreparePromptStep ==
  ASSUME IInv, NEW d \in Deliveries, PreparePrompt(d)
  PROVE  IInv'
<1> DEFINE prompts == hand[d].prompts + 1
           h == [hand[d] EXCEPT !.prompts = prompts]
<1>1. LoopInv'
  BY InTurnFacts, CallDoneKeeps DEF PreparePrompt, InTurn
<1>2. /\ mu = d
      /\ UNCHANGED <<db, now, life, mu, pending, export, turns, dropped>>
  BY DEF PreparePrompt, OnlyHand, InTurn
<1>3. hand' = [hand EXCEPT ![d] = h]
  BY Zenon DEF PreparePrompt, OnlyHand
<1>4. prompts \in Nat
  BY <1>2, InTurnFacts
<1> HIDE DEF prompts
<1>5. h \in Hand /\ Alike(hand[d], h) /\ h.phase = hand[d].phase
  BY <1>2, <1>4, InTurnFacts, PromptHand
<1> HIDE DEF h
<1> QED
  BY <1>1, <1>2, <1>3, <1>5, InTurnFacts, QuietHand

LEMMA ReadStep ==
  ASSUME IInv, NEW d \in Deliveries, Read(d)
  PROVE  IInv'
<1>1. LoopInv'
  BY InTurnFacts, CallDoneKeeps DEF Read, InTurn
<1>2. /\ mu = d /\ hand' = [hand EXCEPT ![d] = hand[d]]
      /\ UNCHANGED <<db, now, life, mu, pending, export, turns, dropped>>
  BY DEF Read, OnlyHand, InTurn
<1>3. Alike(hand[d], hand[d])
  BY DEF Alike
<1> QED
  BY <1>1, <1>2, <1>3, InTurnFacts, QuietHand

LEMMA StoreExportStep ==
  ASSUME IInv, NEW d \in Deliveries, StoreExport(d)
  PROVE  IInv'
<1> DEFINE h == [hand[d] EXCEPT !.phase = "exporting"]
<1>1. /\ mu = d /\ hand[d].phase = "turn" /\ hand' = [hand EXCEPT ![d] = h]
      /\ export' = Torn /\ loop' = loop
      /\ UNCHANGED <<db, now, life, mu, pending, turns, dropped>>
  BY DEF StoreExport, InTurn
<1>2. LoopInv'
  BY <1>1, InTurnFacts, LoopUnchanged
<1>3. h \in Hand /\ Alike(hand[d], h) /\ h.phase = "exporting"
  <2>1. "exporting" \in Phases
    BY DEF Phases
  <2> QED BY <1>1, <2>1, InTurnFacts, PhaseHand
<1> HIDE DEF h
<1> QED
  BY <1>1, <1>2, <1>3, InTurnFacts, QuietHand

LEMMA ExportStoredStep ==
  ASSUME IInv, NEW d \in Deliveries, ExportStored(d)
  PROVE  IInv'
<1> DEFINE h == [hand[d] EXCEPT !.phase = "turn", !.exported = TRUE]
<1>1. /\ mu = d /\ hand[d].phase = "exporting" /\ hand' = [hand EXCEPT ![d] = h]
      /\ export' = d
      /\ UNCHANGED <<db, now, life, mu, pending, turns, dropped>>
  BY DEF ExportStored
<1>2. LoopInv'
  BY <1>1, InTurnFacts, CallDoneKeeps DEF ExportStored
<1>3. h \in Hand /\ Alike(hand[d], h) /\ h.phase = "turn"
  <2>1. "turn" \in Phases
    BY DEF Phases
  <2> QED BY <1>1, <2>1, InTurnFacts, ExportedHand
<1> HIDE DEF h
<1> QED
  BY <1>1, <1>2, <1>3, QuietHand

----------------------------------------------------------------------------
(* The steps of the message handler, after Handle. *)

LEMMA FinishStep ==
  ASSUME IInv, NEW d \in Deliveries, NEW sent \in {"nothing", "message", "button", "file"},
         hand[d].phase \in {"deliver", "taken"}, Finish(d, sent),
         export' \in Deliveries \cup {None, Torn}
  PROVE  IInv'
<1> DEFINE h == [hand[d] EXCEPT !.phase = "done", !.sent = sent]
<1>1. /\ hand' = [hand EXCEPT ![d] = h] /\ loop' = loop
      /\ UNCHANGED <<db, now, life, mu, pending, turns, dropped>>
  BY DEF Finish
<1>2. LoopInv'
  BY <1>1, LoopUnchanged DEF IInv
<1>3. h \in Hand /\ Alike(hand[d], h) /\ h.phase = "done"
  <2>1. "done" \in Phases /\ TypeOK
    BY DEF Phases, IInv
  <2>2. hand[d] \in Hand
    BY <2>1, DeliveryFacts
  <2> QED BY <2>1, <2>2 DEF Hand, Alike
<1> HIDE DEF h
<1> QED
  BY <1>1, <1>2, <1>3, QuietHand

LEMMA DeliverShortStep ==
  ASSUME IInv, NEW d \in Deliveries, DeliverShort(d)
  PROVE  IInv'
<1>1. /\ hand[d].phase \in {"deliver", "taken"}
      /\ export' \in Deliveries \cup {None, Torn}
  BY DEF DeliverShort, IInv, TypeOK
<1>2. PICK sent \in {"nothing", "message", "button", "file"} : Finish(d, sent)
  BY DEF DeliverShort
<1> QED
  BY <1>1, <1>2, FinishStep

LEMMA DeliverStep ==
  ASSUME IInv, NEW d \in Deliveries, Deliver(d)
  PROVE  IInv'
<1>1. /\ hand[d].phase \in {"deliver", "taken"}
      /\ export' \in Deliveries \cup {None, Torn}
  BY DEF Deliver
<1>2. PICK sent \in {"nothing", "message", "button", "file"} : Finish(d, sent)
  BY DEF Deliver
<1> QED
  BY <1>1, <1>2, FinishStep

LEMMA TakeExportStep ==
  ASSUME IInv, NEW d \in Deliveries, TakeExport(d)
  PROVE  IInv'
<1>1. PICK file \in {export} \cup (IF export = Torn THEN {None} ELSE {}) :
        hand' = [hand EXCEPT ![d] = [hand[d] EXCEPT !.phase = "taken", !.file = file]]
  BY DEF TakeExport
<1>2. /\ hand[d].phase = "deliver" /\ loop' = loop
      /\ UNCHANGED <<db, now, life, mu, pending, export, turns, dropped>>
  BY DEF TakeExport
<1>3. LoopInv'
  BY <1>2, LoopUnchanged DEF IInv
<1>4. export \in Deliveries \cup {None, Torn} /\ file \in Deliveries \cup {None, Torn}
  BY <1>1 DEF IInv, TypeOK
<1> DEFINE h == [hand[d] EXCEPT !.phase = "taken", !.file = file]
<1>5. h \in Hand /\ Alike(hand[d], h) /\ h.phase = "taken"
  <2>1. "taken" \in Phases /\ TypeOK
    BY DEF Phases, IInv
  <2>2. hand[d] \in Hand
    BY <2>1, DeliveryFacts
  <2> QED BY <1>4, <2>1, <2>2 DEF Hand, Alike
<1> HIDE DEF h
<1> QED
  BY <1>1, <1>2, <1>3, <1>4, <1>5, QuietHand DEF h

----------------------------------------------------------------------------
(* Handle returns. *)

\* What a return does to the ledger and to the pending request, by its reply.
Returned(d, reply) ==
  \/ reply = "question" /\ Keep(d) /\ UNCHANGED db
  \/ reply \notin {"question", "confirm"} /\ UNCHANGED <<db, pending>>
  \/ /\ reply = "confirm" /\ hand[d].queue # <<>> /\ UNCHANGED pending
     /\ Batch(d).ok /\ db' = Batch(d).db

\* A batch of a message of this delivery is recorded, and no other.
LEMMA BatchFacts ==
  ASSUME IInv, NEW d \in Deliveries, mu = d, Batch(d).ok, db' = Batch(d).db
  PROVE  /\ db' \in Database
         /\ db'.batches[hand[d].msg] # None
         /\ \A m \in Sources : db'.batches[m] # None =>
              \/ db.batches[m] # None /\ db'.batches[m] = db.batches[m]
              \/ m = hand[d].msg /\ Len(db'.batches[m].ids) > 0
         /\ \A m \in Sources : db.batches[m] # None => db'.batches[m] = db.batches[m]
<1> DEFINE r == [scope |-> hand[d].scope, source |-> hand[d].msg, batch |-> hand[d].queue]
           x == ApplyBatch(db, r.scope, r.source, r.batch)
<1>1. /\ TypeOK /\ hand[d].queue \in Seq(Mutation)
      /\ hand[d].scope \in Scopes /\ hand[d].msg \in Messages
  BY InTurnFacts
<1>2. /\ r.scope \in Scopes /\ r.source \in Sources /\ r.batch \in Seq(Mutation)
      /\ r.source = hand[d].msg
      /\ db \in Database /\ db.batches \in [Sources -> BatchRow \cup {None}]
  BY <1>1, MessagesAssumption DEF TypeOK, Database
<1>3. x.ok /\ db' = x.db
  BY DEF Batch
<1> HIDE DEF r
<1>4. /\ x.db \in Database
      /\ x.ok \in BOOLEAN
      /\ \/ x.db = db /\ (x.ok => db.batches[r.source] # None)
         \/ /\ x.ok /\ AcceptedBatch(r.batch) /\ db.batches[r.source] = None
            /\ x.ids \in Seq(Nat) /\ Len(x.ids) = Len(r.batch)
            /\ Extends(db, x.db, x.ids, r)
            /\ x.db.batches = [db.batches EXCEPT ![r.source] =
                                 [scope |-> r.scope, ids |-> x.ids]]
            /\ x.db.batches[r.source] = [scope |-> r.scope, ids |-> x.ids]
            /\ x.db.batches[r.source] # None
  BY <1>2, ApplyBatchFacts
<1> HIDE DEF x
<1>5. CASE db' = db /\ db.batches[r.source] # None
  BY <1>2, <1>5
<1>6. CASE /\ AcceptedBatch(r.batch) /\ db.batches[r.source] = None
           /\ x.ids \in Seq(Nat) /\ Len(x.ids) = Len(r.batch)
           /\ db'.batches = [db.batches EXCEPT ![r.source] = [scope |-> r.scope, ids |-> x.ids]]
           /\ db'.batches[r.source] = [scope |-> r.scope, ids |-> x.ids]
           /\ db'.batches[r.source] # None
  <2>1. Len(r.batch) > 0
    <3>1. AcceptedBatch(r.batch)
      BY <1>6
    <3>2. r.batch # <<>>
      BY <3>1 DEF AcceptedBatch
    <3> QED BY ONLY <1>2, <3>2
  <2>2. db'.batches[r.source].ids = x.ids
    <3>1. [scope |-> r.scope, ids |-> x.ids].ids = x.ids
      OBVIOUS
    <3>2. db'.batches[r.source] = [scope |-> r.scope, ids |-> x.ids]
      BY <1>6
    <3> QED BY ONLY <3>1, <3>2
  <2>3. \A m \in Sources : m # r.source => db'.batches[m] = db.batches[m]
    BY <1>2, <1>6
  <2>4. Len(db'.batches[r.source].ids) > 0
    BY <1>6, <2>1, <2>2
  <2>5. db' \in Database
    BY <1>3, <1>4
  <2> QED BY <1>2, <1>6, <2>3, <2>4, <2>5
<1> QED
  BY <1>3, <1>4, <1>5, <1>6

\* The words of the deliveries, and what is kept, after a return.
LEMMA LeaveWords ==
  ASSUME IInv, NEW d \in Deliveries, mu = d, NEW reply \in Replies,
         hand' \in [Deliveries -> Hand],
         hand'[d].phase = "deliver" /\ hand'[d].reply = reply,
         hand'[d].text = hand[d].text,
         \A e \in Deliveries : e # d => hand'[e] = hand[e],
         \/ reply = "question" /\ Keep(d)
         \/ reply # "question" /\ UNCHANGED pending,
         UNCHANGED dropped
  PROVE  WordsInv'
<1>1. /\ TypeOK /\ WordsInv /\ Working(d) /\ hand[d].scope \in Scopes
  BY InTurnFacts DEF IInv
<1>2. \A e \in Deliveries : /\ HandWords(e)' = HandWords(e)
                            /\ Early(e)' <=> Early(e)
  BY <1>1 DEF HandWords, Early, Working
<1>3. \A e \in Deliveries : /\ Holder(e)' => Holder(e)
                            /\ Working(e)' => Working(e)
                            /\ reply # "confirm" => ~ Holder(d)'
  BY <1>1 DEF Holder, Working, Confirmed
<1>4. HandWords(d) \subseteq Deliveries
  BY <1>1, DeliveryFacts DEF HandWords
<1>5. Holder(d)
  BY <1>1 DEF Holder
<1> DEFINE kept == reply = "question"
           s == hand[d].scope
<1>6. \A t \in Scopes : Words(pending[t])' = IF kept /\ t = s THEN HandWords(d)
                                             ELSE Words(pending[t])
  <2>1. CASE reply # "question"
    BY <2>1 DEF Words
  <2>2. CASE reply = "question"
    <3> DEFINE p == [text |-> hand[d].text, expires |-> now + TTL]
    <3>1. pending' = [pending EXCEPT ![s] = p] /\ pending \in [Scopes -> PendingRequest \cup {None}]
      BY <1>1, <2>2 DEF Keep, TypeOK
    <3>2. p \in PendingRequest /\ p.text = hand[d].text
      BY <1>1, DeliveryFacts, BoundsAssumption DEF PendingRequest, TypeOK
    <3> HIDE DEF p, s
    <3>3. p # None
      BY <3>2, NothingAssumption
    <3>4. Words(p) = HandWords(d)
      BY <3>2, <3>3 DEF Words, HandWords
    <3>5. \A t \in Scopes : pending'[t] = IF t = s THEN p ELSE pending[t]
      BY <3>1
    <3>6. \A t \in Scopes : Words(pending[t])' = Words(pending'[t])
      BY DEF Words
    <3> QED BY <2>2, <3>4, <3>5, <3>6, Zenon
  <2> QED BY <2>1, <2>2
<1> HIDE DEF kept, s
<1>7. kept => ~ Holder(d)'
  BY <1>3 DEF kept
<1>8. \A t \in Scopes : Words(pending[t]) \subseteq Deliveries
  BY <1>1, PendingWords
<1>9. dropped \subseteq Deliveries
  BY <1>1 DEF TypeOK
<1>10. /\ \A e \in Deliveries : \A f \in HandWords(e)' : ~Early(f)'
       /\ \A t \in Scopes : \A f \in Words(pending[t])' : ~Early(f)'
       /\ \A f \in dropped' : ~Early(f)'
  <2>1. \A e \in Deliveries : HandWords(e) \subseteq Deliveries
    BY <1>1, DeliveryFacts DEF HandWords
  <2> QED BY <1>1, <1>2, <1>6, <1>8, <1>9, <2>1 DEF WordsInv
<1>11. \A e, f \in Deliveries :
         e # f /\ Holder(e)' /\ Holder(f)' => HandWords(e)' \cap HandWords(f)' = {}
  BY <1>1, <1>2, <1>3, Zenon DEF WordsInv
<1>12. \A e \in Deliveries, t \in Scopes :
         Holder(e)' => HandWords(e)' \cap Words(pending[t])' = {}
  <2> SUFFICES ASSUME NEW e \in Deliveries, NEW t \in Scopes, Holder(e)'
               PROVE  HandWords(e) \cap Words(pending[t])' = {}
    BY <1>2, Zenon
  <2>1. Holder(e) /\ (kept => e # d)
    BY <1>3, <1>7, Zenon
  <2>2. CASE kept /\ t = s
    BY <1>1, <1>5, <1>6, <2>1, <2>2, Zenon DEF WordsInv
  <2>3. CASE ~ (kept /\ t = s)
    BY <1>1, <1>6, <2>1, <2>3, Zenon DEF WordsInv
  <2> QED BY <2>2, <2>3
<1>13. \A t, u \in Scopes : t # u => Words(pending[t])' \cap Words(pending[u])' = {}
  <2> SUFFICES ASSUME NEW t \in Scopes, NEW u \in Scopes, t # u
               PROVE  Words(pending[t])' \cap Words(pending[u])' = {}
    OBVIOUS
  <2>1. /\ Words(pending[t]) \cap Words(pending[u]) = {}
        /\ HandWords(d) \cap Words(pending[t]) = {}
        /\ HandWords(d) \cap Words(pending[u]) = {}
    BY <1>1, <1>5, Zenon DEF WordsInv
  <2>2. CASE kept /\ t = s
    <3>1. Words(pending[t])' = HandWords(d) /\ Words(pending[u])' = Words(pending[u])
      BY <1>6, <2>2, Zenon
    <3> QED BY <2>1, <3>1, Zenon
  <2>3. CASE kept /\ u = s
    <3>1. Words(pending[u])' = HandWords(d) /\ Words(pending[t])' = Words(pending[t])
      BY <1>6, <2>3, Zenon
    <3> QED BY <2>1, <3>1
  <2>4. CASE ~ (kept /\ t = s) /\ ~ (kept /\ u = s)
    <3>1. Words(pending[u])' = Words(pending[u]) /\ Words(pending[t])' = Words(pending[t])
      BY <1>6, <2>4, Zenon
    <3> QED BY <2>1, <3>1, Zenon
  <2> QED BY <2>2, <2>3, <2>4
<1>14. \A e \in Deliveries : Working(e)' => HandWords(e)' \cap dropped' = {}
  BY <1>1, <1>2, <1>3, Zenon DEF WordsInv
<1>15. \A t \in Scopes : Words(pending[t])' \cap dropped' = {}
  <2>1. HandWords(d) \cap dropped = {}
    BY <1>1 DEF WordsInv
  <2>2. \A t \in Scopes : Words(pending[t]) \cap dropped = {}
    BY <1>1, Zenon DEF WordsInv
  <2> QED BY <1>6, <2>1, <2>2, Zenon
<1> QED
  BY <1>10, <1>11, <1>12, <1>13, <1>14, <1>15, Zenon DEF WordsInv

LEMMA LeaveStep ==
  ASSUME IInv, NEW d \in Deliveries, mu = d, NEW reply \in Replies, Leave(d, reply),
         Returned(d, reply)
  PROVE  IInv'
<1> DEFINE h == [hand[d] EXCEPT !.phase = "deliver", !.reply = reply, !.queue = <<>>,
                                !.said = "none", !.err = "plain"]
           s == hand[d].scope
<1>1. /\ TypeOK /\ hand[d] \in Hand /\ Working(d) /\ s \in Scopes /\ hand[d].msg \in Messages
      /\ hand[d].text \in Seq(Deliveries) /\ d # None
  BY InTurnFacts, DeliveryFacts
<1>2. /\ hand' = [hand EXCEPT ![d] = h] /\ LoopReset /\ mu' = None
      /\ UNCHANGED <<now, life, export, turns, dropped>>
  BY DEF Leave
<1>3. /\ h \in Hand /\ h.phase = "deliver" /\ h.reply = reply
      /\ h.msg = hand[d].msg /\ h.scope = hand[d].scope /\ h.text = hand[d].text
  <2> DEFINE half == [hand[d] EXCEPT !.phase = "deliver", !.reply = reply]
  <2>1. /\ half \in Hand /\ half.phase = "deliver" /\ half.reply = reply
        /\ half.msg = hand[d].msg /\ half.scope = hand[d].scope /\ half.text = hand[d].text
    BY <1>1 DEF Hand, Phases
  <2> DEFINE most == [half EXCEPT !.queue = <<>>]
  <2> HIDE DEF half
  <2>2. Alike(half, most) /\ most \in Hand /\ most.phase = half.phase
    <3>1. <<>> \in Seq(Mutation)
      OBVIOUS
    <3> QED BY <2>1, <3>1, QueueHand
  <2>3. h = [most EXCEPT !.said = "none", !.err = "plain"]
    BY DEF half
  <2> HIDE DEF most, h
  <2>4. h \in Hand /\ Alike(most, h) /\ h.phase = most.phase
    BY <2>2, <2>3 DEF Hand, Alike
  <2> QED BY <2>1, <2>2, <2>4 DEF Alike
<1> HIDE DEF h
<1>4. /\ hand' \in [Deliveries -> Hand] /\ hand'[d] = h
      /\ \A e \in Deliveries : e # d => hand'[e] = hand[e]
  BY <1>1, <1>2, <1>3, OneHand
<1>5. LoopInv' /\ LoopTypeOK'
  BY <1>2, LoopResetKeeps DEF LoopInv
<1>7. /\ db' \in Database
      /\ \A m \in Sources : db'.batches[m] # None =>
           \/ db.batches[m] # None /\ db'.batches[m] = db.batches[m]
           \/ reply = "confirm" /\ m = hand[d].msg /\ Len(db'.batches[m].ids) > 0
      /\ \A m \in Sources : db.batches[m] # None => db'.batches[m] = db.batches[m]
      /\ reply = "confirm" => db'.batches[hand[d].msg] # None
  <2>1. CASE reply # "confirm"
    BY <1>1, <2>1 DEF Returned, TypeOK
  <2>2. CASE reply = "confirm"
    <3>1. Batch(d).ok /\ db' = Batch(d).db
      BY <2>2 DEF Returned
    <3> QED BY <2>2, <3>1, BatchFacts
  <2> QED BY <2>1, <2>2
<1>8. \/ reply = "question" /\ Keep(d)
      \/ reply # "question" /\ UNCHANGED pending
  BY DEF Returned
<1>9. pending' \in [Scopes -> PendingRequest \cup {None}]
  <2>1. pending \in [Scopes -> PendingRequest \cup {None}]
    BY <1>1 DEF TypeOK
  <2>2. [text |-> hand[d].text, expires |-> now + TTL] \in PendingRequest
    BY <1>1, BoundsAssumption DEF PendingRequest, TypeOK
  <2> QED BY <1>8, <2>1, <2>2 DEF Keep
<1>10. TypeOK'
  BY <1>1, <1>2, <1>4, <1>5, <1>7, <1>9 DEF TypeOK
<1>11. WordsInv'
  BY <1>2, <1>3, <1>4, <1>8, LeaveWords
<1>12. HandInv'
  <2>1. \A e \in Deliveries : Working(e) <=> mu = e
    BY DEF IInv, HandInv
  <2> SUFFICES ASSUME NEW e \in Deliveries
               PROVE  /\ hand'[e].phase # "unborn" => hand'[e].msg \in Messages /\ hand'[e].scope \in Scopes
                      /\ Early(e)' \/ Working(e)' => hand'[e].reply = "silent"
                      /\ Working(e)' <=> mu' = e
    BY DEF HandInv
  <2>2. CASE e = d
    BY <1>1, <1>2, <1>3, <1>4, <2>2 DEF Early, Working
  <2>3. CASE e # d
    <3>1. hand'[e] = hand[e] /\ e # None
      BY <1>1, <1>4, <2>3, DeliveryFacts
    <3>2. ~ Working(e) /\ mu' # e
      BY <1>2, <2>1, <2>3, <3>1
    <3> QED BY <3>1, <3>2 DEF IInv, HandInv, Early, Working
  <2> QED BY <2>2, <2>3
<1>13. /\ \A e \in Confirmed : e \in Confirmed' /\ hand'[e].msg = hand[e].msg
       /\ \A e \in Confirmed' : hand'[e].msg = hand[e].msg
                                 /\ (e \in Confirmed \/ (e = d /\ reply = "confirm"))
       /\ reply = "confirm" => d \in Confirmed'
  <2>1. hand[d].reply = "silent"
    BY <1>1 DEF IInv, HandInv
  <2>2. d \notin Confirmed
    BY <2>1 DEF Confirmed
  <2>3. /\ hand'[d].msg = hand[d].msg /\ hand'[d].reply = reply
        /\ \A e \in Deliveries : hand'[e].msg = hand[e].msg /\ (e # d => hand'[e] = hand[e])
    BY <1>3, <1>4
  <2>4. \A e : e \in Confirmed' <=> e \in Deliveries /\ hand'[e].reply = "confirm"
    BY DEF Confirmed
  <2>5. \A e : e \in Confirmed <=> e \in Deliveries /\ hand[e].reply = "confirm"
    BY DEF Confirmed
  <2> QED BY <2>2, <2>3, <2>4, <2>5
<1>14. BatchInv'
  <2>1. \A m \in Sources : db'.batches[m] # None =>
          /\ Len(db'.batches[m].ids) > 0
          /\ \E e \in Confirmed' : hand'[e].msg = m
    <3> SUFFICES ASSUME NEW m \in Sources, db'.batches[m] # None
                 PROVE  /\ Len(db'.batches[m].ids) > 0
                        /\ \E e \in Confirmed' : hand'[e].msg = m
      OBVIOUS
    <3>1. CASE db.batches[m] # None /\ db'.batches[m] = db.batches[m]
      <4>1. /\ Len(db.batches[m].ids) > 0
            /\ \E e \in Confirmed : hand[e].msg = m
        BY <3>1 DEF IInv, BatchInv
      <4> QED BY <1>13, <3>1, <4>1
    <3>2. CASE reply = "confirm" /\ m = hand[d].msg /\ Len(db'.batches[m].ids) > 0
      BY <1>3, <1>4, <1>13, <3>2
    <3> QED BY <1>7, <3>1, <3>2
  <2>2. \A e \in Confirmed' : db'.batches[hand'[e].msg] # None
    <3> SUFFICES ASSUME NEW e \in Confirmed' PROVE db'.batches[hand[e].msg] # None
      BY <1>13
    <3>1. CASE e \in Confirmed
      <4>1. db.batches[hand[e].msg] # None
        BY <3>1 DEF IInv, BatchInv
      <4>2. hand[e].msg \in Sources
        <5>1. e \in Deliveries /\ hand[e].reply = "confirm"
          BY <3>1 DEF Confirmed
        <5>2. hand[e].phase # "unborn"
          BY <5>1 DEF IInv, HandInv, Early
        <5> QED BY <5>1, <5>2, MessagesAssumption DEF IInv, HandInv
      <4> QED BY <1>7, <4>1, <4>2
    <3>2. CASE e = d /\ reply = "confirm"
      BY <1>7, <3>2
    <3> QED BY <1>13, <3>1, <3>2
  <2> QED BY <2>1, <2>2 DEF BatchInv
<1>15. \A i \in DOMAIN turns : turns[i] \in Deliveries
  BY <1>1 DEF TypeOK
<1>16. TurnInv'
  <2>1. \A e \in Deliveries : Early(e)' => Early(e)
    BY <1>1, <1>3, <1>4 DEF Early
  <2> QED BY <1>2, <1>15, <2>1 DEF IInv, TurnInv
<1>17. QuestionsStayOpen'
  <2> SUFFICES ASSUME NEW i \in DOMAIN turns,
                      Answered(turns[i])', hand'[turns[i]].reply = "question", life = 0,
                      \A j \in (i + 1)..Len(turns) : hand'[turns[j]].scope # hand'[turns[i]].scope
               PROVE  /\ pending'[hand'[turns[i]].scope] # None
                      /\ pending'[hand'[turns[i]].scope].text = hand'[turns[i]].text
    BY <1>2, ZenonT(40) DEF QuestionsStayOpen
  <2>1. \A e \in Deliveries : hand'[e].scope = hand[e].scope /\ hand'[e].text = hand[e].text
    BY <1>3, <1>4
  <2>2. /\ turns \in Seq(Deliveries) /\ Len(turns) \in Nat /\ DOMAIN turns = 1..Len(turns)
        /\ turns # <<>> /\ turns[Len(turns)] = d
    BY <1>1 DEF IInv, TypeOK, TurnInv
  <2>3. \A j \in (i + 1)..Len(turns) : hand[turns[j]].scope # hand[turns[i]].scope
    BY <1>15, <2>1, <2>2
  <2>4. CASE turns[i] = d
    <3> DEFINE p == [text |-> hand[d].text, expires |-> now + TTL]
    <3>1. reply = "question"
      BY <1>3, <1>4, <2>4
    <3>2. pending' = [pending EXCEPT ![s] = p] /\ pending \in [Scopes -> PendingRequest \cup {None}]
      BY <1>1, <1>8, <3>1 DEF Keep, TypeOK
    <3>3. p \in PendingRequest /\ p.text = hand[d].text
      BY <1>1, BoundsAssumption DEF PendingRequest, TypeOK
    <3> HIDE DEF p
    <3>4. pending'[s] = p /\ p # None
      BY <1>1, <3>2, <3>3, NothingAssumption
    <3> QED BY <2>1, <2>4, <3>3, <3>4
  <2>5. CASE turns[i] # d
    <3>1. hand[turns[i]].scope # s
      BY <2>2, <2>3, <2>5
    <3>2. hand'[turns[i]] = hand[turns[i]]
      BY <1>4, <1>15, <2>5
    <3>3. Answered(turns[i]) /\ hand[turns[i]].reply = "question"
      BY <1>2, <3>2 DEF Answered
    <3>4. /\ pending[hand[turns[i]].scope] # None
          /\ pending[hand[turns[i]].scope].text = hand[turns[i]].text
      BY <2>3, <3>3 DEF IInv, QuestionsStayOpen
    <3>5. hand[turns[i]].scope \in Scopes
      BY <1>15, <3>3 DEF Answered, IInv, HandInv
    <3>6. pending'[hand[turns[i]].scope] = pending[hand[turns[i]].scope]
      BY <1>1, <1>8, <3>1, <3>5 DEF Keep, TypeOK
    <3> QED BY <3>2, <3>4, <3>6
  <2> QED BY <2>4, <2>5
<1> QED
  BY <1>5, <1>10, <1>11, <1>12, <1>14, <1>16, <1>17 DEF IInv

LEMMA EndFailedStep ==
  ASSUME IInv, NEW d \in Deliveries, EndFailed(d)
  PROVE  IInv'
<1>1. PICK reply \in {"question", "error"} : Leave(d, reply) /\ Returned(d, reply)
  BY DEF EndFailed, Returned
<1>2. mu = d /\ reply \in Replies
  BY DEF EndFailed, InTurn, Replies
<1> QED
  BY <1>1, <1>2, LeaveStep

LEMMA EndMutationsStep ==
  ASSUME IInv, NEW d \in Deliveries, EndMutations(d)
  PROVE  IInv'
<1>1. PICK reply \in {"confirm", "question", "error"} : Leave(d, reply) /\ Returned(d, reply)
  BY DEF EndMutations, Returned
<1>2. mu = d /\ reply \in Replies
  BY DEF EndMutations, InTurn, Replies
<1> QED
  BY <1>1, <1>2, LeaveStep

LEMMA EndTextStep ==
  ASSUME IInv, NEW d \in Deliveries, EndText(d)
  PROVE  IInv'
<1>1. PICK reply \in {"silent", "prompts", "question", "text", "error"} :
        Leave(d, reply) /\ Returned(d, reply)
  BY DEF EndText, Returned
<1>2. mu = d /\ reply \in Replies
  BY DEF EndText, InTurn, Replies
<1> QED
  BY <1>1, <1>2, LeaveStep

----------------------------------------------------------------------------
(* A delivery takes its turn. *)

\* What the three ways of taking a turn have in common: the pending request
\* of the identity goes, its words are dropped or become those of the turn.
Taken(d, more) ==
  /\ hand' \in [Deliveries -> Hand]
  /\ hand'[d].msg = hand[d].msg /\ hand'[d].scope = hand[d].scope
  /\ \A e \in Deliveries : e # d => hand'[e] = hand[e]
  /\ pending' = [pending EXCEPT ![hand[d].scope] = None]
  /\ \/ /\ hand'[d].phase = "deliver" /\ hand'[d].reply \in {"cancelled", "expired"}
        /\ hand'[d].text = hand[d].text
        /\ dropped' = dropped \cup Words(Waiting(d)) \cup more
        /\ mu' = None
     \/ /\ hand'[d].phase = "turn" /\ hand'[d].reply = "silent"
        /\ HandWords(d)' = Words(Waiting(d)) \cup {d}
        /\ dropped' = dropped
        /\ mu' = d

LEMMA LockFacts ==
  ASSUME IInv, NEW d \in Deliveries, Lock(d)
  PROVE  /\ TypeOK /\ hand[d] \in Hand /\ hand[d].text \in Seq(Deliveries)
         /\ Early(d) /\ hand[d].phase = "waiting" /\ hand[d].reply = "silent"
         /\ hand[d].scope \in Scopes /\ hand[d].msg \in Messages
         /\ mu = None /\ turns' = Append(turns, d)
         /\ \A e \in Deliveries : ~ Working(e) /\ e # None
<1>1. /\ hand[d].phase = "waiting" /\ mu = None /\ turns' = Append(turns, d) /\ TypeOK
  BY DEF Lock, IInv
<1>2. Early(d) /\ hand[d].phase # "unborn"
  BY <1>1 DEF Early
<1>3. hand[d].reply = "silent" /\ hand[d].scope \in Scopes /\ hand[d].msg \in Messages
  BY <1>2 DEF IInv, HandInv
<1>4. \A e \in Deliveries : e # None
  BY <1>1, DeliveryFacts
<1>5. \A e \in Deliveries : ~ Working(e)
  BY <1>1, <1>4 DEF IInv, HandInv
<1> QED
  BY <1>1, <1>2, <1>3, <1>4, <1>5, DeliveryFacts

LEMMA TakenWords ==
  ASSUME IInv, NEW d \in Deliveries, NEW more \in SUBSET {d}, Lock(d), Taken(d, more)
  PROVE  WordsInv'
<1> DEFINE s == hand[d].scope
           W == Words(pending[s])
<1>1. /\ TypeOK /\ WordsInv /\ Early(d) /\ s \in Scopes
      /\ \A e \in Deliveries : ~ Working(e)
      /\ ~ Holder(d)
  BY LockFacts DEF IInv, Holder, Confirmed
<1>2. \A e \in Deliveries : /\ e # d => HandWords(e)' = HandWords(e)
                            /\ Early(e)' <=> Early(e) /\ e # d
                            /\ e # d => (Holder(e)' <=> Holder(e))
                            /\ e # d => ~ Working(e)'
  <2>1. \A e \in Deliveries : e # d => hand'[e] = hand[e]
    BY DEF Taken
  <2>2. \A e \in Deliveries : e # d => /\ HandWords(e)' = HandWords(e)
                                       /\ Early(e)' <=> Early(e)
                                       /\ Holder(e)' <=> Holder(e)
                                       /\ Working(e)' <=> Working(e)
    BY <2>1 DEF HandWords, Early, Holder, Working, Confirmed
  <2>3. ~ Early(d)'
    BY DEF Taken, Early
  <2> QED BY <1>1, <2>2, <2>3
<1>3. \A t \in Scopes : Words(pending[t])' = IF t = s THEN {} ELSE Words(pending[t])
  <2>1. \A t \in Scopes : pending'[t] = IF t = s THEN None ELSE pending[t]
    BY <1>1 DEF Taken, TypeOK
  <2>2. \A t \in Scopes : Words(pending[t])' = Words(pending'[t])
    BY DEF Words
  <2>3. Words(None) = {}
    BY DEF Words
  <2> HIDE DEF s
  <2> QED BY <2>1, <2>2, <2>3
<1>4. /\ W \subseteq Deliveries /\ \A e \in W : ~ Early(e)
      /\ \A t \in Scopes : t # s => Words(pending[t]) \cap W = {}
      /\ \A e \in Deliveries : Holder(e) => HandWords(e) \cap W = {}
      /\ W \cap dropped = {}
  BY <1>1, PendingWords DEF WordsInv
<1>5. /\ \A t \in Scopes : d \notin Words(pending[t])
      /\ \A e \in Deliveries : d \notin HandWords(e)
      /\ d \notin dropped
  BY <1>1 DEF WordsInv
<1>6. \/ ~ Holder(d)' /\ ~ Working(d)' /\ HandWords(d)' = HandWords(d)
         /\ dropped' = dropped \cup W \cup more
      \/ HandWords(d)' = W \cup {d} /\ dropped' = dropped
  <2>1. CASE hand'[d].phase = "turn"
    BY <2>1 DEF Taken, Waiting
  <2>2. CASE hand'[d].phase # "turn"
    <3>1. /\ hand'[d].phase = "deliver" /\ hand'[d].reply # "confirm"
          /\ hand'[d].text = hand[d].text
          /\ dropped' = dropped \cup Words(Waiting(d)) \cup more
      BY <2>2 DEF Taken
    <3>2. ~ Holder(d)' /\ ~ Working(d)'
      BY <3>1 DEF Holder, Working, Confirmed
    <3>3. HandWords(d)' = HandWords(d)
      BY <3>1 DEF HandWords
    <3> QED BY <3>1, <3>2, <3>3 DEF Waiting
  <2> QED BY <2>1, <2>2
<1> HIDE DEF s, W
<1>7. /\ \A e \in Deliveries : HandWords(e) \subseteq Deliveries
      /\ \A t \in Scopes : Words(pending[t]) \subseteq Deliveries
      /\ dropped \subseteq Deliveries
  <2>1. \A e \in Deliveries : HandWords(e) \subseteq Deliveries
    BY <1>1, DeliveryFacts DEF HandWords
  <2>2. dropped \subseteq Deliveries
    BY <1>1 DEF TypeOK
  <2> QED BY <1>1, <2>1, <2>2, PendingWords
<1>8. \A e \in Deliveries : \A f \in HandWords(e)' : ~Early(f)'
  <2> SUFFICES ASSUME NEW e \in Deliveries, NEW f \in HandWords(e)' PROVE ~Early(f)'
    OBVIOUS
  <2>1. CASE e # d
    BY <1>1, <1>2, <1>7, <2>1 DEF WordsInv
  <2>2. CASE e = d
    BY <1>1, <1>2, <1>4, <1>6, <1>7, <2>2 DEF WordsInv
  <2> QED BY <2>1, <2>2
<1>9. \A t \in Scopes : \A f \in Words(pending[t])' : ~Early(f)'
  BY <1>1, <1>2, <1>3, <1>7 DEF WordsInv
<1>10. \A f \in dropped' : ~Early(f)'
  <2>1. \A f \in dropped' : f = d \/ f \in W \/ f \in dropped
    BY <1>6
  <2>2. \A f \in dropped : ~ Early(f) /\ f \in Deliveries
    BY <1>1, <1>7 DEF WordsInv
  <2> QED BY <1>2, <1>4, <2>1, <2>2
<1>11. \A e, f \in Deliveries :
         e # f /\ Holder(e)' /\ Holder(f)' => HandWords(e)' \cap HandWords(f)' = {}
  <2>1. ASSUME NEW e \in Deliveries, NEW f \in Deliveries, e # f, e # d, f # d,
               Holder(e)', Holder(f)'
        PROVE  HandWords(e)' \cap HandWords(f)' = {}
    BY <1>1, <1>2, <2>1, Zenon DEF WordsInv
  <2>2. ASSUME NEW e \in Deliveries, e # d, Holder(e)', Holder(d)'
        PROVE  HandWords(e)' \cap HandWords(d)' = {}
    BY <1>2, <1>4, <1>5, <1>6, <2>2
  <2>3. ASSUME NEW e \in Deliveries, e # d, Holder(e)', Holder(d)'
        PROVE  HandWords(d)' \cap HandWords(e)' = {}
    BY <2>2, <2>3
  <2> QED BY <2>1, <2>2, <2>3
<1>12. \A e \in Deliveries, t \in Scopes :
         Holder(e)' => HandWords(e)' \cap Words(pending[t])' = {}
  <2> SUFFICES ASSUME NEW e \in Deliveries, NEW t \in Scopes, Holder(e)', t # s
               PROVE  HandWords(e)' \cap Words(pending[t]) = {}
    BY <1>3
  <2>1. CASE e # d
    BY <1>1, <1>2, <2>1, Zenon DEF WordsInv
  <2>2. CASE e = d
    <3>1. HandWords(d)' = W \cup {d}
      BY <1>6, <2>2
    <3> QED BY <1>4, <1>5, <2>2, <3>1
  <2> QED BY <2>1, <2>2
<1>13. \A t, u \in Scopes : t # u => Words(pending[t])' \cap Words(pending[u])' = {}
  <2>1. \A t, u \in Scopes : t # u => Words(pending[t]) \cap Words(pending[u]) = {}
    BY <1>1 DEF WordsInv
  <2> QED BY <1>3, <2>1
<1>14. \A e \in Deliveries : Working(e)' => HandWords(e)' \cap dropped' = {}
  <2> SUFFICES ASSUME Working(d)' PROVE HandWords(d)' \cap dropped' = {}
    BY <1>2
  <2>1. HandWords(d)' = W \cup {d} /\ dropped' = dropped
    BY <1>6
  <2> QED BY <1>4, <1>5, <2>1
<1>15. \A t \in Scopes : Words(pending[t])' \cap dropped' = {}
  <2> SUFFICES ASSUME NEW t \in Scopes, t # s PROVE Words(pending[t]) \cap dropped' = {}
    BY <1>3
  <2>1. Words(pending[t]) \cap dropped = {}
    BY <1>1 DEF WordsInv
  <2>2. \A f \in dropped' : f = d \/ f \in W \/ f \in dropped
    BY <1>6
  <2> QED BY <1>4, <1>5, <2>1, <2>2
<1> QED
  BY <1>8, <1>9, <1>10, <1>11, <1>12, <1>13, <1>14, <1>15, Zenon DEF WordsInv

LEMMA TakenStep ==
  ASSUME IInv, NEW d \in Deliveries, NEW more \in SUBSET {d}, Lock(d), Taken(d, more),
         LoopInv', UNCHANGED <<db, now, life, export>>
  PROVE  IInv'
<1> DEFINE s == hand[d].scope
<1>1. /\ TypeOK /\ Early(d) /\ hand[d].phase = "waiting" /\ hand[d].reply = "silent"
      /\ s \in Scopes /\ hand[d].msg \in Messages
      /\ mu = None /\ turns' = Append(turns, d)
      /\ \A e \in Deliveries : ~ Working(e) /\ e # None
  BY LockFacts
<1>2. /\ hand' \in [Deliveries -> Hand]
      /\ hand'[d].msg = hand[d].msg /\ hand'[d].scope = s
      /\ \A e \in Deliveries : e # d => hand'[e] = hand[e]
      /\ pending' = [pending EXCEPT ![s] = None]
      /\ hand'[d].phase \in {"deliver", "turn"} /\ hand'[d].reply \in {"cancelled", "expired", "silent"}
      /\ hand'[d].phase = "turn" => hand'[d].reply = "silent"
      /\ IF hand'[d].phase = "turn" THEN mu' = d ELSE mu' = None
  BY DEF Taken
<1>3. WordsInv'
  BY TakenWords
<1>4. turns \in Seq(Deliveries) /\ turns' \in Seq(Deliveries)
  BY <1>1 DEF TypeOK
<1>5. dropped' \subseteq Deliveries
  <2>1. Words(pending[s]) \subseteq Deliveries /\ dropped \subseteq Deliveries
    BY <1>1, PendingWords DEF TypeOK
  <2>2. dropped' \subseteq dropped \cup Words(pending[s]) \cup {d}
    BY DEF Taken, Waiting
  <2> QED BY <2>1, <2>2
<1>6. TypeOK'
  BY <1>1, <1>2, <1>4, <1>5 DEF TypeOK, LoopInv
<1>7. HandInv'
  <2> SUFFICES ASSUME NEW e \in Deliveries
               PROVE  /\ hand'[e].phase # "unborn" => hand'[e].msg \in Messages /\ hand'[e].scope \in Scopes
                      /\ Early(e)' \/ Working(e)' => hand'[e].reply = "silent"
                      /\ Working(e)' <=> mu' = e
    BY DEF HandInv
  <2>1. CASE e = d
    BY <1>1, <1>2, <2>1 DEF Early, Working
  <2>2. CASE e # d
    <3>1. hand'[e] = hand[e] /\ mu' # e
      BY <1>1, <1>2, <2>2
    <3> QED BY <1>1, <3>1 DEF IInv, HandInv, Early, Working
  <2> QED BY <2>1, <2>2
<1>8. /\ Confirmed' = Confirmed
      /\ \A e \in Deliveries : hand'[e].msg = hand[e].msg /\ hand'[e].scope = hand[e].scope
  BY <1>1, <1>2 DEF Confirmed
<1>9. BatchInv'
  <2>1. \A e \in Confirmed : e \in Deliveries
    BY DEF Confirmed
  <2> QED BY <1>8, <2>1 DEF IInv, BatchInv
<1>10. /\ DOMAIN turns = 1..Len(turns) /\ Len(turns) \in Nat
       /\ DOMAIN turns' = 1..(Len(turns) + 1) /\ Len(turns') = Len(turns) + 1
       /\ turns'[Len(turns) + 1] = d
       /\ \A i \in DOMAIN turns : turns'[i] = turns[i] /\ turns[i] \in Deliveries
  BY <1>1, <1>4
<1>11. TurnInv'
  <2>1. \A e \in Deliveries : Early(e)' => Early(e) /\ e # d
    BY <1>2 DEF Early
  <2>2. \A i \in DOMAIN turns : ~ Early(turns[i])
    BY DEF IInv, TurnInv
  <2>3. ASSUME NEW i \in DOMAIN turns' PROVE ~ Early(turns[i])'
    <3>1. CASE i \in DOMAIN turns
      <4>1. turns'[i] \in Deliveries /\ ~ Early(turns'[i])
        BY <1>10, <2>2, <3>1
      <4>2. ~ (hand'[turns'[i]].phase \in {"unborn", "waiting"})
        BY <1>2, <4>1 DEF Early
      <4> QED BY <4>2 DEF Early
    <3>2. CASE i = Len(turns) + 1
      <4>1. ~ (hand'[turns'[i]].phase \in {"unborn", "waiting"})
        BY <1>2, <1>10, <3>2
      <4> QED BY <4>1 DEF Early
    <3> QED BY <1>10, <3>1, <3>2
  <2>4. mu' # None => turns' # <<>> /\ turns'[Len(turns')] = mu'
    <3>1. turns' # <<>>
      BY <1>4, <1>10
    <3> QED BY <1>1, <1>2, <1>10, <3>1
  <2> QED BY <2>3, <2>4 DEF TurnInv
<1>12. QuestionsStayOpen'
  <2> SUFFICES ASSUME NEW i \in DOMAIN turns',
                      hand'[turns'[i]].phase \in {"deliver", "taken", "done"},
                      hand'[turns'[i]].reply = "question", life = 0,
                      \A j \in (i + 1)..Len(turns') : hand'[turns'[j]].scope # hand'[turns'[i]].scope
               PROVE  /\ pending'[hand'[turns'[i]].scope] # None
                      /\ pending'[hand'[turns'[i]].scope].text = hand'[turns'[i]].text
    BY Zenon DEF QuestionsStayOpen, Answered
  <2>1. i \in DOMAIN turns /\ turns'[i] = turns[i] /\ turns[i] # d
    BY <1>2, <1>10
  <2>2. /\ hand[turns[i]].scope # s
        /\ \A j \in (i + 1)..Len(turns) : hand[turns[j]].scope # hand[turns[i]].scope
    <3>1. \A j \in (i + 1)..(Len(turns) + 1) : hand'[turns'[j]].scope # hand[turns[i]].scope
      BY <1>8, <1>10, <2>1
    <3>2. i \in 1..Len(turns)
      BY <1>10, <2>1
    <3>3. hand'[turns'[Len(turns) + 1]].scope # hand[turns[i]].scope
      BY <1>10, <3>1, <3>2
    <3>4. ASSUME NEW j \in (i + 1)..Len(turns)
          PROVE  hand[turns[j]].scope # hand[turns[i]].scope
      <4>1. j \in DOMAIN turns /\ j \in (i + 1)..(Len(turns) + 1)
        BY <1>10, <3>2
      <4> QED BY <1>8, <1>10, <3>1, <4>1
    <3> QED BY <1>2, <1>10, <3>3, <3>4
  <2>3. hand'[turns[i]] = hand[turns[i]] /\ turns[i] \in Deliveries
    BY <1>2, <1>10, <2>1
  <2>4. Answered(turns[i]) /\ hand[turns[i]].reply = "question"
    BY <2>1, <2>3 DEF Answered
  <2>5. /\ pending[hand[turns[i]].scope] # None
        /\ pending[hand[turns[i]].scope].text = hand[turns[i]].text
    BY <2>1, <2>2, <2>4 DEF IInv, QuestionsStayOpen
  <2>6. hand[turns[i]].scope \in Scopes
    BY <2>3, <2>4 DEF Answered, IInv, HandInv
  <2>7. pending'[hand[turns[i]].scope] = pending[hand[turns[i]].scope]
    BY <1>1, <1>2, <2>2, <2>6 DEF TypeOK
  <2> QED BY <2>1, <2>3, <2>5, <2>7
<1> QED
  BY <1>3, <1>6, <1>7, <1>9, <1>11, <1>12 DEF IInv

LEMMA CancelStep ==
  ASSUME IInv, NEW d \in Deliveries, Cancel(d)
  PROVE  IInv'
<1>1. /\ Lock(d) /\ UNCHANGED <<loop, db, now, life, mu, export>>
      /\ dropped' = dropped \cup Words(Waiting(d))
      /\ pending' = [pending EXCEPT ![hand[d].scope] = None]
      /\ hand' = [hand EXCEPT ![d] = [hand[d] EXCEPT !.phase = "deliver", !.reply = "cancelled"]]
  BY DEF Cancel, AnswerAtOnce
<1> DEFINE h == [hand[d] EXCEPT !.phase = "deliver", !.reply = "cancelled"]
<1>2. TypeOK /\ hand[d] \in Hand /\ mu = None
  BY <1>1, LockFacts
<1>3. /\ h \in Hand /\ h.phase = "deliver" /\ h.reply = "cancelled"
      /\ h.msg = hand[d].msg /\ h.scope = hand[d].scope /\ h.text = hand[d].text
  BY <1>2, ZenonT(40) DEF Hand, Phases, Replies
<1>4. hand' = [hand EXCEPT ![d] = h]
  BY <1>1
<1> HIDE DEF h
<1>5. /\ hand' \in [Deliveries -> Hand] /\ hand'[d] = h
      /\ \A e \in Deliveries : e # d => hand'[e] = hand[e]
  BY <1>2, <1>3, <1>4, OneHand
<1>6. Taken(d, {})
  BY <1>1, <1>2, <1>3, <1>5 DEF Taken
<1>7. LoopInv'
  BY <1>1, LoopUnchanged DEF IInv
<1> QED
  BY <1>1, <1>6, <1>7, TakenStep

LEMMA ExpireStep ==
  ASSUME IInv, NEW d \in Deliveries, Expire(d)
  PROVE  IInv'
<1>1. /\ Lock(d) /\ UNCHANGED <<loop, db, now, life, mu, export>>
      /\ dropped' = dropped \cup Words(Waiting(d)) \cup {d}
      /\ pending' = [pending EXCEPT ![hand[d].scope] = None]
      /\ hand' = [hand EXCEPT ![d] = [hand[d] EXCEPT !.phase = "deliver", !.reply = "expired"]]
  BY DEF Expire, AnswerAtOnce
<1> DEFINE h == [hand[d] EXCEPT !.phase = "deliver", !.reply = "expired"]
<1>2. TypeOK /\ hand[d] \in Hand /\ mu = None
  BY <1>1, LockFacts
<1>3. /\ h \in Hand /\ h.phase = "deliver" /\ h.reply = "expired"
      /\ h.msg = hand[d].msg /\ h.scope = hand[d].scope /\ h.text = hand[d].text
  BY <1>2, ZenonT(40) DEF Hand, Phases, Replies
<1>4. hand' = [hand EXCEPT ![d] = h]
  BY <1>1
<1> HIDE DEF h
<1>5. /\ hand' \in [Deliveries -> Hand] /\ hand'[d] = h
      /\ \A e \in Deliveries : e # d => hand'[e] = hand[e]
  BY <1>2, <1>3, <1>4, OneHand
<1>6. Taken(d, {d})
  BY <1>1, <1>2, <1>3, <1>5 DEF Taken
<1>7. LoopInv'
  BY <1>1, LoopUnchanged DEF IInv
<1> QED
  BY <1>1, <1>6, <1>7, TakenStep

LEMMA EnterStep ==
  ASSUME IInv, NEW d \in Deliveries, Enter(d)
  PROVE  IInv'
<1> DEFINE p == Waiting(d)
           text == IF p = None THEN <<d>> ELSE Append(p.text, d)
           h == [hand[d] EXCEPT !.phase = "turn", !.text = text]
<1>1. /\ Lock(d) /\ UNCHANGED <<db, now, life, export, dropped>> /\ Start /\ mu' = d
      /\ pending' = [pending EXCEPT ![hand[d].scope] = None]
      /\ hand' = [hand EXCEPT ![d] = h]
  BY DEF Enter
<1>2. TypeOK /\ hand[d] \in Hand /\ hand[d].reply = "silent" /\ hand[d].scope \in Scopes
  BY <1>1, LockFacts
<1>3. p # None => p.text \in Seq(Deliveries)
  BY <1>2, PendingWords DEF Waiting
<1>4. /\ text \in Seq(Deliveries)
      /\ {text[i] : i \in DOMAIN text} = Words(p) \cup {d}
  <2>1. CASE p = None
    BY <2>1 DEF Words
  <2>2. CASE p # None
    <3> DEFINE old == p.text
    <3>1. old \in Seq(Deliveries) /\ text = Append(old, d)
      BY <1>3, <2>2
    <3>2. Words(p) = {old[i] : i \in DOMAIN old}
      BY <2>2 DEF Words
    <3> HIDE DEF old, p, text
    <3>3. /\ text \in Seq(Deliveries) /\ DOMAIN old = 1..Len(old) /\ Len(old) \in Nat
          /\ DOMAIN text = 1..(Len(old) + 1) /\ text[Len(old) + 1] = d
          /\ \A i \in DOMAIN old : text[i] = old[i]
      BY <3>1
    <3>4. \A i \in DOMAIN text : i \in DOMAIN old \/ i = Len(old) + 1
      BY <3>3
    <3>5. DOMAIN old \subseteq DOMAIN text /\ Len(old) + 1 \in DOMAIN text
      BY <3>3
    <3>6. ASSUME NEW e PROVE e \in {text[i] : i \in DOMAIN text} <=> e \in Words(p) \cup {d}
      <4>1. e \in Words(p) <=> \E i \in DOMAIN old : e = old[i]
        BY <3>2
      <4>2. (\E i \in DOMAIN text : e = text[i]) <=> (\E i \in DOMAIN old : e = old[i]) \/ e = d
        BY <3>3, <3>4, <3>5
      <4> QED BY <4>1, <4>2
    <3> QED BY <3>3, <3>6
  <2> QED BY <2>1, <2>2
<1> HIDE DEF p, text
<1>5. /\ h \in Hand /\ h.phase = "turn" /\ h.text = text
      /\ h.msg = hand[d].msg /\ h.scope = hand[d].scope /\ h.reply = hand[d].reply
  BY <1>2, <1>4 DEF Hand, Phases
<1> HIDE DEF h
<1>6. /\ hand' \in [Deliveries -> Hand] /\ hand'[d] = h
      /\ \A e \in Deliveries : e # d => hand'[e] = hand[e]
  BY <1>1, <1>2, <1>5, OneHand
<1>7. HandWords(d)' = Words(Waiting(d)) \cup {d}
  <2>1. hand'[d].text = text
    BY <1>5, <1>6
  <2> QED BY <1>4, <2>1 DEF HandWords, p
<1>8. Taken(d, {})
  BY <1>1, <1>2, <1>5, <1>6, <1>7 DEF Taken
<1>9. LoopInv'
  BY <1>1, StartKeeps
<1> QED
  BY <1>1, <1>8, <1>9, TakenStep

----------------------------------------------------------------------------
(* Events, time and restarts. *)

LEMMA ArriveStep ==
  ASSUME IInv, NEW d \in Deliveries, NEW m \in Messages, NEW s \in Scopes, NEW cancel \in BOOLEAN,
         Arrive(d, m, s, cancel)
  PROVE  IInv'
<1> DEFINE h == [hand[d] EXCEPT !.phase = "waiting", !.msg = m, !.scope = s, !.cancel = cancel]
<1>1. /\ hand[d].phase = "unborn" /\ hand' = [hand EXCEPT ![d] = h]
      /\ UNCHANGED <<loop, db, now, life, mu, pending, export, turns, dropped>>
  BY DEF Arrive
<1>2. TypeOK /\ hand[d] \in Hand /\ Early(d) /\ hand[d].reply = "silent"
  BY <1>1, DeliveryFacts DEF IInv, HandInv, Early
<1>3. /\ h \in Hand /\ h.phase = "waiting" /\ h.msg = m /\ h.scope = s
      /\ h.text = hand[d].text /\ h.reply = hand[d].reply
  <2> DEFINE half == [hand[d] EXCEPT !.phase = "waiting", !.msg = m]
  <2>1. /\ half \in Hand /\ half.phase = "waiting" /\ half.msg = m
        /\ half.text = hand[d].text /\ half.reply = hand[d].reply
    BY <1>2 DEF Hand, Phases
  <2>2. h = [half EXCEPT !.scope = s, !.cancel = cancel]
    OBVIOUS
  <2> HIDE DEF half, h
  <2> QED BY <2>1, <2>2 DEF Hand
<1> HIDE DEF h
<1>4. /\ hand' \in [Deliveries -> Hand] /\ hand'[d] = h
      /\ \A e \in Deliveries : e # d => hand'[e] = hand[e]
  BY <1>1, <1>2, <1>3, OneHand
<1>5. LoopInv' /\ LoopTypeOK'
  BY <1>1, LoopUnchanged DEF IInv, LoopInv
<1>6. TypeOK'
  BY <1>1, <1>2, <1>4, <1>5 DEF TypeOK
<1>7. /\ \A e \in Deliveries : /\ Early(e)' <=> Early(e)
                               /\ Working(e)' <=> Working(e)
                               /\ HandWords(e)' = HandWords(e)
                               /\ hand'[e].reply = hand[e].reply
                               /\ hand'[e].text = hand[e].text
      /\ \A e \in Deliveries : ~ Early(e) => hand'[e] = hand[e]
      /\ Confirmed' = Confirmed
      /\ \A e \in Confirmed : e \in Deliveries /\ ~ Early(e)
  <2>1. \A e \in Deliveries : e # d => /\ Early(e)' <=> Early(e)
                                       /\ Working(e)' <=> Working(e)
                                       /\ HandWords(e)' = HandWords(e)
    BY <1>4 DEF Early, Working, HandWords
  <2>2. /\ Early(d)' <=> Early(d)
        /\ Working(d)' <=> Working(d)
        /\ HandWords(d)' = HandWords(d)
    BY <1>1, <1>2, <1>3, <1>4 DEF Early, Working, HandWords
  <2>3. \A e \in Deliveries : hand'[e].reply = hand[e].reply /\ hand'[e].text = hand[e].text
    BY <1>3, <1>4
  <2>4. Confirmed' = Confirmed
    BY <2>3 DEF Confirmed
  <2>5. \A e \in Confirmed : e \in Deliveries /\ ~ Early(e)
    BY DEF Confirmed, IInv, HandInv
  <2>6. \A e \in Deliveries : ~ Early(e) => hand'[e] = hand[e]
    BY <1>2, <1>4
  <2> QED BY <2>1, <2>2, <2>3, <2>4, <2>5, <2>6
<1>8. HandInv'
  <2> SUFFICES ASSUME NEW e \in Deliveries
               PROVE  /\ hand'[e].phase # "unborn" => hand'[e].msg \in Messages /\ hand'[e].scope \in Scopes
                      /\ Early(e)' \/ Working(e)' => hand'[e].reply = "silent"
                      /\ Working(e)' <=> mu' = e
    BY DEF HandInv
  <2>1. CASE e = d
    BY <1>1, <1>2, <1>3, <1>4, <1>7, <2>1 DEF IInv, HandInv
  <2>2. CASE e # d
    BY <1>1, <1>4, <1>7, <2>2 DEF IInv, HandInv
  <2> QED BY <2>1, <2>2
<1>9. WordsInv'
  <2>1. \A e \in Deliveries : Holder(e)' <=> Holder(e)
    BY <1>7 DEF Holder
  <2>2. /\ \A t \in Scopes : Words(pending[t])' = Words(pending[t])
        /\ dropped' = dropped
    BY <1>1 DEF Words
  <2>3. /\ \A e \in Deliveries : HandWords(e) \subseteq Deliveries
        /\ \A t \in Scopes : Words(pending[t]) \subseteq Deliveries
        /\ dropped \subseteq Deliveries
    <3>1. \A e \in Deliveries : HandWords(e) \subseteq Deliveries
      BY <1>2, DeliveryFacts DEF HandWords
    <3>2. dropped \subseteq Deliveries
      BY <1>2 DEF TypeOK
    <3> QED BY <1>2, <3>1, <3>2, PendingWords
  <2>4. /\ \A e \in Deliveries : \A f \in HandWords(e)' : ~Early(f)'
        /\ \A t \in Scopes : \A f \in Words(pending[t])' : ~Early(f)'
        /\ \A f \in dropped' : ~Early(f)'
    BY <1>7, <2>2, <2>3 DEF IInv, WordsInv
  <2>5. /\ \A e, f \in Deliveries :
             e # f /\ Holder(e)' /\ Holder(f)' => HandWords(e)' \cap HandWords(f)' = {}
        /\ \A e \in Deliveries, t \in Scopes :
             Holder(e)' => HandWords(e)' \cap Words(pending[t])' = {}
        /\ \A t, u \in Scopes : t # u => Words(pending[t])' \cap Words(pending[u])' = {}
        /\ \A e \in Deliveries : Working(e)' => HandWords(e)' \cap dropped' = {}
        /\ \A t \in Scopes : Words(pending[t])' \cap dropped' = {}
    BY <1>7, <2>1, <2>2, ZenonT(40) DEF IInv, WordsInv
  <2> QED BY <2>4, <2>5, Zenon DEF WordsInv
<1>10. BatchInv'
  BY <1>1, <1>7 DEF IInv, BatchInv
<1>11. \A i \in DOMAIN turns : turns[i] \in Deliveries /\ ~ Early(turns[i])
  BY <1>2 DEF TypeOK, IInv, TurnInv
<1>12. TurnInv'
  BY <1>1, <1>7, <1>11 DEF IInv, TurnInv
<1>13. QuestionsStayOpen'
  <2>1. \A i \in DOMAIN turns : hand'[turns[i]] = hand[turns[i]]
    BY <1>7, <1>11
  <2>2. \A i \in DOMAIN turns : \A j \in (i + 1)..Len(turns) : j \in DOMAIN turns
    BY <1>2 DEF TypeOK
  <2> SUFFICES ASSUME NEW i \in DOMAIN turns',
                      hand'[turns'[i]].phase \in {"deliver", "taken", "done"},
                      hand'[turns'[i]].reply = "question", life' = 0,
                      \A j \in (i + 1)..Len(turns') : hand'[turns'[j]].scope # hand'[turns'[i]].scope
               PROVE  /\ pending'[hand'[turns'[i]].scope] # None
                      /\ pending'[hand'[turns'[i]].scope].text = hand'[turns'[i]].text
    BY Zenon DEF QuestionsStayOpen, Answered
  <2>0. turns' = turns /\ life = 0 /\ pending' = pending /\ i \in DOMAIN turns
    BY <1>1
  <2>3. \A j \in (i + 1)..Len(turns) : hand[turns[j]].scope # hand[turns[i]].scope
    BY <2>0, <2>1, <2>2
  <2>4. Answered(turns[i]) /\ hand[turns[i]].reply = "question"
    BY <2>0, <2>1 DEF Answered
  <2>5. /\ pending[hand[turns[i]].scope] # None
        /\ pending[hand[turns[i]].scope].text = hand[turns[i]].text
    BY <2>0, <2>3, <2>4 DEF IInv, QuestionsStayOpen
  <2> QED BY <2>0, <2>1, <2>5
<1> QED
  BY <1>5, <1>6, <1>8, <1>9, <1>10, <1>12, <1>13 DEF IInv

LEMMA TickStep ==
  ASSUME IInv, Tick
  PROVE  IInv'
<1>1. /\ now < MaxTime /\ now' = now + 1
      /\ UNCHANGED <<loop, db, life, mu, pending, export, hand, turns, dropped>>
  BY DEF Tick
<1>2. LoopInv' /\ LoopTypeOK'
  BY <1>1, LoopUnchanged DEF IInv, LoopInv
<1>3. TypeOK'
  BY <1>1, <1>2, BoundsAssumption DEF IInv, TypeOK
<1>4. \A d \in Deliveries : Alike(hand[d], hand'[d]) /\ hand'[d].phase = hand[d].phase
  BY <1>1 DEF Alike
<1> QED
  BY <1>1, <1>2, <1>3, <1>4, QuietStep

LEMMA CrashStep ==
  ASSUME IInv, Crash
  PROVE  IInv'
<1>1. /\ life < MaxLife /\ life' = life + 1 /\ LoopReset /\ mu' = None
      /\ pending' = [s \in Scopes |-> None] /\ export' = None
      /\ hand' = [d \in Deliveries |->
                    IF hand[d].phase \in {"unborn", "done"} THEN hand[d]
                    ELSE [hand[d] EXCEPT !.phase = "dead"]]
      /\ UNCHANGED <<db, now, turns, dropped>>
  BY DEF Crash
<1>2. TypeOK
  BY DEF IInv
<1>3. \A d \in Deliveries :
        /\ hand'[d] \in Hand /\ Alike(hand[d], hand'[d])
        /\ IF hand[d].phase \in {"unborn", "done"} THEN hand'[d].phase = hand[d].phase
           ELSE hand'[d].phase = "dead"
  <2> SUFFICES ASSUME NEW d \in Deliveries
               PROVE  /\ hand'[d] \in Hand /\ Alike(hand[d], hand'[d])
                      /\ IF hand[d].phase \in {"unborn", "done"} THEN hand'[d].phase = hand[d].phase
                         ELSE hand'[d].phase = "dead"
    OBVIOUS
  <2> DEFINE h == [hand[d] EXCEPT !.phase = "dead"]
  <2>1. hand[d] \in Hand
    BY <1>2, DeliveryFacts
  <2>2. h \in Hand /\ Alike(hand[d], h) /\ h.phase = "dead"
    BY <2>1 DEF Hand, Alike, Phases
  <2>3. hand'[d] = IF hand[d].phase \in {"unborn", "done"} THEN hand[d] ELSE h
    BY <1>1
  <2> HIDE DEF h
  <2> QED BY <2>1, <2>2, <2>3 DEF Alike
<1>4. hand' \in [Deliveries -> Hand]
  BY <1>1, <1>3
<1>5. LoopInv' /\ LoopTypeOK'
  BY <1>1, LoopResetKeeps DEF LoopInv
<1>6. TypeOK'
  BY <1>1, <1>2, <1>4, <1>5, BoundsAssumption DEF TypeOK
<1>7. \A d \in Deliveries : /\ Early(d)' => Early(d)
                            /\ ~ Working(d)'
                            /\ HandWords(d)' = HandWords(d)
                            /\ hand'[d].phase # "unborn" => hand[d].phase # "unborn"
  BY <1>3 DEF Early, Working, HandWords, Alike
<1>8. /\ \A d \in Deliveries : /\ hand'[d].msg = hand[d].msg /\ hand'[d].scope = hand[d].scope
                               /\ hand'[d].reply = hand[d].reply
      /\ Confirmed' = Confirmed
  BY <1>3 DEF Alike, Confirmed
<1>9. HandInv'
  <2>1. \A d \in Deliveries : d # None
    BY <1>2, DeliveryFacts
  <2> QED BY <1>1, <1>7, <1>8, <2>1 DEF IInv, HandInv
<1>10. WordsInv'
  <2>1. \A d \in Deliveries : Holder(d)' => Holder(d)
    BY <1>7, <1>8 DEF Holder
  <2>2. \A s \in Scopes : Words(pending[s])' = {}
    BY <1>1 DEF Words
  <2>3. /\ \A d \in Deliveries : HandWords(d) \subseteq Deliveries
        /\ dropped \subseteq Deliveries
    <3>1. \A d \in Deliveries : HandWords(d) \subseteq Deliveries
      BY <1>2, DeliveryFacts DEF HandWords
    <3> QED BY <1>2, <3>1 DEF TypeOK
  <2>4. /\ \A d \in Deliveries : \A e \in HandWords(d)' : ~Early(e)'
        /\ \A e \in dropped' : ~Early(e)'
    BY <1>1, <1>7, <2>3 DEF IInv, WordsInv
  <2>5. \A d, e \in Deliveries :
          d # e /\ Holder(d)' /\ Holder(e)' => HandWords(d)' \cap HandWords(e)' = {}
    BY <1>7, <2>1, Zenon DEF IInv, WordsInv
  <2> QED BY <1>7, <2>2, <2>4, <2>5 DEF WordsInv
<1>11. BatchInv'
  <2>1. \A d \in Confirmed : d \in Deliveries
    BY DEF Confirmed
  <2> QED BY <1>1, <1>8, <2>1 DEF IInv, BatchInv
<1>12. TurnInv'
  <2>1. \A i \in DOMAIN turns : turns[i] \in Deliveries /\ ~ Early(turns[i])
    BY <1>2 DEF TypeOK, IInv, TurnInv
  <2> QED BY <1>1, <1>7, <2>1 DEF TurnInv
<1>13. QuestionsStayOpen'
  <2>1. life' # 0
    BY <1>1, <1>2 DEF TypeOK
  <2> QED BY <2>1 DEF QuestionsStayOpen
<1> QED
  BY <1>5, <1>6, <1>9, <1>10, <1>11, <1>12, <1>13 DEF IInv

----------------------------------------------------------------------------
(* The theorems. *)

LEMMA InitIInv == Init => IInv
<1> SUFFICES ASSUME Init PROVE IInv
  OBVIOUS
<1>1. LoopInv
  <2>1. loop = [phase |-> "idle", round |-> 0, left |-> <<>>, mutated |-> FALSE,
                done |-> <<>>, usage |-> FALSE, asked |-> 0, records |-> <<>>]
    BY DEF Init, LoopInit, Unused, Fresh
  <2>2. /\ loop \in Loop /\ loop.phase = "idle" /\ loop.done = <<>> /\ loop.records = <<>>
    BY <2>1, RoundsAssumption DEF Loop
  <2> QED
    BY <2>2 DEF LoopInv, LoopTypeOK, LoopProgress, MutationsComeLast, UsageRecordsAreTrue, Ended
<1>2. /\ Unborn \in Hand /\ Unborn.phase = "unborn" /\ Unborn.reply = "silent"
      /\ Unborn.text = <<>>
  <2>1. <<>> \in Seq(Deliveries) /\ <<>> \in Seq(Mutation)
    OBVIOUS
  <2> QED BY <2>1 DEF Unborn, Hand, Phases, Replies
<1>3. /\ db = EmptyDatabase /\ now = 0 /\ life = 0 /\ mu = None
      /\ pending = [s \in Scopes |-> None] /\ export = None
      /\ hand = [d \in Deliveries |-> Unborn] /\ turns = <<>> /\ dropped = {}
  BY DEF Init
<1>4. db \in Database /\ \A m \in Sources : db.batches[m] = None
  BY <1>3 DEF EmptyDatabase, Database
<1>5. \A d \in Deliveries : /\ hand[d] \in Hand /\ hand[d].phase = "unborn"
                            /\ hand[d].reply = "silent" /\ hand[d].text = <<>>
  BY <1>2, <1>3
<1>6. TypeOK
  BY <1>1, <1>3, <1>4, <1>5, BoundsAssumption DEF TypeOK, LoopInv
<1>7. \A d \in Deliveries : d # None
  BY <1>6, DeliveryFacts
<1>8. HandInv
  BY <1>3, <1>5, <1>7 DEF HandInv, Early, Working
<1>9. Confirmed = {}
  BY <1>5 DEF Confirmed
<1>10. WordsInv
  <2>1. \A d \in Deliveries : HandWords(d) = {} /\ ~ Holder(d) /\ ~ Working(d)
    BY <1>5, <1>9 DEF HandWords, Holder, Working
  <2>2. \A s \in Scopes : Words(pending[s]) = {}
    BY <1>3 DEF Words
  <2> QED BY <1>3, <2>1, <2>2 DEF WordsInv
<1>11. BatchInv
  BY <1>4, <1>9 DEF BatchInv
<1>12. TurnInv /\ QuestionsStayOpen
  BY <1>3 DEF TurnInv, QuestionsStayOpen
<1> QED
  BY <1>1, <1>6, <1>8, <1>10, <1>11, <1>12 DEF IInv

LEMMA ProceedStep ==
  ASSUME IInv, NEW d \in Deliveries, Proceed(d)
  PROVE  IInv'
<1>1. CASE LoopFails(d)
  BY <1>1, LoopFailsStep
<1>2. ASSUME NEW said \in {"none", "answer", "question", "json"}, Said(d, said) PROVE IInv'
  BY <1>2, SaidStep
<1>3. ASSUME NEW calls \in Rounds, NEW said \in {"none", "answer", "question", "json"},
             Called(d, calls, said)
      PROVE  IInv'
  BY <1>3, CalledStep
<1>4. ASSUME NEW err \in {"plain", "clarify"}, DispatchFails(d, err) PROVE IInv'
  BY <1>4, DispatchFailsStep
<1>5. CASE QueueMutation(d)
  BY <1>5, QueueMutationStep
<1>6. CASE PreparePrompt(d)
  BY <1>6, PreparePromptStep
<1>7. CASE Read(d)
  BY <1>7, ReadStep
<1>8. CASE StoreExport(d)
  BY <1>8, StoreExportStep
<1>9. CASE ExportStored(d)
  BY <1>9, ExportStoredStep
<1>10. CASE EndFailed(d)
  BY <1>10, EndFailedStep
<1>11. CASE EndMutations(d)
  BY <1>11, EndMutationsStep
<1>12. CASE EndText(d)
  BY <1>12, EndTextStep
<1>13. CASE DeliverShort(d)
  BY <1>13, DeliverShortStep
<1>14. CASE TakeExport(d)
  BY <1>14, TakeExportStep
<1>15. CASE Deliver(d)
  BY <1>15, DeliverStep
<1> QED
  BY <1>1, <1>2, <1>3, <1>4, <1>5, <1>6, <1>7, <1>8, <1>9, <1>10, <1>11, <1>12, <1>13, <1>14,
     <1>15 DEF Proceed

LEMMA NextIInv == IInv /\ [Next]_vars => IInv'
<1> SUFFICES ASSUME IInv, [Next]_vars PROVE IInv'
  OBVIOUS
<1>1. ASSUME NEW d \in Deliveries, NEW m \in Messages, NEW s \in Scopes, NEW cancel \in BOOLEAN,
             Arrive(d, m, s, cancel)
      PROVE  IInv'
  BY <1>1, ArriveStep
<1>2. ASSUME NEW d \in Deliveries, TakeTurn(d) PROVE IInv'
  BY <1>2, CancelStep, ExpireStep, EnterStep DEF TakeTurn
<1>3. ASSUME NEW d \in Deliveries, Proceed(d) PROVE IInv'
  BY <1>3, ProceedStep
<1>4. CASE Tick
  BY <1>4, TickStep
<1>5. CASE Crash
  BY <1>5, CrashStep
<1>6. CASE UNCHANGED vars
  <2>1. UNCHANGED <<loop, db, now, life, mu, pending, export, hand, turns, dropped>>
    BY <1>6 DEF vars
  <2>2. LoopInv' /\ LoopTypeOK'
    BY <2>1, LoopUnchanged DEF IInv, LoopInv
  <2>3. TypeOK'
    BY <2>1, <2>2 DEF IInv, TypeOK
  <2>4. \A d \in Deliveries : Alike(hand[d], hand'[d]) /\ hand'[d].phase = hand[d].phase
    BY <2>1 DEF Alike
  <2> QED BY <2>1, <2>2, <2>3, <2>4, QuietStep
<1> QED
  BY <1>1, <1>2, <1>3, <1>4, <1>5, <1>6 DEF Next

\* The inductive invariant from which the theorems below follow.
THEOREM Invariance == Spec => []IInv
<1> QED
  BY InitIInv, NextIInv, PTL DEF Spec

\* Every variable keeps its type; in particular the provider is asked at most
\* MaxRounds times in a turn (WithMaxRounds), and what is collected for
\* ApplyMutations is a batch of mutations.
THEOREM TypeCorrect == Spec => []TypeOK
<1>1. IInv => TypeOK
  BY DEF IInv
<1> QED
  BY <1>1, Invariance, PTL

\* RespondWithDispatcher dispatches no read after a mutation and asks no more
\* once a mutation was dispatched.
THEOREM MutationsLast == Spec => []MutationsComeLast
<1>1. IInv => MutationsComeLast
  BY DEF IInv, LoopInv
<1> QED
  BY <1>1, Invariance, PTL

\* A usage record is made once, at the end, with the true number of requests
\* and outcome (recordUsage).
THEOREM TrueUsage == Spec => []UsageRecordsAreTrue
<1>1. IInv => UsageRecordsAreTrue
  BY DEF IInv, LoopInv
<1> QED
  BY <1>1, Invariance, PTL

\* No delivery is among the words of two confirmed batches, however many answers
\* the request took: Handle takes the pending request away before the provider
\* sees it.  (A message delivered again is a new delivery.)
THEOREM CarriedOut == Spec => []CarriedOutOnce
<1>1. IInv => CarriedOutOnce
  <2> SUFFICES ASSUME IInv, NEW d \in Confirmed, NEW e \in Confirmed, d # e
               PROVE  {hand[d].text[i] : i \in DOMAIN hand[d].text}
                      \cap {hand[e].text[i] : i \in DOMAIN hand[e].text} = {}
    BY DEF CarriedOutOnce
  <2>1. d \in Deliveries /\ e \in Deliveries /\ Holder(d) /\ Holder(e)
    BY DEF Confirmed, Holder
  <2>2. HandWords(d) \cap HandWords(e) = {}
    BY <2>1, Zenon DEF IInv, WordsInv
  <2> QED BY <2>2, Zenon DEF HandWords
<1> QED
  BY <1>1, Invariance, PTL

\* A request that "huy" cancelled, or that expired, is never worked on again.
THEOREM Abandoned == Spec => []AbandonedStaysAbandoned
<1>1. IInv => AbandonedStaysAbandoned
  <2> SUFFICES ASSUME IInv, mu # None, NEW i \in DOMAIN hand[mu].text,
                      hand[mu].text[i] \in dropped
               PROVE  FALSE
    BY DEF AbandonedStaysAbandoned
  <2>1. mu \in Deliveries /\ Working(mu)
    BY DEF IInv, TypeOK, HandInv
  <2>2. HandWords(mu) \cap dropped = {}
    BY <2>1, Zenon DEF IInv, WordsInv
  <2>3. hand[mu].text[i] \in HandWords(mu)
    BY DEF HandWords
  <2> QED BY <2>2, <2>3
<1> QED
  BY <1>1, Invariance, PTL

\* Handle confirms a batch exactly when it is recorded: an error, a question or
\* a silence leaves no trace in the ledger.
THEOREM TrueConfirmations == Spec => []ConfirmationsAreTrue
<1>1. IInv => ConfirmationsAreTrue
  <2> SUFFICES ASSUME IInv, NEW d \in Deliveries
               PROVE  /\ d \in Confirmed => /\ db.batches[hand[d].msg] # None
                                            /\ Len(db.batches[hand[d].msg].ids) > 0
                      /\ Answered(d) /\ d \notin Confirmed
                           /\ (\A e \in Confirmed : hand[e].msg # hand[d].msg)
                           => db.batches[hand[d].msg] = None
    BY DEF ConfirmationsAreTrue
  <2>1. d \in Confirmed \/ Answered(d) => hand[d].msg \in Sources
    <3>1. d \in Confirmed \/ Answered(d) => hand[d].phase # "unborn"
      BY DEF IInv, HandInv, Early, Confirmed, Answered
    <3> QED BY <3>1, MessagesAssumption DEF IInv, HandInv
  <2>2. d \in Confirmed => db.batches[hand[d].msg] # None
    BY DEF IInv, BatchInv
  <2>3. \A m \in Sources : db.batches[m] # None =>
          /\ Len(db.batches[m].ids) > 0
          /\ \E e \in Confirmed : hand[e].msg = m
    BY DEF IInv, BatchInv
  <2> QED BY <2>1, <2>2, <2>3
<1> QED
  BY <1>1, Invariance, PTL

\* A question stays answerable, with all the words it was about, until the
\* user's next message (or a restart).
THEOREM OpenQuestions == Spec => []QuestionsStayOpen
<1>1. IInv => QuestionsStayOpen
  BY DEF IInv
<1> QED
  BY <1>1, Invariance, PTL

=============================================================================
