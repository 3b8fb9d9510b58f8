----------------------------- MODULE ProviderLoop -----------------------------
(***************************************************************************)
(* The function-call loop of the Responses API client                      *)
(* (internal/provider/responses/client.go, RespondWithDispatcher): ask the *)
(* provider, dispatch the tool calls of its answer, ask again with their   *)
(* outputs, at most MaxRounds times; an answer with a mutation is the last.*)
(* What the provider answers, and whether a request or a dispatched call   *)
(* fails, is arbitrary.                                                    *)
(***************************************************************************)
EXTENDS Naturals, Sequences

CONSTANTS
  Calls,       \* tool calls, each with its tool
  Rounds,      \* the call lists one answer may carry
  MaxRounds    \* WithMaxRounds

ReadTools == {"read", "export"}
MutationTools == {"create", "update", "delete", "restore"}

ASSUME RoundsAssumption ==
  /\ \A call \in Calls : call.tool \in ReadTools \cup MutationTools
  /\ Rounds \subseteq Seq(Calls) \ {<<>>}
  /\ MaxRounds \in Nat \ {0}

VARIABLE loop

\* One call of UsageRecorder.
UsageRecord == [rounds : Nat, ok : BOOLEAN, usage : BOOLEAN]

\* left: calls of the present answer still to be dispatched; mutated:
\* mutationInRound; done: calls dispatched so far (allCalls, once the loop has
\* returned); usage: hasUsage; asked: requests made (a history variable);
\* records: what the usage recorder was told.
Loop == [phase : {"idle", "ask", "call", "returned", "failed"}, round : 0..MaxRounds,
         left : Seq(Calls), mutated : BOOLEAN, done : Seq(Calls),
         usage : BOOLEAN, asked : 0..MaxRounds, records : Seq(UsageRecord)]

LoopTypeOK == loop \in Loop

Fresh == [phase |-> "ask", round |-> 0, left |-> <<>>, mutated |-> FALSE, done |-> <<>>,
          usage |-> FALSE, asked |-> 0, records |-> <<>>]

Unused == [Fresh EXCEPT !.phase = "idle"]

LoopInit == loop = Unused

\* The process is restarted in mid-loop.
LoopReset == loop' = Unused

IsMutation(call) == call.tool \in MutationTools

Ended == loop.phase \in {"returned", "failed"}

----------------------------------------------------------------------------
\* Requests made; all those beyond MaxRounds count as one.
Counted(n) == IF n <= MaxRounds THEN n + 1 ELSE n

\* recordUsage, after `rounds` requests.
Record(rounds, ok, usage) ==
  Append(loop.records, [rounds |-> rounds, ok |-> ok, usage |-> usage])

\* RespondWithDispatcher is called.
Start ==
  /\ loop.phase = "idle" \/ Ended
  /\ loop' = Fresh

\* Faulty: the failed request is not counted.
RespondFails_NotCounted ==
  /\ loop.phase = "ask"
  /\ loop' = [loop EXCEPT !.phase = "failed", !.asked = Counted(@),
                          !.records = Record(loop.round, FALSE, loop.usage)]

\* The request fails: transport, HTTP status, timeout, malformed body.
RespondFails ==
  /\ loop.phase = "ask"
  /\ loop' = [loop EXCEPT !.phase = "failed", !.asked = Counted(@),
                          !.records = Record(loop.round + 1, FALSE, loop.usage)]

\* An answer without tool calls ends the loop.
RespondFinal(usage) ==
  /\ loop.phase = "ask"
  /\ loop' = [loop EXCEPT !.phase = "returned", !.asked = Counted(@), !.usage = @ \/ usage,
                          !.records = Record(loop.round + 1, TRUE, loop.usage \/ usage)]

\* An answer with tool calls.
RespondCalls(calls, usage) ==
  /\ loop.phase = "ask"
  /\ loop' = [loop EXCEPT !.phase = "call", !.asked = Counted(@), !.left = calls,
                          !.mutated = FALSE, !.usage = @ \/ usage]

\* Faulty: the order of calls is not checked.
OutOfOrder_Never(call) == FALSE

\* A read after a mutation of the same answer.
OutOfOrder(call) == loop.mutated /\ ~IsMutation(call)

\* ... ends the loop, without a usage record.
RefuseOrder ==
  /\ loop.phase = "call"
  /\ OutOfOrder(Head(loop.left))
  /\ loop' = [loop EXCEPT !.phase = "failed"]

\* The dispatcher returns an error.
CallFails ==
  /\ loop.phase = "call"
  /\ ~OutOfOrder(Head(loop.left))
  /\ loop' = [loop EXCEPT !.phase = "failed",
                          !.records = Record(loop.round + 1, FALSE, loop.usage)]

\* Faulty: rounds are not counted.
RoundOver_NoLimit(l) ==
  IF l.mutated
  THEN [l EXCEPT !.phase = "returned", !.records = Record(l.round + 1, TRUE, l.usage)]
  ELSE [l EXCEPT !.phase = "ask", !.done = <<>>]

\* The last call of an answer is done: a mutation ends the loop, and so does
\* the round limit.
RoundOver(l) ==
  IF l.mutated
  THEN [l EXCEPT !.phase = "returned", !.records = Record(l.round + 1, TRUE, l.usage)]
  ELSE IF l.round + 1 = MaxRounds
  THEN [l EXCEPT !.phase = "failed", !.round = MaxRounds,
                 !.records = Record(MaxRounds, FALSE, l.usage)]
  ELSE [l EXCEPT !.phase = "ask", !.round = @ + 1]

\* The dispatcher returns an output.
CallDone ==
  /\ loop.phase = "call"
  /\ ~OutOfOrder(Head(loop.left))
  /\ LET call == Head(loop.left)
         next == [loop EXCEPT !.left = Tail(@), !.done = Append(@, call),
                              !.mutated = @ \/ IsMutation(call)]
     IN loop' = IF next.left = <<>> THEN RoundOver(next) ELSE next

Step ==
  \/ RespondFails
  \/ \E usage \in BOOLEAN : RespondFinal(usage)
  \/ \E calls \in Rounds, usage \in BOOLEAN : RespondCalls(calls, usage)
  \/ RefuseOrder
  \/ CallFails
  \/ CallDone

LoopNext == Start \/ Step

LoopSpec == LoopInit /\ [][LoopNext]_loop

----------------------------------------------------------------------------
(* Properties *)

\* Read-only calls come first and mutations last: in the order dispatched no
\* read follows a mutation, within an answer or across answers, and the
\* provider is not asked again once a mutation has been dispatched.
MutationsComeLast ==
  /\ \A i, j \in DOMAIN loop.done :
       i < j /\ IsMutation(loop.done[i]) => IsMutation(loop.done[j])
  /\ loop.phase = "ask" => \A i \in DOMAIN loop.done : ~IsMutation(loop.done[i])

\* The usage log is right whenever it speaks: at most one entry per loop, none
\* before the end, with the number of requests really made and the outcome the
\* caller saw.
UsageRecordsAreTrue ==
  /\ loop.records # <<>> => Ended
  /\ Len(loop.records) <= 1
  /\ \A i \in DOMAIN loop.records :
       /\ loop.records[i].rounds = loop.asked
       /\ loop.records[i].ok <=> loop.phase = "returned"
       /\ loop.records[i].usage <=> loop.usage

\* The spec's claim: usage the provider reported is recorded.
ReportedUsageIsRecorded ==
  Ended /\ loop.usage => \E i \in DOMAIN loop.records : loop.records[i].usage
=============================================================================
