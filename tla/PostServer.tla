------------------------------- MODULE PostServer -------------------------------
(***************************************************************************)
(* The web server of Nyan Post (discord-webhook/server.go): the count of   *)
(* wrong passwords per address, the limit on uploads under way, and the    *)
(* post to the Discord webhook.  net/http runs every request in a          *)
(* goroutine of its own; allowPasswordAttempt, recordPasswordFailure and   *)
(* clearPasswordFailures each hold the mutex, the three together do not.   *)
(* What Discord, or a gateway before it, may answer is said by Possible.   *)
(***************************************************************************)
EXTENDS Naturals, Sequences, FiniteSets

CONSTANTS
  Requests,    \* requests of the run
  Addresses,   \* client addresses
  Kinds,       \* of "send" (POST /send) and "other" (POST /auth, the notes)
  MaxFails,    \* maxPasswordFails (5)
  Window,      \* passwordWindow (a minute)
  Capacity,    \* windows remembered at most (1024)
  MaxActive,   \* maxConcurrent (2)
  MaxTime,     \* bound on the clock
  None

ASSUME KindsAssumption == Kinds \subseteq {"send", "other"}
ASSUME NumbersAssumption ==
  /\ {MaxFails, Window, Capacity, MaxActive, MaxTime} \subseteq Nat
  /\ MaxFails > 0 /\ Window > 0 /\ Capacity > 0 /\ MaxActive > 0

VARIABLES
  now,       \* the clock
  failures,  \* webhookSender.failures: per address, a window or None
  active,    \* tokens in the `active` channel
  request,   \* each request and its goroutine
  wrong,     \* history: the wrong passwords counted, in order
  posted     \* history: how often Discord created the message of a request

vars == <<now, failures, active, request, wrong, posted>>

\* The webhook's answers: 2xx with the id of the message, or without; 429;
\* another status below 500; 5xx; none, which is also a time-out.
Answers == {"created", "nameless", "limited", "rejected", "failed", "lost"}

ASSUME AnswersAssumption == None \notin Answers

\* right: the password is right; wellFormed: the form passes every check; at:
\* the clock as it was read for the request; posts: POSTs made to the webhook.
Request == [phase : {"new", "arrived", "admitted", "wrong", "right", "slot", "posting", "ended"},
            kind : Kinds, from : Addresses, right : BOOLEAN, wellFormed : BOOLEAN,
            at : Nat, posts : Nat, answer : Answers \cup {None},
            reply : {"none", "ok", "limited", "unauthorized", "busy", "invalid",
                     "refused", "unconfirmed"}]

FailureWindow == [count : Nat, until : Nat]
WrongPassword == [from : Addresses, at : Nat]

TypeOK ==
  /\ now \in 0..MaxTime
  /\ failures \in [Addresses -> FailureWindow \cup {None}]
  /\ Cardinality({a \in Addresses : failures[a] # None}) <= Capacity
  /\ active \in 0..MaxActive
  /\ request \in [Requests -> Request]
  /\ wrong \in Seq(WrongPassword)
  /\ posted \in [Requests -> Nat]

\* Only a form that gets as far as being read is well formed or not.
NewRequests ==
  {[phase |-> "new", kind |-> kind, from |-> from, right |-> right,
    wellFormed |-> form \/ kind = "other" \/ ~right,
    at |-> 0, posts |-> 0, answer |-> None, reply |-> "none"] :
     kind \in Kinds, from \in Addresses, right \in BOOLEAN, form \in BOOLEAN}

Init ==
  /\ now = 0
  /\ failures = [a \in Addresses |-> None]
  /\ active = 0
  /\ request \in [Requests -> NewRequests]
  /\ wrong = <<>>
  /\ posted = [r \in Requests |-> 0]

At(r, phase) == request[r].phase = phase

Goto(r, phase) == request' = [request EXCEPT ![r].phase = phase]

End(r, reply) == request' = [request EXCEPT ![r].phase = "ended", ![r].reply = reply]

\* allowPasswordAttempt looks at the clock before it waits for the mutex.
Arrive(r) ==
  /\ At(r, "new")
  /\ request' = [request EXCEPT ![r].phase = "arrived", ![r].at = now]
  /\ UNCHANGED <<now, failures, active, wrong, posted>>

----------------------------------------------------------------------------
(* authorize *)

Over(w, time) == w = None \/ time >= w.until

Remembered == {a \in Addresses : failures[a] # None}

\* allowPasswordAttempt: windows that were over when the clock was read are
\* forgotten, then a full one of this address refuses the request.
Allow(r) ==
  /\ At(r, "arrived")
  /\ failures' = [a \in Addresses |-> IF Over(failures[a], request[r].at) THEN None ELSE failures[a]]
  /\ LET w == failures'[request[r].from] IN
       IF w = None \/ w.count < MaxFails THEN Goto(r, "admitted") ELSE End(r, "limited")
  /\ UNCHANGED <<now, active, wrong, posted>>

\* The comparison, outside the mutex.
Compare(r) ==
  /\ At(r, "admitted")
  /\ Goto(r, IF request[r].right THEN "right" ELSE "wrong")
  /\ UNCHANGED <<now, failures, active, wrong, posted>>

\* Faulty: every failure starts a new window without forgetting the count.
NextWindow_Rolling(w) ==
  [count |-> IF w = None THEN 1 ELSE w.count + 1, until |-> now + Window]

\* One more failure: in the window, or the first of a new one.
NextWindow(w) ==
  IF Over(w, now) THEN [count |-> 1, until |-> now + Window] ELSE [w EXCEPT !.count = @ + 1]

Full == Cardinality(Remembered) >= Capacity

\* recordPasswordFailure: in a full map some window goes first, perhaps that of
\* this address, which is then set again.
RecordFailure(r) ==
  /\ At(r, "wrong")
  /\ \E gone \in IF Full THEN {{a} : a \in Remembered} ELSE {{}} :
       failures' = [a \in Addresses |->
                      IF a = request[r].from THEN NextWindow(failures[a])
                      ELSE IF a \in gone THEN None ELSE failures[a]]
  /\ wrong' = Append(wrong, [from |-> request[r].from, at |-> now])
  /\ End(r, "unauthorized")
  /\ UNCHANGED <<now, active, posted>>

\* clearPasswordFailures: the request is authorized.
Authorized(r) ==
  /\ At(r, "right")
  /\ failures' = [failures EXCEPT ![request[r].from] = None]

Serve(r) ==
  /\ Authorized(r)
  /\ request[r].kind = "other"
  /\ End(r, "ok")
  /\ UNCHANGED <<now, active, wrong, posted>>

----------------------------------------------------------------------------
(* handleSend and send *)

\* A slot, or the answer that there is none.
TakeSlot(r) ==
  /\ Authorized(r)
  /\ request[r].kind = "send"
  /\ IF active < MaxActive THEN active' = active + 1 /\ Goto(r, "slot")
                           ELSE UNCHANGED active /\ End(r, "busy")
  /\ UNCHANGED <<now, wrong, posted>>

\* The deferred receive gives the slot back.
Release(r, reply) ==
  /\ active' = active - 1
  /\ End(r, reply)

\* Faulty: an early return without giving the slot back.
Reject_KeepsSlot(r) ==
  /\ At(r, "slot") /\ ~request[r].wellFormed
  /\ End(r, "invalid")
  /\ UNCHANGED <<now, failures, active, wrong, posted>>

\* The form is malformed, too large, empty, of more than one file, ...
Reject(r) ==
  /\ At(r, "slot") /\ ~request[r].wellFormed
  /\ Release(r, "invalid")
  /\ UNCHANGED <<now, failures, wrong, posted>>

\* The attachment cannot be read, the request cannot be built: nothing is sent.
Unsent(r) ==
  /\ At(r, "slot") /\ request[r].wellFormed
  /\ Release(r, "unconfirmed")
  /\ UNCHANGED <<now, failures, wrong, posted>>

Post(r) ==
  /\ At(r, "slot") /\ request[r].wellFormed
  /\ request' = [request EXCEPT ![r].phase = "posting", ![r].posts = @ + 1]
  /\ UNCHANGED <<now, failures, active, wrong, posted>>

\* Discord creates the message, one of each POST: before it answers, or with an
\* answer that does not settle it on its way, or lost.
Create(r) ==
  /\ request[r].answer \in {None, "nameless", "failed", "lost"}
  /\ posted[r] < request[r].posts
  /\ posted' = [posted EXCEPT ![r] = @ + 1]
  /\ UNCHANGED <<now, failures, active, request, wrong>>

\* Of the answers two kinds are taken at their word: 2xx with an id is about a
\* message that is there, a status below 500 about one that never will be.  A
\* gateway's 5xx says nothing.
Possible(answer, r) ==
  /\ answer = "created" => posted[r] > 0
  /\ answer \in {"limited", "rejected"} => posted[r] = 0

\* Faulty: any 2xx answer counts as a confirmation.
Verdict_AnySuccess(answer) ==
  IF answer \in {"created", "nameless"} THEN "ok"
  ELSE IF answer \in {"limited", "rejected", "failed"} THEN "refused" ELSE "unconfirmed"

\* What send's result becomes: 2xx, not 204, with an id in a readable body is a
\* success; any other status but 2xx a refusal; of the rest nobody knows.
Verdict(answer) ==
  IF answer = "created" THEN "ok"
  ELSE IF answer \in {"limited", "rejected", "failed"} THEN "refused" ELSE "unconfirmed"

Answer(r, answer) ==
  /\ At(r, "posting")
  /\ Possible(answer, r)
  /\ active' = active - 1
  /\ request' = [request EXCEPT ![r].phase = "ended", ![r].answer = answer,
                                ![r].reply = Verdict(answer)]
  /\ UNCHANGED <<now, failures, wrong, posted>>

----------------------------------------------------------------------------
Tick ==
  /\ now < MaxTime
  /\ now' = now + 1
  /\ UNCHANGED <<failures, active, request, wrong, posted>>

Proceed(r) ==
  \/ Allow(r) \/ Compare(r) \/ RecordFailure(r) \/ Serve(r) \/ TakeSlot(r)
  \/ Reject(r) \/ Unsent(r) \/ Post(r) \/ \E answer \in Answers : Answer(r, answer)

Next ==
  \/ \E r \in Requests : Arrive(r) \/ Proceed(r) \/ Create(r)
  \/ Tick

Spec == Init /\ [][Next]_vars

----------------------------------------------------------------------------
(* Properties *)

\* The wrong passwords of an address that were less than a Window old at a time.
Recent(a, time) == {i \in DOMAIN wrong : wrong[i].from = a /\ time < wrong[i].at + Window}

\* A request that this step refuses comes from an address with MaxFails of them.
RefusalIsEarned ==
  \A r \in Requests :
    request'[r].reply = "limited" /\ request[r].reply # "limited"
      => Cardinality(Recent(request[r].from, request[r].at)) >= MaxFails

\* Nobody is shut out without cause, or for longer than a window: a request is
\* refused only if MaxFails wrong passwords of its address were less than a
\* Window old when the clock was read for it, whatever was forgotten, cleared or
\* recorded before the mutex was had.
LockoutsAreEarned == [][RefusalIsEarned]_vars

\* The user is told the truth about the channel, as far as the answer goes: no
\* request has its message twice; "sent" means that the message is there; a
\* request refused before the webhook was asked has none, nor will it ever; nor
\* has one that Discord refused (429, or another status below 500).  Of a
\* gateway's 5xx, also told as a refusal, see RefusalsAreCertain.
RepliesAreTrue ==
  \A r \in Requests :
    /\ posted[r] <= 1
    /\ request[r].kind = "send" /\ request[r].reply = "ok" => posted[r] = 1
    /\ request[r].reply \in {"limited", "unauthorized", "busy", "invalid"} => posted[r] = 0
    /\ request[r].reply = "refused" /\ request[r].answer # "failed" => posted[r] = 0

\* The claim that a refusal is one: an outcome that is not known is told as such.
RefusalsAreCertain ==
  \A r \in Requests : request[r].reply = "refused" => posted[r] = 0

Uploads == {r \in Requests : request[r].phase \in {"slot", "posting"}}

\* The slots are exactly those of the uploads under way, so "busy" is said only
\* while MaxActive others really are.
SlotsAreCounted == active = Cardinality(Uploads)
=============================================================================
