--------------------------- MODULE PostServerProofs ---------------------------
(***************************************************************************)
(* Proofs about PostServer: for any number of requests and addresses, the  *)
(* slots are those of the uploads under way, the replies are true, and an  *)
(* address is refused only for its own recent wrong passwords.             *)
(***************************************************************************)
EXTENDS PostServer, SequenceTheorems, FiniteSetTheorems, TLAPS

----------------------------------------------------------------------------
(* The inductive invariant. *)

\* The wrong passwords a window of a has counted: none older than the window.
Counted(a) == {i \in DOMAIN wrong : /\ wrong[i].from = a
                                    /\ failures[a].until <= wrong[i].at + Window}

\* A window counts no more than the wrong passwords in it, and is not over
\* later than it may be.
WindowInv ==
  \A a \in Addresses :
    failures[a] # None => /\ failures[a].count <= Cardinality(Counted(a))
                          /\ failures[a].until <= now + Window

\* The replies of a request that never came to a POST.
Early == {"limited", "unauthorized", "busy", "invalid"}

\* There is no reply before the end, one POST at most and no message without it,
\* and a refusal after it is one of three answers.
PhaseInv ==
  \A r \in Requests :
    /\ request[r].phase # "ended" => request[r].reply = "none"
    /\ request[r].posts <= 1 /\ posted[r] <= request[r].posts
    /\ request[r].phase \notin {"posting", "ended"} => request[r].posts = 0
    /\ request[r].reply \in Early => request[r].posts = 0
    /\ request[r].reply = "refused" => request[r].answer \in {"limited", "rejected", "failed"}

IInv ==
  /\ TypeOK
  /\ IsFiniteSet(Remembered) /\ IsFiniteSet(Uploads)
  /\ WindowInv
  /\ PhaseInv
  /\ RepliesAreTrue
  /\ SlotsAreCounted

----------------------------------------------------------------------------
(* Lemmas *)

LEMMA Numbers ==
  /\ MaxFails \in Nat /\ Window \in Nat /\ Capacity \in Nat /\ MaxActive \in Nat /\ MaxTime \in Nat
  /\ MaxFails > 0 /\ Window > 0 /\ Capacity > 0 /\ MaxActive > 0
BY NumbersAssumption

LEMMA Types ==
  ASSUME TypeOK
  PROVE  /\ now \in Nat /\ active \in Nat
         /\ Len(wrong) \in Nat /\ DOMAIN wrong = 1..Len(wrong)
         /\ \A i \in DOMAIN wrong : wrong[i].from \in Addresses /\ wrong[i].at \in Nat
         /\ \A a \in Addresses :
              failures[a] # None => /\ failures[a] \in FailureWindow
                                    /\ failures[a].count \in Nat /\ failures[a].until \in Nat
         /\ \A r \in Requests : /\ request[r] \in Request /\ request[r].from \in Addresses
                                /\ request[r].at \in Nat /\ request[r].posts \in Nat
                                /\ posted[r] \in Nat
<1>1. now \in Nat /\ active \in Nat
  BY Numbers DEF TypeOK
<1>2. Len(wrong) \in Nat /\ DOMAIN wrong = 1..Len(wrong)
      /\ \A i \in DOMAIN wrong : wrong[i] \in WrongPassword
  BY DEF TypeOK
<1>3. \A i \in DOMAIN wrong : wrong[i].from \in Addresses /\ wrong[i].at \in Nat
  BY <1>2 DEF WrongPassword
<1>4. \A a \in Addresses : failures[a] # None => failures[a] \in FailureWindow
  BY DEF TypeOK
<1>5. \A a \in Addresses :
        failures[a] # None => failures[a].count \in Nat /\ failures[a].until \in Nat
  BY <1>4 DEF FailureWindow
<1>6. \A r \in Requests : request[r] \in Request /\ posted[r] \in Nat
  BY DEF TypeOK
<1>7. \A r \in Requests : request[r].from \in Addresses /\ request[r].at \in Nat
                          /\ request[r].posts \in Nat
  BY <1>6 DEF Request
<1> QED
  BY <1>1, <1>2, <1>3, <1>4, <1>5, <1>6, <1>7

LEMMA CountedFinite ==
  ASSUME TypeOK, NEW a, NEW time
  PROVE  /\ IsFiniteSet(Counted(a)) /\ Cardinality(Counted(a)) \in Nat
         /\ IsFiniteSet(Recent(a, time)) /\ Cardinality(Recent(a, time)) \in Nat
         /\ IsFiniteSet(DOMAIN wrong)
<1>1. IsFiniteSet(1..Len(wrong))
  BY Types, FS_Interval
<1>2. IsFiniteSet(DOMAIN wrong)
  BY <1>1, Types
<1>3. Counted(a) \in SUBSET DOMAIN wrong /\ Recent(a, time) \in SUBSET DOMAIN wrong
  BY DEF Counted, Recent
<1>4. IsFiniteSet(Counted(a)) /\ IsFiniteSet(Recent(a, time))
  BY <1>2, <1>3, FS_Subset
<1> QED
  BY <1>2, <1>4, FS_CardinalityType

\* The phase and the reply of one request change.
LEMMA OneRequest ==
  ASSUME TypeOK, NEW r \in Requests, NEW q \in Request, request' = [request EXCEPT ![r] = q]
  PROVE  /\ request' \in [Requests -> Request]
         /\ request'[r] = q
         /\ \A s \in Requests : s # r => request'[s] = request[s]
BY DEF TypeOK

\* What a request keeps when only its phase, its reply or its clock change.
SameUpload(r) ==
  /\ request'[r].kind = request[r].kind /\ request'[r].from = request[r].from
  /\ request'[r].posts = request[r].posts /\ request'[r].answer = request[r].answer

LEMMA GotoFacts ==
  ASSUME TypeOK, NEW r \in Requests, NEW phase, Goto(r, phase),
         phase \in {"admitted", "wrong", "right", "slot"}
  PROVE  /\ request' \in [Requests -> Request]
         /\ request'[r].phase = phase /\ request'[r].reply = request[r].reply
         /\ SameUpload(r)
         /\ \A s \in Requests : s # r => request'[s] = request[s]
<1> DEFINE q == [request[r] EXCEPT !.phase = phase]
<1>1. request[r] \in Request
  BY DEF TypeOK
<1>2. /\ q \in Request /\ q.phase = phase /\ q.reply = request[r].reply
      /\ q.kind = request[r].kind /\ q.from = request[r].from
      /\ q.posts = request[r].posts /\ q.answer = request[r].answer
  BY <1>1 DEF Request
<1>3. request' = [request EXCEPT ![r] = q]
  BY DEF Goto
<1> HIDE DEF q
<1> QED
  BY <1>2, <1>3, OneRequest DEF SameUpload

LEMMA ArriveFacts ==
  ASSUME TypeOK, NEW r \in Requests, Arrive(r)
  PROVE  /\ request' \in [Requests -> Request]
         /\ request'[r].phase = "arrived" /\ request'[r].reply = request[r].reply
         /\ SameUpload(r)
         /\ \A s \in Requests : s # r => request'[s] = request[s]
<1> DEFINE q == [request[r] EXCEPT !.phase = "arrived", !.at = now]
<1>1. request[r] \in Request /\ now \in Nat
  BY Types
<1>2. /\ q \in Request /\ q.phase = "arrived" /\ q.reply = request[r].reply
      /\ q.kind = request[r].kind /\ q.from = request[r].from
      /\ q.posts = request[r].posts /\ q.answer = request[r].answer
  BY <1>1 DEF Request
<1>3. request' = [request EXCEPT ![r] = q]
  BY DEF Arrive
<1> HIDE DEF q
<1> QED
  BY <1>2, <1>3, OneRequest DEF SameUpload

LEMMA PostFacts ==
  ASSUME TypeOK, NEW r \in Requests, Post(r)
  PROVE  /\ request' \in [Requests -> Request]
         /\ request'[r].phase = "posting" /\ request'[r].reply = request[r].reply
         /\ request'[r].posts = request[r].posts + 1
         /\ \A s \in Requests : s # r => request'[s] = request[s]
<1> DEFINE q == [request[r] EXCEPT !.phase = "posting", !.posts = request[r].posts + 1]
<1>1. request[r] \in Request /\ request[r].posts + 1 \in Nat
  BY Types
<1>2. /\ q \in Request /\ q.phase = "posting" /\ q.reply = request[r].reply
      /\ q.posts = request[r].posts + 1
  BY <1>1 DEF Request
<1>3. request' = [request EXCEPT ![r] = q]
  BY DEF Post
<1> HIDE DEF q
<1> QED
  BY <1>2, <1>3, OneRequest

LEMMA AnswerFacts ==
  ASSUME TypeOK, NEW r \in Requests, NEW answer \in Answers, Answer(r, answer)
  PROVE  /\ request' \in [Requests -> Request]
         /\ request'[r].phase = "ended" /\ request'[r].posts = request[r].posts
         /\ request'[r].answer = answer /\ request'[r].reply = Verdict(answer)
         /\ \A s \in Requests : s # r => request'[s] = request[s]
<1> DEFINE q == [request[r] EXCEPT !.phase = "ended", !.answer = answer, !.reply = Verdict(answer)]
<1>1. request[r] \in Request /\ Verdict(answer) \in {"ok", "refused", "unconfirmed"}
  BY Types DEF Verdict
<1>2. /\ q \in Request /\ q.phase = "ended" /\ q.posts = request[r].posts
      /\ q.answer = answer /\ q.reply = Verdict(answer)
  BY <1>1 DEF Request
<1>3. request' = [request EXCEPT ![r] = q]
  BY DEF Answer
<1> HIDE DEF q
<1> QED
  BY <1>2, <1>3, OneRequest

LEMMA EndFacts ==
  ASSUME TypeOK, NEW r \in Requests, NEW reply, End(r, reply),
         reply \in Early \cup {"ok", "unconfirmed"}
  PROVE  /\ request' \in [Requests -> Request]
         /\ request'[r].phase = "ended" /\ request'[r].reply = reply
         /\ SameUpload(r)
         /\ \A s \in Requests : s # r => request'[s] = request[s]
<1> DEFINE q == [request[r] EXCEPT !.phase = "ended", !.reply = reply]
<1>1. request[r] \in Request
  BY DEF TypeOK
<1>2. /\ q \in Request /\ q.phase = "ended" /\ q.reply = reply
      /\ q.kind = request[r].kind /\ q.from = request[r].from
      /\ q.posts = request[r].posts /\ q.answer = request[r].answer
  BY <1>1 DEF Request, Early
<1>3. request' = [request EXCEPT ![r] = q]
  BY DEF End
<1> HIDE DEF q
<1> QED
  BY <1>2, <1>3, OneRequest DEF SameUpload

----------------------------------------------------------------------------
(* The failure windows *)

\* The windows, as a step leaves them.
WindowsOK ==
  /\ failures' \in [Addresses -> FailureWindow \cup {None}]
  /\ IsFiniteSet(Remembered') /\ Cardinality(Remembered') <= Capacity
  /\ wrong' \in Seq(WrongPassword)
  /\ WindowInv'

\* Windows that are forgotten, and time that passes, leave the counts justified.
LEMMA ForgetFacts ==
  ASSUME IInv, wrong' = wrong, now' \in Nat, now <= now',
         failures' \in [Addresses -> FailureWindow \cup {None}],
         \A a \in Addresses : failures'[a] # None => failures'[a] = failures[a]
  PROVE  WindowsOK
<1>1. TypeOK
  BY DEF IInv
<1>2. Remembered' \in SUBSET Remembered
  BY DEF Remembered
<1>3. IsFiniteSet(Remembered') /\ Cardinality(Remembered') <= Cardinality(Remembered)
      /\ Cardinality(Remembered) \in Nat /\ Cardinality(Remembered') \in Nat
  <2>1. IsFiniteSet(Remembered)
    BY DEF IInv
  <2>2. IsFiniteSet(Remembered') /\ Cardinality(Remembered') <= Cardinality(Remembered)
    BY <1>2, <2>1, FS_Subset
  <2> QED BY <2>1, <2>2, FS_CardinalityType
<1>4. Cardinality(Remembered) <= Capacity
  BY <1>1 DEF TypeOK, Remembered
<1>5. Cardinality(Remembered') <= Capacity
  BY <1>3, <1>4, Numbers
<1>6. WindowInv'
  <2> SUFFICES ASSUME NEW a \in Addresses, failures'[a] # None
               PROVE  /\ failures'[a].count <= Cardinality(Counted(a)')
                      /\ failures'[a].until <= now' + Window
    BY DEF WindowInv
  <2>1. failures'[a] = failures[a]
    OBVIOUS
  <2>2. Counted(a)' = Counted(a)
    BY <2>1 DEF Counted
  <2>3. failures[a].count <= Cardinality(Counted(a)) /\ failures[a].until <= now + Window
        /\ failures[a].until \in Nat /\ now \in Nat
    BY <1>1, <2>1, Types DEF IInv, WindowInv
  <2>4. failures[a].until <= now' + Window
    BY <2>3, Numbers
  <2> QED BY <2>1, <2>2, <2>3, <2>4
<1> QED
  BY <1>1, <1>3, <1>5, <1>6 DEF WindowsOK, TypeOK

\* A wrong password is one more in the window of its address, or the first.
LEMMA RecordFacts ==
  ASSUME IInv, NEW r \in Requests, RecordFailure(r)
  PROVE  WindowsOK
<1> DEFINE from == request[r].from
           event == [from |-> from, at |-> now]
           new == NextWindow(failures[from])
<1>1. TypeOK /\ from \in Addresses /\ now \in Nat /\ now' = now
  BY Types DEF IInv, RecordFailure
<1>2. PICK gone \in IF Full THEN {{a} : a \in Remembered} ELSE {{}} :
        failures' = [a \in Addresses |-> IF a = from THEN new
                                         ELSE IF a \in gone THEN None ELSE failures[a]]
  BY ZenonT(40) DEF RecordFailure
<1>3. wrong' = Append(wrong, event) /\ event \in WrongPassword
  BY <1>1 DEF RecordFailure, WrongPassword
<1>4. /\ new \in FailureWindow
      /\ \/ new.count = 1 /\ new.until = now + Window
         \/ /\ failures[from] # None
            /\ new.count = failures[from].count + 1 /\ new.until = failures[from].until
  <2>1. CASE Over(failures[from], now)
    <3>1. new = [count |-> 1, until |-> now + Window]
      BY <2>1 DEF NextWindow
    <3> HIDE DEF new
    <3> QED BY <1>1, <3>1, Numbers DEF FailureWindow
  <2>2. CASE ~Over(failures[from], now)
    <3>1. failures[from] # None /\ failures[from] \in FailureWindow
      BY <1>1, <2>2, Types DEF Over
    <3>2. new = [failures[from] EXCEPT !.count = failures[from].count + 1]
      BY <2>2, Zenon DEF NextWindow
    <3> HIDE DEF new, from
    <3> QED BY <3>1, <3>2 DEF FailureWindow
  <2> QED BY <2>1, <2>2
<1> HIDE DEF from, event, new
<1>5. failures' \in [Addresses -> FailureWindow \cup {None}]
  <2>1. \A a \in Addresses : failures[a] \in FailureWindow \cup {None}
    BY <1>1 DEF TypeOK
  <2> QED BY <1>2, <1>4, <2>1
<1>6. /\ failures'[from] = new
      /\ \A a \in Addresses : a # from /\ failures'[a] # None =>
                                a \notin gone /\ failures'[a] = failures[a]
  BY <1>1, <1>2
<1>7. /\ wrong' \in Seq(WrongPassword) /\ Len(wrong') = Len(wrong) + 1
      /\ wrong'[Len(wrong) + 1] = event
      /\ \A i \in 1..Len(wrong) : wrong'[i] = wrong[i]
  BY <1>1, <1>3, AppendProperties DEF TypeOK
<1> DEFINE k == Len(wrong) + 1
<1>8. /\ DOMAIN wrong = 1..Len(wrong) /\ Len(wrong) \in Nat
      /\ DOMAIN wrong' = DOMAIN wrong \cup {k} /\ k \notin DOMAIN wrong
      /\ wrong'[k].from = from /\ wrong'[k].at = now
      /\ \A i \in DOMAIN wrong : wrong'[i] = wrong[i]
  <2>1. DOMAIN wrong = 1..Len(wrong) /\ Len(wrong) \in Nat
    BY <1>1, Types
  <2>2. DOMAIN wrong' = 1..(Len(wrong) + 1)
    BY <1>7
  <2>3. 1..(Len(wrong) + 1) = 1..Len(wrong) \cup {k} /\ k \notin 1..Len(wrong)
    BY <2>1
  <2>4. wrong'[k].from = from /\ wrong'[k].at = now
    BY <1>7 DEF event
  <2> QED BY <1>7, <2>1, <2>2, <2>3, <2>4
<1> HIDE DEF k
<1>9. IsFiniteSet(Remembered') /\ Cardinality(Remembered') <= Capacity
  <2> DEFINE kept == Remembered \ gone
  <2>1. IsFiniteSet(Remembered) /\ Cardinality(Remembered) \in Nat
        /\ Cardinality(Remembered) <= Capacity
    BY <1>1, FS_CardinalityType DEF IInv, TypeOK, Remembered
  <2>2. IsFiniteSet(kept) /\ Cardinality(kept) \in Nat /\ Cardinality(kept) + 1 <= Capacity
    <3>1. CASE Full
      <4>1. PICK a \in Remembered : gone = {a}
        BY <1>2, <3>1
      <4>2. IsFiniteSet(kept) /\ Cardinality(kept) = Cardinality(Remembered) - 1
        BY <2>1, <4>1, FS_RemoveElement
      <4>3. Cardinality(kept) \in Nat
        BY <4>2, FS_CardinalityType
      <4> HIDE DEF kept
      <4> QED BY <2>1, <4>2, <4>3, Numbers
    <3>2. CASE ~Full
      <4>1. kept = Remembered
        BY <1>2, <3>2
      <4>2. Cardinality(Remembered) + 1 <= Capacity
        BY <2>1, <3>2, Numbers DEF Full
      <4> HIDE DEF kept
      <4> QED BY <2>1, <4>1, <4>2
    <3> QED BY <3>1, <3>2
  <2>3. Remembered' \in SUBSET (kept \cup {from})
    BY <1>6 DEF Remembered
  <2> HIDE DEF kept
  <2>4. /\ IsFiniteSet(kept \cup {from})
        /\ Cardinality(kept \cup {from}) = IF from \in kept THEN Cardinality(kept)
                                           ELSE Cardinality(kept) + 1
    BY <2>2, FS_AddElement
  <2>5. IsFiniteSet(Remembered') /\ Cardinality(Remembered') <= Cardinality(kept \cup {from})
    BY <2>3, <2>4, FS_Subset
  <2>6. Cardinality(Remembered') \in Nat
    BY <2>5, FS_CardinalityType
  <2> QED BY <2>2, <2>4, <2>5, <2>6, Numbers
<1>10. WindowInv'
  <2> SUFFICES ASSUME NEW a \in Addresses, failures'[a] # None
               PROVE  /\ failures'[a].count <= Cardinality(Counted(a)')
                      /\ failures'[a].until <= now' + Window
    BY DEF WindowInv
  <2>0. Counted(a)' = {i \in DOMAIN wrong' : /\ wrong'[i].from = a
                                              /\ failures'[a].until <= wrong'[i].at + Window}
    BY DEF Counted
  <2>1. IsFiniteSet(Counted(a)') /\ Cardinality(Counted(a)') \in Nat
    <3>0. TypeOK /\ IsFiniteSet(DOMAIN wrong)
      BY <1>1, CountedFinite DEF IInv
    <3>1. IsFiniteSet((DOMAIN wrong) \cup {k})
      BY <3>0, FS_AddElement
    <3>3. IsFiniteSet(DOMAIN wrong')
      BY <1>8, <3>1
    <3>2. Counted(a)' \in SUBSET DOMAIN wrong'
      BY <2>0
    <3> QED BY <3>2, <3>3, FS_Subset, FS_CardinalityType
  <2>2. CASE a # from
    <3>1. failures'[a] = failures[a] /\ failures[a] # None
      BY <1>6, <2>2
    <3>2. Counted(a)' = Counted(a)
      BY <1>8, <2>0, <2>2, <3>1 DEF Counted
    <3> QED BY <1>1, <3>1, <3>2 DEF IInv, WindowInv
  <2>3. CASE a = from /\ new.count = 1 /\ new.until = now + Window
    <3>1. k \in Counted(a)'
      BY <1>1, <1>6, <1>8, <2>0, <2>3, Numbers
    <3>2. Cardinality(Counted(a)') # 0
      BY <2>1, <3>1, FS_EmptySet
    <3> QED BY <1>1, <1>6, <2>1, <2>3, <3>2, Numbers
  <2>4. CASE /\ a = from /\ failures[a] # None
             /\ new.count = failures[a].count + 1 /\ new.until = failures[a].until
    <3>1. /\ failures[a].count \in Nat /\ failures[a].until \in Nat
          /\ failures[a].count <= Cardinality(Counted(a))
          /\ failures[a].until <= now + Window
      BY <1>1, <2>4, Types DEF IInv, WindowInv
    <3>2. Counted(a)' = Counted(a) \cup {k} /\ k \notin Counted(a)
      BY <1>6, <1>8, <2>0, <2>4, <3>1 DEF Counted
    <3>3. IsFiniteSet(Counted(a)) /\ Cardinality(Counted(a)) \in Nat
      BY <1>1, CountedFinite
    <3>4. Cardinality(Counted(a)') = Cardinality(Counted(a)) + 1
      BY <3>2, <3>3, FS_AddElement
    <3> QED BY <1>1, <1>6, <2>4, <3>1, <3>3, <3>4
  <2> QED BY <1>4, <2>2, <2>3, <2>4
<1> QED
  BY <1>5, <1>7, <1>9, <1>10 DEF WindowsOK

----------------------------------------------------------------------------
(* The requests *)

\* The requests, their messages and the slots, as a step leaves them.
RequestsOK ==
  /\ active' \in 0..MaxActive
  /\ request' \in [Requests -> Request]
  /\ posted' \in [Requests -> Nat]
  /\ IsFiniteSet(Uploads')
  /\ PhaseInv' /\ RepliesAreTrue' /\ SlotsAreCounted'

\* A request goes on outside the part with the slot.
LEMMA StepFacts ==
  ASSUME IInv, NEW r \in Requests, UNCHANGED <<active, posted>>,
         \/ Arrive(r)
         \/ request[r].phase = "arrived" /\ (Goto(r, "admitted") \/ End(r, "limited"))
         \/ request[r].phase = "admitted" /\ (Goto(r, "right") \/ Goto(r, "wrong"))
         \/ request[r].phase = "wrong" /\ End(r, "unauthorized")
         \/ request[r].phase = "right" /\ request[r].kind = "other" /\ End(r, "ok")
         \/ request[r].phase = "right" /\ End(r, "busy")
  PROVE  RequestsOK
<1>1. TypeOK
  BY DEF IInv
<1>2. /\ request' \in [Requests -> Request] /\ SameUpload(r)
      /\ \A s \in Requests : s # r => request'[s] = request[s]
      /\ \/ /\ request'[r].phase \in {"arrived", "admitted", "wrong", "right"}
            /\ request'[r].reply = request[r].reply
         \/ request'[r].phase = "ended" /\ request'[r].reply \in Early
         \/ /\ request'[r].phase = "ended"
            /\ request'[r].reply = "ok" /\ request[r].kind # "send"
      /\ request[r].phase \notin {"slot", "posting", "ended"}
  BY <1>1, ArriveFacts, GotoFacts, EndFacts DEF Arrive, At, Early
<1>3. Uploads' = Uploads
  BY <1>2 DEF Uploads
<1>4. request[r].posts = 0 /\ posted[r] \in Nat /\ posted[r] <= request[r].posts
      /\ request[r].reply = "none"
  BY <1>1, <1>2, Types DEF IInv, PhaseInv
<1>5. PhaseInv'
  BY <1>2, <1>4 DEF IInv, PhaseInv, SameUpload, Early
<1>6. RepliesAreTrue'
  BY <1>2, <1>4 DEF IInv, RepliesAreTrue, SameUpload, Early
<1> QED
  BY <1>1, <1>2, <1>3, <1>5, <1>6 DEF IInv, TypeOK, RequestsOK, SlotsAreCounted

\* The one POST of an upload.
LEMMA PostingFacts ==
  ASSUME IInv, NEW r \in Requests, Post(r)
  PROVE  RequestsOK
<1>1. TypeOK /\ UNCHANGED <<active, posted>> /\ request[r].phase = "slot"
  BY DEF IInv, Post, At
<1>2. /\ request' \in [Requests -> Request]
      /\ request'[r].phase = "posting" /\ request'[r].reply = request[r].reply
      /\ request'[r].posts = request[r].posts + 1
      /\ \A s \in Requests : s # r => request'[s] = request[s]
  BY <1>1, PostFacts
<1>3. request[r].posts = 0 /\ posted[r] \in Nat /\ posted[r] <= 0 /\ request[r].reply = "none"
  BY <1>1, Types DEF IInv, PhaseInv
<1>4. Uploads' = Uploads
  BY <1>1, <1>2 DEF Uploads
<1>5. PhaseInv' /\ RepliesAreTrue'
  BY <1>1, <1>2, <1>3 DEF IInv, PhaseInv, RepliesAreTrue, Early
<1> QED
  BY <1>1, <1>2, <1>4, <1>5 DEF IInv, TypeOK, RequestsOK, SlotsAreCounted

\* One more upload, one more slot.
LEMMA SlotFacts ==
  ASSUME IInv, NEW r \in Requests, request[r].phase = "right", Goto(r, "slot"),
         active < MaxActive, active' = active + 1, posted' = posted
  PROVE  RequestsOK
<1>1. TypeOK /\ active \in Nat /\ IsFiniteSet(Uploads) /\ active = Cardinality(Uploads)
  BY Types DEF IInv, SlotsAreCounted
<1>2. /\ request' \in [Requests -> Request]
      /\ request'[r].phase = "slot" /\ request'[r].reply = request[r].reply
      /\ SameUpload(r)
      /\ \A s \in Requests : s # r => request'[s] = request[s]
  BY <1>1, GotoFacts
<1>3. Uploads' = Uploads \cup {r} /\ r \notin Uploads
  BY <1>2 DEF Uploads
<1>4. IsFiniteSet(Uploads') /\ Cardinality(Uploads') = active + 1
  BY <1>1, <1>3, FS_AddElement
<1>5. PhaseInv' /\ RepliesAreTrue'
  BY <1>2 DEF IInv, PhaseInv, RepliesAreTrue, SameUpload
<1>6. active' \in 0..MaxActive
  BY <1>1, Numbers
<1> QED
  BY <1>1, <1>2, <1>4, <1>5, <1>6 DEF TypeOK, RequestsOK, SlotsAreCounted

\* An upload that ends gives its slot back.
LEMMA ReleaseFacts ==
  ASSUME IInv, NEW r \in Requests, r \in Uploads, active' = active - 1,
         request'[r].phase = "ended",
         \A s \in Requests : s # r => request'[s] = request[s]
  PROVE  active' \in 0..MaxActive /\ IsFiniteSet(Uploads') /\ SlotsAreCounted'
<1>1. TypeOK /\ active \in Nat /\ IsFiniteSet(Uploads) /\ active = Cardinality(Uploads)
  BY Types DEF IInv, SlotsAreCounted
<1>2. Uploads' = Uploads \ {r}
  BY DEF Uploads
<1>3. IsFiniteSet(Uploads') /\ Cardinality(Uploads') = active - 1 /\ Cardinality(Uploads') \in Nat
  BY <1>1, <1>2, FS_RemoveElement, FS_CardinalityType
<1> QED
  BY <1>1, <1>3, Numbers DEF TypeOK, SlotsAreCounted

\* An upload that ends without a POST.
LEMMA UnpostedFacts ==
  ASSUME IInv, NEW r \in Requests, NEW reply \in {"invalid", "unconfirmed"},
         request[r].phase = "slot", Release(r, reply), posted' = posted
  PROVE  RequestsOK
<1>1. TypeOK /\ r \in Uploads /\ active' = active - 1
  BY DEF IInv, Uploads, Release
<1>2. /\ request' \in [Requests -> Request]
      /\ request'[r].phase = "ended" /\ request'[r].reply = reply /\ SameUpload(r)
      /\ \A s \in Requests : s # r => request'[s] = request[s]
  BY <1>1, EndFacts DEF Release, Early
<1>3. request[r].posts = 0 /\ posted[r] \in Nat /\ posted[r] <= 0
  BY <1>1, Types DEF IInv, PhaseInv
<1>4. PhaseInv' /\ RepliesAreTrue'
  BY <1>2, <1>3 DEF IInv, PhaseInv, RepliesAreTrue, SameUpload
<1> QED
  BY <1>1, <1>2, <1>4, ReleaseFacts DEF TypeOK, RequestsOK

\* An upload that ends with an answer: its reply is true.
LEMMA AnsweredFacts ==
  ASSUME IInv, NEW r \in Requests, NEW answer \in Answers, Answer(r, answer)
  PROVE  RequestsOK
<1>1. TypeOK /\ r \in Uploads /\ active' = active - 1 /\ posted' = posted
      /\ request[r].phase = "posting" /\ Possible(answer, r)
  BY DEF IInv, Uploads, Answer, At
<1>2. /\ request' \in [Requests -> Request]
      /\ request'[r].phase = "ended" /\ request'[r].posts = request[r].posts
      /\ request'[r].answer = answer /\ request'[r].reply = Verdict(answer)
      /\ \A s \in Requests : s # r => request'[s] = request[s]
  BY <1>1, AnswerFacts
<1>3. /\ posted[r] \in Nat /\ request[r].posts \in Nat
      /\ request[r].posts <= 1 /\ posted[r] <= request[r].posts
  BY <1>1, Types DEF IInv, PhaseInv
<1>4. /\ Verdict(answer) \in {"ok", "refused", "unconfirmed"}
      /\ Verdict(answer) = "ok" => posted[r] > 0
      /\ Verdict(answer) = "refused" => answer \in {"limited", "rejected", "failed"}
      /\ answer \in {"limited", "rejected"} => posted[r] = 0
  BY <1>1 DEF Verdict, Possible
<1>5. PhaseInv'
  BY <1>1, <1>2, <1>3, <1>4 DEF IInv, PhaseInv, Early
<1>6. RepliesAreTrue'
  BY <1>1, <1>2, <1>3, <1>4 DEF IInv, RepliesAreTrue
<1> QED
  BY <1>1, <1>2, <1>5, <1>6, ReleaseFacts DEF TypeOK, RequestsOK

\* Discord creates the message of an upload whose fate is still open.
LEMMA CreateFacts ==
  ASSUME IInv, NEW r \in Requests, Create(r)
  PROVE  RequestsOK
<1>1. TypeOK /\ request' = request /\ active' = active
      /\ request[r].answer \in {None, "nameless", "failed", "lost"}
  BY DEF IInv, Create
<1>2. /\ posted[r] \in Nat /\ request[r].posts \in Nat
      /\ request[r].posts <= 1 /\ posted[r] < request[r].posts
  BY <1>1, Types DEF IInv, PhaseInv, Create
<1>3. posted' \in [Requests -> Nat] /\ posted'[r] = 1
      /\ \A s \in Requests : s # r => posted'[s] = posted[s]
  BY <1>1, <1>2 DEF Create, TypeOK
<1>4. PhaseInv'
  BY <1>1, <1>2, <1>3 DEF IInv, PhaseInv
<1>5. RepliesAreTrue'
  <2>1. request[r].reply \notin Early
    BY <1>2 DEF IInv, PhaseInv
  <2>2. request[r].reply = "refused" => request[r].answer = "failed"
    BY <1>1, AnswersAssumption DEF IInv, PhaseInv, Answers
  <2> QED BY <1>1, <1>3, <2>1, <2>2 DEF IInv, RepliesAreTrue, Early
<1>6. Uploads' = Uploads
  BY <1>1 DEF Uploads
<1> QED
  BY <1>1, <1>3, <1>4, <1>5, <1>6 DEF IInv, TypeOK, RequestsOK, SlotsAreCounted

LEMMA IdleFacts ==
  ASSUME IInv, UNCHANGED <<active, request, posted>>
  PROVE  RequestsOK
BY DEF IInv, TypeOK, RequestsOK, PhaseInv, RepliesAreTrue, SlotsAreCounted, Uploads

----------------------------------------------------------------------------
(* Invariance *)

LEMMA InitIInv == Init => IInv
<1> SUFFICES ASSUME Init PROVE IInv
  OBVIOUS
<1> USE DEF Init
<1>1. \A r \in Requests : request[r] \in Request /\ request[r].phase = "new"
                          /\ request[r].reply = "none" /\ request[r].posts = 0 /\ posted[r] = 0
  <2> SUFFICES ASSUME NEW r \in Requests
               PROVE  /\ request[r] \in Request /\ request[r].phase = "new"
                      /\ request[r].reply = "none" /\ request[r].posts = 0 /\ posted[r] = 0
    OBVIOUS
  <2>1. PICK kind \in Kinds, from \in Addresses, right \in BOOLEAN, form \in BOOLEAN :
          request[r] = [phase |-> "new", kind |-> kind, from |-> from, right |-> right,
                        wellFormed |-> form \/ kind = "other" \/ ~right,
                        at |-> 0, posts |-> 0, answer |-> None, reply |-> "none"]
    BY DEF NewRequests
  <2> DEFINE well == form \/ kind = "other" \/ ~right
  <2>2. well \in BOOLEAN /\ request[r].posts = 0 /\ request[r].phase = "new"
        /\ request[r].reply = "none"
    BY <2>1
  <2>3. request[r] = [phase |-> "new", kind |-> kind, from |-> from, right |-> right,
                      wellFormed |-> well, at |-> 0, posts |-> 0, answer |-> None, reply |-> "none"]
    BY <2>1
  <2> HIDE DEF well
  <2>4. request[r] \in Request
    BY <2>2, <2>3 DEF Request
  <2> QED BY <2>2, <2>4
<1>2. Remembered = {} /\ Uploads = {}
  BY <1>1 DEF Remembered, Uploads
<1>3. request \in [Requests -> Request]
  BY <1>1
<1>4. TypeOK
  <2>1. Cardinality({a \in Addresses : failures[a] # None}) = 0
    BY <1>2, FS_EmptySet DEF Remembered
  <2> QED BY <1>3, <2>1, Numbers DEF TypeOK
<1>5. WindowInv /\ PhaseInv /\ RepliesAreTrue
  BY <1>1 DEF WindowInv, PhaseInv, RepliesAreTrue, Early
<1>6. SlotsAreCounted
  BY <1>2, FS_EmptySet DEF SlotsAreCounted
<1> QED
  BY <1>2, <1>4, <1>5, <1>6, FS_EmptySet DEF IInv

LEMMA Together ==
  ASSUME now' \in 0..MaxTime, WindowsOK, RequestsOK
  PROVE  IInv'
BY DEF WindowsOK, RequestsOK, IInv, TypeOK, Remembered

LEMMA NextIInv == IInv /\ [Next]_vars => IInv'
<1> SUFFICES ASSUME IInv, [Next]_vars PROVE IInv'
  OBVIOUS
<1>1. TypeOK /\ now \in Nat /\ now \in 0..MaxTime /\ MaxTime \in Nat
  BY Types, Numbers DEF IInv, TypeOK
<1>2. ASSUME UNCHANGED <<now, failures, wrong>> PROVE now' \in 0..MaxTime /\ WindowsOK
  BY <1>1, <1>2, ForgetFacts DEF TypeOK
<1>3. ASSUME NEW r \in Requests, Authorized(r), UNCHANGED <<now, wrong>>
      PROVE  now' \in 0..MaxTime /\ WindowsOK
  <2>1. failures' = [failures EXCEPT ![request[r].from] = None]
    BY <1>3 DEF Authorized
  <2>2. failures' \in [Addresses -> FailureWindow \cup {None}]
        /\ \A a \in Addresses : failures'[a] # None => failures'[a] = failures[a]
    BY <1>1, <2>1 DEF TypeOK
  <2> QED BY <1>1, <1>3, <2>2, ForgetFacts
<1>4. ASSUME NEW r \in Requests, Arrive(r) PROVE IInv'
  BY <1>2, <1>4, StepFacts, Together DEF Arrive
<1>5. ASSUME NEW r \in Requests, Allow(r) PROVE IInv'
  <2>1. /\ failures' = [a \in Addresses |-> IF Over(failures[a], request[r].at) THEN None ELSE failures[a]]
        /\ UNCHANGED <<now, active, wrong, posted>>
        /\ request[r].phase = "arrived"
        /\ Goto(r, "admitted") \/ End(r, "limited")
    BY <1>5 DEF Allow, At
  <2>2. failures' \in [Addresses -> FailureWindow \cup {None}]
        /\ \A a \in Addresses : failures'[a] # None => failures'[a] = failures[a]
    BY <1>1, <2>1 DEF TypeOK
  <2>3. now' \in 0..MaxTime /\ WindowsOK
    BY <1>1, <2>1, <2>2, ForgetFacts
  <2>4. RequestsOK
    BY <2>1, StepFacts
  <2> QED BY <2>3, <2>4, Together
<1>6. ASSUME NEW r \in Requests, Compare(r) PROVE IInv'
  BY <1>2, <1>6, StepFacts, Together DEF Compare, At
<1>7. ASSUME NEW r \in Requests, RecordFailure(r) PROVE IInv'
  <2>1. RequestsOK
    BY <1>7, StepFacts DEF RecordFailure, At
  <2>2. now' = now
    BY <1>7 DEF RecordFailure
  <2> QED BY <1>1, <1>7, <2>1, <2>2, RecordFacts, Together
<1>8. ASSUME NEW r \in Requests, Serve(r) PROVE IInv'
  <2>1. RequestsOK
    BY <1>8, StepFacts DEF Serve, Authorized, At
  <2> QED BY <1>3, <1>8, <2>1, Together DEF Serve
<1>9. ASSUME NEW r \in Requests, TakeSlot(r) PROVE IInv'
  <2>1. request[r].phase = "right" /\ posted' = posted
    BY <1>9 DEF TakeSlot, Authorized, At
  <2>2. \/ active < MaxActive /\ active' = active + 1 /\ Goto(r, "slot")
        \/ active' = active /\ End(r, "busy")
    BY <1>9 DEF TakeSlot
  <2>3. RequestsOK
    BY <2>1, <2>2, SlotFacts, StepFacts
  <2> QED BY <1>3, <1>9, <2>3, Together DEF TakeSlot
<1>10. ASSUME NEW r \in Requests, Reject(r) \/ Unsent(r) PROVE IInv'
  <2>1. RequestsOK
    BY <1>10, UnpostedFacts DEF Reject, Unsent, At
  <2> QED BY <1>2, <1>10, <2>1, Together DEF Reject, Unsent
<1>11. ASSUME NEW r \in Requests, Post(r) PROVE IInv'
  BY <1>2, <1>11, PostingFacts, Together DEF Post
<1>12. ASSUME NEW r \in Requests, NEW answer \in Answers, Answer(r, answer) PROVE IInv'
  BY <1>2, <1>12, AnsweredFacts, Together DEF Answer
<1>13. ASSUME NEW r \in Requests, Create(r) PROVE IInv'
  BY <1>2, <1>13, CreateFacts, Together DEF Create
<1>14. CASE Tick
  <2>1. now' \in 0..MaxTime /\ now' = now + 1 /\ UNCHANGED <<failures, active, request, wrong, posted>>
    BY <1>1, <1>14 DEF Tick
  <2>2. WindowsOK
    BY <1>1, <2>1, ForgetFacts DEF TypeOK
  <2> QED BY <2>1, <2>2, IdleFacts, Together
<1>15. CASE UNCHANGED vars
  BY <1>2, <1>15, IdleFacts, Together DEF vars
<1> QED
  BY <1>4, <1>5, <1>6, <1>7, <1>8, <1>9, <1>10, <1>11, <1>12, <1>13, <1>14, <1>15
  DEF Next, Proceed

LEMMA Invariance == Spec => []IInv
<1> QED
  BY InitIInv, NextIInv, PTL DEF Spec

----------------------------------------------------------------------------
(* The theorems *)

\* The handlers keep to the types; no more than Capacity windows are remembered
\* and no more than MaxActive uploads are under way.
THEOREM TypeCorrect == Spec => []TypeOK
<1>1. IInv => TypeOK
  BY DEF IInv
<1> QED
  BY <1>1, Invariance, PTL

\* "Sent" means that the message is there, any refusal but a gateway's 5xx that
\* it is not and will not be, and no request has its message twice: if Discord
\* creates one message of a POST at most, and none that it refused.
THEOREM TrueReplies == Spec => []RepliesAreTrue
<1>1. IInv => RepliesAreTrue
  BY DEF IInv
<1> QED
  BY <1>1, Invariance, PTL

\* A slot is held by every upload under way and by nothing else.
THEOREM CountedSlots == Spec => []SlotsAreCounted
<1>1. IInv => SlotsAreCounted
  BY DEF IInv
<1> QED
  BY <1>1, Invariance, PTL

\* A request is turned away unheard only if MaxFails wrong passwords of its own
\* address were less than a Window old when the clock was read for it, whatever
\* happened between the mutexes.
THEOREM EarnedLockouts == Spec => LockoutsAreEarned
<1>1. ASSUME IInv, [Next]_vars PROVE RefusalIsEarned
  <2> SUFFICES ASSUME NEW r \in Requests,
                      request'[r].reply = "limited", request[r].reply # "limited"
               PROVE  Cardinality(Recent(request[r].from, request[r].at)) >= MaxFails
    BY DEF RefusalIsEarned
  <2>1. TypeOK
    BY <1>1 DEF IInv
  <2>2. Allow(r)
    <3>1. ASSUME NEW s \in Requests, Arrive(s) \/ Compare(s) \/ Post(s) PROVE FALSE
      <4>1. CASE Arrive(s) \/ Post(s)
        BY <2>1, <4>1, ArriveFacts, PostFacts
      <4>2. CASE Compare(s)
        <5>1. PICK phase \in {"right", "wrong"} : Goto(s, phase)
          BY <4>2 DEF Compare
        <5> QED BY <2>1, <5>1, GotoFacts
      <4> QED BY <3>1, <4>1, <4>2
    <3>2. ASSUME NEW s \in Requests,
                 NEW reply \in {"ok", "unauthorized", "busy", "invalid", "unconfirmed"},
                 End(s, reply)
          PROVE  FALSE
      <4>1. request'[s].reply = reply /\ (s # r => request'[r] = request[r])
        BY <2>1, <3>2, EndFacts DEF Early
      <4> QED BY <4>1
    <3>7. ASSUME NEW s \in Requests, NEW answer \in Answers, Answer(s, answer) PROVE FALSE
      <4>1. request'[s].reply = Verdict(answer) /\ (s # r => request'[r] = request[r])
        BY <2>1, <3>7, AnswerFacts
      <4> QED BY <4>1 DEF Verdict
    <3>3. ASSUME NEW s \in Requests, TakeSlot(s) PROVE FALSE
      <4>1. CASE Goto(s, "slot")
        BY <2>1, <4>1, GotoFacts
      <4>2. CASE End(s, "busy")
        BY <3>2, <4>2
      <4> QED BY <3>3, <4>1, <4>2 DEF TakeSlot
    <3>4. ASSUME NEW s \in Requests,
                 RecordFailure(s) \/ Serve(s) \/ Reject(s) \/ Unsent(s)
          PROVE  FALSE
      BY <3>2, <3>4 DEF RecordFailure, Serve, Reject, Unsent, Release
    <3>5. ASSUME NEW s \in Requests, Allow(s), s # r PROVE FALSE
      <4>1. Goto(s, "admitted") \/ End(s, "limited")
        BY <3>5 DEF Allow
      <4> QED BY <2>1, <3>5, <4>1, GotoFacts, EndFacts DEF Early
    <3>6. request' # request
      OBVIOUS
    <3> QED
      BY <1>1, <3>1, <3>3, <3>4, <3>5, <3>6, <3>7 DEF Next, Proceed, Create, Tick, vars
  <2> DEFINE a == request[r].from
             w == failures[a]
             t == request[r].at
  <2>3. a \in Addresses /\ t \in Nat
    BY <2>1, Types
  <2>4. w # None /\ t < w.until /\ ~(w.count < MaxFails)
    <3>1. failures' = [b \in Addresses |-> IF Over(failures[b], t) THEN None ELSE failures[b]]
      BY <2>2 DEF Allow
    <3>2. failures'[a] = IF Over(w, t) THEN None ELSE w
      BY <2>3, <3>1
    <3>3. ~Goto(r, "admitted")
      BY <2>1, GotoFacts
    <3>4. failures'[a] # None /\ ~(failures'[a].count < MaxFails)
      BY <2>2, <3>3 DEF Allow
    <3>5. ~Over(w, t) /\ failures'[a] = w
      BY <3>2, <3>4
    <3>6. w # None /\ w.until \in Nat
      BY <2>1, <2>3, <3>5, Types DEF Over
    <3> HIDE DEF w, t
    <3> QED BY <2>3, <3>4, <3>5, <3>6 DEF Over
  <2>5. w.count \in Nat /\ w.until \in Nat /\ w.count <= Cardinality(Counted(a))
    BY <1>1, <2>1, <2>3, <2>4, Types DEF IInv, WindowInv
  <2>6. Counted(a) \in SUBSET Recent(a, t)
    <3> SUFFICES ASSUME NEW i \in Counted(a) PROVE i \in Recent(a, t)
      OBVIOUS
    <3>1. i \in DOMAIN wrong /\ wrong[i].from = a /\ w.until <= wrong[i].at + Window
      BY DEF Counted
    <3>2. wrong[i].at \in Nat
      BY <2>1, <3>1, Types
    <3> HIDE DEF w, a, t
    <3>3. t < wrong[i].at + Window
      BY <2>3, <2>4, <2>5, <3>1, <3>2, Numbers
    <3> QED BY <3>1, <3>3 DEF Recent
  <2>7. /\ Cardinality(Counted(a)) <= Cardinality(Recent(a, t))
        /\ Cardinality(Counted(a)) \in Nat /\ Cardinality(Recent(a, t)) \in Nat
    BY <2>1, <2>6, CountedFinite, FS_Subset
  <2> HIDE DEF w, a, t
  <2> QED BY <2>4, <2>5, <2>7, Numbers DEF a, t
<1> QED
  BY <1>1, Invariance, PTL DEF Spec, LockoutsAreEarned
=============================================================================
