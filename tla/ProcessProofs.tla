----------------------------- MODULE ProcessProofs -----------------------------
(***************************************************************************)
(* Theorems about what the bot does on its own, with no message to it.     *)
(* Reminder: for any length of the day, minute, cooldown and clock, and    *)
(* any number of restarts, the reminders sent are of different days, in    *)
(* their minute, of idle days and with the cooldown between them.          *)
(* Migration: a file that says it has the current version has the whole    *)
(* schema, a process serves only such a file, and opening implements       *)
(* Upgrade, for any number of processes, failures and rows.                *)
(***************************************************************************)
EXTENDS Reminder, Migration, SequenceTheorems, TLAPS

----------------------------------------------------------------------------
(* Reminder: the inductive invariant. *)

\* The reminders that have been received.
Sent == DOMAIN sent

\* What is true of a reminder once it has been received.
SentInv ==
  \A i \in Sent :
    /\ sent[i].day = DayOf(sent[i].at) /\ InMinute(sent[i].at) /\ sent[i].at <= now
    /\ ~sent[i].busy
    /\ sent[i].recorded => state # None /\ sent[i].at <= state

\* Of two reminders: the later one is of a later day and keeps the cooldown.
OrderInv ==
  \A i, j \in Sent :
    i < j => /\ sent[i].day < sent[j].day /\ sent[i].at < sent[j].at
             /\ sent[i].recorded => sent[j].at >= sent[i].at + Cooldown

\* Every reminder is of a day before this one.
AllBefore(day) == \A i \in Sent : sent[i].day < day

\* An armed timer is for a day after that of every reminder.
TimerInv ==
  timer # None => /\ check = Idle
                  /\ \E day \in Nat : timer = TargetOf(day) /\ AllBefore(day)

\* Until it has sent, Check is for a day after that of every reminder.
CheckInv ==
  /\ check.phase = "idle" => check = Idle
  /\ check.phase # "idle" => InMinute(check.at) /\ check.at <= now
  /\ check.phase \in {"state", "search", "send"} => AllBefore(Today)
  /\ check.phase \in {"state", "search"} => (check.busy => <<Today, "later">> \in active)
  /\ check.phase \in {"search", "send"} =>
       \A i \in Sent : sent[i].recorded => check.at >= sent[i].at + Cooldown
  /\ check.phase \in {"send", "record"} => ~check.busy
  /\ check.phase = "record" => Len(sent) > 0 /\ sent[Len(sent)].at = check.at

\* The inductive invariant.
IInv == TypeOK /\ SentInv /\ OrderInv /\ TimerInv /\ CheckInv

----------------------------------------------------------------------------
(* Reminder: the clock. *)

\* What is assumed of the lengths.
LEMMA Bounds ==
  /\ DayTicks \in Nat /\ Target \in Nat /\ MinuteTicks \in Nat /\ Cooldown \in Nat /\ Early \in Nat
  /\ MaxDay \in Nat /\ MaxLife \in Nat /\ DayTicks > 0
  /\ MinuteTicks > 0 /\ Cooldown > 0 /\ Early < Target /\ Target + MinuteTicks <= DayTicks
  /\ None \notin Nat
BY TimesAssumption

\* Multiplication keeps the order.
LEMMA Multiply ==
  ASSUME NEW a \in Nat, NEW b \in Nat, NEW c \in Nat, a <= b
  PROVE  a * c <= b * c /\ a * c \in Nat /\ b * c \in Nat
OBVIOUS

\* The day of a moment is the last one that begins no later.
LEMMA DayFacts ==
  ASSUME NEW t \in Nat
  PROVE  /\ DayOf(t) \in Nat
         /\ \A day \in Nat : (day * DayTicks <= t) <=> (day <= DayOf(t))
<1>1. DayOf(t) \in Nat /\ DayOf(t) * DayTicks <= t /\ t < (DayOf(t) + 1) * DayTicks
  BY Bounds DEF DayOf
<1>2. ASSUME NEW day \in Nat, day <= DayOf(t) PROVE day * DayTicks <= t
  <2>1. day * DayTicks <= DayOf(t) * DayTicks /\ day * DayTicks \in Nat /\ DayOf(t) * DayTicks \in Nat
    BY <1>1, <1>2, Multiply, Bounds
  <2> QED BY <1>1, <2>1
<1>3. ASSUME NEW day \in Nat, day > DayOf(t) PROVE day * DayTicks > t
  <2> DEFINE next == DayOf(t) + 1
  <2>1. next \in Nat /\ next <= day
    BY <1>1, <1>3
  <2>2. t < next * DayTicks
    BY <1>1
  <2> HIDE DEF next
  <2>3. next * DayTicks <= day * DayTicks /\ day * DayTicks \in Nat /\ next * DayTicks \in Nat
    BY <2>1, Multiply, Bounds
  <2> QED BY <2>2, <2>3
<1>4. \A day \in Nat : day * DayTicks \in Nat
  BY Bounds, Multiply
<1> QED
  BY <1>1, <1>2, <1>3, <1>4

\* A later day begins later.
LEMMA DayOrder ==
  ASSUME NEW s \in Nat, NEW t \in Nat
  PROVE  /\ s <= t => DayOf(s) <= DayOf(t)
         /\ DayOf(s) < DayOf(t) => s < t
<1>1. DayOf(s) \in Nat /\ DayOf(t) \in Nat
  BY DayFacts
<1>2. \A u, v \in Nat : u <= v => DayOf(u) <= DayOf(v)
  <2> SUFFICES ASSUME NEW u \in Nat, NEW v \in Nat, u <= v PROVE DayOf(u) <= DayOf(v)
    OBVIOUS
  <2>1. DayOf(u) \in Nat /\ DayOf(u) * DayTicks <= u /\ DayOf(u) * DayTicks \in Nat
    BY DayFacts, Multiply, Bounds
  <2>2. DayOf(u) * DayTicks <= v
    BY <2>1
  <2> QED BY <2>1, <2>2, DayFacts
<1> QED
  BY <1>1, <1>2

\* The target of a day is a number of ticks past its start.
LEMMA TargetFacts ==
  ASSUME NEW day \in Nat
  PROVE  /\ TargetOf(day) \in Nat
         /\ day * DayTicks \in Nat /\ TargetOf(day) = day * DayTicks + Target
BY Bounds, Multiply DEF TargetOf

\* An instant in the minute is a few ticks after its start.
LEMMA MinuteFacts ==
  ASSUME NEW t \in Nat, InMinute(t)
  PROVE  /\ TargetOf(DayOf(t)) <= t
         /\ \E tick \in 0..(MinuteTicks - 1) : t = TargetOf(DayOf(t)) + tick
<1>1. TargetOf(DayOf(t)) \in Nat
  BY DayFacts, TargetFacts
<1>2. t - TargetOf(DayOf(t)) \in 0..(MinuteTicks - 1)
  BY DEF InMinute
<1> QED
  BY <1>1, <1>2, Bounds

\* Instants have days.
LEMMA TimesFacts ==
  ASSUME NEW t \in Times
  PROVE  t \in Nat /\ DayOf(t) \in Days
<1> DEFINE last == MaxDay + 1
<1>1. last \in Nat /\ t \in Nat /\ t < DayTicks * last
  BY Bounds DEF Times
<1>2. DayOf(t) \in Nat
  BY <1>1, DayFacts
<1>3. DayTicks * last = last * DayTicks /\ last * DayTicks \in Nat
  <2> HIDE DEF last
  <2> QED BY <1>1, Bounds, Multiply
<1>4. ~(last <= DayOf(t))
  <2> HIDE DEF last
  <2> QED BY <1>1, <1>3, DayFacts
<1> QED
  BY <1>1, <1>2, <1>4, Bounds DEF Days

----------------------------------------------------------------------------
(* Reminder: invariance. *)

\* No check is a check.
LEMMA IdleFacts == Idle \in Check /\ Idle.phase = "idle"
<1>1. 0 \in Times
  <2>1. (MaxDay + 1) \in Nat /\ MaxDay + 1 > 0
    BY Bounds
  <2> DEFINE last == MaxDay + 1
  <2> HIDE DEF last
  <2>2. DayTicks * last \in Nat /\ DayTicks * last > 0
    BY <2>1, Bounds DEF last
  <2> QED BY <2>2 DEF Times, last
<1> QED
  BY <1>1 DEF Idle, Check

\* It holds at the start.
LEMMA InitIInv == Init => IInv
<1> SUFFICES ASSUME Init PROVE IInv
  OBVIOUS
<1> USE DEF Init
<1>1. sent = <<>> /\ DOMAIN sent = {}
  OBVIOUS
<1>2. <<>> \in Seq(Reminder)
  OBVIOUS
<1>3. TypeOK
  BY <1>2, IdleFacts, Bounds DEF TypeOK
<1>4. SentInv /\ OrderInv /\ TimerInv /\ CheckInv
  BY <1>1, IdleFacts DEF SentInv, OrderInv, TimerInv, CheckInv, Sent
<1> QED
  BY <1>3, <1>4 DEF IInv

\* The types as the other steps need them.
LEMMA Types ==
  ASSUME TypeOK
  PROVE  /\ now \in Nat /\ check.at \in Nat /\ check \in Check /\ Today \in Days /\ Today \in Nat
         /\ Len(sent) \in Nat /\ Sent = 1..Len(sent)
         /\ \A i \in Sent : /\ sent[i] \in Reminder
                            /\ sent[i].day \in Nat /\ sent[i].at \in Nat
                            /\ sent[i].recorded \in BOOLEAN
         /\ (state = None \/ state \in Nat)
<1>1. now \in Times /\ check.at \in Times /\ check \in Check
  BY DEF TypeOK, Check
<1>2. now \in Nat /\ check.at \in Nat /\ Today \in Days
  BY <1>1, TimesFacts DEF Today
<1>3. Sent = 1..Len(sent) /\ Len(sent) \in Nat /\ \A i \in Sent : sent[i] \in Reminder
  BY DEF TypeOK, Sent
<1>4. \A i \in Sent : sent[i].day \in Nat /\ sent[i].at \in Nat /\ sent[i].recorded \in BOOLEAN
  BY <1>3, TimesFacts DEF Reminder, Days
<1>5. state = None \/ state \in Nat
  BY TimesFacts DEF TypeOK
<1> QED
  BY <1>1, <1>2, <1>3, <1>4, <1>5, Bounds DEF Days

\* The next occurrence of the minute is of a day after every reminder's.
LEMMA ArmIInv == IInv /\ Arm => IInv'
<1> SUFFICES ASSUME IInv, Arm PROVE IInv'
  OBVIOUS
<1> DEFINE day == IF now < TargetOf(DayOf(now)) THEN DayOf(now) ELSE DayOf(now) + 1
<1>1. TypeOK /\ SentInv /\ OrderInv /\ CheckInv
  BY DEF IInv
<1>2. UNCHANGED <<now, life, check, attempted, state, active, sent, excused>>
      /\ timer' = TargetOf(day) /\ check = Idle
  BY DEF Arm, NextTarget
<1>3. DayOf(now) \in Days /\ now \in Nat /\ DayOf(now) \in Nat
  BY <1>1, TimesFacts, DayFacts DEF TypeOK
<1>4. day \in 0..(MaxDay + 1) /\ day \in Nat
  BY <1>3, Bounds DEF Days
<1>5. AllBefore(day)
  <2> SUFFICES ASSUME NEW i \in Sent PROVE sent[i].day < day
    BY DEF AllBefore
  <2>1. /\ sent[i].day = DayOf(sent[i].at) /\ InMinute(sent[i].at) /\ sent[i].at <= now
        /\ sent[i].at \in Nat /\ sent[i].day \in Nat
    BY <1>1, Types DEF SentInv
  <2>2. TargetOf(sent[i].day) <= sent[i].at /\ TargetOf(sent[i].day) \in Nat
    BY <2>1, MinuteFacts, TargetFacts
  <2>3. sent[i].day <= DayOf(now)
    BY <1>3, <2>1, DayOrder
  <2>4. CASE sent[i].day = DayOf(now)
    <3>1. ~(now < TargetOf(DayOf(now)))
      BY <1>3, <2>1, <2>2, <2>4
    <3> QED BY <1>3, <2>4, <3>1
  <2>5. CASE sent[i].day < DayOf(now)
    BY <1>3, <2>1, <2>5
  <2> QED BY <1>3, <2>1, <2>3, <2>4, <2>5
<1> HIDE DEF day
<1>6. TypeOK'
  BY <1>1, <1>2, <1>4 DEF TypeOK
<1>7. SentInv' /\ OrderInv' /\ CheckInv'
  BY <1>1, <1>2 DEF SentInv, OrderInv, CheckInv, Sent, AllBefore, Today
<1>8. TimerInv'
  BY <1>2, <1>4, <1>5 DEF TimerInv, AllBefore, Sent
<1> QED
  BY <1>6, <1>7, <1>8 DEF IInv

\* However early the timer fires, the day it is for has begun.
LEMMA FireIInv == IInv /\ Fire => IInv'
<1> SUFFICES ASSUME IInv, Fire PROVE IInv'
  OBVIOUS
<1>1. TypeOK /\ SentInv /\ OrderInv
  BY DEF IInv
<1>2. UNCHANGED <<now, life, attempted, state, active, sent, excused>> /\ timer' = None
  BY DEF Fire
<1>3. now \in Nat /\ DayOf(now) \in Nat /\ now \in Times
  BY <1>1, TimesFacts, DayFacts DEF TypeOK
<1>4. AllBefore(DayOf(now))
  <2>1. PICK day \in Nat : timer = TargetOf(day) /\ AllBefore(day)
    BY DEF IInv, TimerInv, Fire
  <2>2. day * DayTicks <= now
    BY <1>3, <2>1, TargetFacts, Bounds DEF Fire
  <2>3. day <= DayOf(now)
    BY <1>3, <2>2, DayFacts
  <2> QED BY <1>1, <1>3, <2>1, <2>3, Types DEF AllBefore
<1>5. SentInv' /\ OrderInv' /\ TimerInv'
  BY <1>1, <1>2 DEF SentInv, OrderInv, TimerInv, Sent
<1>6. CASE check' = Idle
  BY <1>1, <1>2, <1>5, <1>6, IdleFacts DEF IInv, TypeOK, CheckInv
<1>7. CASE check' = [phase |-> "state", at |-> now, busy |-> <<DayOf(now), "later">> \in active] /\ InMinute(now)
  <2>1. check'.phase = "state" /\ check'.at = now /\ (check'.busy <=> <<DayOf(now), "later">> \in active)
        /\ check' \in Check
    <3> DEFINE busy == <<DayOf(now), "later">> \in active
    <3>1. busy \in BOOLEAN
      OBVIOUS
    <3>2. check' = [phase |-> "state", at |-> now, busy |-> busy]
      BY <1>7
    <3> HIDE DEF busy
    <3>3. check'.phase = "state" /\ check'.at = now /\ check'.busy = busy /\ check' \in Check
      BY <1>3, <3>1, <3>2 DEF Check
    <3> QED BY <3>3 DEF busy
  <2>2. TypeOK'
    BY <1>1, <1>2, <2>1 DEF TypeOK
  <2>3. CheckInv'
    BY <1>2, <1>3, <1>4, <1>7, <2>1 DEF CheckInv, AllBefore, Sent, Today
  <2> QED BY <1>5, <2>2, <2>3 DEF IInv
<1> QED
  BY <1>6, <1>7 DEF Fire

\* Check ends, or goes on without sending.
LEMMA QuietIInv ==
  ASSUME IInv, check.phase # "idle", UNCHANGED <<now, timer, state, active, sent>>,
         life' = life, attempted' \subseteq Days, excused' \subseteq Days,
         \/ check' = Idle
         \/ /\ check.phase = "state" /\ Permitted /\ check' = [check EXCEPT !.phase = "search"]
         \/ /\ check.phase = "search" /\ ~Busy /\ check' = [check EXCEPT !.phase = "send"]
  PROVE  IInv'
<1>1. TypeOK /\ SentInv /\ OrderInv /\ TimerInv /\ CheckInv
  BY DEF IInv
<1>2. check # Idle /\ timer = None
  BY <1>1, IdleFacts DEF TimerInv
<1>3. SentInv' /\ OrderInv' /\ TimerInv'
  BY <1>1, <1>2 DEF SentInv, OrderInv, TimerInv, Sent
<1>4. CASE check' = Idle
  BY <1>1, <1>3, <1>4, IdleFacts DEF IInv, TypeOK, CheckInv
<1>5. CASE check.phase = "state" /\ Permitted /\ check' = [check EXCEPT !.phase = "search"]
  <2>1. /\ check' \in Check /\ check'.phase = "search"
        /\ check'.at = check.at /\ check'.busy = check.busy
    BY <1>1, <1>5 DEF TypeOK, Check
  <2>2. \A i \in Sent : sent[i].recorded => check.at >= sent[i].at + Cooldown
    <3> SUFFICES ASSUME NEW i \in Sent, sent[i].recorded
                 PROVE  check.at >= sent[i].at + Cooldown
      OBVIOUS
    <3>1. state \in Nat /\ sent[i].at <= state /\ sent[i].at \in Nat
      BY <1>1, Types DEF SentInv
    <3>2. check.at >= state + Cooldown
      BY <1>5, <3>1, Bounds DEF Permitted
    <3> QED BY <1>1, <3>1, <3>2, Types, Bounds, SMTT(30)
  <2>3. CheckInv'
    BY <1>1, <1>5, <2>1, <2>2 DEF CheckInv, AllBefore, Sent, Today
  <2> QED BY <1>1, <1>3, <2>1, <2>3 DEF IInv, TypeOK
<1>6. CASE check.phase = "search" /\ ~Busy /\ check' = [check EXCEPT !.phase = "send"]
  <2>1. /\ check' \in Check /\ check'.phase = "send"
        /\ check'.at = check.at /\ check'.busy = check.busy
    BY <1>1, <1>6 DEF TypeOK, Check
  <2>2. ~check.busy
    BY <1>1, <1>6 DEF CheckInv, Busy
  <2>3. CheckInv'
    BY <1>1, <1>6, <2>1, <2>2 DEF CheckInv, AllBefore, Sent, Today
  <2> QED BY <1>1, <1>3, <2>1, <2>3 DEF IInv, TypeOK
<1> QED
  BY <1>4, <1>5, <1>6

\* A reminder that the user receives is of a day after all others.
LEMMA ReceivedFacts ==
  ASSUME IInv, check.phase = "send"
  PROVE  /\ Received \in Seq(Reminder) /\ Len(Received) = Len(sent) + 1
         /\ DOMAIN Received = 1..(Len(sent) + 1)
         /\ Received[Len(sent) + 1].at = check.at
         /\ \A i \in Sent : Received[i] = sent[i]
         /\ \A i \in DOMAIN Received :
              /\ Received[i].day = DayOf(Received[i].at) /\ InMinute(Received[i].at)
              /\ Received[i].at <= now /\ ~Received[i].busy
              /\ Received[i].recorded => state # None /\ Received[i].at <= state
         /\ \A i, j \in DOMAIN Received :
              i < j => /\ Received[i].day < Received[j].day /\ Received[i].at < Received[j].at
                       /\ Received[i].recorded => Received[j].at >= Received[i].at + Cooldown
<1> DEFINE new == [day |-> Today, at |-> check.at, busy |-> check.busy, recorded |-> FALSE]
<1>1. TypeOK /\ SentInv /\ OrderInv /\ CheckInv
  BY DEF IInv
<1>2. /\ Len(sent) \in Nat /\ Sent = 1..Len(sent) /\ check \in Check /\ Today \in Days
      /\ check.at \in Nat /\ Today \in Nat /\ now \in Nat
  BY <1>1, Types
<1>3. new \in Reminder
  BY <1>2 DEF Reminder, Check
<1>4. /\ new.day = DayOf(new.at) /\ InMinute(new.at) /\ new.at <= now
      /\ ~new.busy /\ ~new.recorded /\ new.at = check.at /\ new.day = Today
  BY <1>1 DEF CheckInv, Today
<1>5. Received = Append(sent, new)
  BY DEF Received
<1> HIDE DEF new
<1>6. /\ Received \in Seq(Reminder) /\ Len(Received) = Len(sent) + 1
      /\ Received[Len(sent) + 1] = new
      /\ \A i \in 1..Len(sent) : Received[i] = sent[i]
  BY <1>1, <1>3, <1>5, AppendProperties DEF TypeOK
<1>7. DOMAIN Received = 1..(Len(sent) + 1)
  BY <1>6
<1>8. \A i \in Sent : /\ sent[i].day < Today /\ sent[i].at < check.at
                      /\ sent[i].recorded => check.at >= sent[i].at + Cooldown
  <2> SUFFICES ASSUME NEW i \in Sent
               PROVE  /\ sent[i].day < Today /\ sent[i].at < check.at
                      /\ sent[i].recorded => check.at >= sent[i].at + Cooldown
    OBVIOUS
  <2>1. sent[i].day < Today /\ (sent[i].recorded => check.at >= sent[i].at + Cooldown)
    BY <1>1 DEF CheckInv, AllBefore
  <2>2. sent[i].at \in Nat /\ sent[i].day = DayOf(sent[i].at)
    BY <1>1, Types DEF SentInv
  <2>3. sent[i].at < check.at
    BY <1>2, <2>1, <2>2, DayOrder DEF Today
  <2> QED BY <2>1, <2>3
<1>9. \A i \in DOMAIN Received : i = Len(sent) + 1 \/ i \in Sent
  BY <1>2, <1>7
<1>10. \A i \in DOMAIN Received :
         /\ Received[i].day = DayOf(Received[i].at) /\ InMinute(Received[i].at)
         /\ Received[i].at <= now /\ ~Received[i].busy
         /\ Received[i].recorded => state # None /\ Received[i].at <= state
  BY <1>1, <1>2, <1>4, <1>6, <1>9 DEF SentInv
<1>11. \A i, j \in DOMAIN Received :
         i < j => /\ Received[i].day < Received[j].day /\ Received[i].at < Received[j].at
                  /\ Received[i].recorded => Received[j].at >= Received[i].at + Cooldown
  <2> SUFFICES ASSUME NEW i \in DOMAIN Received, NEW j \in DOMAIN Received, i < j
               PROVE  /\ Received[i].day < Received[j].day /\ Received[i].at < Received[j].at
                      /\ Received[i].recorded => Received[j].at >= Received[i].at + Cooldown
    OBVIOUS
  <2>1. i \in Sent /\ Received[i] = sent[i]
    BY <1>2, <1>6, <1>7
  <2>2. CASE j = Len(sent) + 1
    BY <1>4, <1>6, <1>8, <2>1, <2>2
  <2>3. CASE j \in Sent
    BY <1>1, <1>2, <1>6, <2>1, <2>3 DEF OrderInv
  <2> QED BY <1>9, <2>2, <2>3
<1> QED
  BY <1>2, <1>4, <1>6, <1>7, <1>10, <1>11

\* Sending keeps it, whether or not the reminder is received.
LEMMA SendIInv == IInv /\ (Send \/ SendFails) => IInv'
<1> SUFFICES ASSUME IInv, Send \/ SendFails PROVE IInv'
  OBVIOUS
<1>1. TypeOK /\ SentInv /\ OrderInv /\ TimerInv /\ CheckInv
  BY DEF IInv
<1>2. /\ UNCHANGED <<now, life, timer, attempted, state, active>>
      /\ check.phase = "send"
      /\ excused' \subseteq Days
  BY <1>1, Types DEF Send, SendFails, TypeOK
<1>3. timer = None
  BY <1>1, <1>2, IdleFacts DEF TimerInv
<1>4. CASE sent' = sent /\ check' = Idle
  <2>1. CheckInv' /\ TypeOK'
    BY <1>1, <1>2, <1>4, IdleFacts DEF CheckInv, TypeOK
  <2>2. SentInv' /\ OrderInv' /\ TimerInv'
    BY <1>1, <1>2, <1>3, <1>4 DEF SentInv, OrderInv, TimerInv, Sent
  <2> QED BY <2>1, <2>2 DEF IInv
<1>5. CASE sent' = Received /\ check' \in {Idle, [check EXCEPT !.phase = "record"]}
  <2>1. /\ sent' \in Seq(Reminder) /\ Len(sent') = Len(sent) + 1
        /\ sent'[Len(sent) + 1].at = check.at
        /\ \A i \in DOMAIN sent' :
             /\ sent'[i].day = DayOf(sent'[i].at) /\ InMinute(sent'[i].at)
             /\ sent'[i].at <= now /\ ~sent'[i].busy
             /\ sent'[i].recorded => state # None /\ sent'[i].at <= state
        /\ \A i, j \in DOMAIN sent' :
             i < j => /\ sent'[i].day < sent'[j].day /\ sent'[i].at < sent'[j].at
                      /\ sent'[i].recorded => sent'[j].at >= sent'[i].at + Cooldown
    BY <1>2, <1>5, ReceivedFacts
  <2>2. SentInv' /\ OrderInv' /\ TimerInv'
    BY <1>2, <1>3, <2>1 DEF SentInv, OrderInv, TimerInv, Sent
  <2>3. CASE check' = Idle
    BY <1>1, <1>2, <2>1, <2>2, <2>3, IdleFacts DEF IInv, CheckInv, TypeOK
  <2>4. CASE check' = [check EXCEPT !.phase = "record"]
    <3>1. /\ check' \in Check /\ check'.phase = "record"
          /\ check'.at = check.at /\ check'.busy = check.busy
      BY <1>1, <2>4 DEF TypeOK, Check
    <3>2. Len(sent) \in Nat
      BY <1>1, Types
    <3>3. CheckInv'
      BY <1>1, <1>2, <2>1, <3>1, <3>2 DEF CheckInv
    <3>4. TypeOK'
      BY <1>1, <1>2, <2>1, <3>1 DEF TypeOK
    <3> QED BY <2>2, <3>3, <3>4 DEF IInv
  <2> QED BY <1>5, <2>3, <2>4
<1> QED
  BY <1>4, <1>5 DEF Send, SendFails

\* The delivery on record is the last reminder, which is later than all others.
LEMMA RecordIInv == IInv /\ RecordDelivery => IInv'
<1> SUFFICES ASSUME IInv, RecordDelivery PROVE IInv'
  OBVIOUS
<1> DEFINE n == Len(sent)
<1>1. TypeOK /\ SentInv /\ OrderInv /\ TimerInv /\ CheckInv
  BY DEF IInv
<1>2. UNCHANGED <<now, life, timer, attempted, active, excused>> /\ check' = Idle
      /\ state' = check.at /\ check.phase = "record"
  BY DEF RecordDelivery
<1>3. timer = None
  BY <1>1, <1>2, IdleFacts DEF TimerInv
<1>4. /\ n \in Nat /\ n > 0 /\ Sent = 1..n /\ n \in Sent /\ sent[n].at = check.at
      /\ check.at \in Nat /\ check.at \in Times
      /\ \A i \in Sent : sent[i] \in Reminder /\ sent[i].at \in Nat
  BY <1>1, <1>2, Types DEF CheckInv, Check
<1>5. sent' = [sent EXCEPT ![n] = [sent[n] EXCEPT !.recorded = TRUE]]
  BY DEF RecordDelivery
<1> DEFINE new == [sent[n] EXCEPT !.recorded = TRUE]
<1>6. /\ new \in Reminder /\ new.recorded /\ new.at = sent[n].at
      /\ new.day = sent[n].day /\ new.busy = sent[n].busy
  BY <1>4 DEF Reminder
<1> HIDE DEF new, n
<1>7. /\ sent' \in Seq(Reminder) /\ Len(sent') = Len(sent)
      /\ \A i \in 1..Len(sent) : sent'[i] = IF i = n THEN new ELSE sent[i]
  BY <1>1, <1>4, <1>5, <1>6, ExceptSeq DEF TypeOK, new, n
<1>8. Sent' = Sent
  <2>1. DOMAIN sent' = 1..Len(sent')
    BY <1>7
  <2>2. DOMAIN sent = 1..Len(sent)
    BY <1>4 DEF Sent, n
  <2> QED BY <1>7, <2>1, <2>2 DEF Sent
<1>9. \A i \in Sent : /\ sent'[i].day = sent[i].day /\ sent'[i].at = sent[i].at
                      /\ sent'[i].busy = sent[i].busy
                      /\ i # n => sent'[i].recorded = sent[i].recorded
  BY <1>4, <1>6, <1>7 DEF n
<1>10. \A i \in Sent : sent[i].at <= check.at
  <2> SUFFICES ASSUME NEW i \in Sent PROVE sent[i].at <= check.at
    OBVIOUS
  <2>1. CASE i = n
    BY <1>4, <2>1
  <2>2. CASE i < n
    BY <1>1, <1>4, <2>2 DEF OrderInv
  <2> QED BY <1>4, <2>1, <2>2
<1>11. TypeOK'
  BY <1>1, <1>2, <1>4, <1>7, IdleFacts DEF TypeOK
<1>12. SentInv'
  <2>1. check.at # None
    BY <1>4, Bounds
  <2> QED BY <1>1, <1>2, <1>8, <1>9, <1>10, <2>1 DEF SentInv
<1>13. OrderInv'
  <2> SUFFICES ASSUME NEW i \in Sent, NEW j \in Sent, i < j
               PROVE  /\ sent'[i].day < sent'[j].day /\ sent'[i].at < sent'[j].at
                      /\ sent'[i].recorded => sent'[j].at >= sent'[i].at + Cooldown
    BY <1>8 DEF OrderInv
  <2>1. i # n
    BY <1>4
  <2> QED BY <1>1, <1>9, <2>1 DEF OrderInv
<1>14. TimerInv' /\ CheckInv'
  BY <1>2, <1>3, IdleFacts DEF TimerInv, CheckInv
<1> QED
  BY <1>11, <1>12, <1>13, <1>14 DEF IInv

\* Every step keeps it.
LEMMA NextIInv == IInv /\ [Next]_vars => IInv'
<1> SUFFICES ASSUME IInv, [Next]_vars PROVE IInv'
  OBVIOUS
<1>1. TypeOK /\ SentInv /\ OrderInv /\ TimerInv /\ CheckInv
  BY DEF IInv
<1>2. Today \in Days /\ attempted \subseteq Days /\ excused \subseteq Days
  BY <1>1, Types DEF TypeOK
<1>3. CASE ReadState
  BY <1>2, <1>3, QuietIInv DEF ReadState, Settle
<1>4. CASE Search
  BY <1>2, <1>4, QuietIInv DEF Search
<1>5. CASE ReadFails
  BY <1>2, <1>5, QuietIInv DEF ReadFails
<1>6. CASE RecordFails
  BY <1>2, <1>6, QuietIInv DEF RecordFails
<1>7. CASE Tick
  <2>1. now' \in Times /\ now \in Nat /\ now' = now + 1
        /\ UNCHANGED <<life, timer, check, attempted, state, active, sent, excused>>
    BY <1>1, <1>7, Types DEF Tick
  <2>2. TypeOK'
    BY <1>1, <2>1 DEF TypeOK
  <2>3. SentInv'
    <3> SUFFICES ASSUME NEW i \in Sent PROVE sent[i].at <= now'
      BY <1>1, <2>1 DEF SentInv, Sent
    <3>1. sent[i].at \in Nat /\ sent[i].at <= now
      BY <1>1, Types DEF SentInv
    <3> QED BY <2>1, <3>1
  <2>4. OrderInv' /\ TimerInv'
    BY <1>1, <2>1 DEF OrderInv, TimerInv, AllBefore, Sent
  <2>5. CheckInv'
    <3>1. check.at \in Nat
      BY <1>1, Types
    <3> QED BY <1>1, <2>1, <3>1 DEF CheckInv, AllBefore, Sent, Today
  <2> QED BY <2>2, <2>3, <2>4, <2>5 DEF IInv
<1>8. CASE Crash
  <2>1. UNCHANGED <<now, state, active, sent>> /\ check' = Idle /\ timer' = None
        /\ life' \in 0..MaxLife /\ attempted' = {} /\ excused' \subseteq Days
    BY <1>1, <1>2, <1>8, Bounds DEF Crash, TypeOK
  <2>2. TypeOK'
    BY <1>1, <2>1, IdleFacts DEF TypeOK
  <2>3. SentInv' /\ OrderInv' /\ TimerInv' /\ CheckInv'
    BY <1>1, <2>1, IdleFacts DEF SentInv, OrderInv, TimerInv, CheckInv, Sent
  <2> QED BY <2>2, <2>3 DEF IInv
<1>9. ASSUME NEW gone \in {{}} \cup {{place} : place \in Places},
             NEW come \in {{}} \cup {{place} : place \in Places},
             Activity(gone, come)
      PROVE  IInv'
  <2>1. UNCHANGED <<now, life, timer, attempted, state, sent, excused>> /\ active' \subseteq Places
    BY <1>1, <1>9 DEF Activity, TypeOK
  <2>2. check \in Check /\ check' = [check EXCEPT !.busy = @ /\ <<Today, "later">> \in active']
    BY <1>1, <1>9 DEF Activity, TypeOK
  <2>3. /\ check' \in Check /\ check'.phase = check.phase /\ check'.at = check.at
        /\ check'.busy => check.busy /\ <<Today, "later">> \in active'
    <3> DEFINE busy == check.busy /\ <<Today, "later">> \in active'
    <3>1. busy \in BOOLEAN
      OBVIOUS
    <3>2. check' = [check EXCEPT !.busy = busy]
      BY <2>2
    <3> HIDE DEF busy
    <3>3. check' \in Check /\ check'.phase = check.phase /\ check'.at = check.at /\ check'.busy = busy
      BY <2>2, <3>1, <3>2 DEF Check
    <3> QED BY <3>3 DEF busy
  <2>4. check = Idle => check' = Idle
    <3>1. ASSUME check = Idle PROVE check'.phase = "idle" /\ check'.at = 0 /\ check'.busy = FALSE
      BY <2>3, <3>1 DEF Idle, Check
    <3> QED BY <2>3, <3>1 DEF Idle, Check
  <2>5. TypeOK'
    BY <1>1, <2>1, <2>3 DEF TypeOK
  <2>6. SentInv' /\ OrderInv' /\ TimerInv'
    BY <1>1, <2>1, <2>4 DEF SentInv, OrderInv, TimerInv, AllBefore, Sent
  <2>7. CheckInv'
    BY <1>1, <2>1, <2>3, <2>4 DEF CheckInv, AllBefore, Sent, Today
  <2> QED BY <2>5, <2>6, <2>7 DEF IInv
<1>10. CASE UNCHANGED vars
  BY <1>1, <1>10 DEF vars, IInv, TypeOK, SentInv, OrderInv, TimerInv, CheckInv, AllBefore,
     Sent, Today
<1> QED
  BY <1>3, <1>4, <1>5, <1>6, <1>7, <1>8, <1>9, <1>10, ArmIInv, FireIInv, SendIInv, RecordIInv
  DEF Next

\* And so it always holds.
LEMMA Invariance == Spec => []IInv
<1> QED
  BY InitIInv, NextIInv, PTL DEF Spec

----------------------------------------------------------------------------
(* Reminder: the theorems. *)

\* Run and Check, interleaved with failures, restarts and the user, keep to the
\* types.
THEOREM TypeCorrect == Spec => []TypeOK
<1>1. IInv => TypeOK
  BY DEF IInv
<1> QED
  BY <1>1, Invariance, PTL

\* The user gets at most one reminder in a local day, though neither a failed
\* send nor a restart leaves a trace of the one that got through.
THEOREM OncePerDay == Spec => []OneReminderPerDay
<1>1. ASSUME IInv PROVE OneReminderPerDay
  <2>1. TypeOK /\ OrderInv
    BY <1>1 DEF IInv
  <2> SUFFICES ASSUME NEW i \in Sent, NEW j \in Sent, sent[i].day = sent[j].day, i # j
               PROVE  FALSE
    BY DEF OneReminderPerDay, Sent
  <2>2. sent[i].day \in Nat /\ sent[j].day \in Nat /\ i \in Nat /\ j \in Nat
    BY <2>1, Types
  <2> QED BY <2>1, <2>2 DEF OrderInv
<1> QED
  BY <1>1, Invariance, PTL

\* Nobody is reminded of a day that held a transaction, not in its first second,
\* from Check's look at the clock to its search.
THEOREM IdleDaysOnly == Spec => []OnlyIdleDays
<1>1. IInv => OnlyIdleDays
  BY DEF IInv, SentInv, OnlyIdleDays, Sent
<1> QED
  BY <1>1, Invariance, PTL

\* A reminder is of a Check in the configured minute of its own day.
THEOREM InTheMinute == Spec => []NoCatchUp
<1>1. ASSUME IInv PROVE NoCatchUp
  <2> SUFFICES ASSUME NEW i \in Sent
               PROVE  \E tick \in 0..(MinuteTicks - 1) : sent[i].at = TargetOf(sent[i].day) + tick
    BY DEF NoCatchUp, Sent
  <2>1. sent[i].at \in Nat /\ sent[i].day = DayOf(sent[i].at) /\ InMinute(sent[i].at)
    BY <1>1, Types DEF IInv, SentInv
  <2> QED BY <2>1, MinuteFacts
<1> QED
  BY <1>1, Invariance, PTL

\* After a delivery on record the next reminder keeps the cooldown.
THEOREM Cooldowns == Spec => []CooldownKept
<1>1. IInv => CooldownKept
  BY DEF IInv, OrderInv, CooldownKept, Sent
<1> QED
  BY <1>1, Invariance, PTL

----------------------------------------------------------------------------
(* Migration: the inductive invariant. *)

\* The first k tables of the store.
Made(k) == {TablesOf[store][i] : i \in DOMAIN TablesOf[store] \cap 1..k}

\* The open transaction is of a migrating process, has made the tables of the
\* statements it is past, and has left the rows, and the file, alone.
WorkIsPartial ==
  work # NoWork =>
    /\ proc[work.by] = "migrate"
    /\ work.done \in 1..Statements
    /\ work.file.data = file.data
    /\ Made(work.done) \subseteq work.file.tables
    /\ work.done = Statements => work.file.version = Current

\* The version stands for the schema; only a file without the version, or one
\* that somebody else has just migrated, is migrated; only a file of the
\* version is served; that of a later release is neither.
VersionIsTrue ==
  /\ file.version = Current => All(store) \subseteq file.tables
  /\ \A p \in Processes : /\ proc[p] = "migrate" => file.version <= Current
                          /\ proc[p] = "serving" => file.version = Current
  /\ file.version > Current => file.data = 1

\* The inductive invariant.
FileInv == OpenTypeOK /\ WorkIsPartial /\ VersionIsTrue

----------------------------------------------------------------------------
(* Migration: lemmas. *)

\* The tables of a store, and its statements.
LEMMA StoreFacts ==
  ASSUME store \in Stores
  PROVE  LET n == Len(TablesOf[store]) IN
         /\ n \in 1..4 /\ DOMAIN TablesOf[store] = 1..n
         /\ \A i \in 1..n : TablesOf[store][i] \in Tables
         /\ Statements \in (n + 1)..6
         /\ store = "ledger" => Statements = n + 2
         /\ store = "notes" => Statements = n + 1
<1>1. CASE store = "ledger"
  <2>1. TablesOf[store] = <<"transactions", "mutation_batches", "audit_events", "reminder_state">>
    BY <1>1 DEF TablesOf
  <2>2. Len(TablesOf[store]) = 4 /\ DOMAIN TablesOf[store] = 1..4
    BY <2>1
  <2>3. \A i \in 1..4 : TablesOf[store][i] \in Tables
    <3>1. \A i \in 1..4 : TablesOf[store][i] \in All(store)
      BY <2>2 DEF All
    <3> QED BY <3>1 DEF Tables
  <2>4. Statements = 6
    BY <1>1, <2>2 DEF Statements
  <2> QED BY <1>1, <2>2, <2>3, <2>4
<1>2. CASE store = "notes"
  <2>1. TablesOf[store] = <<"notes">>
    BY <1>2 DEF TablesOf
  <2>2. Len(TablesOf[store]) = 1 /\ DOMAIN TablesOf[store] = 1..1
    BY <2>1
  <2>3. \A i \in 1..1 : TablesOf[store][i] \in Tables
    <3>1. \A i \in 1..1 : TablesOf[store][i] \in All(store)
      BY <2>2 DEF All
    <3> QED BY <3>1 DEF Tables
  <2>4. Statements = 2
    BY <1>2, <2>2 DEF Statements
  <2> QED BY <1>2, <2>2, <2>3, <2>4
<1> QED
  BY <1>1, <1>2 DEF Stores

\* With the tables of all its statements the schema is whole.
LEMMA MadeAll ==
  ASSUME store \in Stores
  PROVE  Made(Statements) = All(store)
<1>1. DOMAIN TablesOf[store] \cap 1..Statements = DOMAIN TablesOf[store]
  BY StoreFacts
<1> QED
  BY <1>1 DEF Made, All

\* A statement adds its table, or changes the version; the last one sets it.
LEMMA AfterFacts ==
  ASSUME store \in Stores, NEW f \in File, NEW k \in Nat, k < Statements,
         Made(k) \subseteq f.tables
  PROVE  LET g == After(f, k + 1) IN
         /\ g \in File
         /\ g.data = f.data
         /\ Made(k + 1) \subseteq g.tables
         /\ k + 1 = Statements => g.version = Current
<1> DEFINE n == Len(TablesOf[store])
           g == After(f, k + 1)
           ts == TablesOf[store]
<1>0. /\ n \in 1..4 /\ DOMAIN ts = 1..n
      /\ \A i \in 1..n : ts[i] \in Tables
      /\ Statements \in (n + 1)..6
      /\ store = "ledger" => Statements = n + 2
      /\ store = "notes" => Statements = n + 1
  BY StoreFacts
<1>1. f = [version |-> f.version, tables |-> f.tables, data |-> f.data]
      /\ f.version \in 0..(Current + 1) /\ f.tables \in SUBSET Tables /\ f.data \in Nat
  BY DEF File
<1>2. CASE k + 1 <= n
  <2>1. g = [f EXCEPT !.tables = f.tables \cup {ts[k + 1]}]
    BY <1>2, Zenon DEF After
  <2>2. ts[k + 1] \in Tables
    BY <1>0, <1>2
  <2>3. Made(k + 1) \subseteq Made(k) \cup {ts[k + 1]}
    <3>1. DOMAIN ts \cap 1..(k + 1) \subseteq (DOMAIN ts \cap 1..k) \cup {k + 1}
      OBVIOUS
    <3> QED BY <3>1 DEF Made
  <2> HIDE DEF ts, g, n
  <2>4. g \in File /\ g.data = f.data /\ g.tables = f.tables \cup {ts[k + 1]}
    BY <2>1, <2>2 DEF File
  <2>5. k + 1 # Statements
    BY <1>0, <1>2
  <2> QED BY <2>3, <2>4, <2>5 DEF g
<1>3. CASE k + 1 > n
  <2>1. Made(k + 1) = Made(k)
    <3>1. DOMAIN ts \cap 1..(k + 1) = DOMAIN ts \cap 1..k
      BY <1>0, <1>3
    <3> QED BY <3>1 DEF Made
  <2>2. PICK v \in {0, Current} : g = [f EXCEPT !.version = v]
    BY <1>3 DEF After
  <2>3. k + 1 = Statements => g = [f EXCEPT !.version = Current]
    <3>1. k + 1 = Statements => ~(k + 1 <= n) /\ ~(store = "ledger" /\ k + 1 = n + 1)
      BY <1>0, <1>3
    <3> QED BY <3>1 DEF After
  <2> HIDE DEF g
  <2>4. g \in File /\ g.data = f.data /\ g.tables = f.tables
    BY <2>2 DEF File, Current
  <2>5. k + 1 = Statements => g.version = Current
    BY <2>3 DEF File
  <2> QED BY <2>1, <2>4, <2>5 DEF g
<1> QED
  BY <1>0, <1>2, <1>3

----------------------------------------------------------------------------
(* Migration: invariance. *)

\* It holds at the start.
LEMMA InitFileInv == OpenInit => FileInv
<1> SUFFICES ASSUME OpenInit PROVE FileInv
  OBVIOUS
<1> USE DEF OpenInit
<1>1. store \in Stores /\ All(store) \subseteq Tables /\ "transactions" \in Tables
  BY DEF Tables, All, TablesOf, Stores
<1>2. OpenTypeOK
  BY <1>1, BoundsAssumption DEF OpenTypeOK, File, Current, Phases, NoWork
<1>3. WorkIsPartial
  BY DEF WorkIsPartial
<1>4. VersionIsTrue
  BY DEF VersionIsTrue, Current
<1> QED
  BY <1>2, <1>3, <1>4 DEF FileInv

\* Commit is the only step that turns a file into one of the current version,
\* and the transaction it commits has every table.
LEMMA CommitFacts ==
  ASSUME FileInv, NEW p \in Processes, Commit(p)
  PROVE  /\ file' \in File /\ file'.version = Current /\ file'.data = file.data
         /\ All(store) \subseteq file'.tables
         /\ file.version <= Current
<1>1. work # NoWork /\ work.by = p /\ work.done = Statements /\ file' = work.file
  BY DEF Commit, Mine, Done
<1>2. Made(Statements) = All(store)
  BY MadeAll DEF FileInv, OpenTypeOK
<1>3. work \in [by : Processes, file : File, done : 1..6]
  BY <1>1 DEF FileInv, OpenTypeOK
<1>4. proc[p] = "migrate" /\ file.version <= Current
  BY DEF Commit, FileInv, VersionIsTrue
<1> QED
  BY <1>1, <1>2, <1>3, <1>4 DEF FileInv, WorkIsPartial

\* Every step keeps it.
LEMMA NextFileInv == FileInv /\ [OpenNext]_openVars => FileInv'
<1> SUFFICES ASSUME FileInv, [OpenNext]_openVars PROVE FileInv'
  OBVIOUS
<1>0. /\ store \in Stores /\ file \in File /\ proc \in [Processes -> Phases]
      /\ work = NoWork \/ work \in [by : Processes, file : File, done : 1..6]
      /\ faults \in Nat /\ faults <= MaxFaults /\ MaxFaults \in Nat
  BY BoundsAssumption DEF FileInv, OpenTypeOK
<1>1. ASSUME NEW p \in Processes, Start(p) PROVE FileInv'
  BY <1>0, <1>1, ZenonT(40) DEF Start, Become, FileInv, OpenTypeOK, WorkIsPartial, VersionIsTrue, Phases,
     Made, Statements
<1>2. ASSUME NEW p \in Processes, Prepare(p) PROVE FileInv'
  <2>1. /\ file' \in File /\ file'.version = file.version /\ file'.data = file.data
        /\ file.tables \subseteq file'.tables
        /\ work # NoWork => file' = file
    BY <1>0, <1>2 DEF Prepare, Creates, File, Tables
  <2>2. OpenTypeOK'
    BY <1>0, <1>2, <2>1 DEF Prepare, Become, OpenTypeOK, Phases, FileInv
  <2>3. WorkIsPartial'
    <3>1. ASSUME work # NoWork PROVE proc'[work.by] = "migrate" /\ file' = file
      BY <1>0, <1>2, <2>1, <3>1 DEF Prepare, Become, FileInv, WorkIsPartial
    <3>2. UNCHANGED <<store, work>>
      BY <1>2 DEF Prepare
    <3> QED BY <3>1, <3>2 DEF FileInv, WorkIsPartial, Made, Statements
  <2>4. VersionIsTrue'
    BY <1>0, <1>2, <2>1 DEF Prepare, Become, FileInv, VersionIsTrue, Phases
  <2> QED BY <2>2, <2>3, <2>4 DEF FileInv
<1>3. ASSUME NEW p \in Processes, ReadVersion(p) PROVE FileInv'
  <2>1. file.version \in 0..(Current + 1)
    BY <1>0 DEF File
  <2>2. OpenTypeOK'
    BY <1>0, <1>3 DEF ReadVersion, Become, OpenTypeOK, Phases, FileInv
  <2>3. WorkIsPartial'
    BY <1>0, <1>3, ZenonT(40) DEF ReadVersion, Become, FileInv, WorkIsPartial, Phases, Made, Statements
  <2>4. VersionIsTrue'
    BY <1>0, <1>3, <2>1 DEF ReadVersion, Become, FileInv, VersionIsTrue, Phases, Current
  <2> QED BY <2>2, <2>3, <2>4 DEF FileInv
<1>4. ASSUME NEW p \in Processes, Statement(p) PROVE FileInv'
  <2>1. /\ View(p) \in File /\ Done(p) \in Nat /\ Done(p) < Statements
        /\ View(p).data = file.data
        /\ Made(Done(p)) \subseteq View(p).tables
    <3>1. CASE Mine(p)
      BY <1>0, <1>4, <3>1 DEF Statement, Mine, View, Done, FileInv, WorkIsPartial
    <3>2. CASE ~Mine(p)
      <4>1. View(p) = file /\ Done(p) = 0
        BY <3>2 DEF View, Done
      <4>2. Made(0) = {}
        BY DEF Made
      <4>3. 0 < Statements
        BY <1>0, StoreFacts
      <4> QED BY <1>0, <4>1, <4>2, <4>3
    <3> QED BY <3>1, <3>2
  <2> DEFINE g == After(View(p), Done(p) + 1)
  <2>2. /\ g \in File /\ g.data = file.data /\ Made(Done(p) + 1) \subseteq g.tables
        /\ Done(p) + 1 = Statements => g.version = Current
    BY <1>0, <2>1, AfterFacts
  <2>3. work' = [by |-> p, file |-> g, done |-> Done(p) + 1]
        /\ UNCHANGED <<store, file, proc, faults>> /\ proc[p] = "migrate"
    BY <1>4 DEF Statement
  <2>4. Done(p) + 1 \in 1..Statements /\ Statements \in 1..6
    BY <1>0, <2>1, StoreFacts
  <2> HIDE DEF g
  <2>5. OpenTypeOK'
    BY <1>0, <2>2, <2>3, <2>4 DEF OpenTypeOK, FileInv
  <2>6. WorkIsPartial'
    BY <2>2, <2>3, <2>4 DEF WorkIsPartial, Made, Statements
  <2>7. VersionIsTrue'
    BY <2>3 DEF VersionIsTrue, FileInv
  <2> QED BY <2>5, <2>6, <2>7 DEF FileInv
<1>5. ASSUME NEW p \in Processes, Commit(p) PROVE FileInv'
  <2>1. /\ file' \in File /\ file'.version = Current /\ file'.data = file.data
        /\ All(store) \subseteq file'.tables
        /\ file.version <= Current
    BY <1>5, CommitFacts
  <2>2. \A q \in Processes : proc[q] = "serving" => file.version = Current
    BY DEF FileInv, VersionIsTrue
  <2>3. OpenTypeOK'
    BY <1>0, <1>5, <2>1 DEF Commit, Become, OpenTypeOK, Phases, FileInv
  <2>4. WorkIsPartial'
    BY <1>5 DEF Commit, WorkIsPartial
  <2>5. VersionIsTrue'
    BY <1>0, <1>5, <2>1, <2>2 DEF Commit, Become, VersionIsTrue, Phases, Current
  <2> QED BY <2>3, <2>4, <2>5 DEF FileInv
<1>6. ASSUME NEW p \in Processes, Stop(p), faults' \in 0..MaxFaults PROVE FileInv'
  <2>1. OpenTypeOK'
    BY <1>0, <1>6 DEF Stop, Become, OpenTypeOK, Phases, FileInv
  <2>2. WorkIsPartial'
    <3>1. work' # NoWork => work' = work /\ work.by # p /\ work.by \in Processes
      BY <1>0, <1>6 DEF Stop, Mine
    <3>2. UNCHANGED <<store, file>> /\ proc' = [proc EXCEPT ![p] = "down"]
      BY <1>6 DEF Stop, Become
    <3> QED BY <1>0, <3>1, <3>2 DEF FileInv, WorkIsPartial, Made, Statements
  <2>3. VersionIsTrue'
    BY <1>0, <1>6 DEF Stop, Become, FileInv, VersionIsTrue, Phases
  <2> QED BY <2>1, <2>2, <2>3 DEF FileInv
<1>7. ASSUME NEW p \in Processes, Refused(p) PROVE FileInv'
  BY <1>0, <1>6, <1>7 DEF Refused
<1>8. ASSUME NEW p \in Processes, Fault(p) PROVE FileInv'
  BY <1>0, <1>6, <1>8 DEF Fault
<1>9. ASSUME NEW p \in Processes, Write(p) PROVE FileInv'
  <2>1. file.version = Current
    BY <1>9 DEF Write, FileInv, VersionIsTrue
  <2>2. /\ file' \in File /\ file'.version = file.version /\ file'.tables = file.tables
    BY <1>0, <1>9 DEF Write, File
  <2> QED
    BY <1>0, <1>9, <2>1, <2>2 DEF Write, FileInv, OpenTypeOK, WorkIsPartial, VersionIsTrue, Current
<1>10. CASE UNCHANGED openVars
  BY <1>10 DEF openVars, FileInv, OpenTypeOK, WorkIsPartial, VersionIsTrue, Made, Statements
<1> QED
  BY <1>1, <1>2, <1>3, <1>4, <1>5, <1>7, <1>8, <1>9, <1>10 DEF OpenNext, Opening

\* And so it always holds.
LEMMA FileInvariance == OpenSpec => []FileInv
<1> QED
  BY InitFileInv, NextFileInv, PTL DEF OpenSpec

\* Opening a file, by any number of processes and through any failures, keeps
\* to the types.
THEOREM FileTypeCorrect == OpenSpec => []OpenTypeOK
<1>1. FileInv => OpenTypeOK
  BY DEF FileInv
<1> QED
  BY <1>1, FileInvariance, PTL

\* Open returns a store only on a file of its own version with every table, and
\* leaves the file of a later release as it was: whatever dies half way, and
\* however many processes migrate the file side by side.
THEOREM ServingIsSound == OpenSpec => []ServesItsOwnSchema
<1>1. ASSUME FileInv PROVE ServesItsOwnSchema
  <2>1. \A p \in Processes :
          proc[p] = "serving" => file.version = Current /\ All(store) \subseteq file.tables
    BY <1>1 DEF FileInv, VersionIsTrue
  <2>2. ASSUME file.version > Current PROVE work = NoWork
    <3>1. ASSUME work # NoWork PROVE FALSE
      <4>1. work.by \in Processes /\ proc[work.by] = "migrate"
        BY <1>1, <3>1 DEF FileInv, OpenTypeOK, WorkIsPartial
      <4>2. file.version <= Current /\ file.version \in 0..(Current + 1)
        BY <1>1, <4>1 DEF FileInv, VersionIsTrue, OpenTypeOK, File
      <4> QED BY <2>2, <4>2 DEF Current
    <3> QED BY <3>1
  <2> QED BY <1>1, <2>1, <2>2 DEF ServesItsOwnSchema, FileInv, VersionIsTrue
<1> QED
  BY <1>1, FileInvariance, PTL

----------------------------------------------------------------------------
(* Migration: refinement. *)

\* Opening implements Upgrade: the whole schema appears at most once, in the
\* step that commits migrateV1, without a row lost; rows come only after it.
THEOREM OpeningImplementsUpgrade == OpenSpec => ImplementsUpgrade
<1>1. OpenInit => U!Init
  <2> SUFFICES ASSUME OpenInit PROVE U!Init
    OBVIOUS
  <2>1. file.version \in 0..(Current + 1) /\ file.data \in Nat
    BY InitFileInv DEF FileInv, OpenTypeOK, File
  <2> QED BY <2>1 DEF U!Init, Ready
<1>2. ASSUME FileInv, [OpenNext]_openVars PROVE [U!Next]_<<Ready, file.data>>
  <2> DEFINE Same == file'.version = file.version /\ file'.data = file.data
  <2>0. file \in File /\ file.version \in 0..(Current + 1)
    BY <1>2 DEF FileInv, OpenTypeOK, File
  <2>1. ASSUME Same PROVE [U!Next]_<<Ready, file.data>>
    BY <2>1 DEF Ready
  <2>2. ASSUME NEW p \in Processes, Prepare(p) PROVE Same
    BY <2>0, <2>2 DEF Prepare, File
  <2>3. ASSUME NEW p \in Processes,
               \/ Start(p) \/ ReadVersion(p) \/ Statement(p) \/ Refused(p) \/ Fault(p)
        PROVE  Same
    BY <2>3 DEF Start, ReadVersion, Statement, Refused, Fault, Stop
  <2>4. ASSUME NEW p \in Processes, Commit(p) PROVE [U!Next]_<<Ready, file.data>>
    <3>1. file'.version = Current /\ file'.data = file.data /\ file.version <= Current
      BY <1>2, <2>4, CommitFacts
    <3>2. Ready'
      BY <3>1 DEF Ready, Current
    <3> QED BY <3>1, <3>2 DEF U!Next, U!Migrate, Ready
  <2>5. ASSUME NEW p \in Processes, Write(p) PROVE [U!Next]_<<Ready, file.data>>
    <3>1. file.version = Current
      BY <1>2, <2>5 DEF Write, FileInv, VersionIsTrue
    <3>2. file'.version = file.version /\ file'.data = file.data + 1
      BY <2>0, <2>5 DEF Write, File
    <3> QED BY <3>1, <3>2 DEF U!Next, U!Write, Ready, Current
  <2>6. CASE UNCHANGED openVars
    BY <2>6 DEF openVars, Ready
  <2> QED
    BY <1>2, <2>1, <2>2, <2>3, <2>4, <2>5, <2>6 DEF OpenNext, Opening
<1> QED
  BY <1>1, <1>2, FileInvariance, PTL DEF OpenSpec, ImplementsUpgrade, U!Spec
=============================================================================
