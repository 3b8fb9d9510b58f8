------------------------------- MODULE Reminder -------------------------------
(***************************************************************************)
(* The daily reminder (internal/reminder/scheduler.go and the state row of *)
(* internal/storage/sqlite/reminder.go).  Run sleeps until the configured  *)
(* minute and calls Check, whose reads, send and write are steps of their  *)
(* own: between any two of them transactions may be recorded, moved and    *)
(* deleted, any may fail, the timer may be late or a little early, and the *)
(* process may die.                                                        *)
(*                                                                         *)
(* Time is counted in ticks of DayTicks to the local day; the configured   *)
(* minute lasts MinuteTicks from tick Target of each day.                  *)
(***************************************************************************)
EXTENDS Naturals, FiniteSets, Sequences

CONSTANTS
  DayTicks, Target, MinuteTicks,
  Cooldown,     \* REMINDER_COOLDOWN, in ticks (the default is one day)
  Early,        \* how much too early a timer may fire
  MaxDay,       \* bound on the clock, in days
  MaxLife,      \* bound on the restarts
  None

ASSUME TimesAssumption ==
  /\ {DayTicks, Target, MinuteTicks, Cooldown, Early, MaxDay, MaxLife} \subseteq Nat
  /\ MinuteTicks > 0 /\ Cooldown > 0
  /\ Early < Target /\ Target + MinuteTicks <= DayTicks
  /\ None \notin Nat

Days == 0..MaxDay
Times == 0..(DayTicks * (MaxDay + 1) - 1)

\* Where a transaction's time may lie: in the first second of a local day but
\* not at its very start ("first"), or elsewhere in the day.
Places == Days \X {"first", "later"}

DayOf(t) == t \div DayTicks
TargetOf(day) == day * DayTicks + Target

VARIABLES
  now,        \* the clock
  life,       \* restarts so far
  timer,      \* when Run's timer is due, or None
  check,      \* where Check is
  attempted,  \* Scheduler.attempted: days settled in this life of the process
  state,      \* reminder_state row: the last recorded delivery, or None
  active,     \* places that hold a live transaction of the user
  sent,       \* history: the reminders the user received
  excused     \* history: days on which Check found a transaction, failed or died

vars == <<now, life, timer, check, attempted, state, active, sent, excused>>

\* at: Check's `now`; busy: the day, but for its first second, has held a
\* transaction ever since.
Check == [phase : {"idle", "state", "search", "send", "record"}, at : Times, busy : BOOLEAN]
Reminder == [day : Days, at : Times, busy : BOOLEAN, recorded : BOOLEAN]

TypeOK ==
  /\ now \in Times
  /\ life \in 0..MaxLife
  /\ timer \in {TargetOf(day) : day \in 0..(MaxDay + 1)} \cup {None}
  /\ check \in Check
  /\ attempted \subseteq Days
  /\ state \in Times \cup {None}
  /\ active \subseteq Places
  /\ sent \in Seq(Reminder)
  /\ excused \subseteq Days

Idle == [phase |-> "idle", at |-> 0, busy |-> FALSE]

Init ==
  /\ now \in {t \in Times : DayOf(t) = 0}
  /\ life = 0
  /\ timer = None
  /\ check = Idle
  /\ attempted = {}
  /\ state = None
  /\ active = {}
  /\ sent = <<>>
  /\ excused = {}

Today == DayOf(check.at)
----------------------------------------------------------------------------
(* Run *)

\* Faulty: an occurrence that is exactly now counts as still to come.
NextTarget_NotStrict == TargetOf(IF now <= TargetOf(DayOf(now)) THEN DayOf(now) ELSE DayOf(now) + 1)

\* The next occurrence strictly after now.
NextTarget == TargetOf(IF now < TargetOf(DayOf(now)) THEN DayOf(now) ELSE DayOf(now) + 1)

Arm ==
  /\ timer = None /\ check = Idle
  /\ timer' = NextTarget
  /\ UNCHANGED <<now, life, check, attempted, state, active, sent, excused>>

\* Faulty: a Check that comes too late makes up for the reminder.
InMinute_CatchUp(t) == t >= TargetOf(DayOf(t))

\* The clock shows the configured minute.
InMinute(t) == t - TargetOf(DayOf(t)) \in 0..(MinuteTicks - 1)

\* The timer fires and Check reads the clock; outside the minute, or on a day
\* already settled, it returns at once.
Fire ==
  /\ timer # None /\ now + Early >= timer
  /\ timer' = None
  /\ check' = IF InMinute(now) /\ DayOf(now) \notin attempted
              THEN [phase |-> "state", at |-> now, busy |-> <<DayOf(now), "later">> \in active]
              ELSE Idle
  /\ UNCHANGED <<now, life, attempted, state, active, sent, excused>>

----------------------------------------------------------------------------
(* Check, under Scheduler.mu. *)

Settle ==
  /\ attempted' = attempted \cup {Today}
  /\ check' = Idle

\* Faulty: only the date of the last delivery is looked at.
Permitted_AnyCooldown == state = None \/ DayOf(state) # Today

\* The state row permits a reminder: none today, none within the cooldown.
Permitted == state = None \/ (DayOf(state) # Today /\ check.at >= state + Cooldown)

ReadState ==
  /\ check.phase = "state"
  /\ IF Permitted THEN check' = [check EXCEPT !.phase = "search"] /\ UNCHANGED attempted
                  ELSE Settle
  /\ UNCHANGED <<now, life, timer, state, active, sent, excused>>

\* Faulty: the day searched is the one before (a boundary in another timezone).
Busy_OtherDay == Today > 0 /\ (<<Today - 1, "later">> \in active \/ <<Today, "first">> \in active)

\* The search of the local day finds a transaction.  Times are compared as text,
\* where the fractions of a second sort before the whole one, so either end of
\* the day is off by a second for times that have a fraction.
Busy == <<Today, "later">> \in active \/ <<Today + 1, "first">> \in active

\* No transaction: the day is settled before the reminder is sent.
Search ==
  /\ check.phase = "search"
  /\ attempted' = attempted \cup {Today}
  /\ IF Busy THEN check' = Idle /\ excused' = excused \cup {Today}
             ELSE check' = [check EXCEPT !.phase = "send"] /\ UNCHANGED excused
  /\ UNCHANGED <<now, life, timer, state, active, sent>>

\* A read of the database fails: not settled, but the timer waits for tomorrow.
ReadFails ==
  /\ check.phase \in {"state", "search"}
  /\ check' = Idle
  /\ excused' = excused \cup {Today}
  /\ UNCHANGED <<now, life, timer, attempted, state, active, sent>>

Received == Append(sent, [day |-> Today, at |-> check.at, busy |-> check.busy, recorded |-> FALSE])

Send ==
  /\ check.phase = "send"
  /\ sent' = Received
  /\ check' = [check EXCEPT !.phase = "record"]
  /\ UNCHANGED <<now, life, timer, attempted, state, active, excused>>

\* An error from Discord, which may have delivered the message all the same.
SendFails ==
  /\ check.phase = "send"
  /\ sent' \in {sent, Received}
  /\ check' = Idle
  /\ excused' = excused \cup {Today}
  /\ UNCHANGED <<now, life, timer, attempted, state, active>>

\* RecordReminderDelivery
RecordDelivery ==
  /\ check.phase = "record"
  /\ state' = check.at
  /\ sent' = [sent EXCEPT ![Len(sent)].recorded = TRUE]
  /\ check' = Idle
  /\ UNCHANGED <<now, life, timer, attempted, active, excused>>

RecordFails ==
  /\ check.phase = "record"
  /\ check' = Idle
  /\ excused' = excused \cup {Today}
  /\ UNCHANGED <<now, life, timer, attempted, state, active, sent>>

----------------------------------------------------------------------------
Tick ==
  /\ now + 1 \in Times
  /\ now' = now + 1
  /\ UNCHANGED <<life, timer, check, attempted, state, active, sent, excused>>

\* Messages and buttons record a transaction, delete the last of a place, or
\* move one by an update of its time, past and future days included.
Activity(gone, come) ==
  /\ active' = (active \ gone) \cup come
  /\ check' = [check EXCEPT !.busy = @ /\ <<Today, "later">> \in active']
  /\ UNCHANGED <<now, life, timer, attempted, state, sent, excused>>

\* The process dies; what it was doing and `attempted` are lost.
Crash ==
  /\ life < MaxLife
  /\ life' = life + 1
  /\ timer' = None
  /\ check' = Idle
  /\ attempted' = {}
  /\ excused' = IF check = Idle THEN excused ELSE excused \cup {Today}
  /\ UNCHANGED <<now, state, active, sent>>

Next ==
  \/ Arm \/ Fire
  \/ ReadState \/ Search \/ ReadFails \/ Send \/ SendFails \/ RecordDelivery \/ RecordFails
  \/ Tick \/ Crash
  \/ \E gone, come \in {{}} \cup {{place} : place \in Places} : Activity(gone, come)

Spec == Init /\ [][Next]_vars

----------------------------------------------------------------------------
(* Properties *)

\* At most one reminder reaches the user in a local day: not two after a send
\* that failed only in appearance, an unrecorded delivery, or a restart within
\* the minute.
OneReminderPerDay ==
  \A i, j \in DOMAIN sent : sent[i].day = sent[j].day => i = j

\* Nobody is reminded of a day that held a transaction from Check's look at the
\* clock to its search, whatever the days around it hold and whatever is
\* recorded, moved or deleted meanwhile.  A transaction in the first second of
\* the day is not counted on: see WholeDayCounts.
OnlyIdleDays == \A i \in DOMAIN sent : ~sent[i].busy

\* A reminder is never made up for: it belongs to a Check of the configured
\* minute of its own day, after a late timer, a restart or a failed attempt too.
NoCatchUp ==
  \A i \in DOMAIN sent :
    \E tick \in 0..(MinuteTicks - 1) : sent[i].at = TargetOf(sent[i].day) + tick

\* After a delivery on record the next reminder keeps the cooldown.
CooldownKept ==
  \A i, j \in DOMAIN sent :
    i < j /\ sent[i].recorded => sent[j].at >= sent[i].at + Cooldown

\* The claim "a daily reminder when I have not recorded a transaction": a day
\* that Check settled had a transaction, an error or a death, or its reminder was
\* received.
DailyReminder ==
  \A day \in attempted \ excused :
    (check # Idle /\ Today = day) \/ \E i \in DOMAIN sent : sent[i].day = day

\* The claim of DailyReminder for the whole day: the search does not come out
\* empty while the day's first second holds a transaction.
WholeDayCounts ==
  [][check.phase = "search" /\ check'.phase = "send" => <<Today, "first">> \notin active]_vars
=============================================================================
