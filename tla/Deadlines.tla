------------------------------- MODULE Deadlines -------------------------------
(***************************************************************************)
(* When registration closes.  Three copies of one loop go back from the    *)
(* day of an event over working days: subtractWorkdays refuses             *)
(* registrations (service.go), registrationDeadline flags the listed event *)
(* as closed and emailSubWorkdays times the letter (handlers.go).  They    *)
(* compare midnight in Novosibirsk with the clock, while the query of the  *)
(* restore and 023_backfill_email_sent.sql ask PostgreSQL for its date,    *)
(* which is the one in UTC.  The module follows one event with one         *)
(* registration through the first deployment of email_sent_at, later       *)
(* restarts and a repeated 023.                                            *)
(*                                                                         *)
(* Days are counted from a Monday, time in hours from its midnight in UTC. *)
(***************************************************************************)
EXTENDS Integers, FiniteSets, FiniteSetsExt

CONSTANTS
  N,          \* working days between the deadline and the event, 3 in the code
  Margin,     \* the days of 023, 5 in the file
  Dates,      \* days the event may be on
  LastDay,    \* bound of the clock, a day
  Hours,      \* hours of a day (UTC) at which the clock stops
  MaxFills    \* bound of the applications of 023

ASSUME DeadlinesAssumption ==
  /\ N \in Nat \ {0}
  /\ {Margin, LastDay, MaxFills} \subseteq Nat
  /\ Dates \subseteq Nat
  /\ Hours \subseteq 0 .. 23

VARIABLES
  now,
  date,       \* events.event_date
  sent,       \* events.email_sent_at IS NOT NULL
  up,         \* the API process runs
  call,       \* the copy of the loop that is running, and for whom
  task,       \* the goroutine of scheduleAndSendEmail
  early,      \* the letter went before the column email_sent_at existed
  mailed,     \* history: the letter went since
  missed,     \* history: the process was down when registration closed
  fills,      \* how often 023 was applied
  marked,     \* history: it was 023 that set email_sent_at
  fresh       \* history: registration closed less than the zone's offset
              \* before 023 was first applied, or was open then

vars == <<now, date, sent, up, call, task, early, mailed, missed, fills, marked, fresh>>

-----------------------------------------------------------------------------
(* The calendar.                                                            *)
Workday(d) == d % 7 < 5

Offset == 7
NSK == now + Offset
Midnight(d) == 24 * d
CurrentDate == now \div 24

Instants == {24 * d + h : d \in 0 .. LastDay, h \in Hours}

(* The day registration closes at the start of: with it, N working days are *)
(* left before the event.  The reference the loops are compared with.       *)
WorkdaysFrom(d) == {w \in d .. date - 1 : Workday(w)}
ClosingDay == Max({d \in (date - 3 * N - 3) .. date : Cardinality(WorkdaysFrom(d)) = N})

NoTask == [pc |-> "none"]
Sleeping(d) == [pc |-> "sleep", until |-> d]

NoCall == [by |-> "nobody"]
Callers == {"register", "list", "mail"}

TypeOK ==
  /\ now \in Nat /\ date \in Dates
  /\ {sent, up, early, mailed, missed, marked, fresh} \subseteq BOOLEAN
  /\ call \in {NoCall} \cup [by : Callers, result : Int, subtracted : 0 .. N]
  /\ task \in {NoTask} \cup [pc : {"sleep"}, until : Int]
  /\ fills \in 0 .. MaxFills

ClosedAt(t) == t + Offset >= Midnight(ClosingDay)
Closed == ClosedAt(now)

(* Somebody registered in time; the program that ran before 022 may have    *)
(* mailed the list when registration closed.                                *)
Init ==
  /\ now \in Instants
  /\ date \in Dates
  /\ early \in {FALSE, Closed}
  /\ missed = (Closed /\ ~early)
  /\ call = NoCall /\ task = NoTask
  /\ fills = 0
  /\ sent = FALSE /\ up = FALSE /\ mailed = FALSE /\ marked = FALSE /\ fresh = FALSE

-----------------------------------------------------------------------------
(* The loops.  A call begins at the day of the event.                       *)
Begin(c) == call' = [by |-> c, result |-> date, subtracted |-> 0]

Running(c) == call.by = c /\ call.subtracted < N

Back(isWorkday) ==
  call' = [call EXCEPT !.result = @ - 1,
                       !.subtracted = IF isWorkday THEN @ + 1 ELSE @]

\* Mutant: Saturday counts as a working day.
SubtractSaturdays ==
  Running("register") /\ Back((call.result - 1) % 7 < 6)

SubtractWorkdays ==
  Running("register") /\ Back(Workday(call.result - 1))

RegistrationDeadline ==
  Running("list") /\ Back(Workday(call.result - 1))

EmailSubWorkdays ==
  Running("mail") /\ Back(Workday(call.result - 1))

Loop ==
  /\ SubtractWorkdays \/ RegistrationDeadline \/ EmailSubWorkdays
  /\ UNCHANGED <<now, date, sent, up, task, early, mailed, missed, fills, marked, fresh>>

Returned(c) == call.by = c /\ call.subtracted = N

(* What the callers make of it: After and Before are strict.                *)
RefusesRegistration == NSK > Midnight(call.result)
ListsAsClosed == NSK > Midnight(call.result)
LetterWaits == NSK < Midnight(call.result)

(* RegisterToEvent and listEvents.                                          *)
Ask(c) ==
  /\ up /\ call = NoCall
  /\ c \in {"register", "list"}
  /\ Begin(c)
  /\ UNCHANGED <<now, date, sent, up, task, early, mailed, missed, fills, marked, fresh>>

Answered ==
  /\ Returned("register") \/ Returned("list")
  /\ call' = NoCall
  /\ UNCHANGED <<now, date, sent, up, task, early, mailed, missed, fills, marked, fresh>>

-----------------------------------------------------------------------------
(* The query of the restore, and its own check that the event is not past.  *)
\* Mutant: events of today are not upcoming.
UpcomingAfter == date > CurrentDate

Upcoming == date >= CurrentDate

NotPast == NSK < Midnight(date + 1)

(* The API starts when the migrations have ended, and restores.             *)
Start ==
  /\ ~up /\ fills > 0
  /\ up' = TRUE
  /\ IF Upcoming /\ NotPast THEN Begin("mail") ELSE UNCHANGED call
  /\ UNCHANGED <<now, date, sent, task, early, mailed, missed, fills, marked, fresh>>

(* The goroutine sleeps, or a late letter goes, which marks nothing.        *)
Restored ==
  /\ Returned("mail")
  /\ call' = NoCall
  /\ task' = IF LetterWaits THEN Sleeping(call.result) ELSE task
  /\ mailed' = (mailed \/ (~LetterWaits /\ ~sent))
  /\ UNCHANGED <<now, date, sent, up, early, missed, fills, marked, fresh>>

Due == task # NoTask /\ NSK >= Midnight(task.until)

(* scheduleAndSendEmail; what can fail or crash inside is MailSchedule's.   *)
Wake ==
  /\ Due
  /\ task' = NoTask
  /\ mailed' = TRUE /\ sent' = TRUE
  /\ UNCHANGED <<now, date, up, call, early, missed, fills, marked, fresh>>

Crash ==
  /\ up
  /\ up' = FALSE
  /\ task' = NoTask /\ call' = NoCall
  /\ missed' = (missed \/ Due)
  /\ UNCHANGED <<now, date, sent, early, mailed, fills, marked, fresh>>

\* Mutant: a day less than the longest way back over a week-end.
SilencedFour == ~sent /\ date <= CurrentDate + Margin - 1

\* Mutant: a whole week.
SilencedWeek == ~sent /\ date <= CurrentDate + Margin + 2

Silenced == ~sent /\ date <= CurrentDate + Margin

(* 023, first with the column 022 adds, later again if the runner is killed *)
(* before it records the file or cannot ask whether it did.                 *)
Backfill ==
  /\ fills < MaxFills
  /\ fills = 0 => ~up
  /\ fills' = fills + 1
  /\ sent' = (sent \/ Silenced)
  /\ marked' = (marked \/ Silenced)
  /\ fresh' = IF fills = 0 THEN NSK < Midnight(ClosingDay) + Offset ELSE fresh
  /\ UNCHANGED <<now, date, up, call, task, early, mailed, missed>>

(* A loop takes no time, and a timer that is due fires.                     *)
Tick ==
  /\ call = NoCall /\ ~Due
  /\ \E i \in Instants : i > now
  /\ now' = Min({i \in Instants : i > now})
  /\ missed' = (missed \/ (~Closed /\ ClosedAt(now') /\ ~up))
  /\ UNCHANGED <<date, sent, up, call, task, early, mailed, fills, marked, fresh>>

-----------------------------------------------------------------------------
Next ==
  \/ \E c \in Callers : Ask(c)
  \/ Loop \/ Answered
  \/ Start \/ Restored \/ Wake \/ Crash
  \/ Backfill
  \/ Tick

Spec == Init /\ [][Next]_vars

-----------------------------------------------------------------------------
(* The full working days before the event that have not begun, counted from *)
(* the calendar instead of by the loop.                                     *)
WorkdaysAhead == {d \in CurrentDate .. date - 1 : Workday(d) /\ Midnight(d) >= NSK}

(* The three copies mean what the answer to a late registration says ("less *)
(* than 3 working days"): a registration is refused, and the event is       *)
(* listed as closed, exactly when fewer than N full working days are left;  *)
(* the letter waits exactly while the deadline is ahead.  At the deadline   *)
(* itself registrations are still taken and the letter goes.                *)
VerdictIsTrue ==
  /\ Returned("register") => (RefusesRegistration <=> Cardinality(WorkdaysAhead) < N)
  /\ Returned("list") => (ListsAsClosed <=> Cardinality(WorkdaysAhead) < N)
  /\ Returned("mail") => (LetterWaits <=> ~Closed)

(* 023 is there so that letters sent before the column existed are not      *)
(* repeated.  They are not, except for an event whose registration closed   *)
(* less than seven hours before the file was applied: the date of           *)
(* PostgreSQL is still the day before.                                      *)
EarlyLetterIsFinal == early /\ mailed => fresh

(* Whatever restarts and repeated 023s do, a letter is forgotten only if    *)
(* the process was down when registration closed and 023 had marked the     *)
(* event: at rest, after the deadline and on the day of the event itself.   *)
ForgottenOnlyByBackfill ==
  (up /\ call = NoCall /\ task = NoTask /\ Closed /\ NotPast)
    => early \/ mailed \/ (missed /\ marked)

(* The five days of 023 reach an event whose registration is still open, by *)
(* 41 hours at most: two days without the offset of the zone.               *)
BackfillReach ==
  [][(fills' # fills /\ sent' # sent) => Midnight(ClosingDay) - NSK <= 48 - Offset]_vars
=============================================================================
