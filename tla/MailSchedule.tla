----------------------------- MODULE MailSchedule -----------------------------
(***************************************************************************)
(* The list of participants mailed after registration closes.  Every       *)
(* answered registration starts a goroutine that sleeps until the deadline *)
(* of the event date it was given, reads the participants, hands them to a *)
(* goroutine that talks SMTP, and sets events.email_sent_at                *)
(* (handlers.go registerToEvent, scheduleAndSendEmail,                     *)
(* sendParticipantsEmail; email.go SendParticipantList).  Goroutines die   *)
(* with the process; RestoreSchedules starts new ones while requests are   *)
(* already served.  EMAIL_TO is set, or none of this runs.                 *)
(***************************************************************************)
EXTENDS Registration

CONSTANTS
  MaxRemovals,  \* bound of the number of accounts that are removed
  MaxCrashes,   \* bound of the number of times the process dies
  CrashMidSend, \* FALSE if the process only dies while all goroutines sleep
  SmtpMayFail,  \* TRUE if a letter may be lost (an empty SMTP_USER loses all)
  DatesMayMove  \* FALSE if the administrator never updates an event

ASSUME MailAssumption ==
  /\ {MaxCrashes, MaxRemovals} \subseteq Nat
  /\ {CrashMidSend, SmtpMayFail, DatesMayMove} \subseteq BOOLEAN
  /\ Requests \cap Events = {}

VARIABLES
  emailSent,    \* events.email_sent_at IS NOT NULL
  mailed,       \* the lists of participants each event's letters carried
  task,         \* scheduleAndSendEmail, started by a request or by the restore
  letter,       \* the SMTP goroutine a task started: the event and its list
  lost,         \* history: events of which an unheard INSERT, a list or a
                \* letter was lost by a failure
  restore,      \* RestoreSchedules: its program counter, the rows left and
                \* the events it passed over because they were past
  up,           \* the process runs
  crashes

mailVars == <<emailSent, mailed, task, letter, lost, restore, up, crashes>>
vars == <<now, account, event, reg, request, emailSent, mailed, task, letter,
          lost, restore, up, crashes>>

-----------------------------------------------------------------------------
(* A request starts one task; the restore starts one for each event.        *)
Workers == Requests \cup Events

NoTask == [pc |-> "idle", event |-> "none", date |-> 0, marks |-> FALSE]
TaskRow == [pc : {"sleep", "list", "mark"}, event : Events, date : Dates, marks : BOOLEAN]

NoLetter == [event |-> "none", to |-> {}]
Letter == [event : Events, to : (SUBSET Users) \ {{}}]

ScheduleRow == [event : Events, date : Dates, sent : BOOLEAN]

TypeOK ==
  /\ RegTypeOK
  /\ emailSent \in [Events -> BOOLEAN]
  /\ mailed \in [Events -> SUBSET (SUBSET Users)]
  /\ task \in [Workers -> TaskRow \cup {NoTask}]
  /\ letter \in [Workers -> Letter \cup {NoLetter}]
  /\ lost \subseteq Events
  /\ restore.pc \in {"query", "rows", "over"}
  /\ restore.rows \subseteq ScheduleRow
  /\ restore.past \subseteq Events
  /\ up \in BOOLEAN
  /\ crashes \in 0 .. MaxCrashes

Started == [pc |-> "query", rows |-> {}, past |-> {}]

Init ==
  /\ RegInit
  /\ emailSent = [e \in Events |-> FALSE]
  /\ mailed = [e \in Events |-> {}]
  /\ task = [w \in Workers |-> NoTask]
  /\ letter = [w \in Workers |-> NoLetter]
  /\ lost = {}
  /\ restore = Started
  /\ up = TRUE
  /\ crashes = 0

-----------------------------------------------------------------------------
(* registerToEvent: the goroutine is started after the 201 answer only, and *)
(* keeps the date of the copy the request listed.                           *)
Sleeping(e, d) == [pc |-> "sleep", event |-> e, date |-> d, marks |-> TRUE]

\* Mutant: no goroutine for an event whose letter has gone.
SpawnUnlessSent(q) ==
  task' = IF emailSent[request[q].event] THEN task
          ELSE [task EXCEPT ![q] = Sleeping(request[q].event, request[q].copy.date)]

Spawn(q) == task' = [task EXCEPT ![q] = Sleeping(request[q].event, request[q].copy.date)]

Register(q) ==
  /\ InsertCreated(q)
  /\ Spawn(q)
  /\ UNCHANGED <<emailSent, mailed, letter, lost, restore, up, crashes>>

OtherRequestStep(q) ==
  \/ /\ \/ \E u \in Users, e \in Events, w \in Wants : Lookup(q, u, e, w)
        \/ CheckDeadline(q)
     /\ UNCHANGED mailVars
  \/ /\ InsertConflict(q)
     /\ lost' = IF reg' = reg THEN lost ELSE lost \cup {request[q].event}
     /\ UNCHANGED <<emailSent, mailed, task, letter, restore, up, crashes>>

Administer ==
  /\ \E e \in Events, d \in Dates, m \in Modes :
       \/ CreateEvent(e, d, m)
       \/ DatesMayMove /\ UpdateEvent(e, d, m)
       \/ CancelEvent(e)
  /\ UNCHANGED mailVars

(* DELETE FROM users: the registrations of the user go by cascade.  It may  *)
(* be refused for the sake of other rows (Attendance has those), and then   *)
(* nothing happens.                                                         *)
DeleteUser(u) ==
  /\ u \in account
  /\ Cardinality(Users \ account) < MaxRemovals
  /\ account' = account \ {u}
  /\ reg' = [k \in RegKeys |-> IF k[1] = u THEN NoRow ELSE reg[k]]
  /\ UNCHANGED <<now, event, request, mailVars>>

-----------------------------------------------------------------------------
DeadlineReached(d) == now >= DeadlineOf[d]

\* Mutant: the sleep is cut short.
WakeEarly(w) ==
  /\ task[w].pc = "sleep"
  /\ task' = [task EXCEPT ![w].pc = "list"]
  /\ UNCHANGED <<regVars, emailSent, mailed, letter, lost, restore, up, crashes>>

Wake(w) ==
  /\ task[w].pc = "sleep"
  /\ DeadlineReached(task[w].date)
  /\ task' = [task EXCEPT ![w].pc = "list"]
  /\ UNCHANGED <<regVars, emailSent, mailed, letter, lost, restore, up, crashes>>

(* scheduleAndSendEmail marks the event after the SMTP goroutine started,   *)
(* whether there was a letter or not; the late letter of RestoreSchedules   *)
(* goes through sendParticipantsEmail alone and marks nothing.              *)
AfterList(w) ==
  task' = IF task[w].marks THEN [task EXCEPT ![w].pc = "mark"]
                           ELSE [task EXCEPT ![w] = NoTask]

Participants(e) == {u \in Users : reg[<<u, e>>] # NoRow}

\* Mutant: a letter carries only those no letter carried yet.
ComposeNew(w) ==
  /\ task[w].pc = "list"
  /\ LET new == Participants(task[w].event) \ UNION mailed[task[w].event] IN
       letter' = IF new = {} THEN letter
                 ELSE [letter EXCEPT ![w] = [event |-> task[w].event, to |-> new]]
  /\ AfterList(w)
  /\ UNCHANGED <<regVars, emailSent, mailed, lost, restore, up, crashes>>

Compose(w) ==
  /\ task[w].pc = "list"
  /\ letter' = IF Participants(task[w].event) = {} THEN letter
               ELSE [letter EXCEPT ![w] =
                       [event |-> task[w].event, to |-> Participants(task[w].event)]]
  /\ AfterList(w)
  /\ UNCHANGED <<regVars, emailSent, mailed, lost, restore, up, crashes>>

ComposeFails(w) ==
  /\ DbMayFail
  /\ task[w].pc = "list"
  /\ lost' = lost \cup {task[w].event}
  /\ AfterList(w)
  /\ UNCHANGED <<regVars, emailSent, mailed, letter, restore, up, crashes>>

(* MarkEventEmailSent; its error is dropped.                                *)
MarkSent(w) ==
  /\ task[w].pc = "mark"
  /\ \/ emailSent' = [emailSent EXCEPT ![task[w].event] = TRUE]
     \/ DbMayFail /\ UNCHANGED emailSent
  /\ task' = [task EXCEPT ![w] = NoTask]
  /\ UNCHANGED <<regVars, mailed, letter, lost, restore, up, crashes>>

Deliver(w) ==
  /\ letter[w] # NoLetter
  /\ mailed' = [mailed EXCEPT ![letter[w].event] = @ \cup {letter[w].to}]
  /\ letter' = [letter EXCEPT ![w] = NoLetter]
  /\ UNCHANGED <<regVars, emailSent, task, lost, restore, up, crashes>>

LetterLost(w) ==
  /\ SmtpMayFail
  /\ letter[w] # NoLetter
  /\ lost' = lost \cup {letter[w].event}
  /\ letter' = [letter EXCEPT ![w] = NoLetter]
  /\ UNCHANGED <<regVars, emailSent, mailed, task, restore, up, crashes>>

-----------------------------------------------------------------------------
(* The day of an event lasts one unit of the clock.                         *)
Past(d) == now >= d + 1

Upcoming == {e \in Events : Listed(e) /\ ~Past(event[e].date)}

RestoreQuery ==
  /\ restore.pc = "query"
  /\ restore' =
       [pc |-> "rows",
        rows |-> {[event |-> e, date |-> event[e].date, sent |-> emailSent[e]] : e \in Upcoming},
        past |-> {e \in Events : Listed(e)} \ Upcoming]
  /\ UNCHANGED <<regVars, emailSent, mailed, task, letter, lost, up, crashes>>

RestoreQueryFails ==
  /\ DbMayFail
  /\ restore.pc = "query"
  /\ restore' = [restore EXCEPT !.pc = "over", !.past = Events]
  /\ UNCHANGED <<regVars, emailSent, mailed, task, letter, lost, up, crashes>>

LateLetter(e, d) == [pc |-> "list", event |-> e, date |-> d, marks |-> FALSE]

\* Mutant: only the deadlines that are still ahead are restored.
RestoreAhead(r) ==
  task' = IF ~Past(r.date) /\ ~DeadlineReached(r.date)
          THEN [task EXCEPT ![r.event] = Sleeping(r.event, r.date)] ELSE task

Restored(r) ==
  task' = IF Past(r.date) THEN task
          ELSE IF ~DeadlineReached(r.date)
               THEN [task EXCEPT ![r.event] = Sleeping(r.event, r.date)]
          ELSE IF ~r.sent THEN [task EXCEPT ![r.event] = LateLetter(r.event, r.date)]
          ELSE task

RestoreRow(r) ==
  /\ restore.pc = "rows"
  /\ r \in restore.rows
  /\ Restored(r)
  /\ restore' = [restore EXCEPT
       !.rows = @ \ {r},
       !.past = IF Past(r.date) THEN @ \cup {r.event} ELSE @]
  /\ UNCHANGED <<regVars, emailSent, mailed, letter, lost, up, crashes>>

RestoreOver ==
  /\ restore.pc = "rows"
  /\ restore.rows = {}
  /\ restore' = [restore EXCEPT !.pc = "over"]
  /\ UNCHANGED <<regVars, emailSent, mailed, task, letter, lost, up, crashes>>

(* The process dies: goroutines, letters not yet taken and requests in      *)
(* flight go with it, and what the database committed stays.                *)
AllAsleep ==
  /\ \A w \in Workers : task[w].pc \in {"idle", "sleep"} /\ letter[w] = NoLetter
  /\ restore.pc = "over"

Crash ==
  /\ up
  /\ crashes < MaxCrashes
  /\ CrashMidSend \/ AllAsleep
  /\ up' = FALSE
  /\ crashes' = crashes + 1
  /\ task' = [w \in Workers |-> NoTask]
  /\ letter' = [w \in Workers |-> NoLetter]
  /\ restore' = Started
  /\ request' = [q \in Requests |->
       IF request[q].pc \in {"listed", "open"}
       THEN Served ELSE request[q]]
  /\ UNCHANGED <<now, account, event, reg, emailSent, mailed, lost>>

Start ==
  /\ ~up
  /\ up' = TRUE
  /\ UNCHANGED <<regVars, emailSent, mailed, task, letter, lost, restore, crashes>>

-----------------------------------------------------------------------------
WorkerStep(w) ==
  up /\ (Wake(w) \/ Compose(w) \/ ComposeFails(w) \/ MarkSent(w) \/ Deliver(w) \/ LetterLost(w))

RestoreStep ==
  /\ up
  /\ \/ RestoreQuery \/ RestoreQueryFails \/ RestoreOver
     \/ \E r \in restore.rows : RestoreRow(r)

Time == Tick /\ UNCHANGED mailVars

Next ==
  \/ Time
  \/ /\ up
     /\ \/ Administer
        \/ \E u \in Users : DeleteUser(u)
        \/ \E q \in Requests : Register(q) \/ OtherRequestStep(q)
  \/ \E w \in Workers : WorkerStep(w)
  \/ RestoreStep
  \/ Crash \/ Start

(* The clock runs, and the Go scheduler starves no goroutine: a task and    *)
(* the SMTP goroutine it started are two of them.                           *)
Fairness ==
  /\ WF_vars(Time)
  /\ \A w \in Workers :
       /\ WF_vars(Wake(w) \/ Compose(w) \/ MarkSent(w))
       /\ WF_vars(Deliver(w))

Spec == Init /\ [][Next]_vars /\ Fairness

-----------------------------------------------------------------------------
(* The participant of k is in a letter that was delivered or is on its way, *)
(* or a goroutine has yet to read the list of the event.                    *)
Covered(k) ==
  \/ \E list \in mailed[k[2]] : k[1] \in list
  \/ \E w \in Workers :
       \/ task[w].event = k[2] /\ task[w].pc \in {"sleep", "list"}
       \/ letter[w].event = k[2] /\ k[1] \in letter[w].to

(* After any number of crashes, a running process whose restore is over has *)
(* a goroutine or a letter for every registration of an upcoming event that *)
(* is not marked as sent; only events that were past at the start are not   *)
(* restored.  Registrations race the restore, and the deadline the insert.  *)
RestoredAreCovered ==
  (up /\ restore.pc = "over") =>
    \A k \in RegKeys :
      (/\ reg[k] # NoRow
       /\ Listed(k[2]) /\ ~Past(event[k[2]].date)
       /\ ~emailSent[k[2]] /\ k[2] \notin lost
       /\ k[2] \notin restore.past) => Covered(k)

(* Without crashes every registration of an event no failure touched is     *)
(* mailed, the one whose INSERT ran after the letter of its event included, *)
(* and however the event was moved or cancelled meanwhile.                  *)
EventuallyMailed ==
  \A k \in RegKeys :
    reg[k] # NoRow ~> \/ k[1] \notin account \/ k[2] \in lost
                      \/ \E list \in mailed[k[2]] : k[1] \in list

(* One letter is enough: when nothing about an event is pending or was lost *)
(* some letter carried its whole list.  Letters are composed concurrently,  *)
(* so it need not be the one that was sent last.                            *)
SomeLetterIsComplete ==
  \A e \in Events :
    (/\ Participants(e) # {} /\ e \notin lost
     /\ \A w \in Workers : task[w].event # e /\ letter[w].event # e)
    => \E list \in mailed[e] : Participants(e) \subseteq list

(* The handler says that the letter is sent ONLY after registration closed. *)
(* That is not so of a postponed event, and of no other: across crashes and *)
(* restores, a list is read while registration is open only by a goroutine  *)
(* that was given a date whose registration closes earlier than that of the *)
(* date the event has now.                                                  *)
ListedEarlyOnlyIfPostponed ==
  [][\A w \in Workers :
       (letter'[w] # letter[w] /\ letter'[w] # NoLetter) =>
         LET date == event[letter'[w].event].date IN
           DeadlineReached(date) \/ DeadlineOf[task[w].date] < DeadlineOf[date]]_vars

(* Migration 022 added email_sent_at so that a restart does not duplicate   *)
(* letters: what a restore finds unsent, at rest and due was never mailed.  *)
RestartSendsOnce ==
  [][\A r \in restore'.rows \ restore.rows :
       (/\ ~r.sent /\ DeadlineReached(r.date)
        /\ \A w \in Workers : task[w] = NoTask /\ letter[w] = NoLetter)
       => mailed[r.event] = {}]_vars

(* The outbox behind the tables and the goroutines.                         *)
Places == [e \in Events |-> Participants(e)]

Owing == {e \in Events : \E w \in Workers : task[w].event = e /\ task[w].pc \in {"sleep", "list"}}

UnderWay(e) == {letter[w].to : w \in {v \in Workers : letter[v] # NoLetter /\ letter[v].event = e}}
Carried == [e \in Events |-> mailed[e] \cup UnderWay(e)]

(* What a crash takes is promised again by RestoredAreCovered, not here.    *)
Waived == lost \cup {e \in Events : crashes > 0}

Outbox == INSTANCE MailOutbox WITH
  places <- Places, owed <- Owing, carried <- Carried, waived <- Waived

(* Goroutines implement the outbox: no place is taken without somebody who  *)
(* will read the list, no letter leaves anybody out, and none is given up   *)
(* but by a failure, however events are moved and requests, letters and the *)
(* restore race.                                                            *)
ImplementsOutbox == Outbox!Spec
=============================================================================
