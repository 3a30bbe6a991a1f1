------------------------- MODULE MailScheduleProofs -------------------------
(***************************************************************************)
(* Proofs about MailSchedule for any number of users, events, requests,    *)
(* dates and crashes: what a restart restores, that one letter has the     *)
(* whole list, and that lists are read in time.                            *)
(***************************************************************************)
EXTENDS MailSchedule, TLAPS

RestoreRecord ==
  [pc : {"query", "rows", "over"}, rows : SUBSET ScheduleRow, past : SUBSET Events]

(* TypeOK with the record of the restore spelled out.                       *)
Shapes ==
  /\ RegTypeOK
  /\ emailSent \in [Events -> BOOLEAN]
  /\ mailed \in [Events -> SUBSET (SUBSET Users)]
  /\ task \in [Workers -> TaskRow \cup {NoTask}]
  /\ letter \in [Workers -> Letter \cup {NoLetter}]
  /\ lost \subseteq Events
  /\ restore \in RestoreRecord
  /\ up \in BOOLEAN
  /\ crashes \in 0 .. MaxCrashes

(* What was registered or is about to be exists.                            *)
InFlight(q) == request[q].pc \in {"listed", "open"}
EventsExist ==
  /\ \A k \in RegKeys : reg[k] # NoRow => event[k[2]] # NoEvent
  /\ \A q \in Requests : InFlight(q) => event[request[q].event] # NoEvent

(* A worker starts once in the life of the process: a request with its row, *)
(* the restore of an event with the row of the query; so a list that is     *)
(* read never replaces a letter on its way.                                 *)
Unused(w) == task[w] = NoTask /\ letter[w] = NoLetter
StartsOnce ==
  /\ \A q \in Requests : request[q].pc \in {"idle", "listed", "open"} => Unused(q)
  /\ restore.pc = "query" => \A e \in Events : Unused(e)
  /\ \A r \in restore.rows : Unused(r.event)
  /\ \A w \in Workers : task[w].pc \in {"sleep", "list"} => letter[w] = NoLetter

(* The restore begins anew with each life of the process, goes over rows    *)
(* that were true when it asked, and ends when none is left.                *)
RestoreIsTrue ==
  /\ ~up => restore.pc = "query"
  /\ restore.pc = "query" => restore = Started
  /\ restore.pc = "over" => restore.rows = {}
  /\ \A r, s \in restore.rows : r.event = s.event => r = s
  /\ \A r \in restore.rows : r.sent => emailSent[r.event]

(* A list is read at or after the deadline its worker was given.            *)
ReadInTime == \A w \in Workers : task[w].pc = "list" => DeadlineReached(task[w].date)

(* RestoredAreCovered without its two conditions on the present: also while *)
(* the restore goes on, a registration it has not passed over is covered or *)
(* its event has yet to be restored; and an event may become past.          *)
Reading(e) == \E w \in Workers : task[w].event = e /\ task[w].pc \in {"sleep", "list"}
InLetter(k) == \E w \in Workers : letter[w].event = k[2] /\ k[1] \in letter[w].to
Outstanding(k) ==
  /\ reg[k] # NoRow /\ Listed(k[2])
  /\ ~emailSent[k[2]] /\ k[2] \notin lost /\ k[2] \notin restore.past
Restoring ==
  (up /\ restore.pc # "query") =>
    \A k \in RegKeys : Outstanding(k) => Covered(k) \/ \E r \in restore.rows : r.event = k[2]

(* Until the first crash the whole list of an event was mailed, is on its   *)
(* way, or has yet to be read.                                              *)
Pending ==
  crashes = 0 =>
    \A e \in Events : Participants(e) # {} /\ e \notin lost =>
      \/ Reading(e)
      \/ \E w \in Workers : letter[w].event = e /\ Participants(e) \subseteq letter[w].to
      \/ \E list \in mailed[e] : Participants(e) \subseteq list

IInv ==
  /\ Shapes /\ EventsExist /\ StartsOnce /\ RestoreIsTrue /\ ReadInTime
  /\ Restoring /\ Pending

-----------------------------------------------------------------------------
(* Lemmas about rows.                                                       *)

LEMMA RowsAre ==
  /\ NoTask.pc = "idle" /\ NoTask \notin TaskRow
  /\ \A t \in TaskRow : t.pc \in {"sleep", "list", "mark"} /\ t.event \in Events /\ t.date \in Dates
                        /\ t.marks \in BOOLEAN
  /\ NoLetter \notin Letter /\ NoLetter.to = {}
  /\ \A l \in Letter : l.event \in Events /\ l.to \in SUBSET Users /\ l.to # {}
  /\ \A r \in ScheduleRow : r.event \in Events /\ r.date \in Dates /\ r.sent \in BOOLEAN
  /\ NoEvent \notin EventRow
  /\ \A v \in EventRow : v.date \in Dates /\ v.date \in Nat /\ v.status \in {"published", "cancelled"}
  /\ NoEvent.status = "none" /\ NoRow \notin RegRow
  /\ Idle \notin RequestRow /\ Idle.pc = "idle" /\ Served.pc = "done"
  BY ConstantsAssumption
     DEF NoTask, TaskRow, NoLetter, Letter, ScheduleRow, NoEvent, EventRow, NoRow, RegRow, Idle, Served,
         RequestRow

LEMMA TaskIs ==
  ASSUME Shapes, NEW w \in Workers
  PROVE  /\ task[w] = NoTask \/ task[w] \in TaskRow
         /\ task[w].pc \in {"idle", "sleep", "list", "mark"}
         /\ task[w].pc # "idle" => task[w] \in TaskRow /\ task[w].event \in Events /\ task[w].date \in Dates
         /\ letter[w] = NoLetter \/ letter[w] \in Letter
<1>1. task[w] \in TaskRow \cup {NoTask} /\ letter[w] \in Letter \cup {NoLetter}
  BY DEF Shapes
<1> QED
  BY <1>1, RowsAre

LEMMA RequestIs ==
  ASSUME Shapes, NEW q \in Requests
  PROVE  /\ request[q].pc \in {"idle", "listed", "open", "done"}
         /\ InFlight(q) =>
              /\ request[q] \in RequestRow
              /\ request[q].user \in Users /\ request[q].event \in Events /\ KeyOf(q) \in RegKeys
              /\ request[q].copy \in EventRow
  BY DEF Shapes, RegTypeOK, Idle, Served, RequestRow, KeyOf, RegKeys, InFlight

LEMMA WorkersAre ==
  /\ Requests \subseteq Workers /\ Events \subseteq Workers
  /\ \A q \in Requests, e \in Events : q # e
  BY MailAssumption DEF Workers

LEMMA RestoreIs ==
  ASSUME Shapes
  PROVE  /\ restore.pc \in {"query", "rows", "over"}
         /\ restore.rows \subseteq ScheduleRow /\ restore.past \subseteq Events
         /\ \A r \in restore.rows : r \in ScheduleRow /\ r.event \in Events /\ r.date \in Dates
  BY RowsAre DEF Shapes, RestoreRecord

LEMMA NewTask ==
  ASSUME NEW e \in Events, NEW d \in Dates
  PROVE  /\ Sleeping(e, d) \in TaskRow /\ Sleeping(e, d).event = e /\ Sleeping(e, d).date = d
         /\ Sleeping(e, d).pc = "sleep"
         /\ LateLetter(e, d) \in TaskRow /\ LateLetter(e, d).event = e /\ LateLetter(e, d).date = d
         /\ LateLetter(e, d).pc = "list"
  BY DEF Sleeping, LateLetter, TaskRow

(* A row of the table keeps its status or is cancelled.                     *)
EventStep(v, x) ==
  \/ x = v
  \/ v = NoEvent /\ x \in EventRow
  \/ v \in EventRow /\ x \in EventRow /\ x.status \in {v.status, "cancelled"}

LEMMA EventRows ==
  ASSUME Shapes, [Next]_vars
  PROVE  /\ event' \in [Events -> EventRow \cup {NoEvent}]
         /\ \A e \in Events : EventStep(event[e], event'[e])
<1>1. event \in [Events -> EventRow \cup {NoEvent}]
  BY DEF Shapes, RegTypeOK
<1>2. event' = event \/ Administer
  BY DEF Next, vars, Time, Tick, DeleteUser, Register, OtherRequestStep, InsertCreated, InsertConflict, Lookup,
     CheckDeadline, WorkerStep, Wake, Compose, ComposeFails, MarkSent, Deliver, LetterLost, regVars,
     RestoreStep, RestoreQuery, RestoreQueryFails, RestoreOver, RestoreRow, Crash, Start
<1>3. ASSUME NEW e \in Events, NEW v, event' = [event EXCEPT ![e] = v], EventStep(event[e], v),
             v \in EventRow
      PROVE  /\ event' \in [Events -> EventRow \cup {NoEvent}]
             /\ \A d \in Events : EventStep(event[d], event'[d])
  BY <1>1, <1>3 DEF EventStep
<1>4. ASSUME NEW e \in Events, NEW d \in Dates, NEW m \in Modes, CreateEvent(e, d, m)
      PROVE  \E v \in EventRow : event' = [event EXCEPT ![e] = v] /\ EventStep(event[e], v)
  <2> DEFINE v == [status |-> "published", date |-> d, mode |-> m]
  <2>1. v \in EventRow
    BY DEF EventRow
  <2>2. event' = [event EXCEPT ![e] = v] /\ event[e] = NoEvent
    BY <1>4 DEF CreateEvent
  <2> HIDE DEF v
  <2> QED
    BY <2>1, <2>2 DEF EventStep
<1>5. ASSUME NEW e \in Events, NEW d \in Dates, NEW m \in Modes, UpdateEvent(e, d, m)
      PROVE  \E v \in EventRow : event' = [event EXCEPT ![e] = v] /\ EventStep(event[e], v)
  <2> DEFINE v == [event[e] EXCEPT !.date = d, !.mode = m]
  <2>1. event[e] \in EventRow
    BY <1>1, <1>5 DEF UpdateEvent
  <2>2. v \in EventRow /\ v.status = event[e].status
    BY <2>1 DEF EventRow
  <2>3. event' = [event EXCEPT ![e] = v]
    BY <1>1, <1>5, <2>1 DEF UpdateEvent, EventRow
  <2> HIDE DEF v
  <2> QED
    BY <2>1, <2>2, <2>3 DEF EventStep
<1>6. ASSUME NEW e \in Events, CancelEvent(e)
      PROVE  \E v \in EventRow : event' = [event EXCEPT ![e] = v] /\ EventStep(event[e], v)
  <2> DEFINE v == [event[e] EXCEPT !.status = "cancelled"]
  <2>1. event[e] \in EventRow
    BY <1>1, <1>6 DEF CancelEvent
  <2>2. v \in EventRow /\ v.status = "cancelled"
    BY <2>1 DEF EventRow
  <2>3. event' = [event EXCEPT ![e] = v]
    BY <1>1, <1>6, <2>1 DEF CancelEvent, EventRow
  <2> HIDE DEF v
  <2> QED
    BY <2>1, <2>2, <2>3 DEF EventStep
<1>7. CASE event' = event
  BY <1>1, <1>7 DEF EventStep
<1>8. CASE Administer
  BY <1>3, <1>4, <1>5, <1>6, <1>8 DEF Administer
<1> QED
  BY <1>2, <1>7, <1>8

(* A request is looked up, goes on with its copy, is answered, or dies.     *)
Moved(q, x) ==
  /\ InFlight(q)
  /\ \/ x = Served
     \/ /\ x \in RequestRow /\ x.pc = "open"
        /\ x.user = request[q].user /\ x.event = request[q].event /\ x.copy = request[q].copy
LookedUp(q, x) ==
  /\ request[q].pc = "idle"
  /\ \/ x = Served
     \/ x \in RequestRow /\ x.pc = "listed" /\ event[x.event] # NoEvent

LEMMA RequestRows ==
  ASSUME Shapes, [Next]_vars
  PROVE  /\ request' \in [Requests -> RequestRow \cup {Idle, Served}]
         /\ \A q \in Requests :
              request'[q] = request[q] \/ Moved(q, request'[q]) \/ LookedUp(q, request'[q])
<1>1. request \in [Requests -> RequestRow \cup {Idle, Served}]
  BY DEF Shapes, RegTypeOK
<1>2. \/ request' = request \/ Crash
      \/ \E q \in Requests : InsertCreated(q) \/ InsertConflict(q) \/ CheckDeadline(q)
      \/ \E q \in Requests, u \in Users, e \in Events, w \in Wants : Lookup(q, u, e, w)
  BY DEF Next, vars, Time, Tick, Administer, CreateEvent, UpdateEvent, CancelEvent, DeleteUser, Register,
     OtherRequestStep, WorkerStep, Wake, Compose, ComposeFails, MarkSent, Deliver, LetterLost, regVars,
     RestoreStep, RestoreQuery, RestoreQueryFails, RestoreOver, RestoreRow, Start
<1>3. ASSUME NEW q \in Requests, NEW x, request' = [request EXCEPT ![q] = x],
             Moved(q, x) \/ LookedUp(q, x)
      PROVE  /\ request' \in [Requests -> RequestRow \cup {Idle, Served}]
             /\ \A p \in Requests :
                  request'[p] = request[p] \/ Moved(p, request'[p]) \/ LookedUp(p, request'[p])
  <2>1. x \in RequestRow \cup {Served}
    BY <1>3 DEF Moved, LookedUp
  <2>2. request'[q] = x /\ \A p \in Requests \ {q} : request'[p] = request[p]
    BY <1>1, <1>3
  <2> QED
    BY <1>1, <1>3, <2>1, <2>2
<1>4. ASSUME NEW q \in Requests, InsertCreated(q) \/ InsertConflict(q)
      PROVE  \E x : request' = [request EXCEPT ![q] = x] /\ Moved(q, x)
  BY <1>4 DEF InsertCreated, InsertConflict, Answer, Moved, InFlight
<1>5. ASSUME NEW q \in Requests, CheckDeadline(q)
      PROVE  \E x : request' = [request EXCEPT ![q] = x] /\ Moved(q, x)
  <2>1. request[q].pc = "listed" /\ request[q] \in RequestRow /\ InFlight(q)
    BY <1>5, RequestIs DEF CheckDeadline, InFlight
  <2>2. \/ request' = [request EXCEPT ![q] = Served]
        \/ request' = [request EXCEPT ![q] = [request[q] EXCEPT !.pc = "open"]]
    BY <1>1, <1>5, <2>1 DEF CheckDeadline, RequestRow
  <2>3. Moved(q, [request[q] EXCEPT !.pc = "open"]) /\ Moved(q, Served)
    BY <2>1 DEF Moved, RequestRow
  <2> QED
    BY <2>2, <2>3
<1>6. ASSUME NEW q \in Requests, NEW u \in Users, NEW e \in Events, NEW w \in Wants, Lookup(q, u, e, w)
      PROVE  \E x : request' = [request EXCEPT ![q] = x] /\ LookedUp(q, x)
  <2> DEFINE x == [pc |-> "listed", user |-> u, event |-> e, wants |-> w, copy |-> event[e]]
  <2>1. request[q].pc = "idle"
    BY <1>6 DEF Lookup
  <2>2. CASE Listed(e)
    <3>1. event[e] \in EventRow /\ event[e] # NoEvent
      BY <2>2, RowsAre DEF Listed, Shapes, RegTypeOK
    <3>2. LookedUp(q, x)
      BY <2>1, <3>1 DEF LookedUp, RequestRow
    <3> QED
      BY <1>6, <2>2, <3>2 DEF Lookup
  <2>3. CASE ~Listed(e)
    BY <1>6, <2>1, <2>3 DEF Lookup, Answer, LookedUp
  <2> QED
    BY <2>2, <2>3
<1>7. CASE Crash
  <2>1. /\ request' = [q \in Requests |-> request'[q]]
        /\ \A q \in Requests : request'[q] = IF InFlight(q) THEN Served ELSE request[q]
    BY <1>7 DEF Crash, InFlight
  <2>2. \A q \in Requests : request'[q] = request[q] \/ Moved(q, request'[q])
    BY <2>1 DEF Moved
  <2>3. \A q \in Requests : request'[q] \in RequestRow \cup {Idle, Served}
    BY <1>1, <2>1
  <2> QED
    BY <2>1, <2>2, <2>3
<1>8. CASE request' = request
  BY <1>1, <1>8
<1> QED
  BY <1>2, <1>3, <1>4, <1>5, <1>6, <1>7, <1>8

(* A row goes with the account of its user, and is added by an INSERT that  *)
(* was heard, or else its event counts as lost.                             *)
LEMMA RegRows ==
  ASSUME Shapes, [Next]_vars
  PROVE  /\ reg' \in [RegKeys -> RegRow \cup {NoRow}]
         /\ \A k \in RegKeys :
              \/ reg'[k] \in {reg[k], NoRow}
              \/ /\ reg[k] = NoRow /\ reg'[k] # NoRow
                 /\ \E q \in Requests :
                      /\ request[q].pc = "open" /\ KeyOf(q) = k
                      /\ Register(q) \/ lost' = lost \cup {request[q].event}
<1>1. reg \in [RegKeys -> RegRow \cup {NoRow}]
  BY DEF Shapes, RegTypeOK
<1>2. \/ reg' = reg
      \/ \E u \in Users : DeleteUser(u)
      \/ \E q \in Requests : InsertCreated(q) /\ Register(q)
      \/ \E q \in Requests :
           InsertConflict(q) /\ (reg' = reg \/ lost' = lost \cup {request[q].event})
  BY DEF Next, vars, Time, Tick, Administer, CreateEvent, UpdateEvent, CancelEvent, Register,
     OtherRequestStep, Lookup, CheckDeadline, WorkerStep, Wake, Compose, ComposeFails, MarkSent,
     Deliver, LetterLost, regVars,
     RestoreStep, RestoreQuery, RestoreQueryFails, RestoreOver, RestoreRow, Crash, Start
<1>3. ASSUME NEW q \in Requests, InsertCreated(q) \/ InsertConflict(q)
      PROVE  /\ request[q].pc = "open" /\ KeyOf(q) \in RegKeys
             /\ NewRow(q) \in RegRow /\ NewRow(q) # NoRow
             /\ reg' = reg \/ (reg[KeyOf(q)] = NoRow /\ reg' = [reg EXCEPT ![KeyOf(q)] = NewRow(q)])
  <2>1. request[q].pc = "open"
    BY <1>3 DEF InsertCreated, InsertConflict
  <2>2. KeyOf(q) \in RegKeys
    BY <2>1, RequestIs DEF InFlight
  <2>3. NewRow(q) \in RegRow
    BY DEF NewRow, RegRow, StoredType, PTypes
  <2>4. reg' = reg \/ (reg[KeyOf(q)] = NoRow /\ reg' = [reg EXCEPT ![KeyOf(q)] = NewRow(q)])
    BY <1>3 DEF InsertCreated, InsertConflict, Insertable
  <2> QED
    BY <2>1, <2>2, <2>3, <2>4, RowsAre
<1>4. CASE reg' = reg
  BY <1>1, <1>4
<1>5. ASSUME NEW q \in Requests, InsertCreated(q) \/ InsertConflict(q),
             Register(q) \/ lost' = lost \cup {request[q].event}, reg' # reg
      PROVE  /\ reg' \in [RegKeys -> RegRow \cup {NoRow}]
             /\ \A k \in RegKeys :
                  \/ reg'[k] = reg[k]
                  \/ /\ reg[k] = NoRow /\ reg'[k] # NoRow
                     /\ KeyOf(q) = k
  BY <1>1, <1>3, <1>5
<1>6. ASSUME NEW u \in Users, DeleteUser(u)
      PROVE  /\ reg' \in [RegKeys -> RegRow \cup {NoRow}]
             /\ \A k \in RegKeys : reg'[k] \in {reg[k], NoRow}
  BY <1>1, <1>6 DEF DeleteUser
<1> QED
  BY <1>2, <1>3, <1>4, <1>5, <1>6

LEMMA ClockRuns ==
  ASSUME Shapes, [Next]_vars
  PROVE  now \in Nat /\ now' \in Nat /\ now' >= now /\ account' \subseteq Users
<1>1. now \in Nat /\ account \subseteq Users
  BY DEF Shapes, RegTypeOK
<1>2. account' = account \/ \E u \in Users : account' = account \ {u}
  BY DEF Next, vars, Time, Tick, Administer, CreateEvent, UpdateEvent, CancelEvent, DeleteUser, Register,
     OtherRequestStep, InsertCreated, InsertConflict, Lookup, CheckDeadline, WorkerStep, Wake, Compose,
     ComposeFails, MarkSent, Deliver, LetterLost, regVars,
     RestoreStep, RestoreQuery, RestoreQueryFails, RestoreOver, RestoreRow, Crash, Start
<1>3. now' = now \/ now' = now + 1
  BY DEF Next, vars, Time, Tick, Administer, CreateEvent, UpdateEvent, CancelEvent, DeleteUser, Register,
     OtherRequestStep, InsertCreated, InsertConflict, Lookup, CheckDeadline, WorkerStep, Wake, Compose,
     ComposeFails, MarkSent, Deliver, LetterLost, regVars,
     RestoreStep, RestoreQuery, RestoreQueryFails, RestoreOver, RestoreRow, Crash, Start
<1> QED
  BY <1>1, <1>2, <1>3

-----------------------------------------------------------------------------
(* Which steps change what.                                                 *)

LEMMA TaskChanges ==
  ASSUME [Next]_vars
  PROVE  \/ task' = task \/ Crash
         \/ \E q \in Requests : Register(q)
         \/ \E w \in Workers : Wake(w) \/ Compose(w) \/ ComposeFails(w) \/ MarkSent(w)
         \/ \E r \in restore.rows : RestoreRow(r)
  BY DEF Next, vars, Time, mailVars, Administer, DeleteUser, OtherRequestStep, WorkerStep, Deliver, LetterLost,
     RestoreStep, RestoreQuery, RestoreQueryFails, RestoreOver, Start

LEMMA LetterChanges ==
  ASSUME [Next]_vars
  PROVE  \/ letter' = letter \/ Crash
         \/ \E w \in Workers : Compose(w) \/ Deliver(w) \/ LetterLost(w)
  BY DEF Next, vars, Time, mailVars, Administer, DeleteUser, Register, OtherRequestStep, WorkerStep, Wake,
     ComposeFails, MarkSent, RestoreStep, RestoreQuery, RestoreQueryFails, RestoreOver, RestoreRow, Start

LEMMA RestoreChanges ==
  ASSUME [Next]_vars
  PROVE  \/ restore' = restore \/ Crash \/ RestoreQuery \/ RestoreQueryFails \/ RestoreOver
         \/ \E r \in restore.rows : RestoreRow(r)
  BY DEF Next, vars, Time, mailVars, Administer, DeleteUser, Register, OtherRequestStep, WorkerStep, Wake, Compose,
     ComposeFails, MarkSent, Deliver, LetterLost, RestoreStep, Start

LEMMA LifeChanges ==
  ASSUME [Next]_vars
  PROVE  UNCHANGED <<up, crashes>> \/ Crash \/ Start
  BY DEF Next, vars, Time, mailVars, Administer, DeleteUser, Register, OtherRequestStep, WorkerStep, Wake, Compose,
     ComposeFails, MarkSent, Deliver, LetterLost, RestoreStep,
     RestoreQuery, RestoreQueryFails, RestoreOver, RestoreRow

LEMMA MailedChanges ==
  ASSUME [Next]_vars
  PROVE  /\ mailed' = mailed \/ \E w \in Workers : Deliver(w)
         /\ emailSent' = emailSent \/ \E w \in Workers : MarkSent(w)
<1>1. mailed' = mailed \/ \E w \in Workers : Deliver(w)
  BY DEF Next, vars, Time, mailVars, Administer, DeleteUser, Register, OtherRequestStep, WorkerStep, Wake, Compose,
     ComposeFails, MarkSent, LetterLost, RestoreStep,
     RestoreQuery, RestoreQueryFails, RestoreOver, RestoreRow, Crash, Start
<1>2. emailSent' = emailSent \/ \E w \in Workers : MarkSent(w)
  BY DEF Next, vars, Time, mailVars, Administer, DeleteUser, Register, OtherRequestStep, WorkerStep, Wake, Compose,
     ComposeFails, Deliver, LetterLost, RestoreStep,
     RestoreQuery, RestoreQueryFails, RestoreOver, RestoreRow, Crash, Start
<1> QED
  BY <1>1, <1>2

LEMMA LostChanges ==
  ASSUME [Next]_vars
  PROVE  \/ lost' = lost
         \/ \E q \in Requests : request[q].pc = "open" /\ lost' = lost \cup {request[q].event}
         \/ \E w \in Workers : ComposeFails(w) \/ LetterLost(w)
  BY DEF Next, vars, Time, mailVars, Administer, DeleteUser, Register, OtherRequestStep, InsertConflict, WorkerStep,
     Wake, Compose, MarkSent, Deliver, RestoreStep,
     RestoreQuery, RestoreQueryFails, RestoreOver, RestoreRow, Crash, Start

-----------------------------------------------------------------------------
(* What each of these steps does.                                           *)

LEMMA RegisterIs ==
  ASSUME Shapes, EventsExist, NEW q \in Requests, Register(q)
  PROVE  /\ request[q].pc = "open" /\ request[q].event \in Events /\ KeyOf(q) \in RegKeys
         /\ request[q].copy.date \in Dates
         /\ task' \in [Workers -> TaskRow \cup {NoTask}]
         /\ task'[q] \in TaskRow /\ task'[q].pc = "sleep"
         /\ task'[q].event = request[q].event /\ task'[q].date = request[q].copy.date
         /\ \A w \in Workers \ {q} : task'[w] = task[w]
         /\ request'[q].pc = "done" /\ \A p \in Requests \ {q} : request'[p] = request[p]
<1>1. request[q].pc = "open"
  BY DEF Register, InsertCreated
<1>2. /\ request[q].event \in Events /\ KeyOf(q) \in RegKeys /\ request[q].copy \in EventRow
      /\ request[q] \in RequestRow
  BY <1>1, RequestIs DEF InFlight
<1>3. request[q].copy.date \in Dates
  BY <1>2, RowsAre
<1>4. task' = [task EXCEPT ![q] = Sleeping(request[q].event, request[q].copy.date)]
  BY DEF Register, Spawn
<1>5. request' = [request EXCEPT ![q] = Served]
  BY DEF Register, InsertCreated, Answer
<1>6. request'[q].pc = "done" /\ \A p \in Requests \ {q} : request'[p] = request[p]
  BY <1>5, RowsAre DEF Shapes, RegTypeOK
<1>7. task \in [Workers -> TaskRow \cup {NoTask}] /\ q \in Workers
  BY WorkersAre DEF Shapes
<1> QED
  BY <1>1, <1>2, <1>3, <1>4, <1>6, <1>7, NewTask

LEMMA WakeIs ==
  ASSUME Shapes, NEW w \in Workers, Wake(w)
  PROVE  /\ task[w].pc = "sleep" /\ DeadlineReached(task[w].date)
         /\ task' \in [Workers -> TaskRow \cup {NoTask}]
         /\ task'[w] \in TaskRow /\ task'[w].pc = "list"
         /\ task'[w].event = task[w].event /\ task'[w].date = task[w].date
         /\ \A v \in Workers \ {w} : task'[v] = task[v]
<1>1. task[w].pc = "sleep" /\ DeadlineReached(task[w].date) /\ task' = [task EXCEPT ![w].pc = "list"]
  BY DEF Wake
<1>2. task[w] \in TaskRow
  BY <1>1, TaskIs
<1>3. task' = [task EXCEPT ![w] = [task[w] EXCEPT !.pc = "list"]]
  BY <1>1, <1>2 DEF Shapes, TaskRow
<1> DEFINE t == [task[w] EXCEPT !.pc = "list"]
<1>4. t \in TaskRow /\ t.pc = "list" /\ t.event = task[w].event /\ t.date = task[w].date
  BY <1>2 DEF TaskRow
<1> HIDE DEF t
<1> QED
  BY <1>1, <1>3, <1>4 DEF Shapes, t

LEMMA AfterListIs ==
  ASSUME Shapes, NEW w \in Workers, task[w].pc = "list", AfterList(w)
  PROVE  /\ task' \in [Workers -> TaskRow \cup {NoTask}]
         /\ \/ task'[w] = NoTask
            \/ /\ task'[w] \in TaskRow /\ task'[w].pc = "mark"
               /\ task'[w].event = task[w].event /\ task'[w].date = task[w].date
         /\ \A v \in Workers \ {w} : task'[v] = task[v]
<1>1. task[w] \in TaskRow
  BY TaskIs
<1> DEFINE t == [task[w] EXCEPT !.pc = "mark"]
<1>2. task' = [task EXCEPT ![w] = t] \/ task' = [task EXCEPT ![w] = NoTask]
  BY <1>1 DEF AfterList, Shapes, TaskRow
<1>3. t \in TaskRow /\ t.pc = "mark" /\ t.event = task[w].event /\ t.date = task[w].date
  BY <1>1 DEF TaskRow
<1> HIDE DEF t
<1> QED
  BY <1>2, <1>3 DEF Shapes

LEMMA ComposeIs ==
  ASSUME Shapes, NEW w \in Workers, Compose(w)
  PROVE  /\ task[w].pc = "list" /\ task[w].event \in Events /\ AfterList(w)
         /\ letter' \in [Workers -> Letter \cup {NoLetter}]
         /\ Participants(task[w].event) = {} => letter' = letter
         /\ Participants(task[w].event) # {} =>
              /\ letter'[w] \in Letter /\ letter'[w].event = task[w].event
              /\ letter'[w].to = Participants(task[w].event)
         /\ \A v \in Workers \ {w} : letter'[v] = letter[v]
<1> DEFINE e == task[w].event
           l == [event |-> e, to |-> Participants(e)]
<1>1. task[w].pc = "list" /\ AfterList(w)
  BY DEF Compose
<1>2. e \in Events
  BY <1>1, TaskIs
<1>3. letter' = IF Participants(e) = {} THEN letter ELSE [letter EXCEPT ![w] = l]
  BY DEF Compose
<1>4. Participants(e) # {} => l \in Letter /\ l.event = e /\ l.to = Participants(e)
  BY <1>2 DEF Letter, Participants
<1> HIDE DEF l
<1> QED
  BY <1>1, <1>2, <1>3, <1>4 DEF Shapes

LEMMA MarkSentIs ==
  ASSUME Shapes, NEW w \in Workers, MarkSent(w)
  PROVE  /\ task[w].pc = "mark" /\ task[w].event \in Events
         /\ task' \in [Workers -> TaskRow \cup {NoTask}]
         /\ task'[w] = NoTask /\ \A v \in Workers \ {w} : task'[v] = task[v]
         /\ emailSent' \in [Events -> BOOLEAN]
         /\ \A e \in Events : emailSent[e] => emailSent'[e]
<1>1. task[w].pc = "mark" /\ task' = [task EXCEPT ![w] = NoTask]
  BY DEF MarkSent
<1>2. task[w].event \in Events
  BY <1>1, TaskIs
<1>3. emailSent' = [emailSent EXCEPT ![task[w].event] = TRUE] \/ emailSent' = emailSent
  BY DEF MarkSent
<1> QED
  BY <1>1, <1>2, <1>3 DEF Shapes

(* A letter is delivered or lost.                                           *)
LEMMA SmtpIs ==
  ASSUME Shapes, NEW w \in Workers, Deliver(w) \/ LetterLost(w)
  PROVE  /\ letter[w] \in Letter
         /\ letter' \in [Workers -> Letter \cup {NoLetter}]
         /\ letter'[w] = NoLetter /\ \A v \in Workers \ {w} : letter'[v] = letter[v]
         /\ task' = task
  BY TaskIs DEF Deliver, LetterLost, Shapes

LEMMA DeliverIs ==
  ASSUME Shapes, NEW w \in Workers, Deliver(w)
  PROVE  /\ mailed' \in [Events -> SUBSET (SUBSET Users)]
         /\ letter[w].to \in mailed'[letter[w].event]
         /\ \A e \in Events : mailed[e] \subseteq mailed'[e]
<1>1. letter[w] \in Letter
  BY SmtpIs
<1>2. letter[w].event \in Events /\ letter[w].to \in SUBSET Users
  BY <1>1, RowsAre
<1>3. mailed' = [mailed EXCEPT ![letter[w].event] = mailed[letter[w].event] \cup {letter[w].to}]
  BY DEF Deliver
<1> QED
  BY <1>2, <1>3 DEF Shapes

LEMMA CrashIs ==
  ASSUME Shapes, Crash
  PROVE  /\ \A w \in Workers : task'[w] = NoTask /\ letter'[w] = NoLetter
         /\ task' \in [Workers -> TaskRow \cup {NoTask}]
         /\ letter' \in [Workers -> Letter \cup {NoLetter}]
         /\ restore' = Started /\ up' = FALSE /\ crashes' = crashes + 1
         /\ crashes \in Nat /\ crashes' \in 0 .. MaxCrashes
<1>1. crashes \in 0 .. MaxCrashes /\ crashes < MaxCrashes /\ crashes' = crashes + 1
  BY DEF Crash, Shapes
<1>2. crashes \in Nat /\ crashes' \in 0 .. MaxCrashes
  BY <1>1, MailAssumption
<1> QED
  BY <1>1, <1>2 DEF Crash

LEMMA RestoreRowIs ==
  ASSUME Shapes, NEW r \in restore.rows, RestoreRow(r)
  PROVE  /\ r.event \in Events /\ r.date \in Dates /\ restore.pc = "rows"
         /\ restore' \in RestoreRecord /\ restore'.pc = "rows" /\ restore'.rows = restore.rows \ {r}
         /\ restore.past \subseteq restore'.past
         /\ task' \in [Workers -> TaskRow \cup {NoTask}]
         /\ \A v \in Workers \ {r.event} : task'[v] = task[v]
         /\ \/ task' = task /\ r.event \in restore'.past
            \/ task' = task /\ r.sent
            \/ /\ task'[r.event] \in TaskRow /\ task'[r.event].pc \in {"sleep", "list"}
               /\ task'[r.event].event = r.event /\ task'[r.event].date = r.date
               /\ task'[r.event].pc = "list" => DeadlineReached(r.date)
<1>1. /\ r.event \in Events /\ r.date \in Dates /\ restore.pc = "rows"
      /\ restore \in RestoreRecord
  BY RestoreIs DEF RestoreRow, Shapes
<1>2. r.event \in Workers /\ task \in [Workers -> TaskRow \cup {NoTask}]
  BY <1>1, WorkersAre DEF Shapes
<1> DEFINE next == [restore EXCEPT !.rows = restore.rows \ {r},
                      !.past = IF Past(r.date) THEN restore.past \cup {r.event} ELSE restore.past]
<1>3. restore' = next
  BY <1>1 DEF RestoreRow, RestoreRecord
<1>4. /\ next \in RestoreRecord /\ next.pc = "rows" /\ next.rows = restore.rows \ {r}
      /\ next.past = IF Past(r.date) THEN restore.past \cup {r.event} ELSE restore.past
  BY <1>1 DEF RestoreRecord
<1> HIDE DEF next
<1>5. \/ Past(r.date) /\ task' = task
      \/ task' = [task EXCEPT ![r.event] = Sleeping(r.event, r.date)]
      \/ /\ DeadlineReached(r.date)
         /\ task' = [task EXCEPT ![r.event] = LateLetter(r.event, r.date)]
      \/ r.sent /\ task' = task
  BY DEF RestoreRow, Restored
<1> QED
  BY <1>1, <1>2, <1>3, <1>4, <1>5, NewTask

LEMMA RestoreQueryIs ==
  ASSUME Shapes, RestoreQuery
  PROVE  /\ restore.pc = "query" /\ restore'.pc = "rows" /\ restore' \in RestoreRecord
         /\ \A r, s \in restore'.rows : r.event = s.event => r = s
         /\ \A r \in restore'.rows : r.event \in Events /\ (r.sent => emailSent[r.event])
         /\ \A e \in Events : Listed(e) =>
              e \in restore'.past \/ \E r \in restore'.rows : r.event = e
<1> DEFINE Of(e) == [event |-> e, date |-> event[e].date, sent |-> emailSent[e]]
           past == {e \in Events : Listed(e)} \ Upcoming
           rows == {Of(e) : e \in Upcoming}
<1>1. restore.pc = "query" /\ restore' = [pc |-> "rows", rows |-> rows, past |-> past]
  BY DEF RestoreQuery
<1>2. ASSUME NEW e \in Upcoming
      PROVE  /\ Of(e) \in ScheduleRow /\ Of(e).event = e /\ (Of(e).sent <=> emailSent[e])
             /\ e \in Events
  <2>1. e \in Events /\ Listed(e)
    BY DEF Upcoming
  <2>2. event[e] \in EventRow
    BY <2>1, RowsAre DEF Listed, Shapes, RegTypeOK
  <2>3. event[e].date \in Dates /\ emailSent[e] \in BOOLEAN
    BY <2>1, <2>2, RowsAre DEF Shapes
  <2> QED
    BY <2>1, <2>3 DEF ScheduleRow
<1>3. rows \subseteq ScheduleRow /\ past \subseteq Events
  BY <1>2 DEF Upcoming
<1>4. \A e \in Events : Listed(e) => e \in past \/ (e \in Upcoming /\ Of(e) \in rows)
  BY DEF Upcoming
<1>5. \A r \in rows : \E e \in Upcoming : r = Of(e)
  OBVIOUS
<1> HIDE DEF Of, past, rows
<1>6. \A r, s \in rows : r.event = s.event => r = s
  BY <1>2, <1>5
<1>7. \A r \in rows : r.event \in Events /\ (r.sent => emailSent[r.event])
  BY <1>2, <1>5
<1>8. \A e \in Events : Listed(e) => e \in past \/ \E r \in rows : r.event = e
  BY <1>2, <1>4
<1>9. restore'.pc = "rows" /\ restore'.rows = rows /\ restore'.past = past
  BY <1>1
<1>10. restore' \in RestoreRecord
  BY <1>1, <1>3 DEF RestoreRecord
<1> QED
  BY <1>1, <1>6, <1>7, <1>8, <1>9, <1>10

LEMMA RestoreEnds ==
  ASSUME Shapes, RestoreQueryFails \/ RestoreOver
  PROVE  /\ restore' \in RestoreRecord /\ restore'.pc = "over" /\ restore'.rows = restore.rows
         /\ RestoreOver => restore.pc = "rows" /\ restore.rows = {} /\ restore'.past = restore.past
         /\ RestoreQueryFails => restore.pc = "query" /\ restore'.past = Events
<1>1. restore \in RestoreRecord
  BY DEF Shapes
<1>2. CASE RestoreQueryFails
  BY <1>1, <1>2 DEF RestoreQueryFails, RestoreRecord, RestoreOver
<1>3. CASE RestoreOver
  <2>1. ~RestoreQueryFails
    BY <1>3 DEF RestoreOver, RestoreQueryFails
  <2> QED
    BY <1>1, <1>3, <2>1 DEF RestoreOver, RestoreRecord
<1> QED
  BY <1>2, <1>3

LEMMA StartedIs ==
  Started \in RestoreRecord /\ Started.pc = "query" /\ Started.rows = {}
  BY DEF Started, RestoreRecord

-----------------------------------------------------------------------------
(* Each part of the invariant is kept by every step.                        *)

LEMMA TasksShape ==
  ASSUME Shapes, EventsExist, [Next]_vars
  PROVE  task' \in [Workers -> TaskRow \cup {NoTask}]
<1>1. CASE task' = task
  BY <1>1 DEF Shapes
<1>2. ASSUME NEW w \in Workers, Compose(w) \/ ComposeFails(w)
      PROVE  task' \in [Workers -> TaskRow \cup {NoTask}]
  <2>1. task[w].pc = "list" /\ AfterList(w)
    BY <1>2 DEF Compose, ComposeFails
  <2> QED
    BY <2>1, AfterListIs
<1> QED
  BY <1>1, <1>2, CrashIs, RegisterIs, WakeIs, MarkSentIs, RestoreRowIs, TaskChanges

LEMMA LettersShape ==
  ASSUME Shapes, [Next]_vars
  PROVE  letter' \in [Workers -> Letter \cup {NoLetter}]
<1>1. CASE letter' = letter
  BY <1>1 DEF Shapes
<1> QED
  BY <1>1, CrashIs, ComposeIs, SmtpIs, LetterChanges

LEMMA RestoreShape ==
  ASSUME Shapes, [Next]_vars
  PROVE  restore' \in RestoreRecord
<1>1. CASE restore' = restore
  BY <1>1 DEF Shapes
<1> QED
  BY <1>1, CrashIs, StartedIs, RestoreQueryIs, RestoreEnds, RestoreRowIs, RestoreChanges

LEMMA HistoryShape ==
  ASSUME Shapes, [Next]_vars
  PROVE  /\ lost' \subseteq Events /\ lost \subseteq lost'
         /\ mailed' \in [Events -> SUBSET (SUBSET Users)]
         /\ \A e \in Events : mailed[e] \subseteq mailed'[e]
         /\ emailSent' \in [Events -> BOOLEAN]
         /\ \A e \in Events : emailSent[e] => emailSent'[e]
         /\ up' \in BOOLEAN /\ crashes' \in 0 .. MaxCrashes
<1>1. /\ lost \subseteq Events /\ mailed \in [Events -> SUBSET (SUBSET Users)]
      /\ emailSent \in [Events -> BOOLEAN] /\ up \in BOOLEAN /\ crashes \in 0 .. MaxCrashes
  BY DEF Shapes
<1>2. lost' \subseteq Events /\ lost \subseteq lost'
  <2>1. ASSUME NEW q \in Requests, request[q].pc = "open" PROVE request[q].event \in Events
    BY <2>1, RequestIs DEF InFlight
  <2>2. ASSUME NEW w \in Workers, ComposeFails(w)
        PROVE  \E e \in Events : lost' = lost \cup {e}
    <3>1. task[w].event \in Events
      BY <2>2, TaskIs DEF ComposeFails
    <3> QED
      BY <2>2, <3>1 DEF ComposeFails
  <2>3. ASSUME NEW w \in Workers, LetterLost(w)
        PROVE  \E e \in Events : lost' = lost \cup {e}
    <3>1. letter[w].event \in Events
      BY <2>3, SmtpIs, RowsAre
    <3> QED
      BY <2>3, <3>1 DEF LetterLost
  <2> QED
    BY <1>1, <2>1, <2>2, <2>3, LostChanges
<1>3. /\ mailed' \in [Events -> SUBSET (SUBSET Users)]
      /\ \A e \in Events : mailed[e] \subseteq mailed'[e]
  BY <1>1, DeliverIs, MailedChanges
<1>4. emailSent' \in [Events -> BOOLEAN] /\ \A e \in Events : emailSent[e] => emailSent'[e]
  BY <1>1, MarkSentIs, MailedChanges
<1>5. up' \in BOOLEAN /\ crashes' \in 0 .. MaxCrashes
  <2>1. Start => up' = TRUE /\ crashes' = crashes
    BY DEF Start
  <2> QED
    BY <1>1, <2>1, CrashIs, LifeChanges
<1> QED
  BY <1>2, <1>3, <1>4, <1>5

LEMMA ShapesStep ==
  ASSUME Shapes, EventsExist, [Next]_vars
  PROVE  Shapes'
  BY TasksShape, LettersShape, RestoreShape, HistoryShape, EventRows, RequestRows, RegRows, ClockRuns
     DEF Shapes, RegTypeOK

LEMMA EventsExistStep ==
  ASSUME Shapes, EventsExist, [Next]_vars
  PROVE  EventsExist'
<1>1. ASSUME NEW e \in Events, event[e] # NoEvent PROVE event'[e] # NoEvent
  BY <1>1, EventRows, RowsAre DEF EventStep
<1>2. ASSUME NEW k \in RegKeys, reg'[k] # NoRow PROVE event'[k[2]] # NoEvent
  <2>1. k[2] \in Events
    BY DEF RegKeys
  <2>2. CASE reg'[k] = reg[k]
    BY <1>1, <1>2, <2>1, <2>2 DEF EventsExist
  <2>3. ASSUME NEW q \in Requests, request[q].pc = "open", KeyOf(q) = k PROVE event'[k[2]] # NoEvent
    BY <1>1, <2>1, <2>3 DEF EventsExist, InFlight, KeyOf
  <2> QED
    BY <1>2, <2>2, <2>3, RegRows
<1>3. ASSUME NEW q \in Requests, request'[q].pc \in {"listed", "open"}
      PROVE  event'[request'[q].event] # NoEvent
  <2>0. request'[q] # Served
    BY <1>3, RowsAre
  <2>1. CASE request'[q] = request[q] \/ Moved(q, request'[q])
    <3>1. InFlight(q) /\ request'[q].event = request[q].event
      BY <1>3, <2>0, <2>1 DEF Moved, InFlight
    <3>2. request[q].event \in Events
      BY <3>1, RequestIs
    <3> QED
      BY <1>1, <3>1, <3>2 DEF EventsExist
  <2>2. CASE LookedUp(q, request'[q])
    <3>1. request'[q] \in RequestRow /\ event[request'[q].event] # NoEvent
      BY <2>0, <2>2 DEF LookedUp
    <3>2. request'[q].event \in Events
      BY <3>1 DEF RequestRow
    <3> QED
      BY <1>1, <3>1, <3>2
  <2> QED
    BY <2>1, <2>2, RequestRows
<1> QED
  BY <1>2, <1>3 DEF EventsExist, InFlight

(* A worker nobody starts stays unused.                                     *)
LEMMA StaysUnused ==
  ASSUME Shapes, EventsExist, [Next]_vars, NEW w \in Workers, Unused(w),
         \A q \in Requests : Register(q) => q # w,
         \A r \in restore.rows : RestoreRow(r) => r.event # w
  PROVE  task'[w] = NoTask /\ letter'[w] = NoLetter
<1>1. task[w] = NoTask /\ letter[w] = NoLetter /\ task[w].pc = "idle"
  BY RowsAre DEF Unused
<1>2. task'[w] = NoTask
  <2>1. ASSUME NEW v \in Workers, Compose(v) \/ ComposeFails(v) PROVE task'[w] = NoTask
    <3>1. task[v].pc = "list" /\ AfterList(v)
      BY <2>1 DEF Compose, ComposeFails
    <3> QED
      BY <1>1, <3>1, AfterListIs
  <2>2. ASSUME NEW v \in Workers, Wake(v) \/ MarkSent(v) PROVE task'[w] = NoTask
    BY <1>1, <2>2, WakeIs, MarkSentIs
  <2>3. ASSUME NEW q \in Requests, Register(q) PROVE task'[w] = NoTask
    BY <1>1, <2>3, RegisterIs
  <2>4. ASSUME NEW r \in restore.rows, RestoreRow(r) PROVE task'[w] = NoTask
    BY <1>1, <2>4, RestoreRowIs
  <2> QED
    BY <1>1, <2>1, <2>2, <2>3, <2>4, CrashIs, TaskChanges
<1>3. letter'[w] = NoLetter
  <2>1. ASSUME NEW v \in Workers, Compose(v) PROVE letter'[w] = NoLetter
    BY <1>1, <2>1, ComposeIs
  <2>2. ASSUME NEW v \in Workers, Deliver(v) \/ LetterLost(v) PROVE letter'[w] = NoLetter
    BY <1>1, <2>2, SmtpIs
  <2> QED
    BY <1>1, <2>1, <2>2, CrashIs, LetterChanges
<1> QED
  BY <1>2, <1>3

LEMMA StartsOnceStep ==
  ASSUME Shapes, EventsExist, StartsOnce, RestoreIsTrue, [Next]_vars
  PROVE  StartsOnce'
<1>1. ASSUME NEW q \in Requests, request'[q].pc \in {"idle", "listed", "open"}
      PROVE  task'[q] = NoTask /\ letter'[q] = NoLetter
  <2>1. request[q].pc \in {"idle", "listed", "open"}
    BY <1>1, RequestRows, RowsAre DEF Moved, LookedUp, InFlight
  <2>2. Unused(q) /\ q \in Workers
    BY <2>1, WorkersAre DEF StartsOnce
  <2>3. \A p \in Requests : Register(p) => p # q
    BY <1>1, RegisterIs
  <2>4. \A r \in restore.rows : RestoreRow(r) => r.event # q
    BY RestoreIs, WorkersAre
  <2> QED
    BY <2>2, <2>3, <2>4, StaysUnused
<1>2. ASSUME NEW e \in Events, Unused(e), \A r \in restore.rows : RestoreRow(r) => r.event # e
      PROVE  task'[e] = NoTask /\ letter'[e] = NoLetter
  BY <1>2, StaysUnused, WorkersAre
<1>3. ASSUME restore'.pc = "query", NEW e \in Events PROVE task'[e] = NoTask /\ letter'[e] = NoLetter
  <2>1. CASE Crash
    BY <2>1, CrashIs, WorkersAre
  <2>2. CASE ~Crash
    <3>1. restore' = restore
      BY <1>3, <2>2, RestoreQueryIs, RestoreEnds, RestoreRowIs, RestoreChanges
    <3>2. restore.rows = {} /\ restore.pc = "query"
      BY <1>3, <3>1, StartedIs DEF RestoreIsTrue
    <3>3. Unused(e)
      BY <3>2 DEF StartsOnce
    <3> QED
      BY <1>2, <3>2, <3>3
  <2> QED
    BY <2>1, <2>2
<1>4. ASSUME NEW r \in restore'.rows PROVE task'[r.event] = NoTask /\ letter'[r.event] = NoLetter
  <2>1. CASE Crash
    BY <1>4, <2>1, CrashIs, StartedIs
  <2>2. CASE RestoreQuery
    <3>1. r.event \in Events /\ restore.pc = "query"
      BY <1>4, <2>2, RestoreQueryIs
    <3>2. restore.rows = {} /\ Unused(r.event)
      BY <3>1, StartedIs DEF RestoreIsTrue, StartsOnce
    <3> QED
      BY <1>2, <3>1, <3>2
  <2>3. CASE r \in restore.rows /\ ~\E s \in restore.rows : RestoreRow(s) /\ s.event = r.event
    <3>1. Unused(r.event) /\ r.event \in Events
      BY <2>3, RestoreIs DEF StartsOnce
    <3> QED
      BY <1>2, <2>3, <3>1
  <2>4. ASSUME NEW s \in restore.rows, RestoreRow(s)
        PROVE  r \in restore.rows /\ r # s
    BY <1>4, <2>4, RestoreRowIs
  <2>5. ASSUME NEW s \in restore.rows, RestoreRow(s)
        PROVE  r.event # s.event
    BY <2>4, <2>5 DEF RestoreIsTrue
  <2>6. \A s \in restore.rows : RestoreRow(s) => r.event # s.event
    BY <2>5
  <2>7. CASE ~Crash /\ ~RestoreQuery
    <3>1. r \in restore.rows
      BY <1>4, <2>4, <2>7, RestoreEnds, RestoreChanges
    <3> QED
      BY <2>3, <2>6, <3>1
  <2> QED
    BY <2>1, <2>2, <2>7
<1>5. ASSUME NEW w \in Workers, task'[w].pc \in {"sleep", "list"} PROVE letter'[w] = NoLetter
  <2>1. CASE letter[w] = NoLetter
    <3>1. ASSUME NEW v \in Workers, Compose(v) PROVE letter'[w] = NoLetter
      <4>1. task[v].pc = "list" /\ AfterList(v)
        BY <3>1, ComposeIs
      <4>2. v # w
        BY <1>5, <4>1, AfterListIs, RowsAre
      <4> QED
        BY <2>1, <3>1, <4>2, ComposeIs
    <3>2. ASSUME NEW v \in Workers, Deliver(v) \/ LetterLost(v) PROVE letter'[w] = NoLetter
      BY <2>1, <3>2, SmtpIs
    <3>3. Crash => letter'[w] = NoLetter
      BY CrashIs
    <3> QED
      BY <2>1, <3>1, <3>2, <3>3, LetterChanges
  <2>2. CASE letter[w] # NoLetter
    <3>1. task[w].pc \notin {"sleep", "list"}
      BY <2>2 DEF StartsOnce
    <3>2. ASSUME NEW q \in Requests, Register(q) PROVE q # w
      <4>1. Unused(q)
        BY <3>2, RegisterIs DEF StartsOnce
      <4> QED
        BY <2>2, <4>1 DEF Unused
    <3>3. ASSUME NEW r \in restore.rows, RestoreRow(r) PROVE r.event # w
      BY <2>2, <3>3 DEF StartsOnce, Unused
    <3>4. ASSUME NEW v \in Workers, Compose(v) \/ ComposeFails(v) PROVE task'[w].pc \notin {"sleep", "list"}
      <4>1. task[v].pc = "list" /\ AfterList(v)
        BY <3>4 DEF Compose, ComposeFails
      <4> QED
        BY <3>1, <4>1, AfterListIs, RowsAre
    <3>5. CASE Crash
      BY <3>5, CrashIs
    <3>6. CASE ~Crash
      BY <1>5, <3>1, <3>2, <3>3, <3>4, <3>6, RegisterIs, RestoreRowIs, WakeIs, MarkSentIs, RowsAre, TaskChanges
    <3> QED
      BY <3>5, <3>6
  <2> QED
    BY <2>1, <2>2
<1> QED
  BY <1>1, <1>3, <1>4, <1>5 DEF StartsOnce, Unused

LEMMA RestoreIsTrueStep ==
  ASSUME Shapes, RestoreIsTrue, [Next]_vars
  PROVE  RestoreIsTrue'
<1>0. \A e \in Events : emailSent[e] => emailSent'[e]
  BY HistoryShape
<1>1. CASE Crash
  BY <1>1, CrashIs, StartedIs DEF RestoreIsTrue
<1>2. CASE restore' = restore /\ ~Crash
  <2>1. ~up' => ~up
    BY <1>2, LifeChanges DEF Start
  <2>2. \A r \in restore.rows : r.event \in Events
    BY RestoreIs
  <2> QED
    BY <1>0, <1>2, <2>1, <2>2 DEF RestoreIsTrue
<1>3. ASSUME RestoreQuery \/ RestoreQueryFails \/ RestoreOver \/ \E r \in restore.rows : RestoreRow(r),
             restore' # restore, ~Crash
      PROVE  up' = TRUE /\ emailSent' = emailSent
  <2>1. up' = up /\ emailSent' = emailSent
    BY <1>3 DEF RestoreQuery, RestoreQueryFails, RestoreOver, RestoreRow
  <2>2. up
    BY <1>3 DEF Next, vars, Time, mailVars, Administer, DeleteUser, Register, OtherRequestStep, WorkerStep, Wake, Compose,
     ComposeFails, MarkSent, Deliver, LetterLost, RestoreStep, Start
  <2> QED
    BY <2>1, <2>2 DEF Shapes
<1>4. CASE RestoreQuery /\ restore' # restore /\ ~Crash
  BY <1>3, <1>4, RestoreQueryIs DEF RestoreIsTrue
<1>5. CASE (RestoreQueryFails \/ RestoreOver) /\ restore' # restore /\ ~Crash
  <2>1. restore'.rows = {}
    BY <1>5, RestoreEnds, StartedIs DEF RestoreIsTrue
  <2> QED
    BY <1>3, <1>5, <2>1, RestoreEnds DEF RestoreIsTrue
<1>6. ASSUME NEW r \in restore.rows, RestoreRow(r), restore' # restore, ~Crash PROVE RestoreIsTrue'
  <2>1. restore'.pc = "rows" /\ restore'.rows = restore.rows \ {r}
    BY <1>6, RestoreRowIs
  <2>2. up' = TRUE /\ emailSent' = emailSent
    BY <1>3, <1>6
  <2> QED
    BY <2>1, <2>2 DEF RestoreIsTrue
<1> QED
  BY <1>1, <1>2, <1>4, <1>5, <1>6, RestoreChanges

LEMMA ReadInTimeStep ==
  ASSUME Shapes, EventsExist, ReadInTime, [Next]_vars
  PROVE  ReadInTime'
<1> SUFFICES ASSUME NEW w \in Workers, task'[w].pc = "list" PROVE now' >= DeadlineOf[task'[w].date]
  BY DEF ReadInTime, DeadlineReached
<1>1. ASSUME NEW d \in Dates, DeadlineReached(d) PROVE now' >= DeadlineOf[d]
  BY <1>1, ClockRuns, ConstantsAssumption DEF DeadlineReached
<1>2. CASE task'[w] = task[w]
  BY <1>1, <1>2, TaskIs DEF ReadInTime
<1>3. ASSUME NEW v \in Workers, Wake(v), v = w PROVE now' >= DeadlineOf[task'[w].date]
  BY <1>1, <1>3, WakeIs, TaskIs
<1>4. ASSUME NEW v \in Workers, Compose(v) \/ ComposeFails(v) PROVE task'[w] = task[w]
  <2>1. task[v].pc = "list" /\ AfterList(v)
    BY <1>4 DEF Compose, ComposeFails
  <2> QED
    BY <2>1, AfterListIs, RowsAre
<1>5. ASSUME NEW r \in restore.rows, RestoreRow(r), r.event = w PROVE now' >= DeadlineOf[task'[w].date]
  <2>1. CASE task'[w] = task[w]
    BY <1>2, <2>1
  <2>2. CASE task'[w] # task[w]
    BY <1>1, <1>5, <2>2, RestoreRowIs
  <2> QED
    BY <2>1, <2>2
<1>6. ASSUME NEW v \in Workers, Wake(v) \/ MarkSent(v), v # w PROVE task'[w] = task[w]
  BY <1>6, WakeIs, MarkSentIs
<1>7. ASSUME NEW v \in Workers, MarkSent(v), v = w PROVE FALSE
  BY <1>7, MarkSentIs, RowsAre
<1>8. ASSUME NEW q \in Requests, Register(q) PROVE task'[w] = task[w]
  <2>1. q # w
    BY <1>8, RegisterIs
  <2> QED
    BY <1>8, <2>1, RegisterIs
<1>9. ASSUME NEW r \in restore.rows, RestoreRow(r), r.event # w PROVE task'[w] = task[w]
  BY <1>9, RestoreRowIs
<1>10. ~Crash
  BY CrashIs, RowsAre
<1> QED
  BY <1>2, <1>3, <1>4, <1>5, <1>6, <1>7, <1>8, <1>9, <1>10, TaskChanges

-----------------------------------------------------------------------------
(* What is to be read is read, and a letter on its way arrives or is lost.  *)

LEMMA ReadingStays ==
  ASSUME Shapes, EventsExist, StartsOnce, [Next]_vars, ~Crash,
         NEW w \in Workers, task[w].pc \in {"sleep", "list"}
  PROVE  \/ task'[w].event = task[w].event /\ task'[w].pc \in {"sleep", "list"}
         \/ Compose(w) \/ ComposeFails(w)
<1>1. CASE task'[w] = task[w]
  BY <1>1
<1>2. ASSUME NEW v \in Workers, Wake(v) PROVE task'[w].event = task[w].event /\ task'[w].pc \in {"sleep", "list"}
  <2>1. CASE v = w
    BY <1>2, <2>1, WakeIs
  <2>2. CASE v # w
    BY <1>2, <2>2, WakeIs
  <2> QED
    BY <2>1, <2>2
<1>3. ASSUME NEW v \in Workers, Compose(v) \/ ComposeFails(v), v # w PROVE task'[w] = task[w]
  <2>1. task[v].pc = "list" /\ AfterList(v)
    BY <1>3 DEF Compose, ComposeFails
  <2> QED
    BY <1>3, <2>1, AfterListIs
<1>4. ASSUME NEW v \in Workers, MarkSent(v) PROVE task'[w] = task[w]
  <2>1. v # w
    BY <1>4, MarkSentIs
  <2> QED
    BY <1>4, <2>1, MarkSentIs
<1>5. ~Unused(w)
  BY RowsAre DEF Unused
<1>6. ASSUME NEW q \in Requests, Register(q) PROVE task'[w] = task[w]
  <2>1. Unused(q)
    BY <1>6, RegisterIs DEF StartsOnce
  <2> QED
    BY <1>5, <1>6, <2>1, RegisterIs
<1>7. ASSUME NEW r \in restore.rows, RestoreRow(r) PROVE task'[w] = task[w]
  <2>1. Unused(r.event)
    BY <1>7 DEF StartsOnce
  <2> QED
    BY <1>5, <1>7, <2>1, RestoreRowIs
<1> QED
  BY <1>1, <1>2, <1>3, <1>4, <1>6, <1>7, TaskChanges

LEMMA LetterStays ==
  ASSUME Shapes, StartsOnce, [Next]_vars, ~Crash,
         NEW w \in Workers, letter[w] # NoLetter
  PROVE  letter'[w] = letter[w] \/ Deliver(w) \/ LetterLost(w)
<1>1. ASSUME NEW v \in Workers, Compose(v) PROVE letter'[w] = letter[w]
  <2>1. v # w
    BY <1>1, ComposeIs DEF StartsOnce
  <2> QED
    BY <1>1, <2>1, ComposeIs
<1>2. ASSUME NEW v \in Workers, Deliver(v) \/ LetterLost(v), v # w PROVE letter'[w] = letter[w]
  BY <1>2, SmtpIs
<1> QED
  BY <1>1, <1>2, LetterChanges

(* Composing a letter for an event with participants names them all.        *)
LEMMA ComposedIs ==
  ASSUME Shapes, NEW w \in Workers, Compose(w), Participants(task[w].event) # {}
  PROVE  /\ letter'[w].event = task[w].event /\ letter'[w].to = Participants(task[w].event)
         /\ reg' = reg
  BY ComposeIs DEF Compose, regVars

LEMMA CoveredStays ==
  ASSUME Shapes, EventsExist, StartsOnce, [Next]_vars, ~Crash,
         NEW k \in RegKeys, reg[k] # NoRow, Covered(k)
  PROVE  Covered(k)' \/ k[2] \in lost'
<1>1. k[1] \in Users /\ k[2] \in Events /\ k = <<k[1], k[2]>>
  BY DEF RegKeys
<1>2. ASSUME NEW list \in mailed[k[2]], k[1] \in list PROVE Covered(k)'
  BY <1>1, <1>2, HistoryShape DEF Covered
<1>3. ASSUME NEW w \in Workers, task[w].event = k[2], task[w].pc \in {"sleep", "list"}
      PROVE  Covered(k)' \/ k[2] \in lost'
  <2>1. CASE task'[w].event = task[w].event /\ task'[w].pc \in {"sleep", "list"}
    BY <1>3, <2>1 DEF Covered
  <2>2. CASE Compose(w)
    <3>1. k[1] \in Participants(task[w].event)
      BY <1>1, <1>3 DEF Participants
    <3>2. letter'[w].event = k[2] /\ k[1] \in letter'[w].to
      BY <1>3, <2>2, <3>1, ComposedIs
    <3> QED
      BY <3>2 DEF Covered
  <2>3. CASE ComposeFails(w)
    BY <1>3, <2>3 DEF ComposeFails
  <2> QED
    BY <1>3, <2>1, <2>2, <2>3, ReadingStays
<1>4. ASSUME NEW w \in Workers, letter[w].event = k[2], k[1] \in letter[w].to
      PROVE  Covered(k)' \/ k[2] \in lost'
  <2>1. letter[w] # NoLetter
    BY <1>4, RowsAre
  <2>2. CASE letter'[w] = letter[w]
    BY <1>4, <2>2 DEF Covered
  <2>3. CASE Deliver(w)
    <3>1. letter[w].to \in mailed'[k[2]]
      BY <1>4, <2>3, DeliverIs
    <3> QED
      BY <1>4, <3>1 DEF Covered
  <2>4. CASE LetterLost(w)
    BY <1>4, <2>4 DEF LetterLost
  <2> QED
    BY <2>1, <2>2, <2>3, <2>4, LetterStays
<1> QED
  BY <1>2, <1>3, <1>4 DEF Covered

(* A registration whose INSERT was heard has a goroutine.                   *)
LEMMA NewRowIsRead ==
  ASSUME Shapes, EventsExist, [Next]_vars, NEW k \in RegKeys, reg'[k] # reg[k],
         reg'[k] # NoRow
  PROVE  Reading(k[2])' \/ k[2] \in lost'
<1>1. PICK q \in Requests : /\ request[q].pc = "open" /\ KeyOf(q) = k
                            /\ Register(q) \/ lost' = lost \cup {request[q].event}
  BY RegRows
<1>2. request[q].event = k[2] /\ q \in Workers
  BY <1>1, WorkersAre DEF KeyOf
<1>3. CASE Register(q)
  <2>1. task'[q].event = k[2] /\ task'[q].pc = "sleep"
    BY <1>2, <1>3, RegisterIs
  <2> QED
    BY <1>2, <2>1 DEF Reading
<1>4. CASE lost' = lost \cup {request[q].event}
  BY <1>2, <1>4
<1> QED
  BY <1>1, <1>3, <1>4

LEMMA OutstandingWas ==
  ASSUME Shapes, EventsExist, [Next]_vars, ~Crash, restore.pc # "query",
         NEW k \in RegKeys, reg[k] # NoRow, Outstanding(k)'
  PROVE  Outstanding(k)
<1>1. k[2] \in Events
  BY DEF RegKeys
<1>2. Listed(k[2])
  <2>1. event[k[2]] # NoEvent /\ event'[k[2]].status = "published"
    BY DEF EventsExist, Outstanding, Listed
  <2>2. EventStep(event[k[2]], event'[k[2]])
    BY <1>1, EventRows
  <2> QED
    BY <2>1, <2>2 DEF EventStep, Listed
<1>3. ~emailSent[k[2]] /\ k[2] \notin lost
  BY <1>1, HistoryShape DEF Outstanding
<1>4. k[2] \notin restore.past
  <2>1. restore.past \subseteq restore'.past
    BY RestoreRowIs, RestoreEnds, RestoreChanges DEF RestoreQuery
  <2> QED
    BY <2>1 DEF Outstanding
<1> QED
  BY <1>2, <1>3, <1>4 DEF Outstanding

LEMMA RestoringStep ==
  ASSUME Shapes, EventsExist, StartsOnce, RestoreIsTrue, Restoring, [Next]_vars
  PROVE  Restoring'
<1> SUFFICES ASSUME up', restore'.pc # "query", NEW k \in RegKeys, Outstanding(k)'
             PROVE  Covered(k)' \/ \E r \in restore'.rows : r.event = k[2]
  BY DEF Restoring
<1>1. k[2] \in Events /\ k[2] \notin lost' /\ k[2] \notin restore'.past /\ ~emailSent'[k[2]]
  BY DEF RegKeys, Outstanding
<1>2. ~Crash
  BY CrashIs
<1>3. CASE restore.pc = "query"
  <2>1. RestoreQuery \/ RestoreQueryFails
    BY <1>2, <1>3, RestoreEnds, RestoreRowIs, RestoreChanges
  <2>2. ~RestoreQueryFails
    BY <1>1, RestoreEnds
  <2>3. RestoreQuery
    BY <2>1, <2>2
  <2>4. Listed(k[2])
    BY <2>3 DEF RestoreQuery, regVars, Outstanding, Listed
  <2> QED
    BY <1>1, <2>3, <2>4, RestoreQueryIs
<1>4. CASE restore.pc # "query" /\ reg[k] = NoRow
  <2>1. reg'[k] # reg[k] /\ reg'[k] # NoRow
    BY <1>4 DEF Outstanding
  <2>2. Reading(k[2])'
    BY <1>1, <2>1, NewRowIsRead
  <2> QED
    BY <2>2 DEF Reading, Covered
<1>5. CASE restore.pc # "query" /\ reg[k] # NoRow
  <2>1. up /\ Outstanding(k)
    BY <1>2, <1>5, OutstandingWas DEF RestoreIsTrue, Shapes
  <2>2. CASE Covered(k)
    BY <1>1, <1>2, <1>5, <2>2, CoveredStays
  <2>3. ASSUME NEW r \in restore.rows, r.event = k[2]
        PROVE  Covered(k)' \/ \E s \in restore'.rows : s.event = k[2]
    <3>1. CASE r \in restore'.rows
      BY <2>3, <3>1
    <3>2. CASE RestoreRow(r)
      <4>1. task'[r.event].pc \in {"sleep", "list"} /\ task'[r.event].event = r.event /\ r.event \in Workers
        <5>1. r.event \notin restore'.past
          BY <1>1, <2>3
        <5>2. r.sent => emailSent'[r.event]
          BY <1>1, <2>3, HistoryShape DEF RestoreIsTrue
        <5> QED
          BY <1>1, <2>3, <3>2, <5>1, <5>2, RestoreRowIs, WorkersAre
      <4> QED
        BY <2>3, <4>1 DEF Covered
    <3>3. CASE r \notin restore'.rows /\ ~RestoreRow(r)
      <4>1. ~RestoreQueryFails /\ ~RestoreQuery /\ ~RestoreOver
        BY <1>5, RestoreEnds, RestoreQueryIs
      <4>2. ASSUME NEW s \in restore.rows, RestoreRow(s) PROVE FALSE
        BY <3>3, <4>2, RestoreRowIs
      <4> QED
        BY <1>2, <3>3, <4>1, <4>2, RestoreChanges
    <3> QED
      BY <3>1, <3>2, <3>3
  <2> QED
    BY <1>5, <2>1, <2>2, <2>3 DEF Restoring
<1> QED
  BY <1>3, <1>4, <1>5

LEMMA PendingStep ==
  ASSUME Shapes, EventsExist, StartsOnce, Pending, [Next]_vars
  PROVE  Pending'
<1> SUFFICES ASSUME crashes' = 0, NEW e \in Events, Participants(e)' # {}, e \notin lost'
             PROVE  \/ Reading(e)'
                    \/ \E w \in Workers : letter'[w].event = e /\ Participants(e)' \subseteq letter'[w].to
                    \/ \E list \in mailed'[e] : Participants(e)' \subseteq list
  BY DEF Pending
<1>1. ~Crash /\ crashes = 0 /\ e \notin lost
  <2>1. ~Crash
    <3>1. Crash => crashes \in Nat /\ crashes' = crashes + 1
      BY CrashIs
    <3> QED
      BY <3>1
  <2>2. crashes' = crashes
    BY <2>1, LifeChanges DEF Start
  <2> QED
    BY <2>1, <2>2, HistoryShape
<1>2. CASE \E u \in Users : reg'[<<u, e>>] # reg[<<u, e>>] /\ reg'[<<u, e>>] # NoRow
  <2>1. PICK u \in Users : reg'[<<u, e>>] # reg[<<u, e>>] /\ reg'[<<u, e>>] # NoRow
    BY <1>2
  <2>2. <<u, e>> \in RegKeys /\ <<u, e>>[2] = e
    BY DEF RegKeys
  <2> QED
    BY <2>1, <2>2, NewRowIsRead
<1>3. CASE \A u \in Users : reg'[<<u, e>>] \in {reg[<<u, e>>], NoRow}
  <2>1. Participants(e)' \subseteq Participants(e) /\ Participants(e) # {}
    BY <1>3 DEF Participants
  <2>2. ASSUME NEW w \in Workers, task[w].event = e, task[w].pc \in {"sleep", "list"}
        PROVE  Reading(e)' \/ \E v \in Workers : letter'[v].event = e /\ Participants(e) \subseteq letter'[v].to
    <3>1. CASE task'[w].event = task[w].event /\ task'[w].pc \in {"sleep", "list"}
      BY <2>2, <3>1 DEF Reading
    <3>2. CASE Compose(w)
      BY <2>1, <2>2, <3>2, ComposedIs
    <3>3. ~ComposeFails(w)
      BY <2>2 DEF ComposeFails
    <3> QED
      BY <1>1, <2>2, <3>1, <3>2, <3>3, ReadingStays
  <2>3. ASSUME NEW w \in Workers, letter[w].event = e, Participants(e) \subseteq letter[w].to
        PROVE  \/ \E v \in Workers : letter'[v].event = e /\ Participants(e) \subseteq letter'[v].to
               \/ \E list \in mailed'[e] : Participants(e) \subseteq list
    <3>1. letter[w] # NoLetter
      BY <2>1, <2>3, RowsAre
    <3>2. CASE letter'[w] = letter[w]
      BY <2>3, <3>2
    <3>3. CASE Deliver(w)
      BY <2>3, <3>3, DeliverIs
    <3>4. ~LetterLost(w)
      BY <2>3 DEF LetterLost
    <3> QED
      BY <1>1, <3>1, <3>2, <3>3, <3>4, LetterStays
  <2>4. mailed[e] \subseteq mailed'[e]
    BY HistoryShape
  <2>5. \/ Reading(e)
        \/ \E w \in Workers : letter[w].event = e /\ Participants(e) \subseteq letter[w].to
        \/ \E list \in mailed[e] : Participants(e) \subseteq list
    BY <1>1, <2>1 DEF Pending
  <2>6. \/ Reading(e)'
        \/ \E w \in Workers : letter'[w].event = e /\ Participants(e) \subseteq letter'[w].to
        \/ \E list \in mailed'[e] : Participants(e) \subseteq list
    BY <2>2, <2>3, <2>4, <2>5 DEF Reading
  <2> QED
    BY <2>1, <2>6
<1> QED
  BY <1>2, <1>3

-----------------------------------------------------------------------------
(* The invariant.                                                           *)

LEMMA InitInvariant ==
  ASSUME Init
  PROVE  IInv
<1>1. Shapes
  BY MailAssumption, ConstantsAssumption, RowsAre, StartedIs DEF Init, RegInit, Shapes, RegTypeOK
<1>2. EventsExist
  BY RowsAre DEF Init, RegInit, EventsExist, InFlight
<1>3. StartsOnce
  BY RowsAre, WorkersAre, StartedIs DEF Init, StartsOnce, Unused
<1>4. RestoreIsTrue /\ Restoring
  BY StartedIs DEF Init, RestoreIsTrue, Restoring
<1>5. ReadInTime
  BY RowsAre DEF Init, ReadInTime
<1>6. Pending
  BY DEF Init, RegInit, Pending, Participants, RegKeys
<1> QED
  BY <1>1, <1>2, <1>3, <1>4, <1>5, <1>6 DEF IInv

LEMMA StepInvariant ==
  ASSUME IInv, [Next]_vars
  PROVE  IInv'
<1> USE DEF IInv
<1>1. Shapes' /\ EventsExist'
  BY ShapesStep, EventsExistStep
<1>2. StartsOnce' /\ RestoreIsTrue'
  BY StartsOnceStep, RestoreIsTrueStep
<1>3. ReadInTime' /\ Restoring' /\ Pending'
  BY ReadInTimeStep, RestoringStep, PendingStep
<1> QED
  BY <1>1, <1>2, <1>3

LEMMA Invariant == Spec => []IInv
  BY InitInvariant, StepInvariant, PTL DEF Spec

(* What the run checks as TypeOK, for every instance.                       *)
THEOREM TypeCorrect == Spec => []TypeOK
<1>1. IInv => TypeOK
  BY DEF IInv, Shapes, TypeOK, RestoreRecord
<1> QED
  BY <1>1, Invariant, PTL

(* After any number of crashes, a running process whose restore is over has *)
(* a goroutine or a letter for every registration of an upcoming event that *)
(* is neither marked, lost to a failure, nor past when it was restored.     *)
THEOREM RestoredAreCoveredHolds == Spec => []RestoredAreCovered
<1>1. IInv => RestoredAreCovered
  BY DEF IInv, Restoring, RestoreIsTrue, RestoredAreCovered, Outstanding
<1> QED
  BY <1>1, Invariant, PTL

(* Until the process first dies, some letter carried the whole list of an   *)
(* event of which nothing is pending and nothing was lost.  A crash takes   *)
(* letters with it, so without the condition this is not a theorem.         *)
THEOREM SomeLetterIsCompleteHolds == Spec => [](crashes = 0 => SomeLetterIsComplete)
<1>1. IInv => (crashes = 0 => SomeLetterIsComplete)
  BY DEF IInv, Pending, SomeLetterIsComplete, Reading
<1> QED
  BY <1>1, Invariant, PTL

(* A list that is read while registration is open was scheduled for a date  *)
(* whose registration closes earlier: the event was postponed since.        *)
THEOREM ListedEarlyOnlyIfPostponedHolds == Spec => ListedEarlyOnlyIfPostponed
<1>1. ASSUME IInv, [Next]_vars
      PROVE  \A w \in Workers :
               (letter'[w] # letter[w] /\ letter'[w] # NoLetter) =>
                 LET date == event[letter'[w].event].date IN
                   DeadlineReached(date) \/ DeadlineOf[task[w].date] < DeadlineOf[date]
  <2> SUFFICES ASSUME NEW w \in Workers, letter'[w] # letter[w], letter'[w] # NoLetter
               PROVE  LET date == event[letter'[w].event].date IN
                        DeadlineReached(date) \/ DeadlineOf[task[w].date] < DeadlineOf[date]
    OBVIOUS
  <2>0. Shapes /\ ReadInTime /\ EventsExist
    BY <1>1 DEF IInv
  <2>1. ~Crash
    BY <2>0, CrashIs
  <2>2. ASSUME NEW v \in Workers, Deliver(v) \/ LetterLost(v) PROVE FALSE
    BY <2>0, <2>2, SmtpIs
  <2>3. PICK v \in Workers : Compose(v)
    BY <1>1, <2>1, <2>2, LetterChanges
  <2>4. /\ v = w /\ task[w].pc = "list" /\ task[w].event \in Events
        /\ letter'[w].event = task[w].event /\ Participants(task[w].event) # {}
    BY <2>0, <2>3, ComposeIs
  <2>5. event[task[w].event] \in EventRow
    <3>1. PICK u \in Users : reg[<<u, task[w].event>>] # NoRow
      BY <2>4 DEF Participants
    <3>2. <<u, task[w].event>> \in RegKeys /\ <<u, task[w].event>>[2] = task[w].event
      BY <2>4 DEF RegKeys
    <3> QED
      BY <2>0, <2>4, <3>1, <3>2 DEF EventsExist, Shapes, RegTypeOK
  <2>6. event[letter'[w].event].date \in Dates /\ task[w].date \in Dates
    BY <2>0, <2>4, <2>5, RowsAre, TaskIs
  <2>7. now >= DeadlineOf[task[w].date] /\ now \in Nat
    BY <2>0, <2>4 DEF ReadInTime, DeadlineReached, Shapes, RegTypeOK
  <2>8. ASSUME NEW c \in Dates, NEW d \in Dates, now >= DeadlineOf[c]
        PROVE  now >= DeadlineOf[d] \/ DeadlineOf[c] < DeadlineOf[d]
    BY <2>7, <2>8, ConstantsAssumption
  <2> QED
    BY <2>6, <2>7, <2>8 DEF DeadlineReached
<1> QED
  BY <1>1, Invariant, PTL DEF Spec, ListedEarlyOnlyIfPostponed


-----------------------------------------------------------------------------
(* The outbox.  Each step of the goroutines, the requests and the restore   *)
(* is a step of it or none.                                                 *)

LEMMA OutboxRows ==
  ASSUME Shapes, NEW e \in Events
  PROVE  /\ Places[e] = Participants(e) /\ Participants(e) \subseteq Users
         /\ Carried[e] = mailed[e] \cup UnderWay(e) /\ Carried[e] \subseteq SUBSET Users
<1>1. \A w \in Workers : letter[w].to \subseteq Users
  BY RowsAre DEF Shapes
<1>2. UnderWay(e) \subseteq SUBSET Users
  BY <1>1 DEF UnderWay
<1> QED
  BY <1>2 DEF Places, Carried, Participants, Shapes

(* Debts, lists and places that a step leaves alone.                        *)
LEMMA SameOwing ==
  ASSUME \A w \in Workers : task'[w].event = task[w].event /\
           (task'[w].pc \in {"sleep", "list"} <=> task[w].pc \in {"sleep", "list"})
  PROVE  Owing' = Owing
  BY DEF Owing, Workers

LEMMA SameCarried ==
  ASSUME mailed' = mailed, letter' = letter
  PROVE  Carried' = Carried
  BY DEF Carried, UnderWay, Workers

LEMMA SamePlaces ==
  ASSUME reg' = reg
  PROVE  Places' = Places
  BY DEF Places, Participants

(* An INSERT that nobody heard of waives the event, one that was answered   *)
(* comes with its goroutine.                                                *)
LEMMA NewPlace ==
  ASSUME Shapes, NEW q \in Requests, InsertCreated(q) \/ InsertConflict(q), reg' # reg,
         NEW e, e = request[q].event, NEW u, u = request[q].user
  PROVE  /\ e \in Events /\ u \in Users /\ u \notin Places[e]
         /\ Places' = [Places EXCEPT ![e] = Places[e] \cup {u}]
<1>1. e \in Events /\ u \in Users /\ KeyOf(q) = <<u, e>>
  BY RequestIs DEF InsertCreated, InsertConflict, KeyOf, InFlight
<1>2. reg[<<u, e>>] = NoRow /\ reg' = [reg EXCEPT ![<<u, e>>] = NewRow(q)]
  BY <1>1 DEF InsertCreated, InsertConflict, Insertable
<1>3. NewRow(q) # NoRow
  BY DEF NewRow, NoRow
<1>4. reg \in [RegKeys -> RegRow \cup {NoRow}] /\ <<u, e>> \in RegKeys
  BY <1>1 DEF Shapes, RegTypeOK, RegKeys
<1>5. \A v \in Users, f \in Events :
        reg'[<<v, f>>] = IF v = u /\ f = e THEN NewRow(q) ELSE reg[<<v, f>>]
  BY <1>2, <1>4 DEF RegKeys
<1>6. u \notin Places[e] /\ Participants(e)' = Places[e] \cup {u}
  <2>1. Places[e] = Participants(e)
    BY <1>1 DEF Places
  <2>2. \A v \in Users : reg'[<<v, e>>] # NoRow <=> v = u \/ reg[<<v, e>>] # NoRow
    BY <1>1, <1>3, <1>5
  <2> QED
    BY <1>1, <1>2, <2>1, <2>2 DEF Participants
<1>7. \A f \in Events \ {e} : Participants(f)' = Places[f]
  BY <1>5 DEF Places, Participants
<1>8. Places' = [Places EXCEPT ![e] = Places[e] \cup {u}]
  BY <1>1, <1>6, <1>7 DEF Places
<1> QED
  BY <1>1, <1>6, <1>8

(* What a goroutine that has read its list leaves: it owes no more, and all *)
(* others owe what they did.                                                *)
LEMMA ListSettles ==
  ASSUME Shapes, NEW w \in Workers, task[w].pc = "list", AfterList(w)
  PROVE  /\ task[w].event \in Owing
         /\ Owing' = Owing \/ Owing' = Owing \ {task[w].event}
<1>1. task[w].event \in Events
  BY TaskIs
<1>2. /\ task'[w].pc \notin {"sleep", "list"}
      /\ \A v \in Workers \ {w} : task'[v] = task[v]
  BY AfterListIs, RowsAre
<1>3. Owing \ {task[w].event} \subseteq Owing' /\ Owing' \subseteq Owing
  BY <1>2 DEF Owing, Workers
<1> QED
  BY <1>1, <1>3 DEF Owing

LEMMA OutboxInit == Init => Outbox!Init
<1> SUFFICES ASSUME Init PROVE Outbox!Init
  OBVIOUS
<1>1. Places = [e \in Events |-> {}]
  BY DEF Init, RegInit, Places, Participants, RegKeys
<1>2. Owing = {}
  BY RowsAre DEF Init, Owing
<1>3. Carried = [e \in Events |-> {}]
  <2>1. \A e \in Events : UnderWay(e) = {}
    BY DEF Init, UnderWay
  <2> QED
    BY <2>1 DEF Init, Carried
<1>4. Waived = {}
  BY DEF Init, Waived
<1> QED
  BY <1>1, <1>2, <1>3, <1>4 DEF Outbox!Init

(* A list that is read names all who have a place.                          *)
LEMMA ComposeReads ==
  ASSUME Shapes, StartsOnce, NEW w \in Workers, Compose(w), NEW e, e = task[w].event
  PROVE  Outbox!Read(e)
<1>1. task[w].pc = "list" /\ e \in Events /\ AfterList(w) /\ letter[w] = NoLetter
  BY ComposeIs DEF StartsOnce
<1>2. reg' = reg /\ mailed' = mailed /\ lost' = lost /\ crashes' = crashes
  BY DEF Compose, regVars
<1>3. UnderWay(e)' = UnderWay(e) \cup ({Participants(e)} \ {{}})
  <2>1. CASE Participants(e) = {}
    BY <2>1, ComposeIs DEF UnderWay, Workers
  <2>2. CASE Participants(e) # {}
    <3>1. /\ letter'[w] # NoLetter /\ letter'[w].event = e /\ letter'[w].to = Participants(e)
          /\ \A v \in Workers \ {w} : letter'[v] = letter[v]
      BY <2>2, ComposeIs, RowsAre
    <3>2. UnderWay(e)' = UnderWay(e) \cup {Participants(e)}
      BY <1>1, <3>1 DEF UnderWay, Workers
    <3> QED
      BY <2>2, <3>2
  <2> QED
    BY <2>1, <2>2
<1>4. ASSUME NEW f \in Events \ {e} PROVE UnderWay(f)' = UnderWay(f)
  <2>1. /\ \A v \in Workers \ {w} : letter'[v] = letter[v]
        /\ letter'[w] = NoLetter \/ letter'[w].event = e
    BY <1>1, ComposeIs
  <2> QED
    BY <1>1, <1>4, <2>1 DEF UnderWay, Workers
<1>5. Places' = Places /\ Waived' = Waived
  BY <1>2, SamePlaces DEF Waived
<1>6. Carried' = [Carried EXCEPT ![e] = Carried[e] \cup ({Places[e]} \ {{}})]
  <2>1. Places[e] = Participants(e)
    BY <1>1, OutboxRows
  <2> QED
    BY <1>1, <1>2, <1>3, <1>4, <2>1 DEF Carried
<1>7. e \in Owing /\ (Owing' = Owing \/ Owing' = Owing \ {e})
  BY <1>1, ListSettles
<1> QED
  BY <1>5, <1>6, <1>7 DEF Outbox!Read, Outbox!Settle

(* A letter that is delivered was carried before; one that is lost waives   *)
(* its event.                                                               *)
LEMMA DeliverCarries ==
  ASSUME Shapes, NEW w \in Workers, Deliver(w)
  PROVE  Carried' = Carried
<1>1. letter[w] \in Letter /\ letter[w] # NoLetter
  BY SmtpIs, RowsAre
<1>2. /\ letter'[w] = NoLetter /\ \A v \in Workers \ {w} : letter'[v] = letter[v]
  BY SmtpIs
<1>3. mailed' = [mailed EXCEPT ![letter[w].event] = mailed[letter[w].event] \cup {letter[w].to}]
  BY DEF Deliver
<1>4. ASSUME NEW e \in Events PROVE mailed'[e] \cup UnderWay(e)' = mailed[e] \cup UnderWay(e)
  <2>1. CASE e = letter[w].event
    <3>1. UnderWay(e) = UnderWay(e)' \cup {letter[w].to}
      BY <1>1, <1>2, <2>1 DEF UnderWay, Workers
    <3>2. mailed'[e] = mailed[e] \cup {letter[w].to}
      BY <1>3, <1>4, <2>1 DEF Shapes
    <3> QED
      BY <3>1, <3>2
  <2>2. CASE e # letter[w].event
    <3>1. UnderWay(e)' = UnderWay(e)
      BY <1>1, <1>2, <2>2 DEF UnderWay, Workers
    <3>2. mailed'[e] = mailed[e]
      BY <1>3, <1>4, <2>2 DEF Shapes
    <3> QED
      BY <3>1, <3>2
  <2> QED
    BY <2>1, <2>2
<1> QED
  BY <1>4 DEF Carried

LEMMA LetterLoses ==
  ASSUME Shapes, NEW w \in Workers, LetterLost(w), NEW e, e = letter[w].event
  PROVE  Outbox!Lose(e)
<1>1. letter[w] \in Letter /\ letter[w] # NoLetter /\ e \in Events
  BY SmtpIs, RowsAre
<1>2. /\ letter'[w] = NoLetter /\ \A v \in Workers \ {w} : letter'[v] = letter[v]
      /\ task' = task
  BY SmtpIs
<1>3. reg' = reg /\ mailed' = mailed /\ lost' = lost \cup {e} /\ crashes' = crashes
  BY DEF LetterLost, regVars
<1>4. \A f \in Events \ {e} : UnderWay(f)' = UnderWay(f)
  BY <1>1, <1>2 DEF UnderWay, Workers
<1>5. letter[w].to \in Carried[e]
  BY <1>1 DEF Carried, UnderWay
<1>6. UnderWay(e) = UnderWay(e)' \cup {letter[w].to}
  BY <1>1, <1>2 DEF UnderWay, Workers
<1>7. Carried' = Carried \/ Carried' = [Carried EXCEPT ![e] = Carried[e] \ {letter[w].to}]
  <2>1. CASE letter[w].to \in mailed[e] \cup UnderWay(e)'
    BY <1>3, <1>4, <1>6, <2>1 DEF Carried
  <2>2. CASE letter[w].to \notin mailed[e] \cup UnderWay(e)'
    <3>1. mailed[e] \cup UnderWay(e)' = Carried[e] \ {letter[w].to}
      BY <1>1, <1>6, <2>2 DEF Carried
    <3> QED
      BY <1>1, <1>3, <1>4, <3>1 DEF Carried
  <2> QED
    BY <2>1, <2>2
<1>8. Places' = Places /\ Owing' = Owing
  BY <1>2, <1>3, SamePlaces, SameOwing
<1>9. Waived' = Waived \cup {e}
  BY <1>3 DEF Waived
<1> QED
  BY <1>5, <1>7, <1>8, <1>9 DEF Outbox!Lose

LEMMA CrashDies ==
  ASSUME Shapes, Crash
  PROVE  Outbox!Die
<1>1. \A w \in Workers : task'[w] = NoTask /\ letter'[w] = NoLetter
  BY CrashIs
<1>2. reg' = reg /\ mailed' = mailed /\ lost' = lost
  BY DEF Crash
<1>3. Owing' = {}
  BY <1>1, RowsAre DEF Owing, Workers
<1>4. Waived' = Events
  <2>1. crashes \in Nat /\ crashes' = crashes + 1
    BY CrashIs
  <2>2. crashes' > 0
    BY <2>1
  <2> QED
    BY <1>2, <2>2 DEF Waived, Shapes
<1>5. \A e \in Events : Carried'[e] = mailed[e]
  BY <1>1, <1>2 DEF Carried, UnderWay, Workers
<1>6. Carried' \in [Events -> SUBSET (SUBSET Users)]
  BY <1>5 DEF Carried, Shapes
<1>7. \A e \in Events : Carried'[e] \subseteq Carried[e]
  BY <1>5 DEF Carried
<1> QED
  BY <1>2, <1>3, <1>4, <1>6, <1>7, SamePlaces DEF Outbox!Die

(* The cascade takes the user off every list that is yet to be read.        *)
LEMMA RemovalLeaves ==
  ASSUME NEW u \in Users, DeleteUser(u)
  PROVE  Outbox!Leave(u)
<1>1. ASSUME NEW e \in Events PROVE Participants(e)' = Participants(e) \ {u}
  <2>1. \A v \in Users : <<v, e>> \in RegKeys /\ <<v, e>>[1] = v
    BY <1>1 DEF RegKeys
  <2>2. \A v \in Users : reg'[<<v, e>>] = IF v = u THEN NoRow ELSE reg[<<v, e>>]
    BY <2>1 DEF DeleteUser
  <2> QED
    BY <2>2 DEF Participants
<1>2. Places' = [e \in Events |-> Places[e] \ {u}]
  BY <1>1 DEF Places
<1>3. Owing' = Owing /\ Carried' = Carried /\ Waived' = Waived
  BY SameOwing, SameCarried DEF DeleteUser, mailVars, Waived
<1> QED
  BY <1>2, <1>3 DEF Outbox!Leave

LEMMA OutboxStep ==
  ASSUME IInv, [Next]_vars
  PROVE  [Outbox!Next]_(Outbox!vars)
<1>0. Shapes /\ EventsExist /\ StartsOnce /\ RestoreIsTrue
  BY DEF IInv
<1>1. ASSUME NEW q \in Requests, Register(q) PROVE Outbox!Next
  <2>0. PICK e, u : e = request[q].event /\ u = request[q].user
    OBVIOUS
  <2>1. /\ InsertCreated(q) /\ reg' # reg
        /\ mailed' = mailed /\ letter' = letter /\ lost' = lost /\ crashes' = crashes
    <3>1. reg[KeyOf(q)] = NoRow /\ reg' = [reg EXCEPT ![KeyOf(q)] = NewRow(q)] /\ NewRow(q) # NoRow
      BY <1>1 DEF Register, InsertCreated, Insertable, NewRow, NoRow
    <3>2. KeyOf(q) \in RegKeys
      BY <1>0, <1>1, RegisterIs
    <3>3. reg' # reg
      BY <1>0, <3>1, <3>2 DEF Shapes, RegTypeOK
    <3> QED
      BY <1>1, <3>3 DEF Register
  <2>2. /\ e \in Events /\ u \in Users /\ u \notin Places[e]
        /\ Places' = [Places EXCEPT ![e] = Places[e] \cup {u}]
    BY <1>0, <2>0, <2>1, NewPlace
  <2>3. Owing' = Owing \cup {e}
    <3>1. /\ task'[q].pc = "sleep" /\ task'[q].event = e
          /\ \A w \in Workers \ {q} : task'[w] = task[w]
          /\ task[q] = NoTask /\ q \in Workers
      BY <1>0, <1>1, <2>0, RegisterIs, WorkersAre DEF StartsOnce, Unused
    <3> QED
      BY <2>2, <3>1, RowsAre DEF Owing, Workers
  <2>4. Carried' = Carried /\ Waived' = Waived
    BY <2>1, SameCarried DEF Waived
  <2>5. Outbox!Join(e, u)
    BY <2>2, <2>3, <2>4 DEF Outbox!Join
  <2> QED
    BY <2>2, <2>5 DEF Outbox!Next
<1>2. ASSUME NEW q \in Requests, OtherRequestStep(q) PROVE [Outbox!Next]_(Outbox!vars)
  <2>1. Owing' = Owing /\ Carried' = Carried
    BY <1>2, SameOwing, SameCarried DEF OtherRequestStep, mailVars
  <2>2. CASE reg' = reg
    <3>1. Waived' = Waived
      BY <1>2, <2>2 DEF OtherRequestStep, mailVars, Waived
    <3> QED
      BY <2>1, <2>2, <3>1, SamePlaces DEF Outbox!vars
  <2>3. CASE reg' # reg
    <3>0. PICK e, u : e = request[q].event /\ u = request[q].user
      OBVIOUS
    <3>1. InsertConflict(q) /\ lost' = lost \cup {request[q].event} /\ crashes' = crashes
      BY <1>2, <2>3 DEF OtherRequestStep, Lookup, CheckDeadline
    <3>2. Waived' = Waived \cup {e}
      BY <3>0, <3>1 DEF Waived
    <3>3. Outbox!Join(e, u) /\ e \in Events /\ u \in Users
      BY <1>0, <2>1, <2>3, <3>0, <3>1, <3>2, NewPlace DEF Outbox!Join
    <3> QED
      BY <3>3 DEF Outbox!Next
  <2> QED
    BY <2>2, <2>3
<1>3. ASSUME NEW w \in Workers, Wake(w) \/ MarkSent(w) PROVE UNCHANGED Outbox!vars
  <2>1. Owing' = Owing
    <3>1. ASSUME Wake(w), NEW v \in Workers
          PROVE  task'[v].event = task[v].event /\
                   (task'[v].pc \in {"sleep", "list"} <=> task[v].pc \in {"sleep", "list"})
      BY <1>0, <3>1, WakeIs
    <3>2. CASE Wake(w)
      BY <3>1, <3>2, SameOwing
    <3>3. CASE MarkSent(w)
      <4>1. /\ task[w].pc = "mark" /\ task'[w].pc = "idle"
            /\ \A v \in Workers \ {w} : task'[v] = task[v]
        BY <1>0, <3>3, MarkSentIs, RowsAre
      <4> QED
        BY <4>1 DEF Owing, Workers
    <3> QED
      BY <1>3, <3>2, <3>3
  <2>2. Carried' = Carried /\ Places' = Places /\ Waived' = Waived
    BY <1>3, SameCarried, SamePlaces DEF Wake, MarkSent, regVars, Waived
  <2> QED
    BY <2>1, <2>2 DEF Outbox!vars
<1>4. ASSUME NEW w \in Workers, Compose(w) PROVE Outbox!Next
  BY <1>0, <1>4, ComposeReads, ComposeIs DEF Outbox!Next
<1>5. ASSUME NEW w \in Workers, ComposeFails(w) PROVE Outbox!Next
  <2>1. task[w].pc = "list" /\ AfterList(w) /\ task[w].event \in Events
    BY <1>0, <1>5, TaskIs DEF ComposeFails
  <2>2. Places' = Places /\ Carried' = Carried /\ Waived' = Waived \cup {task[w].event}
    BY <1>5, SamePlaces, SameCarried DEF ComposeFails, regVars, Waived
  <2>3. Outbox!ReadFails(task[w].event)
    BY <1>0, <2>1, <2>2, ListSettles DEF Outbox!ReadFails, Outbox!Settle
  <2> QED
    BY <2>1, <2>3 DEF Outbox!Next
<1>6. ASSUME NEW w \in Workers, Deliver(w) PROVE UNCHANGED Outbox!vars
  <2>1. Owing' = Owing /\ Places' = Places /\ Waived' = Waived
    BY <1>6, SameOwing, SamePlaces DEF Deliver, regVars, Waived
  <2> QED
    BY <1>0, <1>6, <2>1, DeliverCarries DEF Outbox!vars
<1>7. ASSUME NEW w \in Workers, LetterLost(w) PROVE Outbox!Next
  BY <1>0, <1>7, LetterLoses, SmtpIs, RowsAre DEF Outbox!Next
<1>8. ASSUME NEW r \in restore.rows, RestoreRow(r) PROVE [Outbox!Next]_(Outbox!vars)
  <2>1. Carried' = Carried /\ Places' = Places /\ Waived' = Waived
    BY <1>8, SameCarried, SamePlaces DEF RestoreRow, regVars, Waived
  <2>2. CASE task' = task
    BY <2>1, <2>2, SameOwing DEF Outbox!vars
  <2>3. CASE task' # task
    <3>1. /\ r.event \in Events /\ task'[r.event].event = r.event
          /\ task'[r.event].pc \in {"sleep", "list"}
          /\ \A v \in Workers \ {r.event} : task'[v] = task[v]
          /\ task[r.event] = NoTask /\ r.event \in Workers
      BY <1>0, <1>8, <2>3, RestoreRowIs, WorkersAre DEF StartsOnce, Unused
    <3>2. Owing' = Owing \cup {r.event}
      BY <3>1, RowsAre DEF Owing, Workers
    <3>3. Outbox!Owe(r.event)
      BY <2>1, <3>2 DEF Outbox!Owe
    <3> QED
      BY <3>1, <3>3 DEF Outbox!Next
  <2> QED
    BY <2>2, <2>3
<1>9. CASE Crash
  BY <1>0, <1>9, CrashDies DEF Outbox!Next
<1>10. ASSUME NEW u \in Users, DeleteUser(u) PROVE Outbox!Next
  BY <1>10, RemovalLeaves DEF Outbox!Next
<1>11. CASE UNCHANGED <<reg, task, letter, mailed, lost, crashes>>
  BY <1>11, SamePlaces, SameOwing, SameCarried DEF Waived, Outbox!vars
<1> QED
  BY <1>1, <1>2, <1>3, <1>4, <1>5, <1>6, <1>7, <1>8, <1>9, <1>10, <1>11
     DEF Next, vars, Time, Tick, mailVars, Administer, CreateEvent, UpdateEvent, CancelEvent,
     WorkerStep, RestoreStep, RestoreQuery, RestoreQueryFails, RestoreOver, Start, regVars

(* The goroutines, the requests and the restore implement the outbox, for   *)
(* any number of them, of failures and of crashes.                          *)
THEOREM OutboxImplemented == Spec => ImplementsOutbox
<1>1. Init => Outbox!Init
  BY OutboxInit
<1>2. IInv /\ [Next]_vars => [Outbox!Next]_(Outbox!vars)
  BY OutboxStep
<1> QED
  BY <1>1, <1>2, Invariant, PTL DEF Spec, ImplementsOutbox, Outbox!Spec

(* Every outbox carries the whole list of an event that owes none and was   *)
(* not waived, and so does this one.                                        *)
THEOREM WholeListIsCarried == Spec => []Outbox!WholeListCarried
<1> DEFINE Rows == /\ Places \in [Events -> SUBSET Users]
                   /\ Carried \in [Events -> SUBSET (SUBSET Users)]
<1>1. Outbox!Init => Rows /\ Outbox!WholeListCarried
  BY DEF Outbox!Init, Outbox!WholeListCarried
<1>2. ASSUME Rows, Outbox!WholeListCarried, [Outbox!Next]_(Outbox!vars)
      PROVE  Rows' /\ Outbox!WholeListCarried'
  <2>1. ASSUME NEW e \in Events, NEW u \in Users, Outbox!Join(e, u)
        PROVE  Rows' /\ Outbox!WholeListCarried'
    BY <1>2, <2>1 DEF Outbox!Join, Outbox!WholeListCarried
  <2>2. ASSUME NEW e \in Events, Outbox!Owe(e) PROVE Rows' /\ Outbox!WholeListCarried'
    BY <1>2, <2>2 DEF Outbox!Owe, Outbox!WholeListCarried
  <2>3. ASSUME NEW e \in Events, Outbox!Read(e) PROVE Rows' /\ Outbox!WholeListCarried'
    BY <1>2, <2>3 DEF Outbox!Read, Outbox!Settle, Outbox!WholeListCarried
  <2>4. ASSUME NEW e \in Events, Outbox!ReadFails(e) PROVE Rows' /\ Outbox!WholeListCarried'
    BY <1>2, <2>4 DEF Outbox!ReadFails, Outbox!Settle, Outbox!WholeListCarried
  <2>5. ASSUME NEW e \in Events, Outbox!Lose(e) PROVE Rows' /\ Outbox!WholeListCarried'
    BY <1>2, <2>5 DEF Outbox!Lose, Outbox!WholeListCarried
  <2>8. ASSUME NEW u \in Users, Outbox!Leave(u) PROVE Rows' /\ Outbox!WholeListCarried'
    BY <1>2, <2>8 DEF Outbox!Leave, Outbox!WholeListCarried
  <2>6. CASE Outbox!Die
    BY <1>2, <2>6 DEF Outbox!Die, Outbox!WholeListCarried
  <2>7. CASE UNCHANGED Outbox!vars
    BY <1>2, <2>7 DEF Outbox!vars, Outbox!WholeListCarried
  <2> QED
    BY <1>2, <2>1, <2>2, <2>3, <2>4, <2>5, <2>6, <2>7, <2>8 DEF Outbox!Next
<1> HIDE DEF Rows
<1>3. Outbox!Spec => []Outbox!WholeListCarried
  BY <1>1, <1>2, PTL DEF Outbox!Spec
<1> QED
  BY <1>3, OutboxImplemented, PTL DEF ImplementsOutbox
==============================================================================
