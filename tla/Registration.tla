----------------------------- MODULE Registration -----------------------------
(***************************************************************************)
(* The events table, the registrations table and the HTTP handlers that    *)
(* write them: createEvent, updateEvent, cancelEvent and registerToEvent   *)
(* (internal/http/handlers.go) with the service and repository calls they  *)
(* make.  Every SQL statement of a handler is a step of its own, because   *)
(* other requests run between two statements; a registration request is a *)
(* goroutine with a program counter that keeps the copy of the event it    *)
(* listed.  Attendance and MailSchedule extend this module.                *)
(***************************************************************************)
EXTENDS Naturals, FiniteSets

CONSTANTS
  Users,        \* rows of the users table
  Events,       \* events an administrator may create
  Requests,     \* registration requests, each served once
  Dates,        \* midnights (NSK) an event may be dated at, as instants
  DeadlineOf,   \* the instant registration closes for an event date
  Modes,        \* participation modes events are created with
  Wants,        \* participation types users ask for
  MaxTime,      \* bound of the clock
  DbMayFail     \* TRUE if a statement may fail or lose its answer

ASSUME ConstantsAssumption ==
  /\ Dates \subseteq Nat
  /\ DeadlineOf \in [Dates -> Nat]
  /\ \A d \in Dates : DeadlineOf[d] <= d
  /\ MaxTime \in Nat
  /\ Modes \subseteq {"open", "spectators_only", "participants_only", "both"}
  /\ Wants \subseteq {"participant", "spectator"}
  /\ DbMayFail \in BOOLEAN

VARIABLES
  now,          \* the clock of the API server
  account,      \* the users that have a row in users
  event,        \* the events table
  reg,          \* the registrations table, at most one row per user and event
  request       \* the registration requests in flight

regVars == <<now, account, event, reg, request>>

-----------------------------------------------------------------------------
PTypes == {"participant", "spectator"}
RegKeys == Users \X Events

(* A row of events, NoEvent before createEvent inserts it.  createEvent     *)
(* writes 'published'; 'active' is written nowhere.                         *)
NoEvent == [status |-> "none", date |-> 0, mode |-> "open"]
EventRow == [status : {"published", "cancelled"}, date : Dates, mode : Modes]

NoRow == [status |-> "none", ptype |-> "participant"]
RegRow == [status : {"registered", "attended"}, ptype : PTypes]

(* A registration request: "listed" once ListEvents answered, "open" once   *)
(* the deadline check passed, Served once it is answered.                   *)
Idle == [pc |-> "idle", user |-> "none", event |-> "none", wants |-> "participant",
         copy |-> NoEvent]
Served == [Idle EXCEPT !.pc = "done"]
RequestRow ==
  [pc : {"listed", "open"}, user : Users, event : Events, wants : Wants \cup {"participant"},
   copy : EventRow]

RegTypeOK ==
  /\ now \in Nat
  /\ account \subseteq Users
  /\ event \in [Events -> EventRow \cup {NoEvent}]
  /\ reg \in [RegKeys -> RegRow \cup {NoRow}]
  /\ request \in [Requests -> RequestRow \cup {Idle, Served}]

RegInit ==
  /\ now = 0
  /\ account = Users
  /\ event = [e \in Events |-> NoEvent]
  /\ reg = [k \in RegKeys |-> NoRow]
  /\ request = [q \in Requests |-> Idle]

-----------------------------------------------------------------------------
(* The administrator's handlers: one UPDATE or INSERT each.                 *)

CreateEvent(e, d, m) ==
  /\ event[e] = NoEvent
  /\ event' = [event EXCEPT ![e] = [status |-> "published", date |-> d, mode |-> m]]
  /\ UNCHANGED <<now, account, reg, request>>

(* UpdateEvent rewrites the date and the mode whatever the status is, and   *)
(* leaves status, registrations and email_sent_at alone.                    *)
UpdateEvent(e, d, m) ==
  /\ event[e] # NoEvent
  /\ event' = [event EXCEPT ![e].date = d, ![e].mode = m]
  /\ UNCHANGED <<now, account, reg, request>>

CancelEvent(e) ==
  /\ event[e] # NoEvent
  /\ event' = [event EXCEPT ![e].status = "cancelled"]
  /\ UNCHANGED <<now, account, reg, request>>

(* ListEvents and the role of the handler's participation_type: the type    *)
(* the user asks for is normalised by the handler, but RegisterToEvent of   *)
(* the service takes only the event and computes the type again.            *)
Listed(e) == event[e].status = "published"

(* The answer is written: the goroutine of the request ends with its copy.  *)
Answer(q) == request' = [request EXCEPT ![q] = Served]

\* Mutant: the event's mode is stored as it is.
StoredMode(copy) == copy.mode

StoredType(copy) ==
  IF copy.mode = "spectators_only" THEN "spectator" ELSE "participant"

Lookup(q, u, e, w) ==
  /\ request[q].pc = "idle"
  /\ IF Listed(e)
     THEN request' = [request EXCEPT ![q] =
            [pc |-> "listed", user |-> u, event |-> e, wants |-> w, copy |-> event[e]]]
     ELSE Answer(q)
  /\ UNCHANGED <<now, account, event, reg>>

(* The registration is closed strictly after the deadline.                  *)
Closed(date) == now > DeadlineOf[date]

CheckDeadline(q) ==
  /\ request[q].pc = "listed"
  /\ request' = IF Closed(request[q].copy.date)
                THEN [request EXCEPT ![q] = Served]
                ELSE [request EXCEPT ![q].pc = "open"]
  /\ UNCHANGED <<now, account, event, reg>>

KeyOf(q) == <<request[q].user, request[q].event>>

(* UNIQUE (user_id, event_id) and the foreign key to users.                 *)
Insertable(q) ==
  /\ request[q].user \in account
  /\ reg[KeyOf(q)] = NoRow

NewRow(q) == [status |-> "registered", ptype |-> StoredType(request[q].copy)]

InsertCreated(q) ==
  /\ request[q].pc = "open"
  /\ Insertable(q)
  /\ reg' = [reg EXCEPT ![KeyOf(q)] = NewRow(q)]
  /\ Answer(q)
  /\ UNCHANGED <<now, account, event>>

(* Every other outcome of the INSERT answers 409: a constraint refused the  *)
(* row, the statement failed, or it took effect and its answer was lost.    *)
InsertConflict(q) ==
  /\ request[q].pc = "open"
  /\ \/ ~Insertable(q) /\ UNCHANGED reg
     \/ DbMayFail /\ UNCHANGED reg
     \/ /\ DbMayFail
        /\ Insertable(q)
        /\ reg' = [reg EXCEPT ![KeyOf(q)] = NewRow(q)]
  /\ Answer(q)
  /\ UNCHANGED <<now, account, event>>

Tick ==
  /\ now < MaxTime
  /\ now' = now + 1
  /\ UNCHANGED <<account, event, reg, request>>

AdminStep ==
  \E e \in Events :
    \/ \E d \in Dates, m \in Modes : CreateEvent(e, d, m) \/ UpdateEvent(e, d, m)
    \/ CancelEvent(e)

RequestStep(q) ==
  \/ \E u \in Users, e \in Events, w \in Wants : Lookup(q, u, e, w)
  \/ CheckDeadline(q)
  \/ InsertCreated(q)
  \/ InsertConflict(q)

=============================================================================
