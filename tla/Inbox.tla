--------------------------------- MODULE Inbox ---------------------------------
(***************************************************************************)
(* The notifications of one user: the rows of user_notifications, the      *)
(* push messages sent after them, and the list, the counter and the badge  *)
(* that NotificationsProvider keeps on the phone. A push message is        *)
(* displayed by the system when it comes; a poll of the timer shows a row  *)
(* it finds by a local notification, and only these are counted here.      *)
(* Dart runs one thing at a time and gives way only at an await, so a      *)
(* step of a task is what the provider does from one await to the next;    *)
(* the tasks in flight (timer polls, polls started by a push message,      *)
(* reloads, taps) interleave.                                              *)
(*                                                                         *)
(* The specification is named InboxSpec: PositionsProofs extends this       *)
(* module together with Positions, whose posts the rows tell of.           *)
(***************************************************************************)
EXTENDS Naturals, FiniteSets, FiniteSetsExt

CONSTANTS
  Ids,          \* ids of the user's rows, the later the larger
  Approvals,    \* those that say that a post was granted
  Tasks,        \* slots for the requests in flight
  PageSize,     \* LIMIT of ListNotifications
  MaxTaps,      \* actions of the user
  MaxFailures   \* requests that fail or lose their answer

ASSUME InboxAssumption ==
  /\ Ids \subseteq Nat \ {0} /\ IsFiniteSet(Ids)
  /\ Approvals \subseteq Ids
  /\ PageSize \in Nat \ {0} /\ MaxTaps \in Nat /\ MaxFailures \in Nat

VARIABLES
  rows,         \* user_notifications on the server
  fcm,          \* the push message of each row
  phase,        \* how far startPolling came
  list,         \* NotificationsProvider.notifications: id to isRead
  unreadCount,
  badge,        \* the counter drawn when listeners were last notified
  shownIds,
  appliedRoles,
  pushes,       \* local notifications shown per row
  profile,      \* the granted posts AuthProvider.user knows of
  task,
  taps, failures

inboxVars == <<rows, fcm, phase, list, unreadCount, badge, shownIds, appliedRoles,
               pushes, profile, task, taps, failures>>
screen == <<list, unreadCount, badge>>
marks == <<shownIds, appliedRoles, pushes>>

-----------------------------------------------------------------------------
Answers == UNION {[S -> BOOLEAN] : S \in SUBSET Ids}
Nothing == [n \in {} |-> FALSE]
Unread(answer) == {n \in DOMAIN answer : ~answer[n]}

Written == {n \in Ids : rows[n] # "none"}
\* ORDER BY created_at DESC LIMIT PageSize
Page == [n \in {m \in Written : Cardinality({k \in Written : k > m}) < PageSize}
           |-> rows[n] = "read"]
Granted == Approvals \cap Written

Kinds == {"initial", "poll", "pushPoll", "load", "readAll", "readOne"}
Polls == {"poll", "pushPoll"}
Idle == [kind |-> "none", pc |-> "idle", id |-> 0, raw |-> Nothing, me |-> {},
         hasNew |-> FALSE, refresh |-> FALSE]
Request(kind, id) == [Idle EXCEPT !.kind = kind, !.pc = "sent", !.id = id]

InboxInit ==
  /\ rows = [n \in Ids |-> "none"] /\ fcm = [n \in Ids |-> "none"]
  /\ phase = "starting" /\ list = Nothing /\ unreadCount = 0 /\ badge = 0
  /\ shownIds = {} /\ appliedRoles = {} /\ pushes = [n \in Ids |-> 0]
  /\ profile = {} /\ task = [t \in Tasks |-> Idle] /\ taps = 0 /\ failures = 0

-----------------------------------------------------------------------------
(* The server *)

\* The row is written first, the push message after it.
CreateNotification(n) ==
  /\ rows[n] = "none"
  /\ rows' = [rows EXCEPT ![n] = "unread"]
  /\ UNCHANGED <<fcm, phase, screen, marks, profile, task, taps, failures>>

SendFcm(n) ==
  /\ rows[n] # "none" /\ fcm[n] = "none"
  /\ fcm' = [fcm EXCEPT ![n] = "sent"]
  /\ UNCHANGED <<rows, phase, screen, marks, profile, task, taps, failures>>

\* Lost on the way, or cancelled with the context of the request that sends it.
LoseFcm(n) ==
  /\ fcm[n] = "sent"
  /\ fcm' = [fcm EXCEPT ![n] = "lost"]
  /\ UNCHANGED <<rows, phase, screen, marks, profile, task, taps, failures>>

Serve(t) ==
  /\ task[t].pc = "sent"
  /\ \/ /\ task[t].kind \in Polls \cup {"initial", "load"}
        /\ task' = [task EXCEPT ![t].pc = "answered", ![t].raw = Page]
        /\ UNCHANGED rows
     \/ /\ task[t].kind \in {"readAll", "readOne"}
        /\ rows' = [n \in Ids |-> IF rows[n] = "unread"
                                     /\ (task[t].kind = "readAll" \/ n = task[t].id)
                                  THEN "read" ELSE rows[n]]
        /\ task' = [task EXCEPT ![t].pc = "answered"]
  /\ UNCHANGED <<fcm, phase, screen, marks, profile, taps, failures>>

ServeMe(t) ==
  /\ task[t].pc = "refreshing"
  /\ task' = [task EXCEPT ![t].pc = "refreshed", ![t].me = Granted]
  /\ UNCHANGED <<rows, fcm, phase, screen, marks, profile, taps, failures>>

-----------------------------------------------------------------------------
(* What starts a request of the phone *)

\* The local notifications and the permission are there, onMessage is listened
\* to; the token of the phone is asked for next.
Listen ==
  /\ phase = "starting" /\ phase' = "listening"
  /\ UNCHANGED <<rows, fcm, screen, marks, profile, task, taps, failures>>

\* An exception of the platform leaves startPolling, before onMessage is listened
\* to ("deaf") or after: there is no first load and no timer.
InitThrows ==
  /\ \/ phase = "starting" /\ phase' = "deaf"
     \/ phase = "listening" /\ phase' = "pushOnly"
  /\ UNCHANGED <<rows, fcm, screen, marks, profile, task, taps, failures>>

StartPolling(t) ==
  /\ phase = "listening" /\ task[t] = Idle
  /\ phase' = "loading"
  /\ task' = [task EXCEPT ![t] = Request("initial", 0)]
  /\ UNCHANGED <<rows, fcm, screen, marks, profile, taps, failures>>

\* Timer.periodic does not wait for the poll before it.
TimerFires(t) ==
  /\ phase = "polling" /\ task[t] = Idle
  /\ task' = [task EXCEPT ![t] = Request("poll", 0)]
  /\ UNCHANGED <<rows, fcm, phase, screen, marks, profile, taps, failures>>

\* onMessage is listened to before the first load.
FcmArrives(n, t) ==
  /\ phase \notin {"starting", "deaf"}
  /\ fcm[n] = "sent" /\ task[t] = Idle
  /\ fcm' = [fcm EXCEPT ![n] = "delivered"]
  /\ task' = [task EXCEPT ![t] = Request("pushPoll", 0)]
  /\ UNCHANGED <<rows, phase, screen, marks, profile, taps, failures>>

Tap(t, request) ==
  /\ taps < MaxTaps /\ task[t] = Idle
  /\ task' = [task EXCEPT ![t] = request] /\ taps' = taps + 1
  /\ UNCHANGED <<rows, fcm, phase, marks, profile, failures>>

Load(t) ==
  /\ Tap(t, Request("load", 0))
  /\ badge' = unreadCount /\ UNCHANGED <<list, unreadCount>>

MarkAllRead(t) == badge > 0 /\ Tap(t, Request("readAll", 0)) /\ UNCHANGED screen

MarkOneRead(t, n) ==
  n \in DOMAIN list /\ Tap(t, Request("readOne", n)) /\ UNCHANGED screen

-----------------------------------------------------------------------------
(* What the phone does with an answer *)

Show(answer, notify) ==
  /\ list' = answer
  /\ unreadCount' = Cardinality(Unread(answer))
  /\ badge' = IF notify THEN unreadCount' ELSE badge

\* Mutant: the loads do not note what they list.
ReceiveListUnnoted(t) ==
  /\ task[t].pc = "answered" /\ task[t].kind \in {"initial", "load"}
  /\ Show(task[t].raw, TRUE)
  /\ phase' = IF task[t].kind = "initial" THEN "polling" ELSE phase
  /\ task' = [task EXCEPT ![t] = Idle]
  /\ UNCHANGED <<rows, fcm, marks, profile, taps, failures>>

ReceiveList(t) ==
  /\ task[t].pc = "answered" /\ task[t].kind \in {"initial", "load"}
  /\ shownIds' = shownIds \cup DOMAIN task[t].raw
  /\ Show(task[t].raw, TRUE)
  /\ phase' = IF task[t].kind = "initial" THEN "polling" ELSE phase
  /\ task' = [task EXCEPT ![t] = Idle]
  /\ UNCHANGED <<rows, fcm, appliedRoles, pushes, profile, taps, failures>>

ReceiveAllRead(t) ==
  /\ task[t].pc = "answered" /\ task[t].kind = "readAll"
  /\ Show([n \in DOMAIN list |-> TRUE], TRUE)
  /\ task' = [task EXCEPT ![t] = Idle]
  /\ UNCHANGED <<rows, fcm, phase, marks, profile, taps, failures>>

\* Mutant: marking does not ask whether the row is listed as unread.
ReceiveOneReadUnchecked(t) ==
  /\ task[t].pc = "answered" /\ task[t].kind = "readOne"
  /\ list' = [n \in DOMAIN list |-> list[n] \/ n = task[t].id]
  /\ unreadCount' = unreadCount - 1 /\ badge' = unreadCount'
  /\ task' = [task EXCEPT ![t] = Idle]
  /\ UNCHANGED <<rows, fcm, phase, marks, profile, taps, failures>>

ReceiveOneRead(t) ==
  /\ task[t].pc = "answered" /\ task[t].kind = "readOne"
  /\ IF task[t].id \in Unread(list)
     THEN /\ list' = [list EXCEPT ![task[t].id] = TRUE]
          /\ unreadCount' = IF unreadCount > 0 THEN unreadCount - 1 ELSE 0
          /\ badge' = unreadCount'
     ELSE UNCHANGED screen
  /\ task' = [task EXCEPT ![t] = Idle]
  /\ UNCHANGED <<rows, fcm, phase, marks, profile, taps, failures>>

\* The loop of _poll.  It gives way when it shows a notification: a task in
\* "showing" resumes at the row it showed.
Looping(t) == task[t].kind \in Polls /\ task[t].pc \in {"answered", "showing"}
Rest(t) == {n \in DOMAIN task[t].raw : task[t].pc = "showing" => n <= task[t].id}
\* Mutant: the row is noted after its notification was shown, not before.
FreshUnnoted(t) ==
  {n \in Rest(t) \cap Unread(task[t].raw) :
     n \notin shownIds \/ \E u \in Tasks \ {t} : task[u].pc = "showing" /\ task[u].id = n}

Fresh(t) == {n \in Rest(t) \cap Unread(task[t].raw) : n \notin shownIds}
Roles(t, from) == (from \cap Unread(task[t].raw) \cap Approvals) \ appliedRoles

ShowNext(t) ==
  /\ Looping(t) /\ task[t].kind = "poll" /\ Fresh(t) # {}
  /\ LET next == Max(Fresh(t))
         roles == Roles(t, {n \in Rest(t) : n > next})
     IN /\ shownIds' = shownIds \cup {next}
        /\ pushes' = [pushes EXCEPT ![next] = @ + 1]
        /\ appliedRoles' = appliedRoles \cup roles
        /\ task' = [task EXCEPT ![t].pc = "showing", ![t].id = next, ![t].hasNew = TRUE,
                                ![t].refresh = @ \/ roles # {}]
  /\ UNCHANGED <<rows, fcm, phase, screen, profile, taps, failures>>

\* The rest of the loop shows nothing; then the profile, then the list.
FinishLoop(t) ==
  /\ Looping(t) /\ (task[t].kind = "poll" => Fresh(t) = {})
  /\ LET roles == Roles(t, Rest(t))
         hasNew == task[t].hasNew \/ Fresh(t) # {}
     IN /\ shownIds' = shownIds \cup Fresh(t)
        /\ appliedRoles' = appliedRoles \cup roles
        /\ IF task[t].refresh \/ roles # {}
           THEN /\ task' = [task EXCEPT ![t].pc = "refreshing", ![t].hasNew = hasNew,
                                        ![t].refresh = TRUE]
                /\ UNCHANGED screen
           ELSE /\ task' = [task EXCEPT ![t] = Idle]
                /\ Show(task[t].raw, hasNew)
  /\ UNCHANGED <<rows, fcm, phase, pushes, profile, taps, failures>>

RefreshDone(t) ==
  /\ task[t].pc = "refreshed"
  /\ profile' = task[t].me
  /\ Show(task[t].raw, TRUE)
  /\ task' = [task EXCEPT ![t] = Idle]
  /\ UNCHANGED <<rows, fcm, phase, marks, taps, failures>>

\* Mutant: the failure of the first load escapes startPolling too.
FailEscapes(t) ==
  /\ failures < MaxFailures /\ failures' = failures + 1
  /\ \/ /\ task[t].pc \in {"sent", "answered"}
        /\ UNCHANGED screen
     \/ /\ task[t].pc \in {"refreshing", "refreshed"}
        /\ Show(task[t].raw, TRUE)
  /\ task' = [task EXCEPT ![t] = Idle]
  /\ UNCHANGED <<rows, fcm, phase, marks, profile, taps>>

\* A request fails, or its answer does not come in time.  Every handler catches
\* it; refreshProfile swallows it and the poll goes on.
RequestFails(t) ==
  /\ failures < MaxFailures /\ failures' = failures + 1
  /\ \/ /\ task[t].pc \in {"sent", "answered"}
        /\ badge' = IF task[t].kind = "load" THEN unreadCount ELSE badge
        /\ UNCHANGED <<list, unreadCount>>
     \/ /\ task[t].pc \in {"refreshing", "refreshed"}
        /\ Show(task[t].raw, TRUE)
  /\ phase' = IF task[t].kind = "initial" THEN "polling" ELSE phase
  /\ task' = [task EXCEPT ![t] = Idle]
  /\ UNCHANGED <<rows, fcm, marks, profile, taps>>

-----------------------------------------------------------------------------
TaskStep(t) ==
  \/ Serve(t) \/ ServeMe(t) \/ ReceiveList(t) \/ ReceiveAllRead(t) \/ ReceiveOneRead(t)
  \/ ShowNext(t) \/ FinishLoop(t) \/ RefreshDone(t)

InboxNext ==
  \/ \E n \in Ids : CreateNotification(n) \/ SendFcm(n) \/ LoseFcm(n)
  \/ Listen \/ InitThrows
  \/ \E t \in Tasks :
       \/ StartPolling(t) \/ TimerFires(t) \/ Load(t) \/ MarkAllRead(t)
       \/ \E n \in Ids : FcmArrives(n, t) \/ MarkOneRead(t, n)
       \/ TaskStep(t) \/ RequestFails(t)

\* The timer keeps firing once it was created, and every request is answered or
\* times out.  Nothing says that the platform's part of startPolling ends.
Fairness ==
  /\ \A t \in Tasks : WF_inboxVars(TaskStep(t))
  /\ WF_inboxVars(\E t \in Tasks : TimerFires(t))

InboxSpec == InboxInit /\ [][InboxNext]_inboxVars /\ Fairness

-----------------------------------------------------------------------------
InboxTypeOK ==
  /\ rows \in [Ids -> {"none", "unread", "read"}]
  /\ fcm \in [Ids -> {"none", "sent", "delivered", "lost"}]
  /\ phase \in {"starting", "listening", "loading", "polling", "deaf", "pushOnly"}
  /\ list \in Answers /\ unreadCount \in 0..Cardinality(Ids) /\ badge \in 0..Cardinality(Ids)
  /\ shownIds \subseteq Ids /\ appliedRoles \subseteq Approvals
  /\ pushes \in [Ids -> Nat] /\ profile \subseteq Approvals
  /\ task \in [Tasks -> [kind : Kinds \cup {"none"},
                         pc : {"idle", "sent", "answered", "showing", "refreshing", "refreshed"},
                         id : Ids \cup {0}, raw : Answers, me : SUBSET Approvals,
                         hasNew : BOOLEAN, refresh : BOOLEAN]]
  /\ taps \in 0..MaxTaps /\ failures \in 0..MaxFailures

\* The counter and the list are assigned by four handlers that interleave at
\* their awaits; they must agree between any two steps.
CountMatchesList == unreadCount = Cardinality(Unread(list))

\* However many polls overlap, the phone shows a row at most once by a local
\* notification.  (The system's display of its push message comes on top when a
\* poll of the timer has found the row first.)
ShownLocallyOnce == \A n \in Ids : pushes[n] <= 1

\* An unread row on the screen is known: no later poll announces it as new.
ListedIsKnown == Unread(list) \subseteq shownIds

\* Polls that overlap may answer out of order and a failed one changes nothing,
\* but once the user stops the list becomes what the server has, for good,
\* provided that startPolling came as far as the first load, even if that fails.
\* After an exception of the push initialisation no poll of the timer ever runs.
ListSettles == <>(phase = "loading") => <>[](list = Page)
==============================================================================
