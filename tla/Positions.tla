------------------------------- MODULE Positions -------------------------------
(***************************************************************************)
(* Who holds which post: the unit post in users, the headquarters posts in *)
(* hq_staff, and the requests that change them.  A user signs up with a    *)
(* post, moves to another at once or asks for a review, or asks for a      *)
(* headquarters post; an administrator reviews the request, and its user   *)
(* is told (service_patch.go RequestPositionChange, ReviewPositionRequest, *)
(* ReviewHQStaffRequest and the repository calls they make).  The reviews  *)
(* are single transactions that lock the request's row and the user's row  *)
(* with their first statements, so each is one step; the second reading of *)
(* the row and the notification are steps of their own, and so is every    *)
(* statement outside a transaction.                                        *)
(***************************************************************************)
EXTENDS Naturals, Sequences, FiniteSets

CONSTANTS
  Users, Units, HQs,
  Posts,        \* unit positions
  Leaders,      \* those of them with codes commander, commissioner, master
  HQPosts,      \* headquarters positions
  UniqueHQPosts, \* commander, commissioner and engineer of a headquarters
  Changes,      \* ids of position_change_requests
  Reviews,      \* reviews by administrators, each served once
  NoUnit,
  SignUpPlaces, \* bound: the places users sign up with; any place in the code
  MaxAsks,      \* bound on the requests of all users
  DbMayFail     \* TRUE if a statement may fail or lose its answer

ASSUME PositionsAssumption ==
  /\ IsFiniteSet(Users)
  /\ "none" \notin HQPosts /\ {"none", "absent"} \cap Posts = {}
  /\ Leaders \subseteq Posts
  /\ UniqueHQPosts \subseteq HQPosts
  /\ NoUnit \notin Units
  /\ Changes \cap (Users \X HQs) = {}
  /\ SignUpPlaces \subseteq [post : Posts \cup {"none"}, unit : Units \cup {NoUnit}]
  /\ MaxAsks \in Nat
  /\ DbMayFail \in BOOLEAN

VARIABLES
  place,    \* users.unit_position_id and unit_id
  staff,    \* hq_staff, one row per user and headquarters
  change,   \* position_change_requests
  history,  \* user_position_history, in the order of the commits
  review,   \* the reviews in flight
  mover,    \* a move at once, between its two statements
  told,     \* what each request's user was notified of last
  unrecorded, \* who moved at once since the history last had a row about him
  asks      \* requests of users so far

vars == <<place, staff, change, history, review, mover, told, unrecorded, asks>>

-----------------------------------------------------------------------------
StaffKeys == Users \X HQs
Requests == Changes \cup StaffKeys

(* Both columns may be NULL; Absent is who has not signed up.               *)
Place == [post : Posts \cup {"none"}, unit : Units \cup {NoUnit}]
NoPlace == [post |-> "none", unit |-> NoUnit]
Absent == [post |-> "absent", unit |-> NoUnit]

NoStaff == [status |-> "none", post |-> "none"]
StaffRow == [status : {"pending", "approved", "rejected"}, post : HQPosts]

NoChange == [status |-> "none", user |-> "none", post |-> "none", unit |-> NoUnit]
ChangeRow == [status : {"pending", "approved", "rejected"}, user : Users,
              post : Posts, unit : Units \cup {NoUnit}]

HistoryRow == [user : Users, old : Place, new : Place, req : Requests]

(* A review carries the request's id and the verdict; after its second      *)
(* reading of the row, also the post it is going to name.                   *)
NoReview == [pc |-> "idle", req |-> <<>>, ok |-> FALSE, named |-> "none"]
Finished == [pc |-> "done", req |-> <<>>, ok |-> FALSE, named |-> "none"]
ReviewRow == [pc : {"open", "notify", "tell"}, req : Requests, ok : BOOLEAN,
              named : Posts \cup HQPosts \cup {"none"}]

NotTold == [result |-> "none", post |-> "none"]
Message == [result : {"approved", "rejected"}, post : Posts \cup HQPosts]

TypeOK ==
  /\ place \in [Users -> Place \cup {Absent}]
  /\ staff \in [StaffKeys -> StaffRow \cup {NoStaff}]
  /\ change \in [Changes -> ChangeRow \cup {NoChange}]
  /\ history \in Seq(HistoryRow)
  /\ review \in [Reviews -> ReviewRow \cup {NoReview, Finished}]
  /\ mover \in [Users -> {"idle", "moved"}]
  /\ told \in [Requests -> Message \cup {NotTold}]
  /\ unrecorded \subseteq Users
  /\ asks \in Nat

(* The rows under idx_users_unique_unit_leader_positions: who has no unit   *)
(* is not under it.                                                         *)
LedBy(p) == {u \in Users : place[u] = p /\ p.post \in Leaders /\ p.unit # NoUnit}

Init ==
  /\ place = [u \in Users |-> Absent]
  /\ staff = [k \in StaffKeys |-> NoStaff]
  /\ change = [c \in Changes |-> NoChange]
  /\ history = <<>>
  /\ review = [r \in Reviews |-> NoReview]
  /\ mover = [u \in Users |-> "idle"]
  /\ told = [q \in Requests |-> NotTold]
  /\ unrecorded = {}
  /\ asks = 0

-----------------------------------------------------------------------------
(* The user's side.                                                         *)
\* Mutant: no unique index on leading posts.
NeverRefused(u, p) == FALSE

LeadRefused(u, p) == LedBy(p) \ {u} # {}

(* CreateUser stores the post and the unit it is given, a leading one too.  *)
SignUp(u, p) ==
  /\ place[u] = Absent
  /\ ~LeadRefused(u, p)
  /\ place' = [place EXCEPT ![u] = p]
  /\ UNCHANGED <<staff, change, history, review, mover, told, unrecorded, asks>>

(* A request of a user; all of them together are bounded.                  *)
Ask == asks < MaxAsks /\ asks' = asks + 1

Pending(u) == {c \in Changes : change[c].user = u /\ change[c].status = "pending"}
Unused == {c \in Changes : change[c] = NoChange}

(* CreatePositionChangeRequest: the pending row of the user is rewritten,   *)
(* otherwise a row is inserted.                                             *)
RowsTo(u) == IF Pending(u) # {} THEN Pending(u) ELSE Unused

(* Whether a request waits for a review follows from the position_code it   *)
(* sends; the post that is stored is another field, its position_id.  The   *)
(* app sends both of one post, the server compares them nowhere, so a post  *)
(* of either kind can go either way.                                        *)
AskReview(u, p, n) ==
  /\ place[u] # Absent /\ Ask
  /\ \E c \in RowsTo(u) :
       change' = [change EXCEPT ![c] = [status |-> "pending", user |-> u, post |-> p, unit |-> n]]
  /\ UNCHANGED <<place, staff, history, review, mover, told, unrecorded>>

\* Mutant: new_unit_id without COALESCE.
MovedToAsked(u, p, n) == [post |-> p, unit |-> n]

MovedTo(u, p, n) == [post |-> p, unit |-> IF n = NoUnit THEN place[u].unit ELSE n]

(* UpdateUserPosition: the index may refuse it, and its answer may be lost. *)
MoveAtOnce(u, p, n) ==
  /\ place[u] # Absent /\ Ask
  /\ mover[u] = "idle"
  /\ ~LeadRefused(u, MovedTo(u, p, n))
  /\ place' = [place EXCEPT ![u] = MovedTo(u, p, n)]
  /\ unrecorded' = unrecorded \cup {u}
  /\ mover' = [mover EXCEPT ![u] = "moved"] \/ (DbMayFail /\ UNCHANGED mover)
  /\ UNCHANGED <<staff, change, history, review, told>>

(* DeactivateHQStaff; its error is dropped.                                 *)
DeactivateHQStaff(u) ==
  /\ mover[u] = "moved"
  /\ \/ staff' = [k \in StaffKeys |->
           IF k[1] = u /\ staff[k].status = "approved"
           THEN [staff[k] EXCEPT !.status = "rejected"] ELSE staff[k]]
     \/ DbMayFail /\ UNCHANGED staff
  /\ mover' = [mover EXCEPT ![u] = "idle"]
  /\ UNCHANGED <<place, change, history, review, told, unrecorded, asks>>

(* CreateHQStaffRequest: an approved row becomes pending again.             *)
AskHQ(u, h, p) ==
  /\ place[u] # Absent /\ Ask
  /\ staff' = [staff EXCEPT ![<<u, h>>] = [status |-> "pending", post |-> p]]
  /\ UNCHANGED <<place, change, history, review, mover, told, unrecorded>>

-----------------------------------------------------------------------------
(* The administrator's side: a review is started from the list of pending   *)
(* requests or from a notification, old or new, and reaches the server      *)
(* later.  Neither review asks whether the request is still pending.        *)
Made ==
  {c \in Changes : change[c] # NoChange} \cup {k \in StaffKeys : staff[k] # NoStaff}

Open(r, q, ok) ==
  /\ review[r] = NoReview
  /\ review' = [review EXCEPT ![r] = [pc |-> "open", req |-> q, ok |-> ok, named |-> "none"]]
  /\ UNCHANGED <<place, staff, change, history, mover, told, unrecorded, asks>>

Req(r) == review[r].req
Status(r) == IF review[r].ok THEN "approved" ELSE "rejected"

Finish(r) == review' = [review EXCEPT ![r] = Finished]

(* The service goes on to notify the user; after a commit whose answer was  *)
(* lost it returns at once.                                                 *)
Decided(r) == review' = [review EXCEPT ![r].pc = "notify"] \/ (DbMayFail /\ Finish(r))

(* new_unit_position_id, COALESCE(new_unit_id, unit_id).                    *)
NewPlace(c) == MovedTo(change[c].user, change[c].post, change[c].unit)

\* Mutant: the history takes the user's row before the UPDATE for the new one.
RecordedLate(c) == Append(history,
  [user |-> change[c].user, old |-> place[change[c].user],
   new |-> place[change[c].user], req |-> c])

(* The INSERT reads the user after the UPDATE of the same transaction: old  *)
(* and new are both the new place.                                          *)
Recorded(c) == Append(history,
  [user |-> change[c].user, old |-> NewPlace(c), new |-> NewPlace(c), req |-> c])

ReviewChange(r) ==
  /\ review[r].pc = "open"
  /\ Req(r) \in Changes
  /\ LET c == Req(r)
         u == change[c].user
     IN IF review[r].ok
        THEN IF LeadRefused(u, NewPlace(c))
             THEN Finish(r) /\ UNCHANGED <<place, change, history, unrecorded>>
             ELSE /\ place' = [place EXCEPT ![u] = NewPlace(c)]
                  /\ history' = Recorded(c)
                  /\ change' = [change EXCEPT ![c].status = "approved"]
                  /\ unrecorded' = unrecorded \ {u}
                  /\ Decided(r)
        ELSE /\ change' = [change EXCEPT ![c].status = "rejected"]
             /\ Decided(r)
             /\ UNCHANGED <<place, history, unrecorded>>
  /\ UNCHANGED <<staff, mover, told, asks>>

(* idx_hq_staff_unique_leader_positions.                                    *)
SeatRefused(k, p) ==
  /\ p \in UniqueHQPosts
  /\ \E j \in StaffKeys \ {k} :
       j[2] = k[2] /\ staff[j] = [status |-> "approved", post |-> p]

ReviewHQStaff(r) ==
  /\ review[r].pc = "open"
  /\ Req(r) \in StaffKeys
  /\ LET k == Req(r) IN
       IF review[r].ok /\ SeatRefused(k, staff[k].post)
       THEN Finish(r) /\ UNCHANGED <<staff, history>>
       ELSE /\ staff' = [staff EXCEPT ![k].status = Status(r)]
            /\ history' = IF review[r].ok
                          THEN Append(history, [user |-> k[1], old |-> place[k[1]],
                                                new |-> NoPlace, req |-> k])
                          ELSE history
            /\ Decided(r)
  /\ UNCHANGED <<place, change, mover, told, unrecorded, asks>>

(* A statement fails and the transaction is rolled back.                    *)
ReviewFails(r) ==
  /\ DbMayFail
  /\ review[r].pc = "open"
  /\ Finish(r)
  /\ UNCHANGED <<place, staff, change, history, mover, told, unrecorded, asks>>

(* The post that the request's row asks for now.                            *)
PostOf(q) == IF q \in Changes THEN change[q].post ELSE staff[q].post

\* Mutant: the user is told before the transaction runs.
RereadAnytime(r) ==
  /\ review[r].pc \in {"open", "notify"}
  /\ review' = [review EXCEPT ![r].pc = "tell", ![r].named = PostOf(Req(r))]
  /\ UNCHANGED <<place, staff, change, history, mover, told, unrecorded, asks>>

(* After the commit the service reads the row again, as it is by then, to   *)
(* find whom to tell and the post to name; if that fails it tells nobody.   *)
Reread(r) ==
  /\ review[r].pc = "notify"
  /\ \/ review' = [review EXCEPT ![r].pc = "tell", ![r].named = PostOf(Req(r))]
     \/ DbMayFail /\ Finish(r)
  /\ UNCHANGED <<place, staff, change, history, mover, told, unrecorded, asks>>

(* CreateNotification for the user, of the reviewer's verdict and the post  *)
(* read last; its error is dropped.                                         *)
Tell(r) ==
  /\ review[r].pc = "tell"
  /\ \/ told' = [told EXCEPT ![Req(r)] = [result |-> Status(r), post |-> review[r].named]]
     \/ DbMayFail /\ UNCHANGED told
  /\ Finish(r)
  /\ UNCHANGED <<place, staff, change, history, mover, unrecorded, asks>>

-----------------------------------------------------------------------------
UserStep(u) ==
  \/ \E p \in SignUpPlaces : SignUp(u, p)
  \/ \E p \in Posts, n \in Units \cup {NoUnit} : AskReview(u, p, n) \/ MoveAtOnce(u, p, n)
  \/ DeactivateHQStaff(u)
  \/ \E h \in HQs, p \in HQPosts : AskHQ(u, h, p)

ReviewStep(r) ==
  \/ \E q \in Made, ok \in BOOLEAN : Open(r, q, ok)
  \/ ReviewChange(r) \/ ReviewHQStaff(r) \/ ReviewFails(r)
  \/ Reread(r) \/ Tell(r)

Next == (\E u \in Users : UserStep(u)) \/ (\E r \in Reviews : ReviewStep(r))

Spec == Init /\ [][Next]_vars

-----------------------------------------------------------------------------
(* A unit has one commander, one commissioner and one master, and a         *)
(* headquarters one holder of each unique post, although users sign up for  *)
(* the same post, move to it and have it approved all at once (021).        *)
OneHolder ==
  /\ \A p \in Place : Cardinality(LedBy(p)) <= 1
  /\ \A h \in HQs, p \in UniqueHQPosts :
       Cardinality({u \in Users : staff[<<u, h>>] = [status |-> "approved", post |-> p]}) <= 1

(* The last row of the history about a user's place in a unit names the     *)
(* place he has, whatever was asked, approved twice, rejected or failed     *)
(* since then; only a move at once is not in the history.                   *)
UnitRows(u) == {i \in DOMAIN history : history[i].user = u /\ history[i].req \in Changes}

HistoryExplainsPlaces ==
  \A u \in Users \ unrecorded :
    UnitRows(u) # {} =>
      \E i \in UnitRows(u) :
        (\A j \in UnitRows(u) : j <= i) /\ history[i].new = place[u]

(* The requests, reviews and notifications keep the register of posts: what *)
(* the history records is what its user asked for and got, from a request   *)
(* as it was last rewritten; nothing else is recorded; and a unique post    *)
(* changes hands only while nobody else holds it, however many reviews of   *)
(* old and new requests run and fail.                                       *)
Asked == {[user |-> change[c].user, post |-> change[c].post, unit |-> change[c].unit] :
            c \in {d \in Changes : change[d] # NoChange}}
Seating == [k \in StaffKeys |->
              [post |-> staff[k].post,
               state |-> IF staff[k].status = "approved" THEN "held" ELSE "asked"]]
Recording == [i \in DOMAIN history |-> [user |-> history[i].user, new |-> history[i].new]]

Register == INSTANCE PostRegister WITH asked <- Asked, seat <- Seating, record <- Recording

ImplementsRegister == Register!Spec

(* Nobody is told of an approval that did not commit, and who is told that  *)
(* his post in a unit has changed is told the post that was approved,       *)
(* although the message is made from the row as it is after the commit and  *)
(* a new request may have rewritten rows by then.  (A message about a       *)
(* headquarters post may name one asked for since.)                         *)
ToldOnlyCommitted ==
  \A q \in Requests : told[q].result = "approved" =>
    \E i \in DOMAIN history :
      history[i].req = q /\ (q \in Changes => history[i].new.post = told[q].post)
=============================================================================
