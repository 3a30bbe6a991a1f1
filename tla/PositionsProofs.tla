---------------------------- MODULE PositionsProofs ----------------------------
(***************************************************************************)
(* Proofs about Positions for any number of users, units, headquarters,    *)
(* requests and reviews: its invariants, and that it implements the        *)
(* register of posts, PostRegister.  And proofs about Inbox, where the     *)
(* users are told of their posts, for any rows, tasks, taps and failures.  *)
(***************************************************************************)
EXTENDS Positions, Inbox, SequenceTheorems, FiniteSetTheorems, TLAPS

(* Only who has signed up asks for anything.                                *)
Askers ==
  /\ \A c \in Changes : change[c] # NoChange => place[change[c].user] # Absent
  /\ \A k \in StaffKeys : staff[k] # NoStaff => place[k[1]] # Absent

(* A review is about a request that was made.                               *)
InReview(r) == review[r].pc \in {"open", "notify", "tell"}
ReviewsMade == \A r \in Reviews : InReview(r) => Req(r) \in Made

(* A request the history knows is not pending, so nothing rewrites it: it   *)
(* goes on asking for its user and the post that was granted.               *)
GrantedAsAsked ==
  \A i \in DOMAIN history : history[i].req \in Changes =>
    /\ change[history[i].req] # NoChange /\ change[history[i].req].status # "pending"
    /\ history[i].user = change[history[i].req].user
    /\ history[i].new.post = change[history[i].req].post

(* The user is notified of an approval after its transaction has recorded   *)
(* it, and of the post in the request's row.                                *)
CommittedBeforeTold ==
  \A r \in Reviews :
    /\ review[r].pc \in {"notify", "tell"} /\ review[r].ok =>
         \E i \in DOMAIN history : history[i].req = Req(r)
    /\ review[r].pc = "tell" /\ review[r].ok /\ Req(r) \in Changes =>
         review[r].named = change[Req(r)].post
    /\ review[r].pc = "tell" => review[r].named \in Posts \cup HQPosts

(* OneHolder without counting.                                              *)
OneLeader == \A p \in Place : \A u, v \in LedBy(p) : u = v

HoldersOf(h, p) == {u \in Users : staff[<<u, h>>] = [status |-> "approved", post |-> p]}
OneInSeat == \A h \in HQs, p \in UniqueHQPosts : \A u, v \in HoldersOf(h, p) : u = v

IInv ==
  /\ TypeOK
  /\ Askers /\ ReviewsMade /\ GrantedAsAsked /\ CommittedBeforeTold
  /\ OneLeader /\ OneInSeat
  /\ HistoryExplainsPlaces
  /\ ToldOnlyCommitted

-----------------------------------------------------------------------------
(* Lemmas about the operators.                                              *)

LEMMA AtMostOne ==
  ASSUME NEW S, IsFiniteSet(S)
  PROVE  Cardinality(S) <= 1 <=> \A x, y \in S : x = y
<1>1. ASSUME Cardinality(S) <= 1, NEW x \in S, NEW y \in S PROVE x = y
  <2>1. SUFFICES ASSUME x # y PROVE FALSE
    OBVIOUS
  <2>2. /\ Cardinality(S) \in Nat
        /\ IsFiniteSet(S \ {x}) /\ Cardinality(S \ {x}) = Cardinality(S) - 1
    BY FS_CardinalityType, FS_RemoveElement
  <2>3. Cardinality(S \ {x}) = 0 /\ y \in S \ {x}
    BY <1>1, <2>1, <2>2, FS_EmptySet
  <2> QED
    BY <2>2, <2>3, FS_EmptySet
<1>2. ASSUME \A x, y \in S : x = y PROVE Cardinality(S) <= 1
  <2>1. CASE S = {}
    BY <2>1, FS_EmptySet
  <2>2. CASE S # {}
    <3>1. PICK x \in S : S = {x}
      BY <1>2, <2>2
    <3> QED
      BY <3>1, FS_Singleton
  <2> QED
    BY <2>1, <2>2
<1> QED
  BY <1>1, <1>2

LEMMA OneHolderUncounted == OneHolder <=> OneLeader /\ OneInSeat
<1>1. \A p : IsFiniteSet(LedBy(p))
  BY PositionsAssumption, FS_Subset DEF LedBy
<1>2. \A h, p : IsFiniteSet(HoldersOf(h, p))
  BY PositionsAssumption, FS_Subset DEF HoldersOf
<1>3. (\A p \in Place : Cardinality(LedBy(p)) <= 1) <=> OneLeader
  BY <1>1, AtMostOne DEF OneLeader
<1>4. (\A h \in HQs, p \in UniqueHQPosts : Cardinality(HoldersOf(h, p)) <= 1) <=> OneInSeat
  BY <1>2, AtMostOne DEF OneInSeat
<1> QED
  BY <1>3, <1>4 DEF OneHolder, HoldersOf

LEMMA AbsentIsNoPlace == Absent \notin Place
  BY PositionsAssumption DEF Absent, Place

(* Who names no unit stays in his own: the new place is a place.            *)
LEMMA MovedToType ==
  ASSUME TypeOK, NEW u \in Users, place[u] # Absent, NEW p \in Posts, NEW n \in Units \cup {NoUnit}
  PROVE  MovedTo(u, p, n) \in Place /\ MovedTo(u, p, n).post = p
  BY DEF MovedTo, TypeOK, Place

(* A request that has been made is that of a user, for a place.             *)
LEMMA ChangeMade ==
  ASSUME TypeOK, Askers, NEW c \in Changes, change[c] # NoChange
  PROVE  /\ change[c] \in ChangeRow
         /\ change[c].user \in Users /\ place[change[c].user] # Absent
         /\ NewPlace(c) \in Place
         /\ NewPlace(c).post = change[c].post
<1>1. change[c] \in ChangeRow
  BY DEF TypeOK
<1>2. change[c].user \in Users /\ place[change[c].user] # Absent
      /\ change[c].post \in Posts /\ change[c].unit \in Units \cup {NoUnit}
  BY <1>1 DEF ChangeRow, Askers
<1> QED
  BY <1>1, <1>2, MovedToType DEF NewPlace

(* What a review that is under way reviews.                                 *)
LEMMA OpenReview ==
  ASSUME IInv, NEW r \in Reviews, InReview(r)
  PROVE  /\ review[r] \in ReviewRow
         /\ Req(r) \in Requests
         /\ Req(r) \in Changes => change[Req(r)] # NoChange
         /\ Req(r) \in StaffKeys => staff[Req(r)] # NoStaff
<1>1. review[r] \in ReviewRow
  BY DEF IInv, TypeOK, NoReview, Finished, InReview
<1>2. Req(r) \in Made
  BY DEF IInv, ReviewsMade
<1> QED
  BY <1>1, <1>2, PositionsAssumption DEF Req, Made, Requests, StaffKeys

(* The end of a review's transaction touches that review only.              *)
LEMMA ReviewMoves ==
  ASSUME TypeOK, NEW r \in Reviews, review[r] \in ReviewRow, Decided(r) \/ Finish(r)
  PROVE  /\ review' \in [Reviews -> ReviewRow \cup {NoReview, Finished}]
         /\ \A s \in Reviews \ {r} : review'[s] = review[s]
         /\ \/ /\ review'[r].pc = "notify" /\ Decided(r)
               /\ review'[r].req = review[r].req /\ review'[r].ok = review[r].ok
            \/ review'[r].pc = "done"
<1>1. CASE Finish(r)
  BY <1>1 DEF Finish, Finished, TypeOK
<1>2. CASE review' = [review EXCEPT ![r].pc = "notify"]
  <2>1. review' = [review EXCEPT ![r] = [review[r] EXCEPT !.pc = "notify"]]
    BY <1>2
  <2>2. /\ [review[r] EXCEPT !.pc = "notify"] \in ReviewRow
        /\ [review[r] EXCEPT !.pc = "notify"].pc = "notify"
        /\ [review[r] EXCEPT !.pc = "notify"].req = review[r].req
        /\ [review[r] EXCEPT !.pc = "notify"].ok = review[r].ok
    BY DEF ReviewRow
  <2> QED
    BY <1>2, <2>1, <2>2 DEF TypeOK, Decided
<1> QED
  BY <1>1, <1>2 DEF Decided

LEMMA HistoryGrows ==
  ASSUME NEW h \in Seq(HistoryRow), NEW row \in HistoryRow
  PROVE  /\ Append(h, row) \in Seq(HistoryRow)
         /\ DOMAIN Append(h, row) = DOMAIN h \cup {Len(h) + 1}
         /\ Append(h, row)[Len(h) + 1] = row
         /\ \A i \in DOMAIN h : Append(h, row)[i] = h[i] /\ i <= Len(h) /\ i \in Nat
  OBVIOUS

-----------------------------------------------------------------------------
(* The invariant holds at first, and after every step.                      *)

LEMMA InitInv == Init => IInv
<1> SUFFICES ASSUME Init PROVE IInv
  OBVIOUS
<1>1. TypeOK
  BY DEF Init, TypeOK
<1>2. Askers /\ ReviewsMade /\ GrantedAsAsked /\ CommittedBeforeTold
  BY DEF Init, Askers, ReviewsMade, InReview, GrantedAsAsked, CommittedBeforeTold, NoReview
<1>3. OneLeader
  BY AbsentIsNoPlace DEF Init, OneLeader, LedBy
<1>4. OneInSeat
  BY DEF Init, OneInSeat, HoldersOf, NoStaff, StaffKeys
<1>5. HistoryExplainsPlaces /\ ToldOnlyCommitted
  BY DEF Init, HistoryExplainsPlaces, UnitRows, ToldOnlyCommitted, NotTold
<1> QED
  BY <1>1, <1>2, <1>3, <1>4, <1>5 DEF IInv

(* A user can come to a place if nobody else leads it.                      *)
LEMMA OneLeaderStays ==
  ASSUME TypeOK, OneLeader, NEW u \in Users, NEW p \in Place,
         ~LeadRefused(u, p), place' = [place EXCEPT ![u] = p]
  PROVE  OneLeader'
<1>1. \A v \in Users : place'[v] = IF v = u THEN p ELSE place[v]
  BY DEF TypeOK
<1>2. ASSUME NEW q \in Place, NEW v \in LedBy(q)', NEW w \in LedBy(q)' PROVE v = w
  <2>1. CASE q = p
    BY <1>1, <1>2, <2>1 DEF LedBy, LeadRefused
  <2>2. CASE q # p
    BY <1>1, <1>2, <2>2 DEF LedBy, OneLeader
  <2> QED
    BY <2>1, <2>2
<1> QED
  BY <1>2 DEF OneLeader

(* Signing up and moving at once change a place that the history does not   *)
(* speak of, or not any more.                                               *)
LEMMA PlaceStepInv ==
  ASSUME IInv, NEW u \in Users, NEW p \in Place, ~LeadRefused(u, p),
         place' = [place EXCEPT ![u] = p],
         UnitRows(u) = {} \/ u \in unrecorded',
         unrecorded \subseteq unrecorded' /\ unrecorded' \subseteq Users,
         mover' \in [Users -> {"idle", "moved"}],
         asks' \in Nat,
         UNCHANGED <<staff, change, history, review, told>>
  PROVE  IInv'
<1>1. \A v \in Users : place'[v] = IF v = u THEN p ELSE place[v]
  BY DEF IInv, TypeOK
<1>2. TypeOK'
  BY <1>1 DEF IInv, TypeOK
<1>3. Askers'
  <2>1. \A c \in Changes : change[c] # NoChange => change[c].user \in Users
    BY ChangeMade DEF IInv
  <2>2. \A k \in StaffKeys : k[1] \in Users
    BY DEF StaffKeys
  <2>3. \A v \in Users : place[v] # Absent => place'[v] # Absent
    BY <1>1, AbsentIsNoPlace
  <2> QED
    BY <2>1, <2>2, <2>3 DEF IInv, Askers
<1>4. ReviewsMade' /\ GrantedAsAsked' /\ CommittedBeforeTold' /\ ToldOnlyCommitted' /\ OneInSeat'
  BY DEF IInv, ReviewsMade, InReview, Made, Req, GrantedAsAsked, CommittedBeforeTold,
         ToldOnlyCommitted, OneInSeat, HoldersOf
<1>5. OneLeader'
  BY OneLeaderStays DEF IInv
<1>6. HistoryExplainsPlaces'
  <2>1. \A v \in Users : UnitRows(v)' = UnitRows(v)
    BY DEF UnitRows
  <2> QED
    BY <1>1, <2>1 DEF IInv, HistoryExplainsPlaces
<1> QED
  BY <1>2, <1>3, <1>4, <1>5, <1>6 DEF IInv

(* The history has no row about who has not signed up.                      *)
LEMMA SignUpInv ==
  ASSUME IInv, NEW u \in Users, NEW p \in SignUpPlaces, SignUp(u, p) PROVE IInv'
<1>1. p \in Place
  BY PositionsAssumption DEF Place
<1>2. /\ place[u] = Absent /\ ~LeadRefused(u, p)
      /\ place' = [place EXCEPT ![u] = p]
      /\ UNCHANGED <<staff, change, history, review, mover, told, unrecorded, asks>>
  BY DEF SignUp
<1>3. UnitRows(u) = {}
  BY <1>2 DEF UnitRows, IInv, GrantedAsAsked, Askers
<1> QED
  BY <1>1, <1>2, <1>3, PlaceStepInv DEF IInv, TypeOK

LEMMA MoveAtOnceInv ==
  ASSUME IInv, NEW u \in Users, NEW p \in Posts, NEW n \in Units \cup {NoUnit},
         MoveAtOnce(u, p, n)
  PROVE  IInv'
<1>1. /\ place[u] # Absent /\ ~LeadRefused(u, MovedTo(u, p, n))
      /\ place' = [place EXCEPT ![u] = MovedTo(u, p, n)]
      /\ unrecorded' = unrecorded \cup {u}
      /\ mover' = [mover EXCEPT ![u] = "moved"] \/ UNCHANGED mover
      /\ asks' = asks + 1
      /\ UNCHANGED <<staff, change, history, review, told>>
  BY DEF MoveAtOnce, Ask
<1>2. MovedTo(u, p, n) \in Place
  BY <1>1, MovedToType DEF IInv
<1>3. /\ mover' \in [Users -> {"idle", "moved"}] /\ asks' \in Nat
      /\ unrecorded' \subseteq Users /\ unrecorded \subseteq unrecorded' /\ u \in unrecorded'
  BY <1>1 DEF IInv, TypeOK
<1> QED
  BY <1>1, <1>2, <1>3, PlaceStepInv

(* A new request rewrites none that the history knows.                      *)
LEMMA AskReviewInv ==
  ASSUME IInv, NEW u \in Users, NEW p \in Posts, NEW n \in Units \cup {NoUnit},
         AskReview(u, p, n)
  PROVE  IInv'
<1> DEFINE row == [status |-> "pending", user |-> u, post |-> p, unit |-> n]
<1>1. PICK c \in RowsTo(u) : change' = [change EXCEPT ![c] = row]
  BY DEF AskReview
<1>2. /\ c \in Changes /\ place[u] # Absent /\ asks' = asks + 1
      /\ change[c] = NoChange \/ change[c].status = "pending"
      /\ UNCHANGED <<place, staff, history, review, mover, told, unrecorded>>
  BY DEF AskReview, Ask, RowsTo, Pending, Unused
<1>3. row \in ChangeRow /\ row # NoChange
  BY DEF ChangeRow, NoChange
<1>4. change' \in [Changes -> ChangeRow \cup {NoChange}]
      /\ \A d \in Changes : change'[d] = IF d = c THEN row ELSE change[d]
  BY <1>1, <1>2, <1>3 DEF IInv, TypeOK
<1>5. TypeOK'
  BY <1>2, <1>4 DEF IInv, TypeOK
<1>6. Askers' /\ ReviewsMade'
  BY <1>2, <1>3, <1>4 DEF IInv, Askers, ReviewsMade, InReview, Req, Made
<1>7. \A i \in DOMAIN history : history[i].req # c
  BY <1>2 DEF IInv, GrantedAsAsked
<1>8. GrantedAsAsked'
  BY <1>2, <1>4, <1>7 DEF IInv, GrantedAsAsked
<1>9. CommittedBeforeTold'
  BY <1>2, <1>4, <1>7 DEF IInv, CommittedBeforeTold, Req
<1>10. OneLeader' /\ OneInSeat' /\ HistoryExplainsPlaces' /\ ToldOnlyCommitted'
  BY <1>2 DEF IInv, OneLeader, LedBy, OneInSeat, HoldersOf, HistoryExplainsPlaces, UnitRows,
              ToldOnlyCommitted
<1> QED
  BY <1>5, <1>6, <1>8, <1>9, <1>10 DEF IInv

(* A seat can be lost, and asked for again, without a second holder.        *)
LEMMA StaffStepInv ==
  ASSUME IInv, staff' \in [StaffKeys -> StaffRow \cup {NoStaff}],
         UNCHANGED <<place, change, history, review, told, unrecorded>>,
         mover' \in [Users -> {"idle", "moved"}], asks' \in Nat,
         \A k \in StaffKeys :
           /\ staff[k] # NoStaff => staff'[k] # NoStaff
           /\ staff'[k] # NoStaff => staff[k] # NoStaff \/ place[k[1]] # Absent
           /\ staff'[k].status = "approved" => staff'[k] = staff[k]
  PROVE  IInv'
<1>1. TypeOK' /\ Askers'
  BY DEF IInv, TypeOK, Askers
<1>2. ReviewsMade' /\ GrantedAsAsked' /\ CommittedBeforeTold' /\ ToldOnlyCommitted'
  BY DEF IInv, ReviewsMade, InReview, Req, Made, GrantedAsAsked, CommittedBeforeTold,
         ToldOnlyCommitted
<1>3. OneLeader' /\ HistoryExplainsPlaces'
  BY DEF IInv, OneLeader, LedBy, HistoryExplainsPlaces, UnitRows
<1>4. OneInSeat'
  <2>1. ASSUME NEW h \in HQs, NEW p, NEW u \in HoldersOf(h, p)' PROVE u \in HoldersOf(h, p)
    BY <2>1 DEF HoldersOf, StaffKeys
  <2> QED
    BY <2>1 DEF IInv, OneInSeat
<1> QED
  BY <1>1, <1>2, <1>3, <1>4 DEF IInv

LEMMA DeactivateHQStaffInv ==
  ASSUME IInv, NEW u \in Users, DeactivateHQStaff(u) PROVE IInv'
<1>1. UNCHANGED <<place, change, history, review, told, unrecorded, asks>>
      /\ mover' \in [Users -> {"idle", "moved"}] /\ asks' \in Nat
  BY DEF DeactivateHQStaff, IInv, TypeOK
<1>2. CASE UNCHANGED staff
  BY <1>1, <1>2, StaffStepInv DEF IInv, TypeOK
<1>3. CASE staff' = [k \in StaffKeys |->
             IF k[1] = u /\ staff[k].status = "approved"
             THEN [staff[k] EXCEPT !.status = "rejected"] ELSE staff[k]]
  <2>1. ASSUME NEW k \in StaffKeys, staff[k].status = "approved"
        PROVE  /\ [staff[k] EXCEPT !.status = "rejected"] \in StaffRow
               /\ [staff[k] EXCEPT !.status = "rejected"].status = "rejected"
               /\ staff[k] # NoStaff
    BY <2>1 DEF IInv, TypeOK, StaffRow, NoStaff
  <2>2. staff' \in [StaffKeys -> StaffRow \cup {NoStaff}]
    BY <1>3, <2>1 DEF IInv, TypeOK
  <2>3. ASSUME NEW k \in StaffKeys
        PROVE  /\ staff[k] # NoStaff => staff'[k] # NoStaff
               /\ staff'[k] # NoStaff => staff[k] # NoStaff
               /\ staff'[k].status = "approved" => staff'[k] = staff[k]
    BY <1>3, <2>1 DEF NoStaff
  <2> QED
    BY <1>1, <2>2, <2>3, StaffStepInv
<1> QED
  BY <1>2, <1>3 DEF DeactivateHQStaff

LEMMA AskHQInv ==
  ASSUME IInv, NEW u \in Users, NEW h \in HQs, NEW p \in HQPosts, AskHQ(u, h, p) PROVE IInv'
<1>1. /\ place[u] # Absent /\ asks' = asks + 1
      /\ staff' = [staff EXCEPT ![<<u, h>>] = [status |-> "pending", post |-> p]]
      /\ UNCHANGED <<place, change, history, review, mover, told, unrecorded>>
  BY DEF AskHQ, Ask
<1>2. <<u, h>> \in StaffKeys /\ [status |-> "pending", post |-> p] \in StaffRow
  BY DEF StaffKeys, StaffRow
<1>3. staff' \in [StaffKeys -> StaffRow \cup {NoStaff}]
      /\ \A k \in StaffKeys :
           staff'[k] = IF k = <<u, h>> THEN [status |-> "pending", post |-> p] ELSE staff[k]
  BY <1>1, <1>2 DEF IInv, TypeOK
<1> QED
  BY <1>1, <1>2, <1>3, StaffStepInv DEF IInv, TypeOK, NoStaff

-----------------------------------------------------------------------------
(* A review that fails leaves the tables alone.                             *)
LEMMA FailedReviewInv ==
  ASSUME IInv, NEW r \in Reviews, Finish(r),
         UNCHANGED <<place, staff, change, history, mover, told, unrecorded, asks>>
  PROVE  IInv'
<1>1. /\ review' \in [Reviews -> ReviewRow \cup {NoReview, Finished}]
      /\ review'[r].pc = "done"
      /\ \A s \in Reviews \ {r} : review'[s] = review[s]
  BY DEF Finish, Finished, IInv, TypeOK
<1>2. TypeOK' /\ Askers'
  BY <1>1 DEF IInv, TypeOK, Askers
<1>3. ReviewsMade' /\ CommittedBeforeTold'
  BY <1>1 DEF IInv, ReviewsMade, InReview, Made, CommittedBeforeTold, Req
<1>4. GrantedAsAsked' /\ OneLeader' /\ OneInSeat' /\ HistoryExplainsPlaces' /\ ToldOnlyCommitted'
  BY DEF IInv, GrantedAsAsked, OneLeader, LedBy, OneInSeat, HoldersOf, HistoryExplainsPlaces,
         UnitRows, ToldOnlyCommitted
<1> QED
  BY <1>2, <1>3, <1>4 DEF IInv

(* What the two kinds of reviews have in common: nothing is said yet, and   *)
(* a review goes on to say yes only if the history has got its row.         *)
LEMMA CommittedReview ==
  ASSUME IInv, NEW r \in Reviews, review[r].pc = "open", Decided(r),
         UNCHANGED told,
         Made' = Made,
         \A c \in Changes : change[c] # NoChange => change'[c].post = change[c].post,
         \A i \in DOMAIN history : i \in DOMAIN history' /\ history'[i] = history[i],
         review[r].ok => \E i \in DOMAIN history' : history'[i].req = Req(r)
  PROVE  /\ review' \in [Reviews -> ReviewRow \cup {NoReview, Finished}]
         /\ ReviewsMade' /\ CommittedBeforeTold' /\ ToldOnlyCommitted'
<1>1. InReview(r) /\ review[r] \in ReviewRow
  BY OpenReview DEF InReview
<1>2. /\ review' \in [Reviews -> ReviewRow \cup {NoReview, Finished}]
      /\ \A s \in Reviews \ {r} : review'[s] = review[s]
      /\ \/ /\ review'[r].pc = "notify"
            /\ review'[r].req = review[r].req /\ review'[r].ok = review[r].ok
         \/ review'[r].pc = "done"
  BY <1>1, ReviewMoves DEF IInv
<1>3. ReviewsMade'
  BY <1>1, <1>2 DEF IInv, ReviewsMade, InReview, Req
<1>4. CommittedBeforeTold'
  <2>1. ASSUME NEW s \in Reviews, s # r, InReview(s), Req(s) \in Changes
        PROVE  change'[Req(s)].post = change[Req(s)].post
    BY <2>1, OpenReview
  <2>2. ASSUME NEW s \in Reviews \ {r}
        PROVE  /\ review'[s].pc \in {"notify", "tell"} /\ review'[s].ok =>
                    \E i \in DOMAIN history' : history'[i].req = Req(s)'
               /\ review'[s].pc = "tell" /\ review'[s].ok /\ Req(s)' \in Changes =>
                    review'[s].named = change'[Req(s)'].post
               /\ review'[s].pc = "tell" => review'[s].named \in Posts \cup HQPosts
    <3>1. review'[s] = review[s] /\ Req(s)' = Req(s)
      BY <1>2 DEF Req
    <3>2. review[s].pc \in {"notify", "tell"} /\ review[s].ok =>
            \E i \in DOMAIN history' : history'[i].req = Req(s)
      BY DEF IInv, CommittedBeforeTold
    <3>3. review[s].pc = "tell" /\ review[s].ok /\ Req(s) \in Changes =>
            review[s].named = change'[Req(s)].post
      BY <2>1 DEF IInv, CommittedBeforeTold, InReview
    <3>4. review[s].pc = "tell" => review[s].named \in Posts \cup HQPosts
      BY DEF IInv, CommittedBeforeTold
    <3> QED
      BY <3>1, <3>2, <3>3, <3>4
  <2>3. /\ review'[r].pc # "tell"
        /\ review'[r].pc = "notify" /\ review'[r].ok =>
             \E i \in DOMAIN history' : history'[i].req = Req(r)'
    BY <1>2 DEF Req
  <2> QED
    BY <2>2, <2>3 DEF CommittedBeforeTold
<1>5. ToldOnlyCommitted'
  BY DEF IInv, ToldOnlyCommitted
<1> QED
  BY <1>2, <1>3, <1>4, <1>5

(* The history row and the place of an approved change go together, and the *)
(* index on leading posts refuses a second leader.                          *)
LEMMA ApproveChangeInv ==
  ASSUME IInv, NEW r \in Reviews, NEW c \in Changes,
         review[r].pc = "open", Req(r) = c,
         ~LeadRefused(change[c].user, NewPlace(c)),
         place' = [place EXCEPT ![change[c].user] = NewPlace(c)],
         history' = Recorded(c),
         change' = [change EXCEPT ![c].status = "approved"],
         unrecorded' = unrecorded \ {change[c].user},
         Decided(r),
         UNCHANGED <<staff, mover, told, asks>>
  PROVE  IInv'
<1>1. /\ change[c] # NoChange /\ change[c] \in ChangeRow
      /\ change[c].user \in Users /\ NewPlace(c) \in Place /\ NewPlace(c).post = change[c].post
  BY OpenReview, ChangeMade DEF IInv, InReview
<1> DEFINE u == change[c].user
           row == [user |-> u, old |-> NewPlace(c), new |-> NewPlace(c), req |-> c]
<1>2. row \in HistoryRow
  BY <1>1 DEF HistoryRow, Requests
<1>3. history \in Seq(HistoryRow) /\ history' = Append(history, row) /\ Len(history) \in Nat
  BY DEF IInv, TypeOK, Recorded
<1>4. /\ history' \in Seq(HistoryRow)
      /\ DOMAIN history' = DOMAIN history \cup {Len(history) + 1}
      /\ history'[Len(history) + 1] = row
      /\ \A i \in DOMAIN history : history'[i] = history[i] /\ i <= Len(history) /\ i \in Nat
  BY <1>2, <1>3, HistoryGrows
<1>5. /\ change' \in [Changes -> ChangeRow \cup {NoChange}]
      /\ \A d \in Changes \ {c} : change'[d] = change[d]
      /\ change'[c] # NoChange /\ change'[c].status = "approved"
      /\ change'[c].user = u /\ change'[c].post = change[c].post
  <2>1. change' = [change EXCEPT ![c] = [change[c] EXCEPT !.status = "approved"]]
    OBVIOUS
  <2>2. /\ [change[c] EXCEPT !.status = "approved"] \in ChangeRow
        /\ [change[c] EXCEPT !.status = "approved"].status = "approved"
        /\ [change[c] EXCEPT !.status = "approved"].user = u
        /\ [change[c] EXCEPT !.status = "approved"].post = change[c].post
    BY <1>1 DEF ChangeRow
  <2>3. NoChange \notin ChangeRow
    BY DEF ChangeRow, NoChange
  <2> QED
    BY <2>1, <2>2, <2>3 DEF IInv, TypeOK
<1>6. /\ review' \in [Reviews -> ReviewRow \cup {NoReview, Finished}]
      /\ ReviewsMade' /\ CommittedBeforeTold' /\ ToldOnlyCommitted'
  <2>1. Made' = Made
    BY <1>1, <1>5 DEF Made
  <2>2. \A d \in Changes : change[d] # NoChange => change'[d].post = change[d].post
    BY <1>5
  <2> QED
    BY <1>4, <2>1, <2>2, CommittedReview
<1>7. place' \in [Users -> Place \cup {Absent}]
      /\ \A v \in Users : place'[v] = IF v = u THEN NewPlace(c) ELSE place[v]
  BY <1>1 DEF IInv, TypeOK
<1>8. TypeOK'
  BY <1>4, <1>5, <1>6, <1>7 DEF IInv, TypeOK
<1>9. Askers'
  <2>1. \A v \in Users : place[v] # Absent => place'[v] # Absent
    BY <1>1, <1>7, AbsentIsNoPlace
  <2>2. \A d \in Changes : change'[d] # NoChange =>
          change[d] # NoChange /\ change'[d].user = change[d].user /\ change[d].user \in Users
    BY <1>1, <1>5, ChangeMade DEF IInv
  <2>3. \A k \in StaffKeys : k[1] \in Users
    BY DEF StaffKeys
  <2> QED
    BY <2>1, <2>2, <2>3 DEF IInv, Askers
<1>10. GrantedAsAsked'
  <2>1. ASSUME NEW i \in DOMAIN history, history[i].req \in Changes
        PROVE  /\ change'[history[i].req] # NoChange /\ change'[history[i].req].status # "pending"
               /\ history[i].user = change'[history[i].req].user
               /\ history[i].new.post = change'[history[i].req].post
    BY <1>5, <2>1 DEF IInv, GrantedAsAsked
  <2> QED
    BY <1>1, <1>4, <1>5, <2>1 DEF GrantedAsAsked
<1>11. OneLeader' /\ OneInSeat'
  <2>1. OneLeader'
    BY <1>1, OneLeaderStays DEF IInv
  <2>2. OneInSeat'
    BY DEF IInv, OneInSeat, HoldersOf
  <2> QED
    BY <2>1, <2>2
<1>12. HistoryExplainsPlaces'
  <2>1. /\ Len(history) + 1 \in UnitRows(u)'
        /\ \A i \in UnitRows(u)' : i <= Len(history) + 1
    BY <1>3, <1>4 DEF UnitRows
  <2>2. history'[Len(history) + 1].new = place'[u]
    BY <1>1, <1>4, <1>7
  <2>3. ASSUME NEW v \in Users, v # u PROVE UnitRows(v)' = UnitRows(v)
    BY <1>4, <2>3 DEF UnitRows
  <2>4. ASSUME NEW v \in Users \ unrecorded', v # u, UnitRows(v)' # {}
        PROVE  \E i \in UnitRows(v)' : (\A j \in UnitRows(v)' : j <= i) /\ history'[i].new = place'[v]
    <3>1. PICK i \in UnitRows(v) : (\A j \in UnitRows(v) : j <= i) /\ history[i].new = place[v]
      BY <2>3, <2>4 DEF IInv, HistoryExplainsPlaces
    <3>2. history'[i] = history[i]
      BY <1>4, <3>1 DEF UnitRows
    <3> QED
      BY <1>7, <2>3, <2>4, <3>1, <3>2
  <2> QED
    BY <2>1, <2>2, <2>4 DEF HistoryExplainsPlaces
<1> QED
  BY <1>6, <1>8, <1>9, <1>10, <1>11, <1>12 DEF IInv

LEMMA RejectChangeInv ==
  ASSUME IInv, NEW r \in Reviews, NEW c \in Changes,
         review[r].pc = "open", ~review[r].ok, Req(r) = c,
         change' = [change EXCEPT ![c].status = "rejected"],
         Decided(r),
         UNCHANGED <<place, history, staff, mover, told, unrecorded, asks>>
  PROVE  IInv'
<1>1. change[c] # NoChange /\ change[c] \in ChangeRow
  BY OpenReview, ChangeMade DEF IInv, InReview
<1>2. /\ change' \in [Changes -> ChangeRow \cup {NoChange}]
      /\ \A d \in Changes \ {c} : change'[d] = change[d]
      /\ change'[c] # NoChange /\ change'[c].status = "rejected"
      /\ change'[c].user = change[c].user /\ change'[c].post = change[c].post
  <2>1. change' = [change EXCEPT ![c] = [change[c] EXCEPT !.status = "rejected"]]
    OBVIOUS
  <2>2. /\ [change[c] EXCEPT !.status = "rejected"] \in ChangeRow
        /\ [change[c] EXCEPT !.status = "rejected"].status = "rejected"
        /\ [change[c] EXCEPT !.status = "rejected"].user = change[c].user
        /\ [change[c] EXCEPT !.status = "rejected"].post = change[c].post
    BY <1>1 DEF ChangeRow
  <2>3. NoChange \notin ChangeRow
    BY DEF ChangeRow, NoChange
  <2> QED
    BY <2>1, <2>2, <2>3 DEF IInv, TypeOK
<1>3. /\ review' \in [Reviews -> ReviewRow \cup {NoReview, Finished}]
      /\ ReviewsMade' /\ CommittedBeforeTold' /\ ToldOnlyCommitted'
  <2>1. Made' = Made
    BY <1>1, <1>2 DEF Made
  <2>2. \A d \in Changes : change[d] # NoChange => change'[d].post = change[d].post
    BY <1>2
  <2> QED
    BY <2>1, <2>2, CommittedReview
<1>4. TypeOK'
  BY <1>2, <1>3 DEF IInv, TypeOK
<1>5. Askers' /\ GrantedAsAsked'
  <2>1. \A d \in Changes : /\ change'[d] # NoChange <=> change[d] # NoChange
                           /\ change'[d].user = change[d].user /\ change'[d].post = change[d].post
                           /\ change'[d].status = "pending" => change[d].status = "pending"
    BY <1>1, <1>2
  <2> QED
    BY <2>1 DEF IInv, Askers, GrantedAsAsked
<1>6. OneLeader' /\ OneInSeat' /\ HistoryExplainsPlaces'
  BY DEF IInv, OneLeader, LedBy, OneInSeat, HoldersOf, HistoryExplainsPlaces, UnitRows
<1> QED
  BY <1>3, <1>4, <1>5, <1>6 DEF IInv

LEMMA ReviewChangeInv == ASSUME IInv, NEW r \in Reviews, ReviewChange(r) PROVE IInv'
<1>1. review[r].pc = "open" /\ Req(r) \in Changes /\ UNCHANGED <<staff, mover, told, asks>>
  BY DEF ReviewChange
<1>2. CASE review[r].ok /\ LeadRefused(change[Req(r)].user, NewPlace(Req(r)))
  BY <1>1, <1>2, FailedReviewInv DEF ReviewChange
<1>3. CASE review[r].ok /\ ~LeadRefused(change[Req(r)].user, NewPlace(Req(r)))
  BY <1>1, <1>3, ApproveChangeInv DEF ReviewChange
<1>4. CASE ~review[r].ok
  BY <1>1, <1>4, RejectChangeInv DEF ReviewChange
<1> QED
  BY <1>2, <1>3, <1>4

(* A headquarters review says nothing about places in units, and the index  *)
(* on unique posts refuses a second holder.                                 *)
LEMMA DecideHQStaffInv ==
  ASSUME IInv, NEW r \in Reviews, NEW k \in StaffKeys,
         review[r].pc = "open", Req(r) = k,
         ~(review[r].ok /\ SeatRefused(k, staff[k].post)),
         staff' = [staff EXCEPT ![k].status = Status(r)],
         history' = IF review[r].ok
                    THEN Append(history, [user |-> k[1], old |-> place[k[1]],
                                          new |-> NoPlace, req |-> k])
                    ELSE history,
         Decided(r),
         UNCHANGED <<place, change, mover, told, unrecorded, asks>>
  PROVE  IInv'
<1>1. staff[k] # NoStaff /\ staff[k] \in StaffRow
  BY OpenReview DEF IInv, TypeOK, InReview
<1> DEFINE row == [user |-> k[1], old |-> place[k[1]], new |-> NoPlace, req |-> k]
<1>2. row \in HistoryRow /\ history \in Seq(HistoryRow) /\ row.req \notin Changes
  <2>1. k[1] \in Users /\ place[k[1]] \in Place
    BY <1>1 DEF IInv, TypeOK, Askers, StaffKeys
  <2>2. NoPlace \in Place /\ k \in Requests /\ k \notin Changes
    BY PositionsAssumption DEF NoPlace, Place, Requests, StaffKeys
  <2> QED
    BY <2>1, <2>2 DEF HistoryRow, IInv, TypeOK
<1>3. /\ history' \in Seq(HistoryRow)
      /\ \A i \in DOMAIN history : i \in DOMAIN history' /\ history'[i] = history[i]
      /\ \A i \in DOMAIN history' \ DOMAIN history : history'[i].req \notin Changes
      /\ review[r].ok => \E i \in DOMAIN history' : history'[i].req = Req(r)
  <2>1. CASE review[r].ok
    <3>1. /\ Append(history, row) \in Seq(HistoryRow)
          /\ DOMAIN Append(history, row) = DOMAIN history \cup {Len(history) + 1}
          /\ Append(history, row)[Len(history) + 1] = row
          /\ \A i \in DOMAIN history : Append(history, row)[i] = history[i]
      BY <1>2, HistoryGrows
    <3> QED
      BY <1>2, <2>1, <3>1
  <2>2. CASE ~review[r].ok
    BY <1>2, <2>2
  <2> QED
    BY <2>1, <2>2
<1>4. /\ staff' \in [StaffKeys -> StaffRow \cup {NoStaff}]
      /\ \A j \in StaffKeys \ {k} : staff'[j] = staff[j]
      /\ staff'[k] # NoStaff /\ staff'[k].post = staff[k].post /\ staff'[k].status = Status(r)
  <2>1. [staff[k] EXCEPT !.status = Status(r)] \in StaffRow
    BY <1>1 DEF StaffRow, Status
  <2>2. staff' = [staff EXCEPT ![k] = [staff[k] EXCEPT !.status = Status(r)]]
    BY <1>1 DEF StaffRow
  <2>3. /\ [staff[k] EXCEPT !.status = Status(r)].status = Status(r)
        /\ [staff[k] EXCEPT !.status = Status(r)].post = staff[k].post
    BY <1>1 DEF StaffRow
  <2>4. NoStaff \notin StaffRow
    BY DEF NoStaff, StaffRow
  <2>5. staff \in [StaffKeys -> StaffRow \cup {NoStaff}]
    BY DEF IInv, TypeOK
  <2> QED
    BY <2>1, <2>2, <2>3, <2>4, <2>5
<1>5. /\ review' \in [Reviews -> ReviewRow \cup {NoReview, Finished}]
      /\ ReviewsMade' /\ CommittedBeforeTold' /\ ToldOnlyCommitted'
  <2>1. Made' = Made
    BY <1>1, <1>4 DEF Made
  <2> QED
    BY <1>3, <2>1, CommittedReview
<1>6. TypeOK' /\ Askers'
  BY <1>1, <1>3, <1>4, <1>5 DEF IInv, TypeOK, Askers
<1>7. GrantedAsAsked'
  BY <1>3 DEF IInv, GrantedAsAsked
<1>8. OneLeader'
  BY DEF IInv, OneLeader, LedBy
<1>9. OneInSeat'
  <2>1. ASSUME NEW h \in HQs, NEW p \in UniqueHQPosts,
               NEW v \in HoldersOf(h, p)', NEW w \in HoldersOf(h, p)'
        PROVE  v = w
    <3>1. ASSUME NEW x \in HoldersOf(h, p)', NEW y \in HoldersOf(h, p)', <<x, h>> = k PROVE x = y
      <4>1. review[r].ok /\ staff[k].post = p
        BY <1>4, <3>1 DEF HoldersOf, Status
      <4>2. ~SeatRefused(k, p)
        BY <4>1
      <4>3. <<y, h>> # k => staff[<<y, h>>] = [status |-> "approved", post |-> p] /\ <<y, h>> \in StaffKeys
        BY <1>4, <3>1 DEF HoldersOf, StaffKeys
      <4> QED
        BY <3>1, <4>2, <4>3 DEF SeatRefused
    <3>2. CASE <<v, h>> # k /\ <<w, h>> # k
      <4>1. v \in HoldersOf(h, p) /\ w \in HoldersOf(h, p)
        BY <1>4, <2>1, <3>2 DEF HoldersOf, StaffKeys
      <4> QED
        BY <4>1 DEF IInv, OneInSeat
    <3> QED
      BY <2>1, <3>1, <3>2
  <2> QED
    BY <2>1 DEF OneInSeat
<1>10. HistoryExplainsPlaces'
  <2>1. \A u \in Users : UnitRows(u)' = UnitRows(u)
    BY <1>3 DEF UnitRows
  <2>2. ASSUME NEW u \in Users \ unrecorded', UnitRows(u)' # {}
        PROVE  \E i \in UnitRows(u)' : (\A j \in UnitRows(u)' : j <= i) /\ history'[i].new = place'[u]
    <3>1. PICK i \in UnitRows(u) : (\A j \in UnitRows(u) : j <= i) /\ history[i].new = place[u]
      BY <2>1, <2>2 DEF IInv, HistoryExplainsPlaces
    <3>2. history'[i] = history[i]
      BY <1>3, <3>1 DEF UnitRows
    <3> QED
      BY <2>1, <3>1, <3>2
  <2> QED
    BY <2>2 DEF HistoryExplainsPlaces
<1> QED
  BY <1>5, <1>6, <1>7, <1>8, <1>9, <1>10 DEF IInv

LEMMA ReviewHQStaffInv == ASSUME IInv, NEW r \in Reviews, ReviewHQStaff(r) PROVE IInv'
<1>1. /\ review[r].pc = "open" /\ Req(r) \in StaffKeys
      /\ UNCHANGED <<place, change, mover, told, unrecorded, asks>>
  BY DEF ReviewHQStaff
<1>2. CASE review[r].ok /\ SeatRefused(Req(r), staff[Req(r)].post)
  BY <1>1, <1>2, FailedReviewInv DEF ReviewHQStaff
<1>3. CASE ~(review[r].ok /\ SeatRefused(Req(r), staff[Req(r)].post))
  <2>1. /\ staff' = [staff EXCEPT ![Req(r)].status = Status(r)]
        /\ history' = IF review[r].ok
                      THEN Append(history, [user |-> Req(r)[1], old |-> place[Req(r)[1]],
                                            new |-> NoPlace, req |-> Req(r)])
                      ELSE history
        /\ Decided(r)
    BY <1>3 DEF ReviewHQStaff
  <2> QED
    BY <1>1, <1>3, <2>1, DecideHQStaffInv
<1> QED
  BY <1>2, <1>3

(* A review may move on by itself as long as what it then says is so.       *)
LEMMA ReviewStepInv ==
  ASSUME IInv, NEW r \in Reviews, NEW row \in ReviewRow,
         review' = [review EXCEPT ![r] = row],
         row.req \in Made,
         row.pc \in {"notify", "tell"} /\ row.ok =>
           \E i \in DOMAIN history : history[i].req = row.req,
         row.pc = "tell" /\ row.ok /\ row.req \in Changes => row.named = change[row.req].post,
         row.pc = "tell" => row.named \in Posts \cup HQPosts,
         UNCHANGED <<place, staff, change, history, mover, told, unrecorded, asks>>
  PROVE  IInv'
<1>1. /\ review'[r] = row /\ \A s \in Reviews \ {r} : review'[s] = review[s]
      /\ review' \in [Reviews -> ReviewRow \cup {NoReview, Finished}]
  BY DEF IInv, TypeOK
<1>2. TypeOK' /\ Askers'
  BY <1>1 DEF IInv, TypeOK, Askers
<1>3. ReviewsMade' /\ CommittedBeforeTold'
  BY <1>1 DEF IInv, ReviewsMade, InReview, Made, CommittedBeforeTold, Req
<1>4. GrantedAsAsked' /\ OneLeader' /\ OneInSeat' /\ HistoryExplainsPlaces' /\ ToldOnlyCommitted'
  BY DEF IInv, GrantedAsAsked, OneLeader, LedBy, OneInSeat, HoldersOf, HistoryExplainsPlaces,
         UnitRows, ToldOnlyCommitted
<1> QED
  BY <1>2, <1>3, <1>4 DEF IInv

LEMMA OpenInv ==
  ASSUME IInv, NEW r \in Reviews, NEW q \in Made, NEW ok \in BOOLEAN, Open(r, q, ok)
  PROVE  IInv'
<1>1. [pc |-> "open", req |-> q, ok |-> ok, named |-> "none"] \in ReviewRow
  BY DEF ReviewRow, Made, Requests
<1> QED
  BY <1>1, ReviewStepInv DEF Open

LEMMA RereadInv == ASSUME IInv, NEW r \in Reviews, Reread(r) PROVE IInv'
<1>1. /\ review[r].pc = "notify"
      /\ UNCHANGED <<place, staff, change, history, mover, told, unrecorded, asks>>
  BY DEF Reread
<1>2. CASE Finish(r)
  BY <1>1, <1>2, FailedReviewInv
<1>3. CASE review' = [review EXCEPT ![r].pc = "tell", ![r].named = PostOf(Req(r))]
  <2>1. review[r] \in ReviewRow /\ Req(r) \in Made
    BY <1>1, OpenReview DEF InReview, IInv, ReviewsMade
  <2>2. PostOf(Req(r)) \in Posts \cup HQPosts
    BY <2>1, PositionsAssumption DEF PostOf, Made, IInv, TypeOK, ChangeRow, StaffRow, StaffKeys
  <2> DEFINE row == [review[r] EXCEPT !.pc = "tell", !.named = PostOf(Req(r))]
  <2>3. /\ row \in ReviewRow /\ row.pc = "tell" /\ row.req = Req(r) /\ row.ok = review[r].ok
        /\ row.named = PostOf(Req(r))
    BY <2>1, <2>2 DEF ReviewRow, Req
  <2>4. review' = [review EXCEPT ![r] = row]
    BY <1>3
  <2>5. review[r].ok => \E i \in DOMAIN history : history[i].req = Req(r)
    BY <1>1 DEF IInv, CommittedBeforeTold
  <2>6. Req(r) \in Changes => PostOf(Req(r)) = change[Req(r)].post
    BY DEF PostOf
  <2> HIDE DEF row
  <2> QED
    BY <1>1, <2>1, <2>2, <2>3, <2>4, <2>5, <2>6, ReviewStepInv
<1> QED
  BY <1>2, <1>3 DEF Reread

LEMMA TellInv == ASSUME IInv, NEW r \in Reviews, Tell(r) PROVE IInv'
<1>1. /\ review[r].pc = "tell" /\ Finish(r)
      /\ told' = [told EXCEPT ![Req(r)] = [result |-> Status(r), post |-> review[r].named]]
         \/ told' = told
      /\ UNCHANGED <<place, staff, change, history, mover, unrecorded, asks>>
  BY DEF Tell
<1>2. review[r] \in ReviewRow /\ Req(r) \in Requests /\ review[r].named \in Posts \cup HQPosts
  BY <1>1, OpenReview DEF InReview, IInv, CommittedBeforeTold
<1>3. /\ review' \in [Reviews -> ReviewRow \cup {NoReview, Finished}]
      /\ review'[r].pc = "done"
      /\ \A s \in Reviews \ {r} : review'[s] = review[s]
  BY <1>1 DEF Finish, Finished, IInv, TypeOK
<1>4. /\ told' \in [Requests -> Message \cup {NotTold}]
      /\ \A q \in Requests \ {Req(r)} : told'[q] = told[q]
      /\ \/ told'[Req(r)] = told[Req(r)]
         \/ told'[Req(r)] = [result |-> Status(r), post |-> review[r].named]
  <2>1. [result |-> Status(r), post |-> review[r].named] \in Message
    BY <1>2 DEF Message, Status
  <2> QED
    BY <1>1, <1>2, <2>1 DEF IInv, TypeOK
<1>5. TypeOK' /\ Askers'
  BY <1>1, <1>3, <1>4 DEF IInv, TypeOK, Askers
<1>6. ReviewsMade' /\ CommittedBeforeTold'
  BY <1>1, <1>3 DEF IInv, ReviewsMade, InReview, Made, CommittedBeforeTold, Req
<1>7. ToldOnlyCommitted'
  <2>1. ASSUME review[r].ok
        PROVE  \E i \in DOMAIN history :
                 /\ history[i].req = Req(r)
                 /\ Req(r) \in Changes => history[i].new.post = review[r].named
    <3>1. PICK i \in DOMAIN history : history[i].req = Req(r)
      BY <1>1, <2>1 DEF IInv, CommittedBeforeTold
    <3>2. Req(r) \in Changes => history[i].new.post = change[Req(r)].post
      BY <3>1 DEF IInv, GrantedAsAsked
    <3>3. Req(r) \in Changes => review[r].named = change[Req(r)].post
      BY <1>1, <2>1 DEF IInv, CommittedBeforeTold
    <3> QED
      BY <3>1, <3>2, <3>3
  <2>2. Status(r) = "approved" => review[r].ok
    BY DEF Status
  <2> QED
    BY <1>1, <1>4, <2>1, <2>2 DEF IInv, ToldOnlyCommitted
<1>8. GrantedAsAsked' /\ OneLeader' /\ OneInSeat' /\ HistoryExplainsPlaces'
  BY <1>1 DEF IInv, GrantedAsAsked, OneLeader, LedBy, OneInSeat, HoldersOf, HistoryExplainsPlaces,
         UnitRows
<1> QED
  BY <1>5, <1>6, <1>7, <1>8 DEF IInv

LEMMA NextInv == IInv /\ [Next]_vars => IInv'
<1> SUFFICES ASSUME IInv, [Next]_vars PROVE IInv'
  OBVIOUS
<1>1. ASSUME NEW u \in Users, UserStep(u) PROVE IInv'
  BY <1>1, SignUpInv, AskReviewInv, MoveAtOnceInv, DeactivateHQStaffInv, AskHQInv DEF UserStep
<1>2. ASSUME NEW r \in Reviews, ReviewStep(r) PROVE IInv'
  <2>1. CASE ReviewFails(r)
    BY <2>1, FailedReviewInv DEF ReviewFails
  <2> QED
    BY <1>2, <2>1, OpenInv, ReviewChangeInv, ReviewHQStaffInv, RereadInv, TellInv DEF ReviewStep
<1>3. CASE UNCHANGED vars
  BY <1>3 DEF vars, IInv, TypeOK, Askers, ReviewsMade, InReview, Made, GrantedAsAsked,
     CommittedBeforeTold, Req, OneLeader, LedBy, OneInSeat, HoldersOf, HistoryExplainsPlaces,
     UnitRows, ToldOnlyCommitted
<1> QED
  BY <1>1, <1>2, <1>3 DEF Next

(* Every reachable state is well typed.                                     *)
THEOREM TypeCorrect == Spec => []TypeOK
<1>1. IInv => TypeOK
  BY DEF IInv
<1> QED
  BY <1>1, InitInv, NextInv, PTL DEF Spec

(* However many users sign up for one post, move to it and have it approved *)
(* at once, a leading post and a unique headquarters post have one holder.  *)
THEOREM OneHolderHolds == Spec => []OneHolder
<1>1. IInv => OneHolder
  BY OneHolderUncounted DEF IInv
<1> QED
  BY <1>1, InitInv, NextInv, PTL DEF Spec

(* Unless a user moved at once since then, the last row of the history      *)
(* about his place in a unit names the place he has.                        *)
THEOREM HistoryExplainsPlacesHolds == Spec => []HistoryExplainsPlaces
<1>1. IInv => HistoryExplainsPlaces
  BY DEF IInv
<1> QED
  BY <1>1, InitInv, NextInv, PTL DEF Spec

(* Nobody is told of an approval the history does not have, or of another   *)
(* post in a unit than the one approved, although the row is read again.    *)
THEOREM ToldOnlyCommittedHolds == Spec => []ToldOnlyCommitted
<1>1. IInv => ToldOnlyCommitted
  BY DEF IInv
<1> QED
  BY <1>1, InitInv, NextInv, PTL DEF Spec

-----------------------------------------------------------------------------
(* The tables as the register of posts.  Requests count by what they ask    *)
(* for, whatever their status, seats by their post and whether they are     *)
(* held, and the history by who came where.                                 *)
WishOf(c) == [user |-> change[c].user, post |-> change[c].post, unit |-> change[c].unit]

LEMMA AskedOf == \A w : w \in Asked <=> \E c \in Changes : change[c] # NoChange /\ w = WishOf(c)
  BY DEF Asked, WishOf

LEMMA SameAsked ==
  ASSUME \A c \in Changes :
           /\ change'[c] = NoChange <=> change[c] = NoChange
           /\ change[c] # NoChange => WishOf(c)' = WishOf(c)
  PROVE  Asked' = Asked
<1>1. \A w : w \in Asked' <=> w \in Asked
  BY DEF Asked, WishOf
<1> QED
  BY <1>1

LEMMA SameSeating ==
  ASSUME \A k \in StaffKeys :
           /\ staff'[k].post = staff[k].post
           /\ staff'[k].status = "approved" <=> staff[k].status = "approved"
  PROVE  Seating' = Seating
  BY DEF Seating

Record(row) == [user |-> row.user, new |-> row.new]

LEMMA RecordingGrows ==
  ASSUME history \in Seq(HistoryRow), NEW row \in HistoryRow, history' = Append(history, row)
  PROVE  Recording' = Append(Recording, Record(row))
<1> DEFINE Rows == [user : Users, new : Place]
<1>1. /\ Len(history) \in Nat /\ DOMAIN history = 1 .. Len(history)
      /\ Len(history') = Len(history) + 1 /\ DOMAIN history' = 1 .. Len(history) + 1
      /\ \A i \in 1 .. Len(history) : history'[i] = history[i]
      /\ history'[Len(history) + 1] = row
      /\ history' \in Seq(HistoryRow)
  OBVIOUS
<1>2. /\ \A i \in 1 .. Len(history) : Record(history[i]) \in Rows
      /\ \A i \in 1 .. Len(history) + 1 : Record(history'[i]) \in Rows
  <2>1. \A x \in HistoryRow : Record(x) \in Rows
    BY DEF Record, HistoryRow
  <2>2. /\ \A i \in 1 .. Len(history) : history[i] \in HistoryRow
        /\ \A i \in 1 .. Len(history) + 1 : history'[i] \in HistoryRow
    BY <1>1
  <2> HIDE DEF Rows
  <2> QED
    BY <2>1, <2>2
<1>3. /\ Recording \in [1 .. Len(history) -> Rows]
      /\ \A i \in 1 .. Len(history) : Recording[i] = Record(history[i])
  BY <1>1, <1>2 DEF Recording, Record
<1>4. /\ Recording' \in [1 .. Len(history) + 1 -> Rows]
      /\ \A i \in 1 .. Len(history) + 1 : Recording'[i] = Record(history'[i])
  BY <1>1, <1>2 DEF Recording, Record
<1>5. Record(row) \in Rows
  BY DEF Record, HistoryRow
<1> HIDE DEF Rows
<1>6. ASSUME NEW n \in Nat, NEW s \in [1 .. n -> Rows] PROVE s \in Seq(Rows) /\ Len(s) = n
  BY SeqDef
<1>7. /\ Recording \in Seq(Rows) /\ Len(Recording) = Len(history)
      /\ Recording' \in Seq(Rows) /\ Len(Recording') = Len(history) + 1
  BY <1>1, <1>3, <1>4, <1>6
<1>8. /\ Append(Recording, Record(row)) \in Seq(Rows)
      /\ Len(Append(Recording, Record(row))) = Len(history) + 1
      /\ \A i \in 1 .. Len(history) : Append(Recording, Record(row))[i] = Recording[i]
      /\ Append(Recording, Record(row))[Len(history) + 1] = Record(row)
  BY <1>1, <1>5, <1>7, AppendProperties
<1>9. \A i \in 1 .. Len(Recording') : Recording'[i] = Append(Recording, Record(row))[i]
  BY <1>1, <1>3, <1>4, <1>7, <1>8
<1> QED
  BY <1>7, <1>8, <1>9, SeqEqual

LEMMA SameRecording == ASSUME UNCHANGED history PROVE UNCHANGED Recording
  BY DEF Recording

(* A place in the model is a place in the register, with the same leaders.  *)
LEMMA SamePlaces ==
  /\ Register!Place = Place /\ Register!Absent = Absent /\ Register!NoPlace = NoPlace
  /\ \A p : Register!Leading(p) = LedBy(p)
  BY DEF Register!Place, Place, Register!Absent, Absent, Register!NoPlace, NoPlace,
         Register!Leading, LedBy

(* Signing up and moving at once are not recorded.                          *)
LEMMA SignUpRegisters ==
  ASSUME IInv, NEW u \in Users, NEW p \in SignUpPlaces, SignUp(u, p) PROVE Register!Next
<1>1. /\ place[u] = Absent /\ place' = [place EXCEPT ![u] = p] /\ LedBy(p) \subseteq {u}
      /\ UNCHANGED <<staff, change, history>>
  BY DEF SignUp, LeadRefused
<1>2. Asked' = Asked /\ Seating' = Seating /\ Recording' = Recording
  BY <1>1, SameAsked, SameSeating, SameRecording DEF WishOf
<1>3. Register!Join(u, p)
  BY <1>1, <1>2, SamePlaces DEF Register!Join, Register!Settle
<1>4. p \in Register!Place
  BY SamePlaces, PositionsAssumption DEF Place
<1> QED
  BY <1>3, <1>4 DEF Register!Next

LEMMA MoveAtOnceRegisters ==
  ASSUME IInv, NEW u \in Users, NEW p \in Posts, NEW n \in Units \cup {NoUnit},
         MoveAtOnce(u, p, n)
  PROVE  Register!Next
<1>1. /\ place[u] # Absent /\ LedBy(MovedTo(u, p, n)) \subseteq {u}
      /\ place' = [place EXCEPT ![u] = MovedTo(u, p, n)]
      /\ UNCHANGED <<staff, change, history>>
  BY DEF MoveAtOnce, LeadRefused
<1>2. Asked' = Asked /\ Seating' = Seating /\ Recording' = Recording
  BY <1>1, SameAsked, SameSeating, SameRecording DEF WishOf
<1>3. Register!At(u, p, n) = MovedTo(u, p, n)
  BY DEF Register!At, MovedTo
<1>4. Register!Move(u, p, n)
  BY <1>1, <1>2, <1>3, SamePlaces DEF Register!Move, Register!Settle
<1> QED
  BY <1>4 DEF Register!Next

(* The pending row of the user that a new request rewrites takes its wish   *)
(* with it.                                                                 *)
LEMMA AskReviewRegisters ==
  ASSUME IInv, NEW u \in Users, NEW p \in Posts, NEW n \in Units \cup {NoUnit},
         AskReview(u, p, n)
  PROVE  Register!Next
<1>1. PICK c \in RowsTo(u) :
        change' = [change EXCEPT ![c] = [status |-> "pending", user |-> u, post |-> p, unit |-> n]]
  BY DEF AskReview
<1>2. c \in Changes /\ UNCHANGED <<place, staff, history>>
      /\ (change[c] # NoChange => change[c].user = u)
  BY DEF AskReview, RowsTo, Pending, Unused
<1> DEFINE w == [user |-> u, post |-> p, unit |-> n]
<1>3. /\ change'[c] # NoChange /\ WishOf(c)' = w
      /\ \A d \in Changes \ {c} : change'[d] = change[d] /\ WishOf(d)' = WishOf(d)
  BY <1>1, <1>2 DEF IInv, TypeOK, WishOf, NoChange
<1>4. \A x : x \in Asked' <=> \E d \in Changes : change'[d] # NoChange /\ x = WishOf(d)'
  BY DEF Asked, WishOf
<1>5. w \in Asked'
  BY <1>2, <1>3, <1>4
<1>6. Asked' \subseteq Asked \cup {w}
  BY <1>3, <1>4, AskedOf
<1>7. \A x \in Asked \ Asked' : x.user = u
  <2>1. ASSUME NEW x \in Asked, x \notin Asked' PROVE x.user = u
    <3>1. PICK d \in Changes : change[d] # NoChange /\ x = WishOf(d)
      BY AskedOf, <2>1
    <3>2. d = c
      BY <1>3, <1>4, <2>1, <3>1
    <3> QED
      BY <1>2, <3>1, <3>2 DEF WishOf
  <2> QED
    BY <2>1
<1>8. Seating' = Seating /\ Recording' = Recording
  BY <1>2, SameSeating, SameRecording
<1>9. w \in Register!Wish /\ w.user = u
  BY DEF Register!Wish
<1>10. Register!Ask(w)
  BY <1>2, <1>5, <1>6, <1>7, <1>8, <1>9 DEF Register!Ask
<1> QED
  BY <1>9, <1>10 DEF Register!Next

LEMMA AskHQRegisters ==
  ASSUME IInv, NEW u \in Users, NEW h \in HQs, NEW p \in HQPosts, AskHQ(u, h, p)
  PROVE  Register!Next
<1>1. /\ staff' = [staff EXCEPT ![<<u, h>>] = [status |-> "pending", post |-> p]]
      /\ UNCHANGED <<place, change, history>>
  BY DEF AskHQ
<1>2. Asked' = Asked /\ Recording' = Recording
  BY <1>1, SameAsked, SameRecording DEF WishOf
<1>3. Seating' = [Seating EXCEPT ![<<u, h>>] = [post |-> p, state |-> "asked"]]
  BY <1>1 DEF Seating, StaffKeys, IInv, TypeOK
<1>4. Register!AskSeat(<<u, h>>, p)
  BY <1>1, <1>2, <1>3 DEF Register!AskSeat
<1> QED
  BY <1>4 DEF Register!Next, Register!Seats

SeatAs(p, s) == [post |-> p, state |-> IF s = "approved" THEN "held" ELSE "asked"]

LEMMA SeatRecord ==
  ASSUME NEW k \in StaffKeys, NEW x
  PROVE  [Seating[k] EXCEPT !.state = x] = [post |-> staff[k].post, state |-> x]
<1>1. Seating[k] \in [post : {staff[k].post}, state : {"held", "asked"}]
  BY DEF Seating
<1> QED
  BY <1>1

(* Giving up seats, by the user's new ordinary post or by a refusal.        *)
LEMMA SeatsLost ==
  ASSUME NEW u \in Users, NEW hqs \in SUBSET HQs,
         UNCHANGED <<place, change, history>>,
         \A k \in StaffKeys :
           /\ staff'[k].post = staff[k].post
           /\ staff'[k].status = "approved" <=>
                staff[k].status = "approved" /\ ~(k[1] = u /\ k[2] \in hqs)
  PROVE  Register!Next
<1>1. Asked' = Asked /\ Recording' = Recording
  BY SameAsked, SameRecording DEF WishOf
<1>2. \A k \in StaffKeys :
        /\ Seating'[k] = SeatAs(staff[k].post, staff'[k].status)
        /\ Seating[k] = SeatAs(staff[k].post, staff[k].status)
  BY DEF Seating, SeatAs
<1>3. \A k \in StaffKeys :
        Seating'[k] = IF k[1] = u /\ k[2] \in hqs THEN [Seating[k] EXCEPT !.state = "asked"]
                                                  ELSE Seating[k]
  <2> SUFFICES ASSUME NEW k \in StaffKeys
               PROVE  Seating'[k] = IF k[1] = u /\ k[2] \in hqs
                                    THEN [Seating[k] EXCEPT !.state = "asked"] ELSE Seating[k]
    OBVIOUS
  <2>1. CASE k[1] = u /\ k[2] \in hqs
    <3>1. Seating'[k] = [post |-> staff[k].post, state |-> "asked"]
      BY <1>2, <2>1 DEF SeatAs
    <3>2. [Seating[k] EXCEPT !.state = "asked"] = [post |-> staff[k].post, state |-> "asked"]
      BY SeatRecord
    <3> QED
      BY <2>1, <3>1, <3>2, Zenon
  <2>2. CASE ~(k[1] = u /\ k[2] \in hqs)
    BY <1>2, <2>2 DEF SeatAs
  <2> QED
    BY <2>1, <2>2
<1>4. Seating' = [k \in StaffKeys |-> Seating'[k]]
  BY DEF Seating
<1>5. Register!LoseSeats(u, hqs)
  BY <1>1, <1>3, <1>4 DEF Register!LoseSeats, Register!Seats, StaffKeys
<1> QED
  BY <1>5 DEF Register!Next

LEMMA DeactivateHQStaffRegisters ==
  ASSUME IInv, NEW u \in Users, DeactivateHQStaff(u)
  PROVE  [Register!Next]_(Register!vars)
<1>1. UNCHANGED <<place, change, history>>
  BY DEF DeactivateHQStaff
<1>2. CASE UNCHANGED staff
  BY <1>1, <1>2, SameAsked, SameSeating, SameRecording DEF Register!vars, WishOf
<1>3. CASE staff' = [k \in StaffKeys |->
             IF k[1] = u /\ staff[k].status = "approved"
             THEN [staff[k] EXCEPT !.status = "rejected"] ELSE staff[k]]
  <2>1. ASSUME NEW k \in StaffKeys
        PROVE  /\ staff'[k].post = staff[k].post
               /\ staff'[k].status = "approved" <=>
                    staff[k].status = "approved" /\ ~(k[1] = u /\ k[2] \in HQs)
    BY <1>3 DEF IInv, TypeOK, StaffRow, NoStaff, StaffKeys
  <2> QED
    BY <1>1, <2>1, SeatsLost
<1> QED
  BY <1>2, <1>3 DEF DeactivateHQStaff

(* An approved change: the wish is one of those asked for, since the        *)
(* request was made, nobody else leads the place, and it is recorded.       *)
LEMMA ApproveChangeRegisters ==
  ASSUME IInv, NEW r \in Reviews, NEW c \in Changes,
         review[r].pc = "open", Req(r) = c,
         ~LeadRefused(change[c].user, NewPlace(c)),
         place' = [place EXCEPT ![change[c].user] = NewPlace(c)],
         change' = [change EXCEPT ![c].status = "approved"],
         history' = Recorded(c),
         UNCHANGED staff
  PROVE  Register!Next
<1>1. change[c] # NoChange /\ change[c] \in ChangeRow
      /\ change[c].user \in Users /\ place[change[c].user] # Absent /\ NewPlace(c) \in Place
  BY OpenReview, ChangeMade DEF IInv, InReview
<1>2. Asked' = Asked
  <2>1. change' = [change EXCEPT ![c] = [change[c] EXCEPT !.status = "approved"]]
    BY <1>1 DEF ChangeRow
  <2>2. \A d \in Changes \ {c} : change'[d] = change[d]
    BY <2>1 DEF IInv, TypeOK
  <2>3. change'[c] # NoChange /\ WishOf(c)' = WishOf(c)
    BY <1>1, <2>1 DEF IInv, TypeOK, WishOf, ChangeRow, NoChange
  <2> QED
    BY <1>1, <2>2, <2>3, SameAsked DEF WishOf
<1>3. Seating' = Seating
  BY SameSeating
<1> DEFINE w == WishOf(c)
<1>4. w \in Asked /\ w \in Register!Wish
  BY <1>1, AskedOf DEF WishOf, Register!Wish, ChangeRow
<1>5. Register!At(w.user, w.post, w.unit) = NewPlace(c) /\ w.user = change[c].user
  BY DEF WishOf, Register!At, NewPlace, MovedTo
<1>6. Register!Leading(NewPlace(c)) \subseteq {w.user}
  BY <1>5, SamePlaces DEF LeadRefused
<1>7. Recording' = Append(Recording, [user |-> w.user, new |-> NewPlace(c)])
  <2> DEFINE row == [user |-> change[c].user, old |-> NewPlace(c), new |-> NewPlace(c), req |-> c]
  <2>1. row \in HistoryRow /\ history \in Seq(HistoryRow) /\ history' = Append(history, row)
    BY <1>1 DEF HistoryRow, Requests, IInv, TypeOK, Recorded
  <2>2. Record(row) = [user |-> w.user, new |-> NewPlace(c)]
    BY <1>5 DEF Record
  <2> HIDE DEF row, w
  <2> QED
    BY <2>1, <2>2, RecordingGrows
<1>8. Register!Grant(w)
  <2>1. Register!Settle(w.user, NewPlace(c))
    BY <1>2, <1>3, <1>5, <1>6 DEF Register!Settle
  <2>2. place[w.user] # Register!Absent
    BY <1>1, <1>5, SamePlaces
  <2> HIDE DEF w
  <2> QED
    BY <1>4, <1>5, <1>7, <2>1, <2>2 DEF Register!Grant
<1> QED
  BY <1>4, <1>8 DEF Register!Next

LEMMA RejectChangeRegisters ==
  ASSUME IInv, NEW r \in Reviews, NEW c \in Changes,
         review[r].pc = "open", Req(r) = c,
         change' = [change EXCEPT ![c].status = "rejected"],
         UNCHANGED <<place, staff, history>>
  PROVE  UNCHANGED Register!vars
<1>1. change[c] # NoChange /\ change[c] \in ChangeRow
      /\ change[c].user \in Users /\ place[change[c].user] # Absent /\ NewPlace(c) \in Place
  BY OpenReview, ChangeMade DEF IInv, InReview
<1>2. change' = [change EXCEPT ![c] = [change[c] EXCEPT !.status = "rejected"]]
  BY <1>1 DEF ChangeRow
<1>3. \A d \in Changes \ {c} : change'[d] = change[d]
  BY <1>2 DEF IInv, TypeOK
<1>4. change'[c] # NoChange /\ WishOf(c)' = WishOf(c)
  BY <1>1, <1>2 DEF IInv, TypeOK, WishOf, ChangeRow, NoChange
<1>5. Asked' = Asked
  BY <1>1, <1>3, <1>4, SameAsked DEF WishOf
<1> QED
  BY <1>5, SameSeating, SameRecording DEF Register!vars

LEMMA DecideHQStaffRegisters ==
  ASSUME IInv, NEW r \in Reviews, NEW k \in StaffKeys,
         review[r].pc = "open", Req(r) = k,
         ~(review[r].ok /\ SeatRefused(k, staff[k].post)),
         staff' = [staff EXCEPT ![k].status = Status(r)],
         history' = IF review[r].ok
                    THEN Append(history, [user |-> k[1], old |-> place[k[1]],
                                          new |-> NoPlace, req |-> k])
                    ELSE history,
         UNCHANGED <<place, change>>
  PROVE  Register!Next
<1>1. staff[k] # NoStaff /\ staff[k] \in StaffRow
  BY OpenReview DEF IInv, TypeOK, InReview
<1>2. staff' = [staff EXCEPT ![k] = [staff[k] EXCEPT !.status = Status(r)]]
  BY <1>1 DEF StaffRow
<1>3. /\ [staff[k] EXCEPT !.status = Status(r)].status = Status(r)
      /\ [staff[k] EXCEPT !.status = Status(r)].post = staff[k].post
  BY <1>1 DEF StaffRow
<1>4. /\ \A j \in StaffKeys \ {k} : staff'[j] = staff[j]
      /\ staff'[k].post = staff[k].post /\ staff'[k].status = Status(r)
  BY <1>2, <1>3 DEF IInv, TypeOK
<1>5. CASE review[r].ok
  <2>1. Asked' = Asked
    BY SameAsked DEF WishOf
  <2>2. Seating' = [Seating EXCEPT ![k].state = "held"]
    <3>1. \A j \in StaffKeys :
            /\ Seating'[j] = SeatAs(staff'[j].post, staff'[j].status)
            /\ Seating[j] = SeatAs(staff[j].post, staff[j].status)
      BY DEF Seating, SeatAs
    <3>2. Seating'[k] = [Seating[k] EXCEPT !.state = "held"]
      <4>1. Seating'[k] = [post |-> staff[k].post, state |-> "held"]
        BY <1>4, <1>5, <3>1 DEF SeatAs, Status
      <4>2. [Seating[k] EXCEPT !.state = "held"] = [post |-> staff[k].post, state |-> "held"]
        BY SeatRecord
      <4> QED
        BY <4>1, <4>2, Zenon
    <3>3. \A j \in StaffKeys \ {k} : Seating'[j] = Seating[j]
      BY <1>4, <3>1
    <3>4. Seating' = [j \in StaffKeys |-> Seating'[j]] /\ Seating = [j \in StaffKeys |-> Seating[j]]
      BY DEF Seating
    <3> QED
      BY <3>2, <3>3, <3>4
  <2>3. Seating[k] # Register!NoSeat /\ Seating[k].post = staff[k].post
    BY <1>1, PositionsAssumption DEF Seating, Register!NoSeat, StaffRow
  <2>4. staff[k].post \in UniqueHQPosts => Register!Holding(k[2], staff[k].post) \subseteq {k[1]}
    <3>1. ASSUME staff[k].post \in UniqueHQPosts,
                 NEW u \in Register!Holding(k[2], staff[k].post), u # k[1]
          PROVE  FALSE
      <4>1. u \in Users /\ <<u, k[2]>> \in StaffKeys \ {k}
        BY <3>1 DEF Register!Holding, StaffKeys
      <4>2. Seating[<<u, k[2]>>] = [post |-> staff[k].post, state |-> "held"]
        BY <3>1 DEF Register!Holding
      <4>3. staff[<<u, k[2]>>].post = staff[k].post /\ staff[<<u, k[2]>>].status = "approved"
        BY <4>1, <4>2 DEF Seating
      <4>4. staff[<<u, k[2]>>] \in StaffRow
        BY <4>1, <4>3 DEF IInv, TypeOK, NoStaff
      <4>5. staff[<<u, k[2]>>] = [status |-> "approved", post |-> staff[k].post]
        BY <4>3, <4>4 DEF StaffRow
      <4> QED
        BY <1>5, <3>1, <4>1, <4>5 DEF SeatRefused
    <3> QED
      BY <3>1
  <2>5. Recording' = Append(Recording, [user |-> k[1], new |-> Register!NoPlace])
    <3> DEFINE row == [user |-> k[1], old |-> place[k[1]], new |-> NoPlace, req |-> k]
    <3>1. k[1] \in Users /\ place[k[1]] \in Place /\ NoPlace \in Place
      BY <1>1 DEF IInv, TypeOK, Askers, StaffKeys, NoPlace, Place
    <3>2. row \in HistoryRow /\ history \in Seq(HistoryRow) /\ history' = Append(history, row)
      BY <1>5, <3>1 DEF HistoryRow, Requests, IInv, TypeOK
    <3>3. Record(row) = [user |-> k[1], new |-> Register!NoPlace]
      BY SamePlaces DEF Record
    <3> HIDE DEF row
    <3> QED
      BY <3>2, <3>3, RecordingGrows
  <2>6. Register!TakeSeat(k)
    BY <2>1, <2>2, <2>3, <2>4, <2>5 DEF Register!TakeSeat
  <2> QED
    BY <2>6 DEF Register!Next, Register!Seats, StaffKeys
<1>6. CASE ~review[r].ok
  <2>1. k[1] \in Users /\ k[2] \in HQs /\ k = <<k[1], k[2]>>
    BY DEF StaffKeys
  <2>2. \A j \in StaffKeys : (j[1] = k[1] /\ j[2] \in {k[2]}) <=> j = k
    BY <2>1 DEF StaffKeys
  <2>3. \A j \in StaffKeys :
          /\ staff'[j].post = staff[j].post
          /\ staff'[j].status = "approved" <=>
               staff[j].status = "approved" /\ ~(j[1] = k[1] /\ j[2] \in {k[2]})
    BY <1>4, <1>6, <2>2 DEF Status
  <2>4. k[1] \in Users /\ {k[2]} \in SUBSET HQs /\ UNCHANGED history
    BY <1>6, <2>1
  <2> QED
    BY <2>3, <2>4, SeatsLost
<1> QED
  BY <1>5, <1>6

(* What only moves reviews and notifications is a stutter of the register.  *)
LEMMA SameTables ==
  ASSUME UNCHANGED <<place, change, staff, history>> PROVE UNCHANGED Register!vars
  BY SameAsked, SameSeating, SameRecording DEF Register!vars, WishOf

LEMMA NextRegisters == IInv /\ [Next]_vars => [Register!Next]_(Register!vars)
<1> SUFFICES ASSUME IInv, [Next]_vars PROVE [Register!Next]_(Register!vars)
  OBVIOUS
<1>1. ASSUME NEW u \in Users, UserStep(u) PROVE [Register!Next]_(Register!vars)
  BY <1>1, SignUpRegisters, AskReviewRegisters, MoveAtOnceRegisters,
     DeactivateHQStaffRegisters, AskHQRegisters DEF UserStep
<1>2. ASSUME NEW r \in Reviews, ReviewChange(r) PROVE [Register!Next]_(Register!vars)
  <2>1. CASE review[r].ok /\ LeadRefused(change[Req(r)].user, NewPlace(Req(r)))
    BY <1>2, <2>1, SameTables DEF ReviewChange
  <2>2. CASE review[r].ok /\ ~LeadRefused(change[Req(r)].user, NewPlace(Req(r)))
    BY <1>2, <2>2, ApproveChangeRegisters DEF ReviewChange
  <2>3. CASE ~review[r].ok
    BY <1>2, <2>3, RejectChangeRegisters DEF ReviewChange
  <2> QED
    BY <2>1, <2>2, <2>3
<1>3. ASSUME NEW r \in Reviews, ReviewHQStaff(r) PROVE [Register!Next]_(Register!vars)
  <2>1. CASE review[r].ok /\ SeatRefused(Req(r), staff[Req(r)].post)
    BY <1>3, <2>1, SameTables DEF ReviewHQStaff
  <2>2. CASE ~(review[r].ok /\ SeatRefused(Req(r), staff[Req(r)].post))
    <3>1. review[r].pc = "open" /\ Req(r) \in StaffKeys /\ UNCHANGED <<place, change>>
          /\ staff' = [staff EXCEPT ![Req(r)].status = Status(r)]
          /\ history' = IF review[r].ok
                        THEN Append(history, [user |-> Req(r)[1], old |-> place[Req(r)[1]],
                                              new |-> NoPlace, req |-> Req(r)])
                        ELSE history
      BY <1>3, <2>2 DEF ReviewHQStaff
    <3> QED
      BY <2>2, <3>1, DecideHQStaffRegisters
  <2> QED
    BY <2>1, <2>2
<1>4. ASSUME NEW r \in Reviews,
             \/ \E q \in Made, ok \in BOOLEAN : Open(r, q, ok)
             \/ ReviewFails(r) \/ Reread(r) \/ Tell(r)
      PROVE  UNCHANGED Register!vars
  BY <1>4, SameTables DEF Open, ReviewFails, Reread, Tell
<1>5. CASE UNCHANGED vars
  BY <1>5, SameTables DEF vars
<1> QED
  BY <1>1, <1>2, <1>3, <1>4, <1>5 DEF Next, ReviewStep

(* Requests, reviews in any order and failures implement the register of    *)
(* posts.                                                                   *)
THEOREM RegisterImplemented == Spec => ImplementsRegister
<1>1. Init => Register!Init
  <2> SUFFICES ASSUME Init PROVE Register!Init
    OBVIOUS
  <2>1. place = [u \in Users |-> Register!Absent]
    BY SamePlaces DEF Init
  <2>2. Recording = <<>>
    BY DEF Init, Recording
  <2>3. Asked = {}
    BY AskedOf DEF Init
  <2>4. Seating = [k \in Register!Seats |-> Register!NoSeat]
    BY DEF Init, Seating, NoStaff, StaffKeys, Register!Seats, Register!NoSeat
  <2> QED
    BY <2>1, <2>2, <2>3, <2>4 DEF Register!Init
<1> QED
  BY <1>1, InitInv, NextInv, NextRegisters, PTL DEF Spec, ImplementsRegister, Register!Spec

-----------------------------------------------------------------------------
(* How far startPolling came.                                               *)
Phases == {"starting", "listening", "loading", "polling", "deaf", "pushOnly"}

(* A request or a loop in flight.                                           *)
InFlight == [kind : Kinds \cup {"none"},
             pc : {"idle", "sent", "answered", "showing", "refreshing", "refreshed"},
             id : Ids \cup {0}, raw : Answers, me : SUBSET Approvals,
             hasNew : BOOLEAN, refresh : BOOLEAN]

(* What a task holds is known once it went by: the rows above the one a     *)
(* loop has shown last, and all of them when it has left the loop.          *)
GoneBy(r) ==
  CASE r.pc = "showing" -> {n \in Unread(r.raw) : n > r.id}
    [] r.pc \in {"refreshing", "refreshed"} -> Unread(r.raw)
    [] OTHER -> {}
GoneByIsKnown == \A t \in Tasks : GoneBy(task[t]) \subseteq shownIds

(* What was never noted was never shown.                                    *)
ShownIsNoted == \A n \in Ids : pushes[n] <= 1 /\ (n \notin shownIds => pushes[n] = 0)

InboxIInv ==
  /\ InboxTypeOK /\ CountMatchesList /\ ListedIsKnown /\ GoneByIsKnown /\ ShownIsNoted

(* The unread rows of an answer can be counted.                             *)
LEMMA AnswerIs ==
  ASSUME NEW a \in Answers
  PROVE  /\ DOMAIN a \subseteq Ids /\ a \in [DOMAIN a -> BOOLEAN]
         /\ Unread(a) \subseteq DOMAIN a /\ Unread(a) \subseteq Ids
         /\ IsFiniteSet(Unread(a)) /\ Cardinality(Unread(a)) \in 0 .. Cardinality(Ids)
         /\ Cardinality(Unread(a)) \in Nat /\ Cardinality(Ids) \in Nat
<1>1. PICK S \in SUBSET Ids : a \in [S -> BOOLEAN]
  BY DEF Answers
<1>2. DOMAIN a = S /\ Unread(a) \subseteq DOMAIN a
  BY <1>1 DEF Unread
<1>3. IsFiniteSet(Ids) /\ Unread(a) \subseteq Ids
  BY <1>1, <1>2, InboxAssumption
<1>4. IsFiniteSet(Unread(a)) /\ Cardinality(Unread(a)) <= Cardinality(Ids)
  BY <1>3, FS_Subset
<1>5. Cardinality(Unread(a)) \in Nat /\ Cardinality(Ids) \in Nat
  BY <1>3, <1>4, FS_CardinalityType
<1> QED
  BY <1>1, <1>2, <1>3, <1>4, <1>5

(* What the server answers is an answer.                                    *)
LEMMA PageIsAnswer == Page \in Answers
<1> DEFINE S == {m \in Written : Cardinality({k \in Written : k > m}) < PageSize}
<1>1. S \in SUBSET Ids
  BY DEF Written
<1>2. \A n \in S : (rows[n] = "read") \in BOOLEAN
  OBVIOUS
<1>3. Page = [n \in S |-> rows[n] = "read"]
  BY DEF Page
<1> HIDE DEF S
<1>4. Page \in [S -> BOOLEAN]
  BY <1>2, <1>3
<1> QED
  BY <1>1, <1>4 DEF Answers

(* The empty list is one with nothing unread.                               *)
LEMMA NothingIsAnswer ==
  Nothing \in Answers /\ Unread(Nothing) = {} /\ Cardinality(Unread(Nothing)) = 0
<1>1. Nothing \in [{} -> BOOLEAN] /\ {} \in SUBSET Ids /\ DOMAIN Nothing = {}
  BY DEF Nothing
<1>2. Unread(Nothing) = {}
  BY <1>1 DEF Unread
<1> QED
  BY <1>1, <1>2, FS_EmptySet DEF Answers

(* A finite set of numbers has a largest: the one fewest are above.         *)
LEMMA MaxOf ==
  ASSUME NEW S, S \subseteq Nat, IsFiniteSet(S), S # {}
  PROVE  Max(S) \in S /\ \A y \in S : y <= Max(S)
<1> DEFINE above(x) == {y \in S : y > x}
           counts == {Cardinality(above(x)) : x \in S}
<1>1. ASSUME NEW x \in S PROVE IsFiniteSet(above(x)) /\ Cardinality(above(x)) \in Nat
  <2>1. above(x) \subseteq S
    OBVIOUS
  <2> HIDE DEF above
  <2> QED
    BY <2>1, FS_Subset, FS_CardinalityType
<1>2. counts \subseteq Nat /\ counts # {}
  BY <1>1
<1>3. PICK c \in counts : \A d \in counts : ~(<<d, c>> \in OpToRel(<, Nat))
  <2> HIDE DEF counts
  <2> QED
    BY <1>2, NatLessThanWellFounded, WFMin
<1>4. PICK m \in S : c = Cardinality(above(m))
  OBVIOUS
<1>5. ASSUME NEW y \in S, y > m PROVE FALSE
  <2>1. above(y) \subseteq above(m) /\ y \in above(m) /\ y \notin above(y)
    <3>1. y \in Nat /\ m \in Nat /\ \A z \in S : z \in Nat
      OBVIOUS
    <3>2. \A z \in S : z > y => z > m
      BY <1>5, <3>1
    <3>3. ~(y > y)
      BY <3>1
    <3> QED
      BY <1>5, <3>2, <3>3
  <2>2. Cardinality(above(y)) < Cardinality(above(m))
    <3> HIDE DEF above
    <3>1. IsFiniteSet(above(m)) /\ Cardinality(above(m)) \in Nat /\ Cardinality(above(y)) \in Nat
      BY <1>1
    <3>2. Cardinality(above(y)) <= Cardinality(above(m)) /\ Cardinality(above(y)) # Cardinality(above(m))
      BY <2>1, <3>1, FS_Subset
    <3> QED
      BY <3>1, <3>2
  <2>3. Cardinality(above(y)) \in counts
    OBVIOUS
  <2>4. ~(Cardinality(above(y)) < c)
    BY <1>2, <1>3, <2>3 DEF OpToRel
  <2> QED
    BY <1>4, <2>2, <2>4
<1>6. m \in S /\ \A y \in S : m >= y
  BY <1>4, <1>5
<1>7. Max(S) \in S /\ \A y \in S : Max(S) >= y
  BY <1>6, Zenon DEF Max
<1> QED
  BY <1>7

(* The fields of a task.                                                    *)
LEMMA TaskIs ==
  ASSUME InboxTypeOK, NEW t \in Tasks
  PROVE  /\ task[t] \in InFlight /\ task \in [Tasks -> InFlight]
         /\ task[t].raw \in Answers /\ task[t].id \in Nat /\ task[t].id \in Ids \cup {0}
         /\ task[t].me \in SUBSET Approvals
<1>1. task \in [Tasks -> InFlight]
  BY DEF InboxTypeOK, InFlight
<1>2. task[t] \in InFlight
  BY <1>1
<1>3. task[t].raw \in Answers /\ task[t].id \in Ids \cup {0} /\ task[t].me \in SUBSET Approvals
  BY <1>2 DEF InFlight
<1>4. task[t].id \in Nat
  <2>1. Ids \cup {0} \subseteq Nat
    BY InboxAssumption
  <2> QED
    BY <1>3, <2>1, Zenon
<1> QED
  BY <1>1, <1>2, <1>3, <1>4

(* A request that starts has gone by nothing.                               *)
LEMMA NewRequests ==
  /\ Idle \in InFlight /\ GoneBy(Idle) = {} /\ Idle.pc = "idle"
  /\ \A kind \in Kinds, id \in Ids \cup {0} :
       Request(kind, id) \in InFlight /\ GoneBy(Request(kind, id)) = {}
<1>1. Idle \in InFlight
  BY NothingIsAnswer DEF Idle, InFlight
<1>2. GoneBy(Idle) = {} /\ Idle.pc = "idle"
  BY DEF Idle, GoneBy
<1>3. ASSUME NEW kind \in Kinds, NEW id \in Ids \cup {0}
      PROVE  Request(kind, id) \in InFlight /\ GoneBy(Request(kind, id)) = {}
  <2>1. Request(kind, id) \in InFlight
    BY <1>1, <1>3 DEF Request, InFlight
  <2>2. Request(kind, id).pc = "sent"
    BY DEF Request, Idle
  <2> QED
    BY <2>1, <2>2 DEF GoneBy
<1> QED
  BY <1>1, <1>2, <1>3

(* A task is replaced by one whose rows gone by are known.                  *)
LEMMA Replaced ==
  ASSUME InboxTypeOK, GoneByIsKnown, shownIds \subseteq shownIds', NEW t \in Tasks,
         NEW r \in InFlight, task' = [task EXCEPT ![t] = r], GoneBy(r) \subseteq shownIds'
  PROVE  task' \in [Tasks -> InFlight] /\ GoneByIsKnown'
<1>1. task \in [Tasks -> InFlight]
  BY TaskIs
<1>2. task' \in [Tasks -> InFlight] /\ \A u \in Tasks : task'[u] = IF u = t THEN r ELSE task[u]
  BY <1>1
<1>3. ASSUME NEW u \in Tasks PROVE GoneBy(task'[u]) \subseteq shownIds'
  <2>1. CASE u = t
    BY <1>2, <2>1
  <2>2. CASE u # t
    BY <1>2, <2>2 DEF GoneByIsKnown
  <2> QED
    BY <2>1, <2>2
<1> QED
  BY <1>2, <1>3 DEF GoneByIsKnown, GoneBy, Unread

(* The screen shows an answer whose unread rows are known.                  *)
LEMMA Shown ==
  ASSUME InboxTypeOK, NEW a \in Answers, NEW notify \in BOOLEAN, Show(a, notify),
         Unread(a) \subseteq shownIds'
  PROVE  /\ list' \in Answers /\ unreadCount' \in 0 .. Cardinality(Ids)
         /\ badge' \in 0 .. Cardinality(Ids) /\ CountMatchesList' /\ ListedIsKnown'
<1>1. list' = a /\ unreadCount' = Cardinality(Unread(a)) /\ badge' \in {unreadCount', badge}
  BY DEF Show
<1>2. Unread(list)' = Unread(a)
  BY <1>1 DEF Unread
<1> QED
  BY <1>1, <1>2, AnswerIs DEF InboxTypeOK, CountMatchesList, ListedIsKnown

(* The types, one by one.                                                   *)
LEMMA TypesAre ==
  ASSUME InboxTypeOK
  PROVE  /\ rows \in [Ids -> {"none", "unread", "read"}]
         /\ fcm \in [Ids -> {"none", "sent", "delivered", "lost"}]
         /\ phase \in Phases
         /\ list \in Answers /\ unreadCount \in 0..Cardinality(Ids) /\ badge \in 0..Cardinality(Ids)
         /\ shownIds \subseteq Ids /\ appliedRoles \subseteq Approvals
         /\ pushes \in [Ids -> Nat] /\ profile \subseteq Approvals
         /\ taps \in 0..MaxTaps /\ failures \in 0..MaxFailures
  BY DEF InboxTypeOK, Phases

(* Types are put together again.                                            *)
LEMMA TypesAgain ==
  ASSUME rows' \in [Ids -> {"none", "unread", "read"}],
         fcm' \in [Ids -> {"none", "sent", "delivered", "lost"}],
         phase' \in Phases,
         list' \in Answers, unreadCount' \in 0..Cardinality(Ids), badge' \in 0..Cardinality(Ids),
         shownIds' \subseteq Ids, appliedRoles' \subseteq Approvals,
         pushes' \in [Ids -> Nat], profile' \subseteq Approvals,
         taps' \in 0..MaxTaps, failures' \in 0..MaxFailures,
         task' \in [Tasks -> InFlight]
  PROVE  InboxTypeOK'
<1>1. Answers' = Answers
  BY DEF Answers
<1> QED
  BY <1>1 DEF InboxTypeOK, InFlight, Phases

(* While the list and the notes stay, so do their properties.               *)
LEMMA SameList ==
  ASSUME InboxIInv, UNCHANGED <<list, unreadCount, shownIds, pushes>>
  PROVE  CountMatchesList' /\ ListedIsKnown' /\ ShownIsNoted'
  BY DEF InboxIInv, CountMatchesList, ListedIsKnown, ShownIsNoted, Unread

(* What the server does by itself.                                          *)
LEMMA ServerNext ==
  ASSUME InboxIInv, NEW n \in Ids, CreateNotification(n) \/ SendFcm(n) \/ LoseFcm(n)
  PROVE  InboxIInv'
<1>1. InboxTypeOK /\ GoneByIsKnown
  BY DEF InboxIInv
<1>2. UNCHANGED <<phase, screen, marks, profile, task, taps, failures>>
  BY DEF CreateNotification, SendFcm, LoseFcm
<1>3. /\ rows' \in [Ids -> {"none", "unread", "read"}]
      /\ fcm' \in [Ids -> {"none", "sent", "delivered", "lost"}]
  BY <1>1, TypesAre DEF CreateNotification, SendFcm, LoseFcm
<1>4. task' \in [Tasks -> InFlight]
  BY <1>1, <1>2 DEF InboxTypeOK, InFlight
<1>5. InboxTypeOK'
  BY <1>1, <1>2, <1>3, <1>4, TypesAre, TypesAgain DEF screen, marks
<1>6. GoneByIsKnown'
  BY <1>1, <1>2 DEF GoneByIsKnown, GoneBy, Unread, marks
<1> QED
  BY <1>2, <1>5, <1>6, SameList DEF InboxIInv, screen, marks

(* How far startPolling comes before the first load.                        *)
LEMMA PollingInitNext ==
  ASSUME InboxIInv, Listen \/ InitThrows
  PROVE  InboxIInv'
<1>1. InboxTypeOK /\ GoneByIsKnown
  BY DEF InboxIInv
<1>2. UNCHANGED <<rows, fcm, screen, marks, profile, task, taps, failures>> /\ phase' \in Phases
  BY DEF Listen, InitThrows, marks, Phases
<1>3. task' \in [Tasks -> InFlight]
  BY <1>1, <1>2 DEF InboxTypeOK, InFlight
<1>4. InboxTypeOK'
  BY <1>1, <1>2, <1>3, TypesAre, TypesAgain DEF screen, marks
<1>5. GoneByIsKnown'
  BY <1>1, <1>2 DEF GoneByIsKnown, GoneBy, Unread, marks
<1> QED
  BY <1>2, <1>4, <1>5, SameList DEF InboxIInv, screen, marks

(* A step that replaces a task and leaves the list.                         *)
LEMMA TaskReplaced ==
  ASSUME InboxIInv, NEW t \in Tasks, NEW r \in InFlight, task' = [task EXCEPT ![t] = r],
         GoneBy(r) \subseteq shownIds,
         UNCHANGED <<list, unreadCount, shownIds, pushes, appliedRoles, profile>>,
         rows' \in [Ids -> {"none", "unread", "read"}],
         fcm' \in [Ids -> {"none", "sent", "delivered", "lost"}],
         phase' \in Phases,
         badge' \in 0..Cardinality(Ids),
         taps' \in 0..MaxTaps, failures' \in 0..MaxFailures
  PROVE  InboxIInv'
<1>1. InboxTypeOK /\ GoneByIsKnown
  BY DEF InboxIInv
<1>2. task' \in [Tasks -> InFlight] /\ GoneByIsKnown'
  BY <1>1, Replaced
<1>3. InboxTypeOK'
  BY <1>1, <1>2, TypesAre, TypesAgain
<1> QED
  BY <1>2, <1>3, SameList DEF InboxIInv

(* What it does when asked.                                                 *)
LEMMA ServeNext ==
  ASSUME InboxIInv, NEW t \in Tasks, Serve(t) \/ ServeMe(t)
  PROVE  InboxIInv'
<1>1. InboxTypeOK /\ GoneByIsKnown /\ GoneBy(task[t]) \subseteq shownIds
  BY DEF InboxIInv, GoneByIsKnown
<1>2. task[t] \in InFlight /\ task \in [Tasks -> InFlight]
  BY <1>1, TaskIs
<1>3. UNCHANGED <<fcm, phase, screen, marks, profile, taps, failures>>
  BY DEF Serve, ServeMe
<1>4. rows' \in [Ids -> {"none", "unread", "read"}]
  BY <1>1, TypesAre DEF Serve, ServeMe
<1>5. CASE Serve(t) /\ task' = [task EXCEPT ![t].pc = "answered", ![t].raw = Page]
  <2> DEFINE r == [task[t] EXCEPT !.pc = "answered", !.raw = Page]
  <2>1. task' = [task EXCEPT ![t] = r]
    BY <1>2, <1>5
  <2>2. r \in InFlight /\ r.pc = "answered"
    BY <1>2, PageIsAnswer DEF InFlight
  <2> HIDE DEF r
  <2>3. GoneBy(r) = {}
    BY <2>2 DEF GoneBy
  <2> QED
    BY <1>1, <1>3, <1>4, <2>1, <2>2, <2>3, TypesAre, TaskReplaced DEF screen, marks
<1>6. CASE Serve(t) /\ task' = [task EXCEPT ![t].pc = "answered"]
  <2> DEFINE r == [task[t] EXCEPT !.pc = "answered"]
  <2>1. task' = [task EXCEPT ![t] = r]
    BY <1>2, <1>6
  <2>2. r \in InFlight /\ r.pc = "answered"
    BY <1>2 DEF InFlight
  <2> HIDE DEF r
  <2>3. GoneBy(r) = {}
    BY <2>2 DEF GoneBy
  <2> QED
    BY <1>1, <1>3, <1>4, <2>1, <2>2, <2>3, TypesAre, TaskReplaced DEF screen, marks
<1>7. CASE ServeMe(t)
  <2> DEFINE r == [task[t] EXCEPT !.pc = "refreshed", !.me = Granted]
  <2>1. task' = [task EXCEPT ![t] = r] /\ task[t].pc = "refreshing"
    BY <1>2, <1>7 DEF ServeMe
  <2>2. Granted \in SUBSET Approvals
    BY DEF Granted
  <2>3. r \in InFlight /\ r.pc = "refreshed" /\ r.raw = task[t].raw
    BY <1>2, <2>2 DEF InFlight
  <2> HIDE DEF r
  <2>4. GoneBy(r) = GoneBy(task[t])
    BY <2>1, <2>3 DEF GoneBy
  <2> QED
    BY <1>1, <1>3, <1>4, <2>1, <2>3, <2>4, TypesAre, TaskReplaced DEF screen, marks
<1> QED
  BY <1>5, <1>6, <1>7 DEF Serve

(* Whatever starts a request.                                               *)
LEMMA StartsNext ==
  ASSUME InboxIInv, NEW t \in Tasks,
         \/ StartPolling(t) \/ TimerFires(t) \/ Load(t) \/ MarkAllRead(t)
         \/ \E n \in Ids : FcmArrives(n, t) \/ MarkOneRead(t, n)
  PROVE  InboxIInv'
<1>1. InboxTypeOK /\ GoneByIsKnown
  BY DEF InboxIInv
<1> USE TypesAre
<1>2. ASSUME NEW kind \in Kinds, NEW id \in Ids \cup {0},
             task' = [task EXCEPT ![t] = Request(kind, id)],
             UNCHANGED <<rows, list, unreadCount, marks, profile, failures>>,
             fcm' \in [Ids -> {"none", "sent", "delivered", "lost"}],
             phase' \in Phases,
             badge' \in {badge, unreadCount},
             taps' \in 0 .. MaxTaps
      PROVE  InboxIInv'
  <2>1. Request(kind, id) \in InFlight /\ GoneBy(Request(kind, id)) \subseteq shownIds
    BY NewRequests
  <2>2. badge' \in 0 .. Cardinality(Ids)
    BY <1>1, <1>2
  <2> QED
    BY <1>1, <1>2, <2>1, <2>2, TaskReplaced DEF marks
<1>3. CASE StartPolling(t)
  BY <1>1, <1>2, <1>3 DEF StartPolling, Kinds, screen, Phases
<1>4. CASE TimerFires(t)
  BY <1>1, <1>2, <1>4 DEF TimerFires, Kinds, screen
<1>5. ASSUME NEW n \in Ids, FcmArrives(n, t) PROVE InboxIInv'
  <2>1. fcm' \in [Ids -> {"none", "sent", "delivered", "lost"}]
    BY <1>1, <1>5 DEF FcmArrives
  <2> QED
    BY <1>1, <1>2, <1>5, <2>1 DEF FcmArrives, Kinds, screen
<1>6. ASSUME NEW kind \in {"load", "readAll", "readOne"}, NEW id \in Ids \cup {0},
             Tap(t, Request(kind, id)), UNCHANGED <<list, unreadCount>>,
             badge' \in {badge, unreadCount}
      PROVE  InboxIInv'
  <2>1. taps' \in 0 .. MaxTaps
    <3>1. taps < MaxTaps /\ taps' = taps + 1 /\ taps \in 0 .. MaxTaps /\ MaxTaps \in Nat
      BY <1>1, <1>6, InboxAssumption DEF Tap
    <3> QED
      BY <3>1
  <2> QED
    BY <1>1, <1>2, <1>6, <2>1 DEF Tap, Kinds
<1>7. CASE Load(t)
  BY <1>6, <1>7 DEF Load
<1>8. CASE MarkAllRead(t)
  BY <1>6, <1>8 DEF MarkAllRead, screen
<1>9. ASSUME NEW n \in Ids, MarkOneRead(t, n) PROVE InboxIInv'
  BY <1>6, <1>9 DEF MarkOneRead, screen
<1> QED
  BY <1>3, <1>4, <1>5, <1>7, <1>8, <1>9

(* An answer is shown, its task ends, and its unread rows are known.        *)
LEMMA AnswerShown ==
  ASSUME InboxIInv, NEW t \in Tasks, NEW a \in Answers, NEW notify \in BOOLEAN,
         Show(a, notify), task' = [task EXCEPT ![t] = Idle],
         shownIds \subseteq shownIds', shownIds' \subseteq Ids, Unread(a) \subseteq shownIds',
         UNCHANGED <<rows, fcm, pushes, taps>>,
         appliedRoles' \subseteq Approvals, profile' \subseteq Approvals,
         phase' \in Phases, failures' \in 0 .. MaxFailures
  PROVE  InboxIInv'
<1>1. InboxTypeOK /\ GoneByIsKnown /\ ShownIsNoted
  BY DEF InboxIInv
<1>2. task' \in [Tasks -> InFlight] /\ GoneByIsKnown'
  BY <1>1, NewRequests, Replaced
<1>3. /\ list' \in Answers /\ unreadCount' \in 0 .. Cardinality(Ids)
      /\ badge' \in 0 .. Cardinality(Ids) /\ CountMatchesList' /\ ListedIsKnown'
  BY <1>1, Shown
<1>4. InboxTypeOK'
  BY <1>1, <1>2, <1>3, TypesAre, TypesAgain
<1>5. ShownIsNoted'
  BY <1>1 DEF ShownIsNoted
<1> QED
  BY <1>2, <1>3, <1>4, <1>5 DEF InboxIInv

(* A load notes all it lists.                                               *)
LEMMA ReceiveListNext ==
  ASSUME InboxIInv, NEW t \in Tasks, ReceiveList(t)
  PROVE  InboxIInv'
<1>1. InboxTypeOK /\ task[t].raw \in Answers
  BY TaskIs DEF InboxIInv
<1>2. DOMAIN task[t].raw \subseteq Ids /\ Unread(task[t].raw) \subseteq DOMAIN task[t].raw
  BY <1>1, AnswerIs
<1>3. shownIds' = shownIds \cup DOMAIN task[t].raw /\ Show(task[t].raw, TRUE)
  BY DEF ReceiveList
<1>4. phase' \in Phases
  BY <1>1, TypesAre DEF ReceiveList, Phases
<1>5. /\ shownIds \subseteq shownIds' /\ shownIds' \subseteq Ids /\ Unread(task[t].raw) \subseteq shownIds'
  BY <1>1, <1>2, <1>3, TypesAre
<1> QED
  BY <1>1, <1>3, <1>4, <1>5, TypesAre, AnswerShown DEF ReceiveList

(* Marking all rows leaves none unread.                                     *)
LEMMA ReceiveAllReadNext ==
  ASSUME InboxIInv, NEW t \in Tasks, ReceiveAllRead(t)
  PROVE  InboxIInv'
<1> DEFINE a == [n \in DOMAIN list |-> TRUE]
<1>1. InboxTypeOK /\ list \in Answers
  BY TypesAre DEF InboxIInv
<1>2. a \in [DOMAIN list -> BOOLEAN] /\ DOMAIN list \in SUBSET Ids
  BY <1>1, AnswerIs
<1>3. a \in Answers /\ Unread(a) = {}
  BY <1>2 DEF Answers, Unread
<1>4. Show(a, TRUE)
  BY DEF ReceiveAllRead
<1> HIDE DEF a
<1> QED
  BY <1>1, <1>3, <1>4, TypesAre, AnswerShown DEF ReceiveAllRead, marks

(* One unread row less, and one less in the counter.                        *)
LEMMA ReceiveOneReadNext ==
  ASSUME InboxIInv, NEW t \in Tasks, ReceiveOneRead(t)
  PROVE  InboxIInv'
<1>1. InboxTypeOK /\ CountMatchesList /\ ListedIsKnown /\ GoneByIsKnown
  BY DEF InboxIInv
<1>2. task' = [task EXCEPT ![t] = Idle] /\ UNCHANGED <<rows, fcm, phase, marks, profile, taps, failures>>
  BY DEF ReceiveOneRead
<1>3. CASE task[t].id \notin Unread(list)
  <2>1. UNCHANGED screen
    BY <1>3 DEF ReceiveOneRead
  <2> QED
    BY <1>1, <1>2, <2>1, NewRequests, TypesAre, TaskReplaced DEF screen, marks
<1>4. CASE task[t].id \in Unread(list)
  <2> DEFINE i == task[t].id
  <2>1. /\ list' = [list EXCEPT ![i] = TRUE] /\ badge' = unreadCount'
        /\ unreadCount' = IF unreadCount > 0 THEN unreadCount - 1 ELSE 0
    BY <1>4 DEF ReceiveOneRead
  <2>2. /\ list \in [DOMAIN list -> BOOLEAN] /\ DOMAIN list \subseteq Ids
        /\ i \in DOMAIN list /\ i \in Unread(list)
        /\ IsFiniteSet(Unread(list)) /\ Cardinality(Unread(list)) \in 0 .. Cardinality(Ids)
        /\ Cardinality(Unread(list)) \in Nat /\ Cardinality(Ids) \in Nat
    BY <1>1, <1>4, TypesAre, AnswerIs
  <2> HIDE DEF i
  <2>3. list' \in [DOMAIN list -> BOOLEAN]
    BY <2>1, <2>2
  <2>4. list' \in Answers
    BY <2>2, <2>3 DEF Answers
  <2>5. Unread(list)' = Unread(list) \ {i}
    BY <2>1, <2>2, <2>3 DEF Unread
  <2>6. Cardinality(Unread(list) \ {i}) = Cardinality(Unread(list)) - 1
        /\ Cardinality(Unread(list)) > 0
    <3>1. Cardinality(Unread(list)) # 0
      BY <2>2, FS_EmptySet
    <3>2. Cardinality(Unread(list) \ {i}) = Cardinality(Unread(list)) - 1
      BY <2>2, FS_RemoveElement
    <3> QED
      BY <2>2, <3>1, <3>2
  <2>7. unreadCount' = Cardinality(Unread(list)) - 1 /\ unreadCount' \in 0 .. Cardinality(Ids)
    BY <1>1, <2>1, <2>2, <2>6 DEF CountMatchesList
  <2>8. CountMatchesList' /\ ListedIsKnown'
    BY <1>1, <1>2, <2>5, <2>6, <2>7 DEF CountMatchesList, ListedIsKnown, marks
  <2>9. task' \in [Tasks -> InFlight] /\ GoneByIsKnown'
    BY <1>1, <1>2, NewRequests, Replaced DEF marks
  <2>10. InboxTypeOK'
    BY <1>1, <1>2, <2>1, <2>4, <2>7, <2>9, TypesAre, TypesAgain DEF marks
  <2>11. ShownIsNoted'
    BY <1>2 DEF InboxIInv, ShownIsNoted, marks
  <2> QED
    BY <2>8, <2>9, <2>10, <2>11 DEF InboxIInv
<1> QED
  BY <1>3, <1>4

(* The rows of an answer a loop has gone by are noted.                      *)
LEMMA BeforeTheRest ==
  ASSUME InboxIInv, NEW t \in Tasks, Looping(t)
  PROVE  Unread(task[t].raw) \ Rest(t) \subseteq shownIds
<1>1. InboxTypeOK /\ task[t].id \in Nat /\ task[t].raw \in Answers /\ Unread(task[t].raw) \subseteq Ids
      /\ Unread(task[t].raw) \subseteq DOMAIN task[t].raw
  BY TaskIs, AnswerIs DEF InboxIInv
<1>2. ASSUME NEW n \in Unread(task[t].raw), n \notin Rest(t) PROVE n \in shownIds
  <2>1. n \in Nat
    BY <1>1, InboxAssumption
  <2>2. task[t].pc = "showing" /\ n > task[t].id
    BY <1>1, <1>2, <2>1 DEF Rest
  <2>3. n \in GoneBy(task[t])
    BY <2>2 DEF GoneBy
  <2> QED
    BY <2>3 DEF InboxIInv, GoneByIsKnown
<1> QED
  BY <1>2

(* The loop notes the row it shows; those above it that it did not show     *)
(* were noted before.                                                       *)
LEMMA ShowNextNext ==
  ASSUME InboxIInv, NEW t \in Tasks, ShowNext(t)
  PROVE  InboxIInv'
<1> DEFINE next == Max(Fresh(t))
           roles == Roles(t, {n \in Rest(t) : n > next})
           r == [task[t] EXCEPT !.pc = "showing", !.id = next, !.hasNew = TRUE,
                                !.refresh = @ \/ roles # {}]
<1>1. /\ InboxTypeOK /\ CountMatchesList /\ ListedIsKnown /\ GoneByIsKnown /\ ShownIsNoted
      /\ task[t] \in InFlight /\ task \in [Tasks -> InFlight]
      /\ task[t].raw \in Answers /\ Unread(task[t].raw) \subseteq Ids
  BY TaskIs, AnswerIs DEF InboxIInv
<1>2. next \in Fresh(t) /\ \A y \in Fresh(t) : y <= next
  <2>1. Fresh(t) \subseteq Ids /\ Fresh(t) # {}
    BY <1>1 DEF Fresh, ShowNext
  <2>2. Fresh(t) \subseteq Nat /\ IsFiniteSet(Fresh(t))
    BY <2>1, InboxAssumption, FS_Subset
  <2> QED
    BY <2>1, <2>2, MaxOf
<1>3. next \in Ids /\ next \in Nat /\ next \notin shownIds /\ Fresh(t) \subseteq Nat
  BY <1>1, <1>2, InboxAssumption DEF Fresh
<1>4. roles \subseteq Approvals
  BY DEF Roles
<1>5. /\ shownIds' = shownIds \cup {next} /\ pushes' = [pushes EXCEPT ![next] = @ + 1]
      /\ appliedRoles' = appliedRoles \cup roles
      /\ Looping(t)
      /\ UNCHANGED <<rows, fcm, phase, screen, profile, taps, failures>>
  BY DEF ShowNext
<1>6. task' = [task EXCEPT ![t] = r]
  BY <1>1 DEF ShowNext
<1>7. r \in InFlight /\ r.pc = "showing" /\ r.id = next /\ r.raw = task[t].raw
  <2> HIDE DEF next, roles
  <2>1. (task[t].refresh \/ roles # {}) \in BOOLEAN
    OBVIOUS
  <2> QED
    BY <1>1, <1>3, <2>1 DEF InFlight
<1> HIDE DEF next, roles, r
<1>8. GoneBy(r) \subseteq shownIds'
  <2> SUFFICES ASSUME NEW n \in Unread(task[t].raw), n > next PROVE n \in shownIds
    BY <1>5, <1>7 DEF GoneBy
  <2>1. n \notin Fresh(t)
    BY <1>2, <1>3
  <2>2. CASE n \in Rest(t)
    BY <2>1, <2>2 DEF Fresh
  <2>3. CASE n \notin Rest(t)
    BY <1>5, <2>3, BeforeTheRest
  <2> QED
    BY <2>2, <2>3
<1>9. task' \in [Tasks -> InFlight] /\ GoneByIsKnown'
  BY <1>1, <1>5, <1>6, <1>7, <1>8, Replaced
<1>10. pushes' \in [Ids -> Nat] /\ ShownIsNoted'
  <2>1. pushes \in [Ids -> Nat] /\ pushes[next] = 0
    BY <1>1, <1>3, TypesAre DEF ShownIsNoted
  <2>2. pushes' \in [Ids -> Nat] /\ \A n \in Ids : pushes'[n] = IF n = next THEN 1 ELSE pushes[n]
    BY <1>3, <1>5, <2>1
  <2> QED
    BY <1>1, <1>5, <2>2 DEF ShownIsNoted
<1>11. shownIds' \subseteq Ids /\ appliedRoles' \subseteq Approvals
  BY <1>1, <1>3, <1>4, <1>5, TypesAre
<1>12. InboxTypeOK'
  BY <1>1, <1>5, <1>9, <1>10, <1>11, TypesAre, TypesAgain DEF screen
<1>13. CountMatchesList' /\ ListedIsKnown'
  BY <1>1, <1>5 DEF CountMatchesList, ListedIsKnown, Unread, screen
<1> QED
  BY <1>9, <1>10, <1>12, <1>13 DEF InboxIInv

(* At the end of the loop every unread row of the answer is noted.          *)
LEMMA FinishLoopNext ==
  ASSUME InboxIInv, NEW t \in Tasks, FinishLoop(t)
  PROVE  InboxIInv'
<1> DEFINE roles == Roles(t, Rest(t))
           hasNew == task[t].hasNew \/ Fresh(t) # {}
           r == [task[t] EXCEPT !.pc = "refreshing", !.hasNew = hasNew, !.refresh = TRUE]
<1>1. /\ InboxTypeOK /\ CountMatchesList /\ ListedIsKnown /\ GoneByIsKnown /\ ShownIsNoted
      /\ task[t] \in InFlight /\ task \in [Tasks -> InFlight]
      /\ task[t].raw \in Answers /\ Unread(task[t].raw) \subseteq Ids
  BY TaskIs, AnswerIs DEF InboxIInv
<1>2. /\ shownIds' = shownIds \cup Fresh(t) /\ appliedRoles' = appliedRoles \cup roles
      /\ Looping(t) /\ UNCHANGED <<rows, fcm, phase, pushes, profile, taps, failures>>
  BY DEF FinishLoop
<1>3. roles \subseteq Approvals /\ Fresh(t) \subseteq Ids /\ hasNew \in BOOLEAN
  BY <1>1 DEF Roles, Fresh
<1>4. \/ task' = [task EXCEPT ![t] = r] /\ UNCHANGED screen
      \/ task' = [task EXCEPT ![t] = Idle] /\ Show(task[t].raw, hasNew)
  BY <1>1 DEF FinishLoop
<1>5. r \in InFlight /\ r.pc = "refreshing" /\ r.raw = task[t].raw
  <2> HIDE DEF hasNew
  <2> QED
    BY <1>1, <1>3 DEF InFlight
<1> HIDE DEF roles, hasNew, r
<1>6. Unread(task[t].raw) \subseteq shownIds'
  BY <1>2, BeforeTheRest DEF Fresh
<1>7. /\ shownIds \subseteq shownIds' /\ shownIds' \subseteq Ids /\ appliedRoles' \subseteq Approvals
  BY <1>1, <1>2, <1>3, TypesAre
<1>8. CASE task' = [task EXCEPT ![t] = r] /\ UNCHANGED screen
  <2>1. GoneBy(r) \subseteq shownIds'
    BY <1>5, <1>6 DEF GoneBy
  <2>2. task' \in [Tasks -> InFlight] /\ GoneByIsKnown'
    BY <1>1, <1>5, <1>7, <1>8, <2>1, Replaced
  <2>3. InboxTypeOK'
    BY <1>1, <1>2, <1>7, <1>8, <2>2, TypesAre, TypesAgain DEF screen
  <2>4. CountMatchesList' /\ ListedIsKnown' /\ ShownIsNoted'
    BY <1>1, <1>2, <1>7, <1>8 DEF CountMatchesList, ListedIsKnown, ShownIsNoted, Unread, screen
  <2> QED
    BY <2>2, <2>3, <2>4 DEF InboxIInv
<1>9. CASE task' = [task EXCEPT ![t] = Idle] /\ Show(task[t].raw, hasNew)
  BY <1>1, <1>2, <1>3, <1>6, <1>7, <1>9, TypesAre, AnswerShown
<1> QED
  BY <1>4, <1>8, <1>9

(* The profile comes after the loop, with the rows the loop has noted.      *)
LEMMA RefreshDoneNext ==
  ASSUME InboxIInv, NEW t \in Tasks, RefreshDone(t)
  PROVE  InboxIInv'
<1>1. InboxTypeOK /\ task[t].raw \in Answers /\ task[t].me \in SUBSET Approvals
  BY TaskIs DEF InboxIInv
<1>2. Unread(task[t].raw) \subseteq shownIds
  BY DEF InboxIInv, GoneByIsKnown, GoneBy, RefreshDone
<1> QED
  BY <1>1, <1>2, TypesAre, AnswerShown DEF RefreshDone, marks

(* A failed request leaves the list, but for the poll whose profile failed. *)
LEMMA RequestFailsNext ==
  ASSUME InboxIInv, NEW t \in Tasks, RequestFails(t)
  PROVE  InboxIInv'
<1>1. InboxTypeOK /\ task[t].raw \in Answers
  BY TaskIs DEF InboxIInv
<1>2. failures' \in 0 .. MaxFailures /\ phase' \in Phases
  <2>1. failures < MaxFailures /\ failures' = failures + 1 /\ failures \in 0 .. MaxFailures
        /\ MaxFailures \in Nat
    BY <1>1, TypesAre, InboxAssumption DEF RequestFails
  <2> QED
    BY <1>1, <2>1, TypesAre DEF RequestFails, Phases
<1>3. /\ task' = [task EXCEPT ![t] = Idle] /\ UNCHANGED <<rows, fcm, marks, profile, taps>>
  BY DEF RequestFails
<1>4. CASE badge' \in {badge, unreadCount} /\ UNCHANGED <<list, unreadCount>>
  <2>1. badge' \in 0 .. Cardinality(Ids)
    BY <1>1, <1>4, TypesAre
  <2> QED
    BY <1>1, <1>2, <1>3, <1>4, <2>1, NewRequests, TypesAre, TaskReplaced DEF marks
<1>5. CASE task[t].pc \in {"refreshing", "refreshed"} /\ Show(task[t].raw, TRUE)
  <2>1. Unread(task[t].raw) \subseteq shownIds
    BY <1>5 DEF InboxIInv, GoneByIsKnown, GoneBy
  <2> QED
    BY <1>1, <1>2, <1>3, <1>5, <2>1, TypesAre, AnswerShown DEF marks
<1> QED
  BY <1>4, <1>5 DEF RequestFails

(* At first there is nothing.                                               *)
LEMMA InboxInitIInv ==
  ASSUME InboxInit
  PROVE  InboxIInv
<1>1. Cardinality(Ids) \in Nat
  BY InboxAssumption, FS_CardinalityType
<1>2. task \in [Tasks -> InFlight] /\ \A t \in Tasks : GoneBy(task[t]) = {}
  BY NewRequests DEF InboxInit
<1>3. InboxTypeOK
  <2>1. 0 \in 0 .. Cardinality(Ids) /\ 0 \in 0 .. MaxTaps /\ 0 \in 0 .. MaxFailures
    BY <1>1, InboxAssumption
  <2> QED
    BY <1>2, <2>1, NothingIsAnswer DEF InboxInit, InboxTypeOK, InFlight
<1>4. CountMatchesList /\ ListedIsKnown
  BY NothingIsAnswer DEF InboxInit, CountMatchesList, ListedIsKnown
<1>5. ShownIsNoted
  BY DEF InboxInit, ShownIsNoted
<1> QED
  BY <1>2, <1>3, <1>4, <1>5 DEF InboxIInv, GoneByIsKnown

(* The invariant of the inbox holds throughout.                             *)
LEMMA InboxInvariant == InboxSpec => []InboxIInv
<1>1. ASSUME InboxIInv, [InboxNext]_inboxVars PROVE InboxIInv'
  <2>1. CASE UNCHANGED inboxVars
    <3>1. task' \in [Tasks -> InFlight]
      BY <1>1, <2>1 DEF inboxVars, InboxIInv, InboxTypeOK, InFlight
    <3>2. InboxTypeOK'
      BY <1>1, <2>1, <3>1, TypesAre, TypesAgain DEF inboxVars, InboxIInv
    <3>3. GoneByIsKnown'
      BY <1>1, <2>1 DEF inboxVars, InboxIInv, GoneByIsKnown, GoneBy, Unread
    <3> QED
      BY <1>1, <2>1, <3>2, <3>3, SameList DEF inboxVars, InboxIInv
  <2>2. ASSUME NEW n \in Ids, CreateNotification(n) \/ SendFcm(n) \/ LoseFcm(n) PROVE InboxIInv'
    BY <1>1, <2>2, ServerNext
  <2>6. CASE Listen \/ InitThrows
    BY <1>1, <2>6, PollingInitNext
  <2>3. ASSUME NEW t \in Tasks,
               \/ StartPolling(t) \/ TimerFires(t) \/ Load(t) \/ MarkAllRead(t)
               \/ \E n \in Ids : FcmArrives(n, t) \/ MarkOneRead(t, n)
        PROVE  InboxIInv'
    BY <1>1, <2>3, StartsNext
  <2>4. ASSUME NEW t \in Tasks, TaskStep(t) PROVE InboxIInv'
    BY <1>1, <2>4, ServeNext, ReceiveListNext, ReceiveAllReadNext, ReceiveOneReadNext, ShowNextNext,
       FinishLoopNext, RefreshDoneNext DEF TaskStep
  <2>5. ASSUME NEW t \in Tasks, RequestFails(t) PROVE InboxIInv'
    BY <1>1, <2>5, RequestFailsNext
  <2> QED
    BY <1>1, <2>1, <2>2, <2>3, <2>4, <2>5, <2>6 DEF InboxNext
<1> QED
  BY <1>1, InboxInitIInv, PTL DEF InboxSpec

(* Every variable keeps its type.                                           *)
THEOREM InboxTypeCorrect == InboxSpec => []InboxTypeOK
<1>1. InboxIInv => InboxTypeOK
  BY DEF InboxIInv
<1> QED
  BY <1>1, InboxInvariant, PTL

(* The counter is the number of unread rows of the list, whatever handlers  *)
(* interleave at their awaits.                                              *)
THEOREM CountMatchesListHolds == InboxSpec => []CountMatchesList
<1>1. InboxIInv => CountMatchesList
  BY DEF InboxIInv
<1> QED
  BY <1>1, InboxInvariant, PTL

(* However many polls overlap, no row is shown by two local notifications.  *)
THEOREM ShownLocallyOnceHolds == InboxSpec => []ShownLocallyOnce
<1>1. InboxIInv => ShownLocallyOnce
  BY DEF InboxIInv, ShownIsNoted, ShownLocallyOnce
<1> QED
  BY <1>1, InboxInvariant, PTL

(* An unread row on the screen is known to the polls.                       *)
THEOREM ListedIsKnownHolds == InboxSpec => []ListedIsKnown
<1>1. InboxIInv => ListedIsKnown
  BY DEF InboxIInv
<1> QED
  BY <1>1, InboxInvariant, PTL
=============================================================================
