------------------------------ MODULE FeedProofs ------------------------------
(***************************************************************************)
(* Proofs about Feed for any number of accounts, tokens, events, filters,  *)
(* loads and registrations: which events the list has, whose registrations *)
(* it shows, and that it keeps them.                                       *)
(***************************************************************************)
EXTENDS Feed, FiniteSetTheorems, TLAPS

Request == [at : {"sent"}, filter : Filters]
Answer  == [at : {"answered"}, items : Lists]
Waiting == [at : {"sent", "expired", "served"}, event : Events, waits : BOOLEAN,
            owner : Accounts \cup {NoAccount}, stray : BOOLEAN,
            answer : {"none", "created", "conflict", "error"}]
Opened  == [at : {"open"}, event : Events, item : Item, busy : BOOLEAN, qr : {"no", "asked", "yes"}]

(* TypeOK with the requests of the button spelled out and without the count *)
(* of delayed loads.                                                        *)
Shapes ==
  /\ access \in Tokens \cup {NoToken} /\ seen \in Tokens \cup {NoToken}
  /\ user \in {"none", "asked", "late", "known", "leaving"}
  /\ refreshing \in Accounts \cup {NoAccount}
  /\ filter \in Filters
  /\ list \in Lists
  /\ loads \in [Loads -> {Idle} \cup Request \cup Answer]
  /\ newest \in Loads \cup {NoLoad}
  /\ fresh \in BOOLEAN /\ isLoading \in BOOLEAN /\ error \in BOOLEAN
  /\ due \in Nat
  /\ screen \in {NoScreen} \cup Opened
  /\ taps \in [Taps -> {Idle, Over} \cup Waiting]
  /\ rows \subseteq Accounts \X Events /\ closed \subseteq Events
  /\ failures \in 0..MaxFailures
  /\ unbacked \subseteq Events

(* Only an answer that was waited for puts a load off.                      *)
Answers == {r \in Taps : taps[r] = Over}
DueIsHeard == due <= Cardinality(Answers)

(* The load started last is in flight, asks for the filter that is set, and *)
(* is answered with its events.                                             *)
NewestFollows ==
  newest # NoLoad =>
    /\ loads[newest] # Idle
    /\ loads[newest].at = "sent" => loads[newest].filter = filter
    /\ loads[newest].at = "answered" => DOMAIN loads[newest].items = Matching[filter]

(* The server sends no status.                                              *)
NoStatusSent ==
  \A l \in Loads : loads[l].at = "answered" =>
    \A e \in DOMAIN loads[l].items : loads[l].items[e].status = "none"

(* A registration that the screen waits for, and that has not gone astray,  *)
(* is of the account of every token that is about.                          *)
Mine(r) ==
  /\ access # NoToken => OwnerOf[access] = taps[r].owner
  /\ seen # NoToken => OwnerOf[seen] = taps[r].owner
Promised(r) ==
  /\ taps[r].waits => screen # NoScreen
  /\ taps[r].waits /\ taps[r].owner # NoAccount /\ ~taps[r].stray => Mine(r)
  /\ taps[r].at = "served" =>
       /\ taps[r].waits
       /\ taps[r].answer = "created" => <<taps[r].owner, taps[r].event>> \in rows
       /\ taps[r].answer \in {"created", "conflict"} => taps[r].owner # NoAccount
Awaited == \A r \in Taps : taps[r] \in Waiting => Promised(r)

IInv ==
  /\ Shapes /\ DueIsHeard /\ NewestFollows /\ NoStatusSent
  /\ Awaited /\ FreshFollowsFilter /\ ShownIsMine

-----------------------------------------------------------------------------
(* Lemmas about the operators.                                              *)

LEMMA ListsAre ==
  /\ \A x \in Lists : DOMAIN x \subseteq Events /\ \A e \in DOMAIN x : x[e] \in Item
  /\ \A shown \in SUBSET Events : [shown -> Item] \subseteq Lists
  BY DEF Lists

LEMMA EmptyList == [e \in {} |-> Idle] \in Lists /\ DOMAIN [e \in {} |-> Idle] = {}
  BY DEF Lists

(* What the server lists, and what a merge keeps.                           *)
LEMMA ListEventsType ==
  ASSUME NEW f \in Filters
  PROVE  /\ ListEvents(f) \in Lists /\ DOMAIN ListEvents(f) = Matching[f]
         /\ \A e \in Matching[f] : ListEvents(f)[e].status = "none"
<1>1. Matching[f] \in SUBSET Events
  BY FeedAssumption
<1>2. \A e \in Matching[f] : [status |-> "none", closed |-> e \in closed] \in Item
  BY DEF Item
<1> QED
  BY <1>1, <1>2 DEF Lists, ListEvents

LEMMA MergedType ==
  ASSUME list \in Lists, NEW items \in Lists
  PROVE  /\ Merged(items) \in Lists /\ DOMAIN Merged(items) = DOMAIN items
         /\ \A e \in DOMAIN items :
              \/ Merged(items)[e].status = items[e].status
              \/ e \in DOMAIN list /\ Merged(items)[e].status = list[e].status
         /\ \A e \in DOMAIN items :
              e \in DOMAIN list /\ list[e].status = "registered" => Merged(items)[e].status = "registered"
<1>1. DOMAIN items \in SUBSET Events /\ \A e \in DOMAIN items : items[e] \in Item
  BY ListsAre
<1>2. \A e \in DOMAIN list : list[e] \in Item
  BY ListsAre
<1>3. \A e \in DOMAIN items : Merged(items)[e] =
        IF e \in DOMAIN list /\ list[e].status # "none" /\ items[e].status = "none"
        THEN [status |-> list[e].status, closed |-> FALSE] ELSE items[e]
  BY DEF Merged
<1>4. ASSUME NEW e \in DOMAIN items PROVE Merged(items)[e] \in Item
  <2>1. e \in DOMAIN list => [status |-> list[e].status, closed |-> FALSE] \in Item
    BY <1>2 DEF Item
  <2> QED
    BY <1>1, <1>3, <2>1
<1>5. Merged(items) \in [DOMAIN items -> Item]
  BY <1>4 DEF Merged
<1>6. ASSUME NEW e \in DOMAIN items
      PROVE  /\ \/ Merged(items)[e].status = items[e].status
                \/ e \in DOMAIN list /\ Merged(items)[e].status = list[e].status
             /\ e \in DOMAIN list /\ list[e].status = "registered" => Merged(items)[e].status = "registered"
  <2>1. items[e].status \in {"none", "registered"}
    BY <1>1 DEF Item
  <2>2. CASE e \in DOMAIN list /\ list[e].status # "none" /\ items[e].status = "none"
    <3>1. Merged(items)[e] = [status |-> list[e].status, closed |-> FALSE]
      BY <1>3, <2>2
    <3>2. Merged(items)[e].status = list[e].status
      BY <3>1
    <3> QED
      BY <2>2, <3>2
  <2>3. CASE ~(e \in DOMAIN list /\ list[e].status # "none" /\ items[e].status = "none")
    <3>1. Merged(items)[e] = items[e]
      BY <1>3, <2>3
    <3> QED
      BY <2>1, <2>3, <3>1
  <2> QED
    BY <2>2, <2>3
<1> QED
  BY <1>1, <1>5, <1>6, ListsAre

LEMMA MarkType ==
  ASSUME list \in Lists, NEW e \in Events, Mark(e)
  PROVE  /\ list' \in Lists /\ DOMAIN list' = DOMAIN list
         /\ \A d \in DOMAIN list : d # e => list'[d] = list[d]
         /\ e \in DOMAIN list => list'[e].status = "registered"
<1>1. DOMAIN list \in SUBSET Events /\ list \in [DOMAIN list -> Item]
  BY DEF Lists
<1>2. [status |-> "registered", closed |-> FALSE] \in Item
  BY DEF Item
<1> QED
  BY <1>1, <1>2, ListsAre DEF Mark

LEMMA LoadIs ==
  ASSUME Shapes, NEW l \in Loads
  PROVE  /\ loads[l] # Idle => loads[l] \in Request \cup Answer
         /\ loads[l].at = "sent" => loads[l] \in Request /\ loads[l].filter \in Filters
         /\ loads[l].at = "answered" => loads[l] \in Answer /\ loads[l].items \in Lists
         /\ loads[l].at \in {"sent", "answered"} => loads[l] # Idle
  BY DEF Shapes, Request, Answer, Idle

LEMMA TapIs ==
  ASSUME Shapes, NEW r \in Taps
  PROVE  /\ taps[r].at \in {"sent", "expired", "served"} => taps[r] \in Waiting
         /\ taps[r] \in Waiting =>
              /\ taps[r].at \in {"sent", "expired", "served"} /\ taps[r].stray \in BOOLEAN /\ taps[r].event \in Events
              /\ taps[r].waits \in BOOLEAN /\ taps[r].owner \in Accounts \cup {NoAccount}
              /\ taps[r].answer \in {"none", "created", "conflict", "error"}
         /\ taps[r] \in Waiting => taps[r] # Idle /\ taps[r] # Over
  BY DEF Shapes, Waiting, Idle, Over

LEMMA GivenUpIs ==
  ASSUME NEW tap \in {Idle, Over} \cup Waiting
  PROVE  /\ GivenUp(tap) \in {Idle, Over} \cup Waiting
         /\ GivenUp(tap) \in Waiting => /\ tap \in Waiting /\ ~GivenUp(tap).waits /\ GivenUp(tap).at # "served"
         /\ tap = Over => GivenUp(tap) = Over
<1>1. CASE tap \in Waiting /\ tap.at \in {"sent", "expired"}
  <2> DEFINE new == [tap EXCEPT !.waits = FALSE]
  <2>1. new \in Waiting /\ new.waits = FALSE /\ new.at # "served"
    BY <1>1 DEF Waiting
  <2>2. GivenUp(tap) = new
    BY <1>1 DEF GivenUp
  <2>3. tap # Over
    BY <1>1 DEF Over
  <2> HIDE DEF new
  <2> QED
    BY <1>1, <2>1, <2>2, <2>3
<1>2. CASE tap \in Waiting /\ tap.at = "served"
  <2>1. GivenUp(tap) = Over /\ Over \notin Waiting
    BY <1>2 DEF GivenUp, Waiting, Over
  <2> QED
    BY <1>2, <2>1
<1>3. CASE tap \in {Idle, Over}
  BY <1>3 DEF GivenUp, Waiting, Over, Idle
<1> QED
  BY <1>1, <1>2, <1>3 DEF Waiting

LEMMA AnsweredIs ==
  ASSUME Shapes, NEW r \in Taps, taps[r] \in Waiting, NEW answer \in {"created", "conflict", "error"},
         Answered(r, answer)
  PROVE  /\ taps' \in [Taps -> {Idle, Over} \cup Waiting]
         /\ \A q \in Taps \ {r} : taps'[q] = taps[q]
         /\ taps'[r] \in Waiting =>
              /\ taps[r].waits /\ taps'[r].waits /\ taps'[r].at = "served"
              /\ taps'[r].answer = answer
              /\ taps'[r].owner = taps[r].owner /\ taps'[r].event = taps[r].event
              /\ taps'[r].stray = taps[r].stray
<1> DEFINE new == [taps[r] EXCEPT !.at = "served", !.answer = answer]
<1>1. new \in Waiting /\ new.waits = taps[r].waits /\ new.at = "served" /\ new.answer = answer
      /\ new.owner = taps[r].owner /\ new.event = taps[r].event /\ new.stray = taps[r].stray
  BY DEF Waiting
<1>2. taps' = [taps EXCEPT ![r] = IF taps[r].waits THEN new ELSE Over]
  BY DEF Answered
<1>3. Over \notin Waiting
  BY DEF Over, Waiting
<1> HIDE DEF new
<1> QED
  BY <1>1, <1>2, <1>3 DEF Shapes

(* Which steps change what. AuthProvider tells its listeners of a token, of  *)
(* a profile that came and of a logout; a token that is new to the list      *)
(* empties it.                                                               *)
Hearing(l) == Notify(l) \/ Profile(l) \/ Clear(l)
Reset(l) ==
  /\ seen' = access' /\ filter' = filter
  /\ list' = [e \in {} |-> Idle] /\ StartLoad(l) /\ unbacked' = {}
  /\ access' # seen
Loading(l) == Refresh(l) \/ Reload(l) \/ Reset(l) \/ \E f \in Filters : SetFilter(f, l)

LEMMA HearingIs ==
  ASSUME NEW l \in Loads, Hearing(l)
  PROVE  /\ seen' = access' /\ access' \in {access, NoToken}
         /\ user' \in {"none", "late", "known", user}
         /\ UNCHANGED <<refreshing, rows, closed, due, screen, taps, failures>>
         /\ Reset(l) \/ UNCHANGED <<seen, filter, list, loads, newest, fresh, isLoading, error, unbacked>>
<1>1. /\ access' \in {access, NoToken} /\ UpdateToken(l)
      /\ user' \in {"none", "late", "known", user}
      /\ UNCHANGED <<refreshing, server, due, screen, taps, failures>>
  BY DEF Hearing, Notify, Profile, Clear
<1>2. seen' = access'
  BY <1>1 DEF UpdateToken
<1>3. CASE access' = seen
  BY <1>1, <1>2, <1>3 DEF UpdateToken, server
<1>4. CASE access' # seen
  BY <1>1, <1>2, <1>4 DEF UpdateToken, Reset, server
<1> QED
  BY <1>3, <1>4, <1>1, <1>2

(* The steps apart from the notifications.                                  *)
LEMMA StepIs ==
  ASSUME [Next]_vars
  PROVE  \/ UNCHANGED vars
         \/ \E l \in Loads : Hearing(l) \/ Serve(l) \/ Receive(l) \/ Fail(l) \/ Refresh(l) \/ Reload(l)
         \/ \E l \in Loads, f \in Filters : SetFilter(f, l)
         \/ \E t \in Tokens : Login(t) \/ Renew(t)
         \/ \E e \in Events : Open(e) \/ DeadlinePasses(e)
         \/ \E r \in Taps : Tap(r) \/ Register(r) \/ Registered(r) \/ Conflict(r) \/ Refused(r)
         \/ \E r \in Taps : Expire(r) \/ SendAgain(r)
         \/ AskRenewal /\ UNCHANGED taps
         \/ ProfileLost \/ RenewalLost \/ Logout \/ Close \/ FindQr
  BY DEF Next, Hearing

LEMMA LoadsChange ==
  ASSUME [Next]_vars
  PROVE  \/ UNCHANGED <<filter, loads, newest, fresh, isLoading>>
         \/ \E l \in Loads : Serve(l) \/ Receive(l) \/ Fail(l) \/ Loading(l)
  BY StepIs, HearingIs DEF Loading, vars, feed, Login, Renew, Open, DeadlinePasses, Tap, Register, Registered,
     Conflict, Refused, Expire, SendAgain, AskRenewal, ProfileLost, RenewalLost, Logout, Close, FindQr

LEMMA ListChanges ==
  ASSUME [Next]_vars
  PROVE  \/ list' = list
         \/ \E l \in Loads : Receive(l) \/ Reset(l)
         \/ \E r \in Taps : Registered(r) \/ Conflict(r)
  BY StepIs, HearingIs DEF vars, feed, Serve, Fail, Refresh, Reload, SetFilter, Login, Renew, Open,
     DeadlinePasses, Tap, Register, Refused, Expire, SendAgain, AskRenewal, ProfileLost, RenewalLost,
     Logout, Close, FindQr

LEMMA TokensChange ==
  ASSUME [Next]_vars
  PROVE  /\ \/ UNCHANGED <<access, seen>>
            \/ Logout /\ access' = NoToken /\ seen' = seen
            \/ \E t \in Tokens : (Login(t) \/ Renew(t)) /\ access' = t /\ seen' = seen
            \/ \E l \in Loads : Hearing(l)
         /\ seen' = seen \/ \E l \in Loads : Reset(l)
<1>1. \/ UNCHANGED <<access, seen>>
      \/ Logout /\ access' = NoToken /\ seen' = seen
      \/ \E t \in Tokens : (Login(t) \/ Renew(t)) /\ access' = t /\ seen' = seen
      \/ \E l \in Loads : Hearing(l)
  BY StepIs DEF vars, tokens, Serve, Receive, Fail, Refresh, Reload, SetFilter, Open, DeadlinePasses,
     Tap, Register, Registered, Conflict, Refused, Expire, SendAgain, AskRenewal, ProfileLost, RenewalLost,
     Logout, Close, FindQr, Login, Renew, Issue
<1> QED
  BY <1>1, HearingIs

LEMMA UsersChange ==
  ASSUME [Next]_vars
  PROVE  /\ user' \in {"none", "asked", "late", "known", "leaving", user}
         /\ refreshing' \in {refreshing, NoAccount} \/ AskRenewal
  BY StepIs, HearingIs DEF vars, tokens, Serve, Receive, Fail, Refresh, Reload, SetFilter, Open, DeadlinePasses,
     Tap, Register, Registered, Conflict, Refused, Expire, SendAgain, AskRenewal, ProfileLost, RenewalLost,
     Logout, Close, FindQr, Login, Renew

LEMMA TapsChange ==
  ASSUME [Next]_vars
  PROVE  \/ UNCHANGED taps \/ Close \/ RenewalLost
         \/ \E t \in Tokens : Renew(t)
         \/ \E r \in Taps : Tap(r) \/ Register(r) \/ Registered(r) \/ Conflict(r) \/ Refused(r)
         \/ \E r \in Taps : Expire(r) \/ SendAgain(r)
  BY StepIs, HearingIs DEF vars, Serve, Receive, Fail, Refresh, Reload, SetFilter, Login,
     Open, DeadlinePasses, ProfileLost, Logout, FindQr

LEMMA ScreenChanges ==
  ASSUME [Next]_vars
  PROVE  \/ UNCHANGED screen \/ Close \/ FindQr
         \/ \E e \in Events : Open(e)
         \/ \E r \in Taps : Tap(r) \/ Registered(r) \/ Conflict(r) \/ Refused(r)
  BY StepIs, HearingIs DEF vars, Serve, Receive, Fail, Refresh, Reload, SetFilter, Login, Renew,
     DeadlinePasses, Register, Expire, SendAgain, AskRenewal, ProfileLost, RenewalLost, Logout

LEMMA ServerChanges ==
  ASSUME [Next]_vars
  PROVE  /\ UNCHANGED rows \/ \E r \in Taps : Register(r)
         /\ UNCHANGED closed \/ \E e \in Events : DeadlinePasses(e)
         /\ \/ UNCHANGED unbacked \/ \E l \in Loads : Reset(l)
            \/ \E r \in Taps : Registered(r) \/ Conflict(r)
<1>1. UNCHANGED rows \/ \E r \in Taps : Register(r)
  BY StepIs, HearingIs DEF vars, server, Serve, Receive, Fail, Refresh, Reload, SetFilter, Login, Renew,
     Open, DeadlinePasses, Tap, Registered, Conflict, Refused, Expire, SendAgain, AskRenewal, ProfileLost,
     RenewalLost, Logout, Close, FindQr
<1>2. UNCHANGED closed \/ \E e \in Events : DeadlinePasses(e)
  BY StepIs, HearingIs DEF vars, server, Serve, Receive, Fail, Refresh, Reload, SetFilter, Login, Renew,
     Open, Tap, Register, Registered, Conflict, Refused, Expire, SendAgain, AskRenewal, ProfileLost,
     RenewalLost, Logout, Close, FindQr
<1>3. \/ UNCHANGED unbacked \/ \E l \in Loads : Reset(l)
      \/ \E r \in Taps : Registered(r) \/ Conflict(r)
  BY StepIs, HearingIs DEF vars, Serve, Receive, Fail, Refresh, Reload, SetFilter, Login, Renew,
     Open, DeadlinePasses, Tap, Register, Refused, Expire, SendAgain, AskRenewal, ProfileLost, RenewalLost,
     Logout, Close, FindQr
<1> QED
  BY <1>1, <1>2, <1>3

LEMMA CountersChange ==
  ASSUME [Next]_vars
  PROVE  /\ UNCHANGED due \/ (\E l \in Loads : Reload(l)) \/ \E r \in Taps : Registered(r) \/ Conflict(r)
         /\ failures' = failures \/ (failures < MaxFailures /\ failures' = failures + 1)
         /\ UNCHANGED error \/ \E l \in Loads : Fail(l) \/ Loading(l)
<1>1. UNCHANGED due \/ (\E l \in Loads : Reload(l)) \/ \E r \in Taps : Registered(r) \/ Conflict(r)
  BY StepIs, HearingIs DEF vars, Serve, Receive, Fail, Refresh, SetFilter, Login, Renew,
     Open, DeadlinePasses, Tap, Register, Refused, Expire, SendAgain, AskRenewal, ProfileLost, RenewalLost,
     Logout, Close, FindQr
<1>2. failures' = failures \/ (failures < MaxFailures /\ failures' = failures + 1)
  BY StepIs, HearingIs DEF vars, Serve, Receive, Fail, Refresh, Reload, SetFilter, Login, Renew,
     Open, DeadlinePasses, Tap, Register, Registered, Conflict, Refused, Expire, SendAgain, AskRenewal,
     ProfileLost, RenewalLost, Logout, Close, FindQr
<1>3. UNCHANGED error \/ \E l \in Loads : Fail(l) \/ Loading(l)
  BY StepIs, HearingIs DEF Loading, vars, feed, Serve, Receive, Login, Renew, Open, DeadlinePasses, Tap, Register,
     Registered, Conflict, Refused, Expire, SendAgain, AskRenewal, ProfileLost, RenewalLost, Logout, Close, FindQr
<1> QED
  BY <1>1, <1>2, <1>3

(* What a step of a load does to the loads.                                 *)
LEMMA LoadingIs ==
  ASSUME Shapes, NEW l \in Loads, Loading(l)
  PROVE  /\ filter' \in Filters /\ newest' = l
         /\ fresh' = FALSE /\ isLoading' = TRUE /\ error' = FALSE
         /\ loads' \in [Loads -> {Idle} \cup Request \cup Answer]
         /\ loads'[l] # Idle /\ loads'[l].at = "sent" /\ loads'[l].filter = filter'
         /\ \A k \in Loads \ {l} : loads'[k] = loads[k]
<1> DEFINE new == [at |-> "sent", filter |-> filter']
<1>1. filter' \in Filters /\ StartLoad(l)
  BY DEF Loading, Refresh, Reload, Reset, SetFilter, Shapes
<1>2. new \in Request /\ new # Idle /\ new.at = "sent" /\ new.filter = filter'
  BY <1>1 DEF Request, Idle
<1>3. /\ loads' = [loads EXCEPT ![l] = new] /\ newest' = l
      /\ fresh' = FALSE /\ isLoading' = TRUE /\ error' = FALSE
  BY <1>1 DEF StartLoad
<1> HIDE DEF new
<1> QED
  BY <1>1, <1>2, <1>3 DEF Shapes

LEMMA EndedIs ==
  ASSUME Shapes, NEW l \in Loads, Ended(l)
  PROVE  /\ loads' \in [Loads -> {Idle} \cup Request \cup Answer]
         /\ loads'[l] = Idle
         /\ \A k \in Loads \ {l} : loads'[k] = loads[k]
         /\ newest' = IF newest = l THEN NoLoad ELSE newest
         /\ newest' \in Loads \cup {NoLoad}
         /\ isLoading' = FALSE
  BY DEF Ended, Shapes

LEMMA ServeIs ==
  ASSUME Shapes, NEW l \in Loads, Serve(l)
  PROVE  /\ loads[l].at = "sent" /\ loads[l].filter \in Filters
         /\ loads' \in [Loads -> {Idle} \cup Request \cup Answer]
         /\ loads'[l] # Idle /\ loads'[l].at = "answered"
         /\ loads'[l].items = ListEvents(loads[l].filter)
         /\ \A k \in Loads \ {l} : loads'[k] = loads[k]
         /\ UNCHANGED <<filter, newest, fresh, isLoading>>
<1> DEFINE new == [at |-> "answered", items |-> ListEvents(loads[l].filter)]
<1>1. loads[l].at = "sent" /\ loads[l].filter \in Filters
  BY LoadIs DEF Serve
<1>2. new \in Answer /\ new # Idle /\ new.at = "answered" /\ new.items = ListEvents(loads[l].filter)
  BY <1>1, ListEventsType DEF Answer, Idle
<1>3. loads' = [loads EXCEPT ![l] = new] /\ UNCHANGED <<filter, newest, fresh, isLoading>>
  BY DEF Serve
<1> HIDE DEF new
<1> QED
  BY <1>1, <1>2, <1>3 DEF Shapes

(* What a step of a registration does to the requests and the screen.       *)
LEMMA ScreenIs ==
  ASSUME Shapes, screen # NoScreen
  PROVE  /\ screen \in Opened /\ screen.event \in Events
         /\ \A b \in BOOLEAN : /\ [screen EXCEPT !.busy = b] \in Opened
         /\ \A b \in BOOLEAN, q \in {"no", "asked", "yes"} : [screen EXCEPT !.busy = b, !.qr = q] \in Opened
         /\ \A q \in {"no", "asked", "yes"} : [screen EXCEPT !.qr = q] \in Opened
<1>1. screen \in Opened
  BY DEF Shapes
<1> QED
  BY <1>1 DEF Opened

LEMMA OpenedIsOpen == NoScreen \notin Opened
  BY DEF NoScreen, Opened

LEMMA SenderIs ==
  ASSUME Shapes
  PROVE  Sender \in Accounts \cup {NoAccount} /\ Astray \in BOOLEAN
  BY FeedAssumption DEF Shapes, Sender, Astray

LEMMA TapStarts ==
  ASSUME Shapes, NEW r \in Taps, Tap(r)
  PROVE  /\ taps' \in [Taps -> {Idle, Over} \cup Waiting]
         /\ \A q \in Taps \ {r} : taps'[q] = taps[q]
         /\ taps[r] = Idle /\ taps'[r] \in Waiting
         /\ taps'[r].at = "sent" /\ taps'[r].waits
         /\ taps'[r].owner = Sender /\ taps'[r].stray = Astray
         /\ screen # NoScreen /\ screen' \in Opened
<1> DEFINE new == [at |-> "sent", event |-> screen.event, waits |-> TRUE,
                   owner |-> Sender, stray |-> Astray, answer |-> "none"]
<1>1. screen # NoScreen /\ taps[r] = Idle /\ taps' = [taps EXCEPT ![r] = new] /\ screen' \in Opened
  BY ScreenIs DEF Tap
<1>2. Sender \in Accounts \cup {NoAccount} /\ Astray \in BOOLEAN
  BY SenderIs
<1>3. screen.event \in Events
  BY <1>1, ScreenIs
<1>4. /\ new \in Waiting /\ new.at = "sent" /\ new.waits = TRUE
      /\ new.owner = Sender /\ new.stray = Astray
  BY <1>2, <1>3 DEF Waiting
<1> HIDE DEF new
<1> QED
  BY <1>1, <1>4 DEF Shapes

LEMMA HeardIs ==
  ASSUME Shapes, NEW r \in Taps, NEW answer \in {"created", "conflict", "error"}, Heard(r, answer)
  PROVE  /\ taps' \in [Taps -> {Idle, Over} \cup Waiting]
         /\ \A q \in Taps \ {r} : taps'[q] = taps[q]
         /\ taps[r] \in Waiting /\ taps[r].at = "served" /\ taps[r].answer = answer
         /\ taps[r].event \in Events
         /\ taps'[r] = Over
<1>1. taps[r] \in Waiting /\ taps[r].event \in Events
  BY TapIs DEF Heard
<1> QED
  BY <1>1 DEF Shapes, Heard

LEMMA RefusedIs ==
  ASSUME Shapes, NEW r \in Taps, Refused(r)
  PROVE  /\ taps' \in [Taps -> {Idle, Over} \cup Waiting]
         /\ \A q \in Taps \ {r} : taps'[q] = taps[q]
         /\ taps[r] \in Waiting /\ taps[r].waits
         /\ taps'[r] = GivenUp(taps[r])
<1>1. taps[r] \in Waiting /\ taps[r].waits
  BY TapIs DEF Refused
<1>2. GivenUp(taps[r]) \in {Idle, Over} \cup Waiting
  BY <1>1, GivenUpIs
<1> QED
  BY <1>1, <1>2 DEF Shapes, Refused

LEMMA CloseIs ==
  ASSUME Shapes, Close
  PROVE  /\ taps' \in [Taps -> {Idle, Over} \cup Waiting]
         /\ \A q \in Taps : taps'[q] = GivenUp(taps[q])
         /\ screen' = NoScreen
<1>1. \A q \in Taps : GivenUp(taps[q]) \in {Idle, Over} \cup Waiting
  BY GivenUpIs DEF Shapes
<1> QED
  BY <1>1 DEF Close

(* A registration is answered, with its row when it was created, or is over. *)
LEMMA RegisterIs ==
  ASSUME Shapes, NEW r \in Taps, Register(r)
  PROVE  /\ taps' \in [Taps -> {Idle, Over} \cup Waiting]
         /\ \A q \in Taps \ {r} : taps'[q] = taps[q]
         /\ taps[r] \in Waiting /\ taps[r].at = "sent"
         /\ rows \subseteq rows' /\ rows' \subseteq Accounts \X Events
         /\ taps'[r] \in Waiting =>
              /\ taps[r].waits /\ taps'[r].waits /\ taps'[r].at = "served"
              /\ taps'[r].owner = taps[r].owner /\ taps'[r].event = taps[r].event
              /\ taps'[r].stray = taps[r].stray
              /\ taps'[r].answer = "created" => <<taps[r].owner, taps[r].event>> \in rows'
              /\ taps'[r].answer \in {"created", "conflict"} => taps[r].owner # NoAccount
<1>1. /\ taps[r] \in Waiting /\ taps[r].at = "sent" /\ taps[r].event \in Events
      /\ taps[r].owner \in Accounts \cup {NoAccount}
  BY TapIs DEF Register
<1> DEFINE row == <<taps[r].owner, taps[r].event>>
<1>2. taps[r].owner # NoAccount => row \in Accounts \X Events
  BY <1>1
<1>3. rows \subseteq Accounts \X Events
  BY DEF Shapes
<1>4. \/ taps[r].owner # NoAccount /\ Answered(r, "created") /\ rows' = rows \cup {row}
      \/ taps[r].owner # NoAccount /\ Answered(r, "conflict") /\ rows' = rows
      \/ Answered(r, "error") /\ rows' = rows
  BY DEF Register
<1> HIDE DEF row
<1>5. CASE taps[r].owner # NoAccount /\ Answered(r, "created") /\ rows' = rows \cup {row}
  <2>1. row \in rows' /\ rows \subseteq rows' /\ rows' \subseteq Accounts \X Events
    BY <1>2, <1>3, <1>5
  <2> QED
    BY <1>1, <1>5, <2>1, AnsweredIs DEF row
<1>6. CASE taps[r].owner # NoAccount /\ Answered(r, "conflict") /\ rows' = rows
  BY <1>1, <1>3, <1>6, AnsweredIs
<1>7. CASE Answered(r, "error") /\ rows' = rows
  BY <1>1, <1>3, <1>7, AnsweredIs
<1> QED
  BY <1>4, <1>5, <1>6, <1>7

(* What a renewal does to the requests.                                     *)
LEMMA OvertakenIs ==
  ASSUME NEW tap \in {Idle, Over} \cup Waiting, NEW t \in Tokens
  PROVE  /\ Overtaken(tap, t) \in {Idle, Over} \cup Waiting
         /\ tap \notin Waiting => Overtaken(tap, t) = tap
         /\ tap \in Waiting =>
              /\ Overtaken(tap, t) \in Waiting
              /\ Overtaken(tap, t).at = tap.at /\ Overtaken(tap, t).waits = tap.waits
              /\ Overtaken(tap, t).owner = tap.owner /\ Overtaken(tap, t).event = tap.event
              /\ Overtaken(tap, t).answer = tap.answer
              /\ \/ Overtaken(tap, t).stray = tap.stray /\ (~tap.waits \/ tap.owner \in {OwnerOf[t], NoAccount})
                 \/ Overtaken(tap, t).stray = TRUE
<1>1. CASE tap \in Waiting
  <2> DEFINE new == [tap EXCEPT !.stray = TRUE]
  <2>1. /\ new \in Waiting /\ new.stray = TRUE /\ new.at = tap.at /\ new.waits = tap.waits
        /\ new.owner = tap.owner /\ new.event = tap.event /\ new.answer = tap.answer
    BY <1>1 DEF Waiting
  <2>2. tap.at \in {"sent", "expired", "served"} /\ tap.waits \in BOOLEAN
    BY <1>1 DEF Waiting
  <2>3. Overtaken(tap, t) = IF tap.waits /\ tap.owner \notin {OwnerOf[t], NoAccount} THEN new ELSE tap
    BY <2>2 DEF Overtaken
  <2> HIDE DEF new
  <2> QED
    BY <1>1, <2>1, <2>2, <2>3
<1>2. CASE tap \in {Idle, Over}
  BY <1>2 DEF Overtaken, Waiting, Idle, Over
<1> QED
  BY <1>1, <1>2

LEMMA RenewIs ==
  ASSUME Shapes, NEW t \in Tokens, Renew(t)
  PROVE  /\ taps' \in [Taps -> {Idle, Over} \cup Waiting]
         /\ \A q \in Taps : taps'[q] = Overtaken(taps[q], t)
         /\ access' = t /\ UNCHANGED <<seen, rows, screen>>
<1>1. \A q \in Taps : Overtaken(taps[q], t) \in {Idle, Over} \cup Waiting
  BY OvertakenIs DEF Shapes
<1> QED
  BY <1>1 DEF Renew, Issue, server

LEMMA ExpireIs ==
  ASSUME Shapes, NEW r \in Taps, Expire(r)
  PROVE  /\ taps' \in [Taps -> {Idle, Over} \cup Waiting]
         /\ \A q \in Taps \ {r} : taps'[q] = taps[q]
         /\ taps[r] \in Waiting /\ taps'[r] \in Waiting /\ taps'[r].at = "expired"
         /\ taps'[r].waits = taps[r].waits /\ taps'[r].owner = taps[r].owner
         /\ taps'[r].stray = taps[r].stray
         /\ UNCHANGED <<access, seen, rows, screen>>
<1> DEFINE new == [taps[r] EXCEPT !.at = "expired"]
<1>1. taps[r] \in Waiting
  BY TapIs DEF Expire
<1>2. /\ new \in Waiting /\ new.at = "expired" /\ new.waits = taps[r].waits
      /\ new.owner = taps[r].owner /\ new.stray = taps[r].stray
  BY <1>1 DEF Waiting
<1>3. taps' = [taps EXCEPT ![r] = new] /\ UNCHANGED <<access, seen, rows, screen>>
  BY DEF Expire, AskRenewal, server
<1> HIDE DEF new
<1> QED
  BY <1>1, <1>2, <1>3 DEF Shapes

LEMMA SendAgainIs ==
  ASSUME Shapes, NEW r \in Taps, SendAgain(r)
  PROVE  /\ taps' \in [Taps -> {Idle, Over} \cup Waiting]
         /\ \A q \in Taps \ {r} : taps'[q] = taps[q]
         /\ taps[r] \in Waiting /\ taps'[r] \in Waiting /\ taps'[r].at = "sent"
         /\ taps'[r].waits = taps[r].waits /\ taps'[r].owner = Sender /\ taps'[r].stray = Astray
         /\ UNCHANGED <<access, seen, rows, screen>>
<1> DEFINE new == [taps[r] EXCEPT !.at = "sent", !.owner = Sender, !.stray = Astray]
<1>1. taps[r] \in Waiting
  BY TapIs DEF SendAgain
<1>2. /\ new \in Waiting /\ new.at = "sent" /\ new.waits = taps[r].waits
      /\ new.owner = Sender /\ new.stray = Astray
  BY <1>1, SenderIs DEF Waiting
<1>3. taps' = [taps EXCEPT ![r] = new] /\ UNCHANGED <<access, seen, rows, screen>>
  BY DEF SendAgain, server, tokens
<1> HIDE DEF new
<1> QED
  BY <1>1, <1>2, <1>3 DEF Shapes

LEMMA RenewalLostIs ==
  ASSUME Shapes, RenewalLost
  PROVE  /\ taps' \in [Taps -> {Idle, Over} \cup Waiting]
         /\ \A q \in Taps :
              \/ taps'[q] = taps[q]
              \/ taps[q] \in Waiting /\ taps'[q] = Over
              \/ /\ taps[q] \in Waiting /\ taps'[q] \in Waiting /\ taps[q].waits /\ taps'[q].waits
                 /\ taps'[q].at = "served" /\ taps'[q].answer = "error"
                 /\ taps'[q].owner = taps[q].owner /\ taps'[q].stray = taps[q].stray
         /\ UNCHANGED <<access, seen, rows, screen>>
<1>1. ASSUME NEW q \in Taps, taps[q] \in Waiting
      PROVE  /\ [taps[q] EXCEPT !.at = "served", !.answer = "error"] \in Waiting
             /\ [taps[q] EXCEPT !.at = "served", !.answer = "error"].at = "served"
             /\ [taps[q] EXCEPT !.at = "served", !.answer = "error"].answer = "error"
             /\ [taps[q] EXCEPT !.at = "served", !.answer = "error"].waits = taps[q].waits
             /\ [taps[q] EXCEPT !.at = "served", !.answer = "error"].owner = taps[q].owner
             /\ [taps[q] EXCEPT !.at = "served", !.answer = "error"].stray = taps[q].stray
  BY <1>1 DEF Waiting
<1>2. /\ DOMAIN taps' = Taps
      /\ taps' = [r \in Taps |->
           IF taps[r].at # "expired" THEN taps[r]
           ELSE IF taps[r].waits THEN [taps[r] EXCEPT !.at = "served", !.answer = "error"] ELSE Over]
  BY DEF RenewalLost
<1>3. ASSUME NEW q \in Taps
      PROVE  /\ \/ taps'[q] = taps[q]
                \/ taps[q] \in Waiting /\ taps'[q] = Over
                \/ /\ taps[q] \in Waiting /\ taps'[q] \in Waiting /\ taps[q].waits /\ taps'[q].waits
                   /\ taps'[q].at = "served" /\ taps'[q].answer = "error"
                   /\ taps'[q].owner = taps[q].owner /\ taps'[q].stray = taps[q].stray
             /\ taps'[q] \in {Idle, Over} \cup Waiting
  <2>1. taps[q] \in {Idle, Over} \cup Waiting
    BY DEF Shapes
  <2>2. CASE taps[q].at # "expired"
    BY <1>2, <2>1, <2>2
  <2>3. CASE taps[q].at = "expired" /\ ~taps[q].waits
    BY <1>2, <2>3, TapIs
  <2>4. CASE taps[q].at = "expired" /\ taps[q].waits
    <3> DEFINE new == [taps[q] EXCEPT !.at = "served", !.answer = "error"]
    <3>1. taps[q] \in Waiting
      BY <2>4, TapIs
    <3>2. taps'[q] = new
      BY <1>2, <2>4
    <3>3. /\ new \in Waiting /\ new.at = "served" /\ new.answer = "error"
          /\ new.waits = taps[q].waits /\ new.owner = taps[q].owner /\ new.stray = taps[q].stray
      BY <1>1, <3>1
    <3> HIDE DEF new
    <3> QED
      BY <2>4, <3>1, <3>2, <3>3
  <2> QED
    BY <2>2, <2>3, <2>4
<1>4. UNCHANGED <<access, seen, rows, screen>>
  BY DEF RenewalLost, server
<1>5. taps' \in [Taps -> {Idle, Over} \cup Waiting]
  <2>1. taps' = [r \in Taps |-> taps'[r]]
    BY <1>2
  <2> QED
    BY <1>3, <2>1
<1> QED
  BY <1>3, <1>4, <1>5

-----------------------------------------------------------------------------
(* Each part of the invariant is kept by every step.                        *)

(* A registration that is heard of finds the screen open.                   *)
LEMMA HeardOnScreen ==
  ASSUME Shapes, Awaited, NEW r \in Taps,
         Registered(r) \/ Conflict(r) \/ Refused(r)
  PROVE  screen # NoScreen
<1>1. CASE Refused(r)
  BY <1>1, RefusedIs DEF Awaited, Promised
<1>2. CASE Registered(r)
  BY <1>2, HeardIs DEF Awaited, Promised, Registered
<1>3. CASE Conflict(r)
  BY <1>3, HeardIs DEF Awaited, Promised, Conflict
<1> QED
  BY <1>1, <1>2, <1>3

LEMMA LoadsShape ==
  ASSUME Shapes, [Next]_vars
  PROVE  /\ filter' \in Filters /\ newest' \in Loads \cup {NoLoad}
         /\ loads' \in [Loads -> {Idle} \cup Request \cup Answer]
         /\ fresh' \in BOOLEAN /\ isLoading' \in BOOLEAN /\ error' \in BOOLEAN
<1>1. /\ filter \in Filters /\ newest \in Loads \cup {NoLoad}
      /\ loads \in [Loads -> {Idle} \cup Request \cup Answer]
      /\ fresh \in BOOLEAN /\ isLoading \in BOOLEAN /\ error \in BOOLEAN
  BY DEF Shapes
<1>2. error' \in BOOLEAN
  <2>1. CASE error' = error
    BY <1>1, <2>1
  <2>2. ASSUME NEW l \in Loads, Fail(l) PROVE error' \in BOOLEAN
    BY <2>2 DEF Fail
  <2>3. ASSUME NEW l \in Loads, Loading(l) PROVE error' \in BOOLEAN
    BY <2>3, LoadingIs
  <2> QED
    BY <2>1, <2>2, <2>3, CountersChange
<1>3. CASE UNCHANGED <<filter, loads, newest, fresh, isLoading>>
  BY <1>1, <1>2, <1>3
<1>4. ASSUME NEW l \in Loads, Serve(l)
      PROVE  /\ filter' \in Filters /\ newest' \in Loads \cup {NoLoad}
             /\ loads' \in [Loads -> {Idle} \cup Request \cup Answer]
             /\ fresh' \in BOOLEAN /\ isLoading' \in BOOLEAN
  BY <1>1, <1>4, ServeIs
<1>5. ASSUME NEW l \in Loads, Receive(l)
      PROVE  /\ filter' \in Filters /\ newest' \in Loads \cup {NoLoad}
             /\ loads' \in [Loads -> {Idle} \cup Request \cup Answer]
             /\ fresh' \in BOOLEAN /\ isLoading' \in BOOLEAN
  <2>1. Ended(l) /\ filter' = filter /\ fresh' \in BOOLEAN
    BY <1>5 DEF Receive
  <2> QED
    BY <1>1, <2>1, EndedIs
<1>6. ASSUME NEW l \in Loads, Fail(l)
      PROVE  /\ filter' \in Filters /\ newest' \in Loads \cup {NoLoad}
             /\ loads' \in [Loads -> {Idle} \cup Request \cup Answer]
             /\ fresh' \in BOOLEAN /\ isLoading' \in BOOLEAN
  <2>1. Ended(l) /\ filter' = filter /\ fresh' = fresh
    BY <1>6 DEF Fail
  <2> QED
    BY <1>1, <2>1, EndedIs
<1>7. ASSUME NEW l \in Loads, Loading(l)
      PROVE  /\ filter' \in Filters /\ newest' \in Loads \cup {NoLoad}
             /\ loads' \in [Loads -> {Idle} \cup Request \cup Answer]
             /\ fresh' \in BOOLEAN /\ isLoading' \in BOOLEAN
  BY <1>7, LoadingIs
<1> QED
  BY <1>2, <1>3, <1>4, <1>5, <1>6, <1>7, LoadsChange

LEMMA ListShape ==
  ASSUME Shapes, [Next]_vars
  PROVE  list' \in Lists
<1>1. list \in Lists
  BY DEF Shapes
<1>2. CASE list' = list
  BY <1>1, <1>2
<1>3. ASSUME NEW l \in Loads, Receive(l) PROVE list' \in Lists
  <2>1. loads[l].items \in Lists /\ list' = Merged(loads[l].items)
    BY <1>3, LoadIs DEF Receive
  <2> QED
    BY <1>1, <2>1, MergedType
<1>4. ASSUME NEW l \in Loads, Reset(l) PROVE list' \in Lists
  BY <1>4, EmptyList DEF Reset
<1>5. ASSUME NEW r \in Taps, Registered(r) PROVE list' \in Lists
  <2>1. taps[r].event \in Events /\ Mark(taps[r].event)
    BY <1>5, HeardIs DEF Registered
  <2> QED
    BY <1>1, <2>1, MarkType
<1>6. ASSUME NEW r \in Taps, Conflict(r) PROVE list' \in Lists
  <2>1. taps[r].event \in Events /\ Mark(taps[r].event)
    BY <1>6, HeardIs DEF Conflict
  <2> QED
    BY <1>1, <2>1, MarkType
<1> QED
  BY <1>2, <1>3, <1>4, <1>5, <1>6, ListChanges

LEMMA TapsShape ==
  ASSUME Shapes, [Next]_vars
  PROVE  taps' \in [Taps -> {Idle, Over} \cup Waiting]
<1>1. CASE taps' = taps
  BY <1>1 DEF Shapes
<1>2. CASE Close
  BY <1>2, CloseIs
<1>3. ASSUME NEW r \in Taps, Tap(r) PROVE taps' \in [Taps -> {Idle, Over} \cup Waiting]
  BY <1>3, TapStarts
<1>4. ASSUME NEW r \in Taps, Register(r) PROVE taps' \in [Taps -> {Idle, Over} \cup Waiting]
  BY <1>4, RegisterIs
<1>5. ASSUME NEW r \in Taps, Registered(r) PROVE taps' \in [Taps -> {Idle, Over} \cup Waiting]
  BY <1>5, HeardIs DEF Registered
<1>6. ASSUME NEW r \in Taps, Conflict(r) PROVE taps' \in [Taps -> {Idle, Over} \cup Waiting]
  BY <1>6, HeardIs DEF Conflict
<1>7. ASSUME NEW r \in Taps, Refused(r) PROVE taps' \in [Taps -> {Idle, Over} \cup Waiting]
  BY <1>7, RefusedIs
<1>8. ASSUME NEW t \in Tokens, Renew(t) PROVE taps' \in [Taps -> {Idle, Over} \cup Waiting]
  BY <1>8, RenewIs
<1>9. ASSUME NEW r \in Taps, Expire(r) \/ SendAgain(r) PROVE taps' \in [Taps -> {Idle, Over} \cup Waiting]
  BY <1>9, ExpireIs, SendAgainIs
<1>10. CASE RenewalLost
  BY <1>10, RenewalLostIs
<1> QED
  BY <1>1, <1>2, <1>3, <1>4, <1>5, <1>6, <1>7, <1>8, <1>9, <1>10, TapsChange

LEMMA ScreenShape ==
  ASSUME Shapes, Awaited, [Next]_vars
  PROVE  screen' \in {NoScreen} \cup Opened
<1>1. CASE screen' = screen
  BY <1>1 DEF Shapes
<1>2. CASE Close
  BY <1>2, CloseIs
<1>3. CASE FindQr
  BY <1>3, ScreenIs DEF FindQr
<1>4. ASSUME NEW e \in Events, Open(e) PROVE screen' \in Opened
  <2>1. list[e] \in Item
    BY <1>4, ListsAre DEF Open, Shapes
  <2>2. screen' = [at |-> "open", event |-> e, item |-> list[e], busy |-> FALSE, qr |-> "no"]
    BY <1>4 DEF Open
  <2> QED
    BY <2>1, <2>2 DEF Opened
<1>5. ASSUME NEW r \in Taps, Tap(r) PROVE screen' \in Opened
  BY <1>5, TapStarts
<1>6. ASSUME NEW r \in Taps, Registered(r) PROVE screen' \in Opened
  BY <1>6, HeardOnScreen, ScreenIs DEF Registered
<1>7. ASSUME NEW r \in Taps, Conflict(r) PROVE screen' \in Opened
  BY <1>7, HeardOnScreen, ScreenIs DEF Conflict
<1>8. ASSUME NEW r \in Taps, Refused(r) PROVE screen' \in Opened
  BY <1>8, HeardOnScreen, ScreenIs DEF Refused
<1> QED
  BY <1>1, <1>2, <1>3, <1>4, <1>5, <1>6, <1>7, <1>8, ScreenChanges

LEMMA RowsGrow ==
  ASSUME Shapes, [Next]_vars
  PROVE  rows \subseteq rows' /\ rows' \subseteq Accounts \X Events
<1>1. CASE rows' = rows
  BY <1>1 DEF Shapes
<1>2. ASSUME NEW r \in Taps, Register(r) PROVE rows \subseteq rows' /\ rows' \subseteq Accounts \X Events
  BY <1>2, RegisterIs
<1> QED
  BY <1>1, <1>2, ServerChanges

LEMMA TokensShape ==
  ASSUME Shapes, [Next]_vars
  PROVE  /\ access' \in Tokens \cup {NoToken} /\ seen' \in Tokens \cup {NoToken}
         /\ user' \in {"none", "asked", "late", "known", "leaving"}
         /\ refreshing' \in Accounts \cup {NoAccount}
<1>1. access \in Tokens \cup {NoToken} /\ seen \in Tokens \cup {NoToken}
  BY DEF Shapes
<1>2. ASSUME NEW l \in Loads, Hearing(l) PROVE access' \in {access, NoToken} /\ seen' = access'
  BY <1>2, HearingIs
<1>3. AskRenewal => refreshing' \in Accounts
  BY <1>1, FeedAssumption DEF AskRenewal
<1>4. access' \in Tokens \cup {NoToken} /\ seen' \in Tokens \cup {NoToken}
  BY <1>1, <1>2, TokensChange
<1> QED
  BY <1>3, <1>4, UsersChange DEF Shapes

LEMMA CountsShape ==
  ASSUME Shapes, [Next]_vars
  PROVE  /\ due' \in Nat /\ failures' \in 0..MaxFailures
         /\ closed' \subseteq Events /\ unbacked' \subseteq Events
<1>1. due \in Nat /\ failures \in 0..MaxFailures /\ closed \subseteq Events /\ unbacked \subseteq Events
  BY DEF Shapes
<1>2. failures' \in 0..MaxFailures
  BY <1>1, CountersChange, FeedAssumption
<1>3. due' \in Nat
  <2>1. ASSUME NEW l \in Loads, Reload(l) PROVE due' \in Nat
    BY <1>1, <2>1 DEF Reload
  <2>2. ASSUME NEW r \in Taps, Registered(r) \/ Conflict(r) PROVE due' \in Nat
    BY <1>1, <2>2 DEF Registered, Conflict, Mark
  <2> QED
    BY <1>1, <2>1, <2>2, CountersChange
<1>4. closed' \subseteq Events
  <2>1. ASSUME NEW e \in Events, DeadlinePasses(e) PROVE closed' \subseteq Events
    BY <1>1, <2>1 DEF DeadlinePasses
  <2> QED
    BY <1>1, <2>1, ServerChanges
<1>5. unbacked' \subseteq Events
  <2>1. ASSUME NEW l \in Loads, Reset(l) PROVE unbacked' \subseteq Events
    BY <2>1 DEF Reset
  <2>2. ASSUME NEW r \in Taps, Registered(r) \/ Conflict(r) PROVE unbacked' \subseteq Events
    BY <1>1, <2>2, HeardIs DEF Registered, Conflict
  <2> QED
    BY <1>1, <2>1, <2>2, ServerChanges
<1> QED
  BY <1>2, <1>3, <1>4, <1>5

LEMMA ShapesStep ==
  ASSUME Shapes, Awaited, [Next]_vars
  PROVE  Shapes'
  BY LoadsShape, ListShape, TapsShape, ScreenShape, RowsGrow, TokensShape, CountsShape DEF Shapes

(* A request that is over stays over, and each step that puts a load off    *)
(* ends one more.                                                           *)
LEMMA OverStays ==
  ASSUME Shapes, [Next]_vars
  PROVE  Answers \subseteq Answers'
<1> SUFFICES ASSUME NEW q \in Taps, taps[q] = Over
             PROVE  taps'[q] = Over
  BY DEF Answers
<1>1. taps[q] \notin Waiting /\ taps[q] # Idle
  BY DEF Waiting, Over, Idle
<1>2. CASE taps' = taps
  BY <1>2
<1>3. CASE Close
  BY <1>3, CloseIs, GivenUpIs DEF Shapes
<1>4. ASSUME NEW r \in Taps, Tap(r) PROVE taps'[q] = Over
  BY <1>1, <1>4, TapStarts
<1>5. ASSUME NEW r \in Taps, Register(r) PROVE taps'[q] = Over
  BY <1>1, <1>5, RegisterIs
<1>6. ASSUME NEW r \in Taps, Registered(r) PROVE taps'[q] = Over
  BY <1>6, HeardIs DEF Registered
<1>7. ASSUME NEW r \in Taps, Conflict(r) PROVE taps'[q] = Over
  BY <1>7, HeardIs DEF Conflict
<1>8. ASSUME NEW r \in Taps, Refused(r) PROVE taps'[q] = Over
  BY <1>1, <1>8, RefusedIs
<1>9. ASSUME NEW t \in Tokens, Renew(t) PROVE taps'[q] = Over
  <2>1. taps'[q] = Overtaken(taps[q], t) /\ taps[q] \in {Idle, Over} \cup Waiting
    BY <1>9, RenewIs DEF Shapes
  <2> QED
    BY <1>1, <2>1, OvertakenIs
<1>10. ASSUME NEW r \in Taps, Expire(r) \/ SendAgain(r) PROVE taps'[q] = Over
  BY <1>1, <1>10, ExpireIs, SendAgainIs
<1>11. CASE RenewalLost
  BY <1>1, <1>11, RenewalLostIs
<1> QED
  BY <1>2, <1>3, <1>4, <1>5, <1>6, <1>7, <1>8, <1>9, <1>10, <1>11, TapsChange

LEMMA DueIsHeardStep ==
  ASSUME Shapes, DueIsHeard, [Next]_vars
  PROVE  DueIsHeard'
<1> DEFINE Before == Answers
           After  == Answers'
<1>1. Before \subseteq After /\ After \subseteq Taps /\ IsFiniteSet(Taps)
  BY OverStays, FeedAssumption DEF Answers
<1>2. due \in Nat /\ due <= Cardinality(Before) /\ (DueIsHeard' <=> due' <= Cardinality(After))
  BY DEF Shapes, DueIsHeard
<1>3. ASSUME NEW r \in Taps, Registered(r) \/ Conflict(r)
      PROVE  r \in After /\ r \notin Before /\ due' = due + 1
  <2>1. taps[r] \in Waiting /\ taps'[r] = Over
    BY <1>3, HeardIs DEF Registered, Conflict
  <2>2. taps[r] # Over
    BY <2>1 DEF Waiting, Over
  <2>3. due' = due + 1
    BY <1>3 DEF Registered, Conflict, Mark
  <2> QED
    BY <2>1, <2>2, <2>3 DEF Answers
<1> HIDE DEF Before, After
<1>4. IsFiniteSet(After) /\ Cardinality(After) \in Nat
  BY <1>1, FS_Subset, FS_CardinalityType
<1>5. IsFiniteSet(Before) /\ Cardinality(Before) \in Nat /\ Cardinality(Before) <= Cardinality(After)
  BY <1>1, <1>4, FS_Subset, FS_CardinalityType
<1>6. CASE due' = due
  BY <1>2, <1>4, <1>5, <1>6
<1>7. ASSUME NEW l \in Loads, Reload(l) PROVE DueIsHeard'
  BY <1>2, <1>4, <1>5, <1>7 DEF Reload
<1>8. ASSUME NEW r \in Taps, Registered(r) \/ Conflict(r) PROVE DueIsHeard'
  <2>1. Before \cup {r} \subseteq After
    BY <1>1, <1>3, <1>8
  <2>2. Cardinality(Before \cup {r}) = Cardinality(Before) + 1
    BY <1>3, <1>5, <1>8, FS_AddElement
  <2>3. Cardinality(Before \cup {r}) <= Cardinality(After)
    BY <1>4, <2>1, FS_Subset
  <2> QED
    BY <1>2, <1>3, <1>4, <1>5, <1>8, <2>2, <2>3
<1> QED
  BY <1>6, <1>7, <1>8, CountersChange

(* The load started last: the filter changes with the start of a load only. *)
LEMMA NewestFollowsStep ==
  ASSUME Shapes, NewestFollows, [Next]_vars
  PROVE  NewestFollows'
<1>1. newest \in Loads \cup {NoLoad} /\ NoLoad \notin Loads
  BY FeedAssumption DEF Shapes, NoLoad
<1>2. CASE UNCHANGED <<filter, loads, newest, fresh, isLoading>>
  BY <1>2 DEF NewestFollows
<1>3. ASSUME NEW l \in Loads, Serve(l) PROVE NewestFollows'
  <2>1. DOMAIN ListEvents(loads[l].filter) = Matching[loads[l].filter]
    BY <1>3, ServeIs, ListEventsType
  <2>2. CASE newest # l
    BY <1>1, <1>3, <2>2, ServeIs DEF NewestFollows
  <2>3. CASE newest = l
    <3>1. loads[l].filter = filter
      BY <1>1, <1>3, <2>3, ServeIs DEF NewestFollows
    <3> QED
      BY <1>1, <1>3, <2>1, <2>3, <3>1, ServeIs DEF NewestFollows
  <2> QED
    BY <2>2, <2>3
<1>4. ASSUME NEW l \in Loads, Ended(l), filter' = filter PROVE NewestFollows'
  BY <1>1, <1>4, EndedIs DEF NewestFollows
<1>5. ASSUME NEW l \in Loads, Receive(l) \/ Fail(l) PROVE NewestFollows'
  BY <1>4, <1>5 DEF Receive, Fail
<1>6. ASSUME NEW l \in Loads, Loading(l) PROVE NewestFollows'
  BY <1>6, LoadingIs DEF NewestFollows
<1> QED
  BY <1>2, <1>3, <1>5, <1>6, LoadsChange

LEMMA NoStatusSentStep ==
  ASSUME Shapes, NoStatusSent, [Next]_vars
  PROVE  NoStatusSent'
<1> USE DEF NoStatusSent
<1>1. CASE UNCHANGED <<filter, loads, newest, fresh, isLoading>>
  BY <1>1
<1>2. ASSUME NEW l \in Loads, Serve(l) PROVE NoStatusSent'
  <2>1. /\ DOMAIN ListEvents(loads[l].filter) = Matching[loads[l].filter]
        /\ \A e \in Matching[loads[l].filter] : ListEvents(loads[l].filter)[e].status = "none"
    BY <1>2, ServeIs, ListEventsType
  <2> QED
    BY <1>2, <2>1, ServeIs
<1>3. ASSUME NEW l \in Loads, Ended(l) PROVE NoStatusSent'
  <2>1. Idle.at # "answered"
    BY DEF Idle
  <2>2. /\ loads'[l] = Idle
        /\ \A k \in Loads \ {l} : loads'[k] = loads[k]
    BY <1>3, EndedIs
  <2>3. ASSUME NEW k \in Loads, loads'[k].at = "answered"
        PROVE  \A e \in DOMAIN loads'[k].items : loads'[k].items[e].status = "none"
    <3>1. k # l
      BY <2>1, <2>2, <2>3
    <3>2. loads'[k] = loads[k]
      BY <2>2, <3>1
    <3> QED
      BY <2>3, <3>2
  <2> QED
    BY <2>3
<1>4. ASSUME NEW l \in Loads, Receive(l) \/ Fail(l) PROVE NoStatusSent'
  BY <1>3, <1>4 DEF Receive, Fail
<1>5. ASSUME NEW l \in Loads, Loading(l) PROVE NoStatusSent'
  BY <1>5, LoadingIs
<1> QED
  BY <1>1, <1>2, <1>4, <1>5, LoadsChange

(* While a registration is waited for the screen is open, so that no login  *)
(* can bring another account; a renewal that does leads it astray.          *)
LEMMA MineStays ==
  ASSUME Shapes, [Next]_vars, NEW r \in Taps, Mine(r), screen # NoScreen,
         taps'[r].owner = taps[r].owner,
         \A t \in Tokens : Renew(t) => OwnerOf[t] = taps[r].owner
  PROVE  Mine(r)'
<1>1. CASE UNCHANGED <<access, seen>>
  BY <1>1 DEF Mine
<1>2. CASE access' = NoToken /\ seen' = seen
  BY <1>2 DEF Mine
<1>3. ASSUME NEW t \in Tokens, Login(t) PROVE FALSE
  BY <1>3 DEF Login
<1>4. ASSUME NEW t \in Tokens, Renew(t), access' = t, seen' = seen PROVE Mine(r)'
  BY <1>4 DEF Mine
<1>5. ASSUME NEW l \in Loads, Hearing(l) PROVE Mine(r)'
  BY <1>5, HearingIs DEF Mine
<1> QED
  BY <1>1, <1>2, <1>3, <1>4, <1>5, TokensChange

(* Only Close closes the screen, and it gives up what was waited for.       *)
LEMMA ScreenStays ==
  ASSUME Shapes, Awaited, [Next]_vars, screen # NoScreen
  PROVE  screen' # NoScreen \/ Close
<1>1. CASE screen' = screen
  BY <1>1
<1>2. CASE FindQr
  BY <1>2, ScreenIs, OpenedIsOpen DEF FindQr
<1>3. ASSUME NEW e \in Events, Open(e) PROVE FALSE
  BY <1>3 DEF Open, Displayed
<1>4. ASSUME NEW r \in Taps, Tap(r) PROVE screen' # NoScreen
  BY <1>4, TapStarts, OpenedIsOpen
<1>5. ASSUME NEW r \in Taps, Registered(r) PROVE screen' # NoScreen
  BY <1>5, ScreenIs, OpenedIsOpen DEF Registered
<1>6. ASSUME NEW r \in Taps, Conflict(r) PROVE screen' # NoScreen
  BY <1>6, ScreenIs, OpenedIsOpen DEF Conflict
<1>7. ASSUME NEW r \in Taps, Refused(r) PROVE screen' # NoScreen
  BY <1>7, ScreenIs, OpenedIsOpen DEF Refused
<1> QED
  BY <1>1, <1>2, <1>3, <1>4, <1>5, <1>6, <1>7, ScreenChanges

(* The promises about a request that is left alone are kept.                *)
LEMMA Untouched ==
  ASSUME Shapes, Awaited, [Next]_vars, ~Close, NEW r \in Taps,
         taps[r] \in Waiting, taps'[r] = taps[r], \A t \in Tokens : ~Renew(t)
  PROVE  Promised(r)'
<1>1. Promised(r)
  BY DEF Awaited
<1>2. rows \subseteq rows'
  BY RowsGrow
<1>3. taps[r].waits => screen' # NoScreen
  BY <1>1, ScreenStays DEF Promised
<1>4. taps[r].waits /\ taps[r].owner # NoAccount /\ ~taps[r].stray => Mine(r)'
  BY <1>1, MineStays DEF Promised
<1> QED
  BY <1>1, <1>2, <1>3, <1>4 DEF Promised

(* A request that is sent is of the account of the token; if the list is of *)
(* another one it is astray from the start.                                 *)
LEMMA SentIsMine ==
  ASSUME Shapes, NEW r \in Taps, UNCHANGED <<access, seen>>,
         taps'[r].owner = Sender, taps'[r].stray = Astray,
         taps'[r].owner # NoAccount, ~taps'[r].stray
  PROVE  Mine(r)'
  BY DEF Sender, Astray, Mine

LEMMA AwaitedStep ==
  ASSUME Shapes, Awaited, [Next]_vars
  PROVE  Awaited'
<1>0. SUFFICES ASSUME NEW q \in Taps, taps'[q] \in Waiting
               PROVE  Promised(q)'
  BY DEF Awaited
<1> DEFINE NoRenewal == \A t \in Tokens : ~Renew(t)
<1>1. CASE Close
  <2>1. ~taps'[q].waits /\ taps'[q].at # "served"
    BY <1>0, <1>1, CloseIs, GivenUpIs DEF Shapes
  <2> QED
    BY <2>1 DEF Promised
<1>2. CASE ~Close /\ taps'[q] = taps[q] /\ NoRenewal
  BY <1>0, <1>2, Untouched
<1>3. ASSUME NEW r \in Taps, Tap(r), ~Close, NoRenewal PROVE Promised(q)'
  <2>1. CASE q # r
    BY <1>2, <1>3, <2>1, TapStarts
  <2>2. CASE q = r
    <3>1. taps'[r].at = "sent" /\ screen' # NoScreen
      BY <1>3, TapStarts, OpenedIsOpen
    <3>2. UNCHANGED <<access, seen>>
      BY <1>3 DEF Tap, tokens
    <3>3. taps'[r].owner # NoAccount /\ ~taps'[r].stray => Mine(r)'
      BY <1>3, <3>2, TapStarts, SentIsMine
    <3> QED
      BY <2>2, <3>1, <3>3 DEF Promised
  <2> QED
    BY <2>1, <2>2
<1>4. ASSUME NEW r \in Taps, Register(r), ~Close, NoRenewal PROVE Promised(q)'
  <2>1. CASE q # r
    BY <1>2, <1>4, <2>1, RegisterIs
  <2>2. CASE q = r
    <3>1. /\ taps[r] \in Waiting /\ taps[r].waits /\ taps'[r].waits /\ taps'[r].at = "served"
          /\ taps'[r].owner = taps[r].owner /\ taps'[r].event = taps[r].event
          /\ taps'[r].stray = taps[r].stray
          /\ taps'[r].answer = "created" => <<taps[r].owner, taps[r].event>> \in rows'
          /\ taps'[r].answer \in {"created", "conflict"} => taps[r].owner # NoAccount
      BY <1>0, <1>4, <2>2, RegisterIs
    <3>2. Promised(r)
      BY <3>1 DEF Awaited
    <3>3. screen' # NoScreen
      BY <1>4, <3>1, <3>2, ScreenStays DEF Promised
    <3>4. taps[r].owner # NoAccount /\ ~taps[r].stray => Mine(r)'
      BY <1>4, <3>1, <3>2, MineStays DEF Promised
    <3> QED
      BY <2>2, <3>1, <3>3, <3>4 DEF Promised
  <2> QED
    BY <2>1, <2>2
<1>5. ASSUME NEW r \in Taps, NEW answer \in {"created", "conflict", "error"}, Heard(r, answer),
             ~Close, NoRenewal
      PROVE Promised(q)'
  <2>1. q # r
    BY <1>0, <1>5, HeardIs DEF Over, Waiting
  <2> QED
    BY <1>2, <1>5, <2>1, HeardIs
<1>6. ASSUME NEW r \in Taps, Registered(r) \/ Conflict(r), ~Close, NoRenewal PROVE Promised(q)'
  BY <1>5, <1>6 DEF Registered, Conflict
<1>7. ASSUME NEW r \in Taps, Refused(r), ~Close, NoRenewal PROVE Promised(q)'
  <2>1. CASE q # r
    BY <1>2, <1>7, <2>1, RefusedIs
  <2>2. CASE q = r
    <3>1. ~taps'[r].waits /\ taps'[r].at # "served"
      BY <1>0, <1>7, <2>2, RefusedIs, GivenUpIs
    <3> QED
      BY <2>2, <3>1 DEF Promised
  <2> QED
    BY <2>1, <2>2
<1>8. ASSUME NEW t \in Tokens, Renew(t) PROVE Promised(q)'
  <2>1. /\ taps'[q] = Overtaken(taps[q], t) /\ taps[q] \in {Idle, Over} \cup Waiting
        /\ access' = t /\ UNCHANGED <<seen, rows, screen>>
    BY <1>8, RenewIs DEF Shapes
  <2>2. taps[q] \in Waiting /\ Promised(q)
    BY <1>0, <2>1, OvertakenIs DEF Awaited
  <2>3. /\ taps'[q].at = taps[q].at /\ taps'[q].waits = taps[q].waits
        /\ taps'[q].owner = taps[q].owner /\ taps'[q].event = taps[q].event
        /\ taps'[q].answer = taps[q].answer
        /\ \/ taps'[q].stray = taps[q].stray /\ (~taps[q].waits \/ taps[q].owner \in {OwnerOf[t], NoAccount})
           \/ taps'[q].stray = TRUE
    <3> DEFINE new == Overtaken(taps[q], t)
    <3>1. /\ new.at = taps[q].at /\ new.waits = taps[q].waits
          /\ new.owner = taps[q].owner /\ new.event = taps[q].event
          /\ new.answer = taps[q].answer
          /\ \/ new.stray = taps[q].stray /\ (~taps[q].waits \/ taps[q].owner \in {OwnerOf[t], NoAccount})
             \/ new.stray = TRUE
      BY <2>1, <2>2, OvertakenIs, Zenon
    <3>2. taps'[q] = new
      BY <2>1
    <3> HIDE DEF new
    <3> QED
      BY <3>1, <3>2
  <2>4. taps'[q].waits /\ taps'[q].owner # NoAccount /\ ~taps'[q].stray => Mine(q)'
    <3> SUFFICES ASSUME taps'[q].waits, taps'[q].owner # NoAccount, ~taps'[q].stray
                 PROVE  Mine(q)'
      OBVIOUS
    <3>1. ~taps[q].stray /\ taps[q].waits /\ taps[q].owner = OwnerOf[t]
      BY <2>3
    <3>2. Mine(q)
      BY <2>2, <2>3, <3>1 DEF Promised
    <3> QED
      BY <2>1, <2>3, <3>1, <3>2 DEF Mine
  <2> QED
    BY <2>1, <2>2, <2>3, <2>4 DEF Promised
<1>9. ASSUME NEW r \in Taps, Expire(r), ~Close, NoRenewal PROVE Promised(q)'
  <2>1. CASE q # r
    BY <1>2, <1>9, <2>1, ExpireIs
  <2>2. CASE q = r
    <3>1. Promised(r)
      BY <1>9, ExpireIs DEF Awaited
    <3> QED
      BY <1>9, <2>2, <3>1, ExpireIs DEF Promised, Mine
  <2> QED
    BY <2>1, <2>2
<1>10. ASSUME NEW r \in Taps, SendAgain(r), ~Close, NoRenewal PROVE Promised(q)'
  <2>1. CASE q # r
    BY <1>2, <1>10, <2>1, SendAgainIs
  <2>2. CASE q = r
    <3>1. Promised(r)
      BY <1>10, SendAgainIs DEF Awaited
    <3>2. taps'[r].owner # NoAccount /\ ~taps'[r].stray => Mine(r)'
      BY <1>10, SendAgainIs, SentIsMine
    <3> QED
      BY <1>10, <2>2, <3>1, <3>2, SendAgainIs DEF Promised
  <2> QED
    BY <2>1, <2>2
<1>11. CASE RenewalLost /\ ~Close /\ NoRenewal
  <2>1. CASE taps'[q] = taps[q]
    BY <1>2, <1>11, <2>1
  <2>2. CASE taps'[q] # taps[q]
    <3>1. /\ taps[q] \in Waiting /\ taps[q].waits /\ taps'[q].waits
          /\ taps'[q].at = "served" /\ taps'[q].answer = "error"
          /\ taps'[q].owner = taps[q].owner /\ taps'[q].stray = taps[q].stray
          /\ UNCHANGED <<access, seen, rows, screen>>
      BY <1>0, <1>11, <2>2, RenewalLostIs DEF Over, Waiting
    <3>2. Promised(q)
      BY <3>1 DEF Awaited
    <3> QED
      BY <3>1, <3>2 DEF Promised, Mine
  <2> QED
    BY <2>1, <2>2
<1> HIDE DEF NoRenewal
<1>12. NoRenewal \/ \E t \in Tokens : Renew(t)
  BY DEF NoRenewal
<1> QED
  BY <1>1, <1>2, <1>3, <1>4, <1>6, <1>7, <1>8, <1>9, <1>10, <1>11, <1>12, TapsChange

-----------------------------------------------------------------------------
(* The list.                                                                *)

(* A list that stays as it is follows a filter that stays; a load that      *)
(* starts makes it stale; the answer of the load started last has the       *)
(* events of the filter.                                                    *)
LEMMA FreshFollowsFilterStep ==
  ASSUME Shapes, NewestFollows, FreshFollowsFilter, [Next]_vars
  PROVE  FreshFollowsFilter'
<1>1. newest \in Loads \cup {NoLoad} /\ NoLoad \notin Loads
  BY FeedAssumption DEF Shapes, NoLoad
<1>2. ASSUME NEW l \in Loads, Receive(l) PROVE FreshFollowsFilter'
  <2>1. loads[l].at = "answered" /\ loads[l].items \in Lists /\ list' = Merged(loads[l].items)
    BY <1>2, LoadIs DEF Receive
  <2>2. filter' = filter /\ (fresh' => newest = l)
    BY <1>2 DEF Receive
  <2>3. DOMAIN list' = DOMAIN loads[l].items
    BY <2>1, MergedType DEF Shapes
  <2>4. newest = l => DOMAIN loads[l].items = Matching[filter]
    BY <1>1, <2>1 DEF NewestFollows
  <2> QED
    BY <2>2, <2>3, <2>4 DEF FreshFollowsFilter
<1>3. ASSUME NEW l \in Loads, Loading(l) PROVE FreshFollowsFilter'
  BY <1>3, LoadingIs DEF FreshFollowsFilter
<1>4. ASSUME NEW r \in Taps, Registered(r) \/ Conflict(r) PROVE FreshFollowsFilter'
  <2>1. taps[r].event \in Events /\ Mark(taps[r].event)
    BY <1>4, HeardIs DEF Registered, Conflict
  <2>2. DOMAIN list' = DOMAIN list
    BY <2>1, MarkType DEF Shapes
  <2>3. filter' = filter /\ fresh' = fresh
    BY <1>4 DEF Registered, Conflict
  <2> QED
    BY <2>2, <2>3 DEF FreshFollowsFilter
<1>5. CASE list' = list /\ filter' = filter /\ fresh' = fresh
  BY <1>5 DEF FreshFollowsFilter
<1>6. ASSUME NEW l \in Loads, Serve(l) \/ Fail(l) PROVE list' = list /\ filter' = filter /\ fresh' = fresh
  BY <1>6 DEF Serve, Fail
<1>7. ASSUME NEW l \in Loads, Reset(l) PROVE Loading(l)
  BY <1>7 DEF Loading
<1> QED
  BY <1>2, <1>3, <1>4, <1>5, <1>6, <1>7, LoadsChange, ListChanges

(* A mark is backed by the row of the owner of the request, who is the one  *)
(* the list is of unless the request went astray; rows are never taken back *)
(* in this model; a change of the token empties the list.                   *)
LEMMA ShownIsMineStep ==
  ASSUME Shapes, Awaited, NoStatusSent, ShownIsMine, [Next]_vars
  PROVE  ShownIsMine'
<1>1. rows \subseteq rows'
  BY RowsGrow
<1>2. ASSUME NEW l \in Loads, Reset(l) PROVE ShownIsMine'
  <2>1. DOMAIN list' = {}
    BY <1>2, EmptyList DEF Reset
  <2> QED
    BY <2>1 DEF ShownIsMine
<1>3. CASE ~\E l \in Loads : Reset(l)
  <2>1. seen' = seen /\ unbacked \subseteq unbacked'
    <3>1. ASSUME NEW r \in Taps, Registered(r) \/ Conflict(r) PROVE unbacked \subseteq unbacked'
      BY <3>1 DEF Registered, Conflict
    <3> QED
      BY <1>3, <3>1, TokensChange, ServerChanges
  <2>2. SUFFICES ASSUME seen # NoToken, NEW e \in DOMAIN list', list'[e].status = "registered"
                 PROVE  <<OwnerOf[seen], e>> \in rows' \/ e \in unbacked'
    BY <2>1 DEF ShownIsMine
  <2>3. CASE e \in DOMAIN list /\ list[e].status = "registered"
    BY <1>1, <2>1, <2>2, <2>3 DEF ShownIsMine
  <2>4. ASSUME NEW l \in Loads, Receive(l) PROVE e \in DOMAIN list /\ list[e].status = "registered"
    <3>1. loads[l].at = "answered" /\ loads[l].items \in Lists /\ list' = Merged(loads[l].items)
      BY <2>4, LoadIs DEF Receive
    <3>2. /\ DOMAIN list' = DOMAIN loads[l].items
          /\ \/ list'[e].status = loads[l].items[e].status
             \/ e \in DOMAIN list /\ list'[e].status = list[e].status
      BY <2>2, <3>1, MergedType DEF Shapes
    <3>3. loads[l].items[e].status = "none"
      BY <3>1, <3>2 DEF NoStatusSent
    <3> QED
      BY <2>2, <3>2, <3>3
  <2>5. ASSUME NEW r \in Taps, Registered(r) \/ Conflict(r)
        PROVE  <<OwnerOf[seen], e>> \in rows' \/ e \in unbacked'
    <3>1. /\ taps[r] \in Waiting /\ taps[r].at = "served" /\ taps[r].event \in Events
          /\ taps[r].answer \in {"created", "conflict"} /\ Mark(taps[r].event)
      BY <2>5, HeardIs DEF Registered, Conflict
    <3>2. taps[r].stray \/ OwnerOf[seen] = taps[r].owner
      BY <2>2, <3>1 DEF Awaited, Promised, Mine
    <3>3. CASE e # taps[r].event
      BY <2>2, <2>3, <3>1, <3>3, MarkType DEF Shapes
    <3>4. CASE e = taps[r].event
      <4>1. CASE taps[r].stray
        BY <2>5, <3>4, <4>1 DEF Registered, Conflict
      <4>2. CASE ~taps[r].stray /\ Registered(r)
        <5>1. taps[r].answer = "created"
          BY <4>2 DEF Registered, Heard
        <5> QED
          BY <1>1, <3>1, <3>2, <3>4, <4>2, <5>1 DEF Awaited, Promised
      <4>3. CASE ~taps[r].stray /\ Conflict(r)
        BY <1>1, <3>2, <3>4, <4>3 DEF Conflict
      <4> QED
        BY <2>5, <4>1, <4>2, <4>3
    <3> QED
      BY <3>3, <3>4
  <2>6. CASE list' = list
    BY <2>2, <2>3, <2>6
  <2> QED
    BY <1>3, <2>3, <2>4, <2>5, <2>6, ListChanges
<1> QED
  BY <1>2, <1>3

-----------------------------------------------------------------------------
(* The theorems.                                                            *)

LEMMA InitInvariant == Init => IInv
<1> SUFFICES ASSUME Init PROVE IInv
  OBVIOUS
<1>1. list \in Lists /\ DOMAIN list = {}
  BY EmptyList DEF Init
<1>2. PICK l \in Loads :
        /\ loads = [k \in Loads |-> IF k = l THEN [at |-> "sent", filter |-> Everything] ELSE Idle]
        /\ newest = l
  BY DEF Init
<1> DEFINE new == [at |-> "sent", filter |-> Everything]
<1>3. new \in Request /\ new # Idle /\ new.at = "sent" /\ new.filter = Everything
  BY FeedAssumption DEF Request, Idle
<1>4. Idle.at = "idle"
  BY DEF Idle
<1>5. \A k \in Loads : loads[k] = IF k = l THEN new ELSE Idle
  BY <1>2
<1>6. loads \in [Loads -> {Idle} \cup Request \cup Answer]
  <2>1. loads = [k \in Loads |-> IF k = l THEN new ELSE Idle]
    BY <1>2
  <2> HIDE DEF new
  <2> QED
    BY <1>3, <2>1
<1> HIDE DEF new
<1>7. taps = [r \in Taps |-> Idle] /\ Idle # Over /\ Idle \notin Waiting
  BY DEF Init, Idle, Over, Waiting
<1>8. Shapes
  <2>1. taps \in [Taps -> {Idle, Over} \cup Waiting]
    BY <1>7
  <2>2. due \in Nat /\ failures \in 0..MaxFailures
    BY FeedAssumption DEF Init
  <2>3. /\ access = NoToken /\ seen = NoToken /\ user = "none" /\ refreshing = NoAccount
        /\ filter \in Filters /\ newest \in Loads
        /\ fresh = FALSE /\ isLoading = TRUE /\ error = FALSE
        /\ screen = NoScreen /\ rows \subseteq Accounts \X Events
        /\ closed = {} /\ unbacked = {}
    BY <1>2, FeedAssumption DEF Init
  <2> QED
    BY <1>1, <1>6, <2>1, <2>2, <2>3 DEF Shapes
<1>9. DueIsHeard
  <2>1. Answers = {}
    BY <1>7 DEF Answers
  <2>2. Cardinality(Answers) = 0 /\ due = 0
    BY <2>1, FS_EmptySet DEF Init
  <2> QED
    BY <2>2 DEF DueIsHeard
<1>10. NewestFollows
  BY <1>2, <1>3, <1>5 DEF NewestFollows, Init
<1>11. NoStatusSent
  BY <1>3, <1>4, <1>5 DEF NoStatusSent
<1>12. Awaited
  BY <1>7 DEF Awaited
<1>13. FreshFollowsFilter /\ ShownIsMine
  BY DEF Init, FreshFollowsFilter, ShownIsMine
<1> QED
  BY <1>8, <1>9, <1>10, <1>11, <1>12, <1>13 DEF IInv

LEMMA StepInvariant == IInv /\ [Next]_vars => IInv'
  BY ShapesStep, DueIsHeardStep, NewestFollowsStep, NoStatusSentStep, AwaitedStep,
     FreshFollowsFilterStep, ShownIsMineStep DEF IInv

LEMMA Invariant == Spec => []IInv
  BY InitInvariant, StepInvariant, PTL DEF Spec

(* Every variable of the feed keeps its type, and no more loads are put off *)
(* than registrations were answered.                                        *)
THEOREM TypeCorrect == Spec => []TypeOK
<1>1. ASSUME IInv PROVE TypeOK
  <2>1. Shapes
    BY <1>1 DEF IInv
  <2>2. due \in 0..Cardinality(Taps)
    <3>1. Answers \in SUBSET Taps /\ IsFiniteSet(Taps)
      BY FeedAssumption DEF Answers
    <3>2. Cardinality(Answers) <= Cardinality(Taps) /\ Cardinality(Taps) \in Nat
          /\ Cardinality(Answers) \in Nat
      BY <3>1, FS_Subset, FS_CardinalityType
    <3>3. due \in Nat /\ due <= Cardinality(Answers)
      BY <1>1 DEF IInv, DueIsHeard, Shapes
    <3> QED
      BY <3>2, <3>3
  <2>3. ASSUME NEW l \in Loads
        PROVE  \/ loads[l] = Idle
               \/ loads[l].at = "sent" /\ loads[l].filter \in Filters
               \/ loads[l].at = "answered" /\ loads[l].items \in Lists
    BY <2>1 DEF Shapes, Request, Answer
  <2>4. newest # NoLoad => loads[newest] # Idle
    BY <1>1 DEF IInv, NewestFollows
  <2>5. ASSUME NEW r \in Taps PROVE taps[r].at \in {"idle", "sent", "expired", "served", "over"}
    BY <2>1 DEF Shapes, Waiting, Idle, Over
  <2>6. screen = NoScreen \/ screen \in
       [at : {"open"}, event : Events, item : Item, busy : BOOLEAN, qr : {"no", "asked", "yes"}]
    BY <2>1 DEF Shapes, Opened
  <2> QED
    BY <2>1, <2>2, <2>3, <2>4, <2>5, <2>6 DEF Shapes, TypeOK
<1> QED
  BY <1>1, Invariant, PTL

(* However many loads overlap and in whatever order they are answered or    *)
(* fail, a list that came from the load started last is the list of the     *)
(* filter that is set.                                                      *)
THEOREM FreshFollowsFilterHolds == Spec => []FreshFollowsFilter
<1>1. IInv => FreshFollowsFilter
  BY DEF IInv
<1> QED
  BY <1>1, Invariant, PTL

(* However logins, late renewals of another account, logouts, loads and     *)
(* answers to the button interleave, the list of an account shows only      *)
(* registrations of its own, or events marked for a 409 or by an answer     *)
(* that a change of the account overtook while the screen waited for it.    *)
THEOREM ShownIsMineHolds == Spec => []ShownIsMine
<1>1. IInv => ShownIsMine
  BY DEF IInv
<1> QED
  BY <1>1, Invariant, PTL

(* No answer of the server takes a registration off an event that stays in  *)
(* the list.                                                                *)
THEOREM StatusIsKeptHolds == Spec => StatusIsKept
<1>1. ASSUME IInv, [Next]_vars
      PROVE  \A e \in DOMAIN list \cap DOMAIN list' :
               list[e].status = "registered" /\ seen' = seen => list'[e].status = "registered"
  <2> SUFFICES ASSUME NEW e \in DOMAIN list \cap DOMAIN list',
                      list[e].status = "registered", seen' = seen
               PROVE  list'[e].status = "registered"
    OBVIOUS
  <2>1. Shapes /\ list \in Lists
    BY <1>1 DEF IInv, Shapes
  <2>2. CASE list' = list
    BY <2>2
  <2>3. ASSUME NEW l \in Loads, Receive(l) PROVE list'[e].status = "registered"
    <3>1. loads[l].items \in Lists /\ list' = Merged(loads[l].items)
      BY <2>1, <2>3, LoadIs DEF Receive
    <3>2. DOMAIN list' = DOMAIN loads[l].items
      BY <2>1, <3>1, MergedType
    <3> QED
      BY <2>1, <3>1, <3>2, MergedType
  <2>4. ASSUME NEW l \in Loads, Reset(l) PROVE FALSE
    BY <2>4 DEF Reset
  <2>5. ASSUME NEW r \in Taps, Registered(r) \/ Conflict(r) PROVE list'[e].status = "registered"
    <3>1. taps[r].event \in Events /\ Mark(taps[r].event)
      BY <2>1, <2>5, HeardIs DEF Registered, Conflict
    <3> QED
      BY <2>1, <3>1, MarkType
  <2> QED
    BY <1>1, <2>2, <2>3, <2>4, <2>5, ListChanges
<1> QED
  BY <1>1, Invariant, PTL DEF Spec, StatusIsKept


==============================================================================
