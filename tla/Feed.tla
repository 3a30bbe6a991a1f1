-------------------------------- MODULE Feed --------------------------------
(***************************************************************************)
(* The feed of events on a phone: EventsProvider with its overlapping      *)
(* loads, the screen of one event with its registration button, and the    *)
(* token changes that reset the list. The renewal of a token is in flight  *)
(* across logouts and logins: the pair it brings is taken into memory      *)
(* whoever is signed in by then.                                           *)
(*                                                                         *)
(* GET /events is registered outside the authenticated group of routes, so *)
(* listEvents finds no user in the context and sends no registration       *)
(* status: a status in the list was put there by the phone.                *)
(***************************************************************************)
EXTENDS Naturals, FiniteSets

CONSTANTS
  Accounts, NoAccount,
  Tokens, NoToken,   \* access tokens; one the phone has forgotten stands for a new one
  OwnerOf,           \* [Tokens -> Accounts]
  Events,            \* the published events
  Filters,           \* values of the type filter and the search field
  Everything,        \* the filter the provider starts with
  Matching,          \* [Filters -> SUBSET Events]
  Earlier,           \* registrations made in an earlier run or on another phone
  Loads,             \* bound: loadEvents calls in flight at once
  Taps,              \* bound: registration requests in all
  MaxFailures        \* bound: requests and statements that fail

ASSUME FeedAssumption ==
  /\ NoToken \notin Tokens /\ NoAccount \notin Accounts
  /\ OwnerOf \in [Tokens -> Accounts]
  /\ Everything \in Filters
  /\ Matching \in [Filters -> SUBSET Events]
  /\ Earlier \subseteq Accounts \X Events
  /\ MaxFailures \in Nat
  /\ "none" \notin Loads
  /\ IsFiniteSet(Taps)

VARIABLES
  access,     \* ApiClient.accessToken
  user,       \* AuthProvider.user: "none", "known", or what is under way
  refreshing, \* the account whose refresh token doRefresh has sent
  seen,       \* _lastToken: the token the provider last heard of
  filter,     \* _selectedType and _searchQuery
  list,       \* _events: [event -> its status and closed flag]
  loads,      \* the loadEvents calls
  newest,     \* the call started last, while it is in flight
  fresh,      \* history: the list came from the call started last
  isLoading, error,
  due,        \* delayed loads that updateEventRegistrationStatus has left
  screen,     \* the screen of one event, when it is open
  taps,       \* the requests of its button
  rows,       \* registrations: the pairs of account and event
  closed,     \* the events whose registration deadline has passed
  failures,
  unbacked    \* history: events marked for a 409 without a row, or by a stray answer

feed     == <<filter, list, loads, newest, fresh, isLoading, error>>
tokens   == <<access, user, refreshing, seen>>
server   == <<rows, closed>>
vars     == <<feed, tokens, server, unbacked, due, screen, taps, failures>>

NoLoad   == "none"
NoScreen == [at |-> "closed"]
Idle     == [at |-> "idle"]
Over     == [at |-> "over"]
Item     == [status : {"none", "registered"}, closed : BOOLEAN]
Lists    == UNION {[shown -> Item] : shown \in SUBSET Events}

TypeOK ==
  /\ access \in Tokens \cup {NoToken} /\ seen \in Tokens \cup {NoToken}
  /\ user \in {"none", "asked", "late", "known", "leaving"}
  /\ refreshing \in Accounts \cup {NoAccount}
  /\ filter \in Filters
  /\ list \in Lists
  /\ \A l \in Loads :
       \/ loads[l] = Idle
       \/ loads[l].at = "sent" /\ loads[l].filter \in Filters
       \/ loads[l].at = "answered" /\ loads[l].items \in Lists
  /\ newest \in Loads \cup {NoLoad} /\ (newest # NoLoad => loads[newest] # Idle)
  /\ {fresh, isLoading, error} \subseteq BOOLEAN
  /\ due \in 0..Cardinality(Taps)
  /\ screen = NoScreen \/ screen \in
       [at : {"open"}, event : Events, item : Item, busy : BOOLEAN, qr : {"no", "asked", "yes"}]
  /\ \A r \in Taps : taps[r].at \in {"idle", "sent", "expired", "served", "over"}
  /\ rows \subseteq Accounts \X Events /\ closed \subseteq Events
  /\ failures \in 0..MaxFailures
  /\ unbacked \subseteq Events

(* A load takes the filter of the moment it starts and clears the error.   *)
StartLoad(l) ==
  /\ loads[l] = Idle
  /\ loads' = [loads EXCEPT ![l] = [at |-> "sent", filter |-> filter']]
  /\ newest' = l
  /\ fresh' = FALSE
  /\ isLoading' = TRUE
  /\ error' = FALSE

(* The constructor starts the first load, without a token or a filter.     *)
Init ==
  /\ access = NoToken /\ seen = NoToken /\ user = "none" /\ refreshing = NoAccount
  /\ filter = Everything
  /\ list = [e \in {} |-> Idle]
  /\ \E l \in Loads :
       /\ loads = [k \in Loads |-> IF k = l THEN [at |-> "sent", filter |-> Everything] ELSE Idle]
       /\ newest = l
  /\ fresh = FALSE /\ isLoading = TRUE /\ error = FALSE
  /\ due = 0
  /\ screen = NoScreen
  /\ taps = [r \in Taps |-> Idle]
  /\ rows = Earlier /\ closed = {}
  /\ failures = 0
  /\ unbacked = {}

-----------------------------------------------------------------------------
(* The loads *)

(* listEvents: the events of the filter, with the user of a public route,  *)
(* who is nobody, and with the deadline of the moment.                     *)
ListEvents(f) == [e \in Matching[f] |-> [status |-> "none", closed |-> e \in closed]]

Serve(l) ==
  /\ loads[l].at = "sent"
  /\ loads' = [loads EXCEPT ![l] = [at |-> "answered", items |-> ListEvents(loads[l].filter)]]
  /\ UNCHANGED <<filter, list, newest, fresh, isLoading, error, tokens, server, unbacked, due,
                 screen, taps, failures>>

(* Mutant: the answer replaces the list. *)
Replaced(items) == items

(* A status the phone has and the answer has not is kept; the new item is  *)
(* built without the closed flag.                                          *)
Merged(items) ==
  [e \in DOMAIN items |->
     IF e \in DOMAIN list /\ list[e].status # "none" /\ items[e].status = "none"
     THEN [status |-> list[e].status, closed |-> FALSE]
     ELSE items[e]]

Ended(l) ==
  /\ loads' = [loads EXCEPT ![l] = Idle]
  /\ newest' = IF newest = l THEN NoLoad ELSE newest
  /\ isLoading' = FALSE

Receive(l) ==
  /\ loads[l].at = "answered"
  /\ list' = Merged(loads[l].items)
  /\ fresh' = (newest = l)
  /\ Ended(l)
  /\ UNCHANGED <<filter, error, tokens, server, unbacked, due, screen, taps, failures>>

Fail(l) ==
  /\ loads[l] # Idle
  /\ failures < MaxFailures
  /\ failures' = failures + 1
  /\ error' = TRUE
  /\ Ended(l)
  /\ UNCHANGED <<filter, list, fresh, tokens, server, unbacked, due, screen, taps>>

(* The button, the pull gesture, and the first frame of the screen, which  *)
(* a change of the role builds anew at any time.                           *)
Refresh(l) ==
  /\ filter' = filter
  /\ StartLoad(l)
  /\ UNCHANGED <<list, tokens, server, unbacked, due, screen, taps, failures>>

(* The shell is shown while AuthProvider has a user, whatever the token;    *)
(* the list and the filters give way to a spinner while isLoading is up,   *)
(* and to the error after a failure.                                       *)
Displayed == user \in {"known", "leaving"} /\ screen = NoScreen /\ ~isLoading /\ ~error

(* Mutant: the filter is set when the load has been started. *)
SetFilterLate(f, l) ==
  /\ Displayed
  /\ filter' = f
  /\ UNCHANGED <<list, loads, newest, fresh, isLoading, error, tokens, server, unbacked, due,
                 screen, taps, failures>>

SetFilter(f, l) ==
  /\ Displayed
  /\ filter' = f
  /\ StartLoad(l)
  /\ UNCHANGED <<list, tokens, server, unbacked, due, screen, taps, failures>>

(* The load that was put off by half a second.                             *)
Reload(l) ==
  /\ due > 0
  /\ due' = due - 1
  /\ filter' = filter
  /\ StartLoad(l)
  /\ UNCHANGED <<list, tokens, server, unbacked, screen, taps, failures>>

-----------------------------------------------------------------------------
(* The tokens *)

(* Mutant: the list is not reset. *)
UpdateTokenOnly(l) ==
  /\ seen' = access'
  /\ filter' = filter
  /\ list' = list
  /\ IF access' = seen
     THEN UNCHANGED <<loads, newest, fresh, isLoading, error, unbacked>>
     ELSE StartLoad(l) /\ unbacked' = {}

(* updateToken, for every notification of AuthProvider.                    *)
UpdateToken(l) ==
  /\ seen' = access'
  /\ filter' = filter
  /\ IF access' = seen
     THEN UNCHANGED <<list, loads, newest, fresh, isLoading, error, unbacked>>
     ELSE list' = [e \in {} |-> Idle] /\ StartLoad(l) /\ unbacked' = {}

Notify(l) ==
  /\ access # seen
  /\ access' = access
  /\ UpdateToken(l)
  /\ UNCHANGED <<user, refreshing, server, due, screen, taps, failures>>

Issue(t) ==
  /\ t \notin {access, seen}
  /\ access' = t

(* The login screen is the root of the application while there is no user; *)
(* the screen of an event would lie above it. A login asks for the profile *)
(* of its token, and its button waits for that.                            *)
Login(t) ==
  /\ user \in {"none", "late"}
  /\ screen = NoScreen
  /\ Issue(t)
  /\ user' = "asked"
  /\ UNCHANGED <<refreshing, seen, feed, server, unbacked, due, screen, taps, failures>>

(* The profile comes, and the listeners hear of it and of the token.       *)
Profile(l) ==
  /\ user \in {"asked", "late"}
  /\ user' = "known"
  /\ access' = access
  /\ UpdateToken(l)
  /\ UNCHANGED <<refreshing, server, due, screen, taps, failures>>

ProfileLost ==
  /\ user \in {"asked", "late"}
  /\ user' = "none"
  /\ UNCHANGED <<access, refreshing, seen, feed, server, unbacked, due, screen, taps, failures>>

(* The tab of the profile is gone at once, the requests of logout are not: *)
(* the screen of an event may have been opened meanwhile.                  *)
Logout ==
  /\ user = "known"
  /\ access' = NoToken
  /\ user' = "leaving"
  /\ UNCHANGED <<refreshing, seen, feed, server, unbacked, due, screen, taps, failures>>

(* _clear: a token that came back meanwhile is dropped. The answer to a    *)
(* refreshProfile may still come, and sets the user again.                 *)
Clear(l) ==
  /\ user = "leaving"
  /\ access' = NoToken
  /\ user' \in {"none", "late"}
  /\ UpdateToken(l)
  /\ UNCHANGED <<refreshing, server, due, screen, taps, failures>>

(* A request is answered 401: one at a time sends the refresh token.       *)
AskRenewal ==
  /\ refreshing = NoAccount /\ access # NoToken
  /\ refreshing' = OwnerOf[access]
  /\ UNCHANGED <<access, user, seen, feed, server, unbacked, due, screen, failures>>

(* A registration that is waited for goes astray when the account changes. *)
Overtaken(tap, t) ==
  IF tap.at \in {"sent", "expired", "served"} /\ tap.waits /\ tap.owner \notin {OwnerOf[t], NoAccount}
  THEN [tap EXCEPT !.stray = TRUE] ELSE tap

(* doRefresh assigns the pair whenever it comes: after a logout, or after  *)
(* the login of another account.                                           *)
Renew(t) ==
  /\ refreshing # NoAccount /\ OwnerOf[t] = refreshing
  /\ Issue(t)
  /\ refreshing' = NoAccount
  /\ taps' = [r \in Taps |-> Overtaken(taps[r], t)]
  /\ UNCHANGED <<user, seen, feed, server, unbacked, due, screen, failures>>

-----------------------------------------------------------------------------
(* The screen of one event *)

(* The QR code of a registered event is fetched only to be shown.          *)
Open(e) ==
  /\ Displayed
  /\ e \in DOMAIN list
  /\ screen' = [at |-> "open", event |-> e, item |-> list[e], busy |-> FALSE, qr |-> "no"]
  /\ UNCHANGED <<feed, tokens, server, unbacked, due, taps, failures>>

(* An answer that comes after the screen is gone changes nothing.          *)
GivenUp(tap) ==
  IF tap.at \in {"sent", "expired"} THEN [tap EXCEPT !.waits = FALSE] ELSE IF tap.at = "served" THEN Over ELSE tap

Close ==
  /\ screen # NoScreen
  /\ screen' = NoScreen
  /\ taps' = [r \in Taps |-> GivenUp(taps[r])]
  /\ UNCHANGED <<feed, tokens, server, unbacked, due, failures>>

(* The item is the one the screen was opened with.                         *)
CanRegister ==
  /\ screen.item.status = "none" /\ screen.qr # "yes"
  /\ ~screen.item.closed

(* The account in whose name a request is sent, and whether the list is of *)
(* another one.                                                            *)
Sender == IF access = NoToken THEN NoAccount ELSE OwnerOf[access]
Astray == access # NoToken /\ seen # NoToken /\ OwnerOf[seen] # OwnerOf[access]

Tap(r) ==
  /\ taps[r] = Idle
  /\ screen # NoScreen
  /\ ~screen.busy /\ CanRegister
  /\ taps' = [taps EXCEPT ![r] = [at |-> "sent", event |-> screen.event, waits |-> TRUE,
                owner |-> Sender, stray |-> Astray, answer |-> "none"]]
  /\ screen' = [screen EXCEPT !.busy = TRUE]
  /\ UNCHANGED <<feed, tokens, server, unbacked, due, failures>>

Answered(r, answer) ==
  taps' = [taps EXCEPT ![r] = IF @.waits THEN [@ EXCEPT !.at = "served", !.answer = answer] ELSE Over]

(* The token is missing or expired (401): the request waits for a renewal  *)
(* and is sent again with the token that is in memory then.                *)
Expire(r) ==
  /\ taps[r].at = "sent"
  /\ taps' = [taps EXCEPT ![r] = [@ EXCEPT !.at = "expired"]]
  /\ AskRenewal

SendAgain(r) ==
  /\ taps[r].at = "expired" /\ refreshing = NoAccount
  /\ taps' = [taps EXCEPT ![r] = [@ EXCEPT !.at = "sent", !.owner = Sender, !.stray = Astray]]
  /\ UNCHANGED <<feed, tokens, server, unbacked, due, screen, failures>>

(* The renewal fails, and with it the request that asked for it.           *)
RenewalLost ==
  /\ refreshing # NoAccount
  /\ refreshing' = NoAccount
  /\ taps' = [r \in Taps |->
       IF taps[r].at # "expired" THEN taps[r]
       ELSE IF taps[r].waits THEN [taps[r] EXCEPT !.at = "served", !.answer = "error"] ELSE Over]
  /\ UNCHANGED <<access, user, seen, feed, server, unbacked, due, screen, failures>>

(* registerToEvent: refused without a user and after the deadline; an      *)
(* INSERT that fails, on the key of the table or otherwise, is a 409 too.  *)
Register(r) ==
  LET row == <<taps[r].owner, taps[r].event>> IN
  /\ taps[r].at = "sent"
  /\ \/ taps[r].owner = NoAccount /\ Answered(r, "error") /\ UNCHANGED <<rows, failures>>
     \/ /\ taps[r].owner # NoAccount
        /\ \/ taps[r].event \in closed /\ Answered(r, "conflict") /\ UNCHANGED <<rows, failures>>
           \/ /\ taps[r].event \notin closed
              /\ IF row \in rows
                 THEN Answered(r, "conflict") /\ UNCHANGED rows
                 ELSE Answered(r, "created") /\ rows' = rows \cup {row}
              /\ UNCHANGED failures
           \/ /\ failures < MaxFailures /\ failures' = failures + 1
              /\ Answered(r, "conflict") \/ Answered(r, "error")
              /\ UNCHANGED rows
  /\ UNCHANGED <<feed, tokens, closed, unbacked, due, screen>>

(* updateEventRegistrationStatus(event, 'registered')                      *)
Mark(e) ==
  /\ list' = IF e \in DOMAIN list
             THEN [list EXCEPT ![e] = [status |-> "registered", closed |-> FALSE]]
             ELSE list
  /\ due' = due + 1

Heard(r, answer) ==
  /\ taps[r].at = "served" /\ taps[r].answer = answer
  /\ taps' = [taps EXCEPT ![r] = Over]

Registered(r) ==
  /\ Heard(r, "created")
  /\ Mark(taps[r].event)
  /\ screen' = [screen EXCEPT !.busy = FALSE, !.qr = "yes"]
  /\ unbacked' = IF taps[r].stray THEN unbacked \cup {taps[r].event} ELSE unbacked
  /\ UNCHANGED <<filter, loads, newest, fresh, isLoading, error, tokens, server, failures>>

(* Any 409 marks the event, and asks for the QR code of a registration.    *)
Conflict(r) ==
  /\ Heard(r, "conflict")
  /\ Mark(taps[r].event)
  /\ screen' = [screen EXCEPT !.busy = FALSE, !.qr = "asked"]
  /\ unbacked' = IF ~taps[r].stray /\ <<taps[r].owner, taps[r].event>> \in rows
                 THEN unbacked ELSE unbacked \cup {taps[r].event}
  /\ UNCHANGED <<filter, loads, newest, fresh, isLoading, error, tokens, server, failures>>

(* Another answer, or none within the timeout: the server may have served  *)
(* the request or serve it yet.                                            *)
Refused(r) ==
  /\ taps[r].at \in {"sent", "served"} /\ taps[r].waits
  /\ \/ taps[r].answer = "error" /\ UNCHANGED failures
     \/ failures < MaxFailures /\ failures' = failures + 1
  /\ taps' = [taps EXCEPT ![r] = GivenUp(@)]
  /\ screen' = [screen EXCEPT !.busy = FALSE]
  /\ UNCHANGED <<feed, tokens, server, unbacked, due>>

(* _loadExistingQr finds the registration of the signed-in account.        *)
FindQr ==
  /\ screen # NoScreen /\ screen.qr = "asked"
  /\ access # NoToken /\ <<OwnerOf[access], screen.event>> \in rows
  /\ screen' = [screen EXCEPT !.qr = "yes"]
  /\ UNCHANGED <<feed, tokens, server, unbacked, due, taps, failures>>

DeadlinePasses(e) ==
  /\ closed' = closed \cup {e}
  /\ closed' # closed
  /\ UNCHANGED <<feed, tokens, rows, unbacked, due, screen, taps, failures>>

-----------------------------------------------------------------------------
Next ==
  \/ \E l \in Loads : Serve(l) \/ Receive(l) \/ Fail(l) \/ Refresh(l) \/ Reload(l)
  \/ \E l \in Loads : Notify(l) \/ Profile(l) \/ Clear(l)
  \/ \E l \in Loads, f \in Filters : SetFilter(f, l)
  \/ \E t \in Tokens : Login(t) \/ Renew(t)
  \/ \E e \in Events : Open(e) \/ DeadlinePasses(e)
  \/ \E r \in Taps : Tap(r) \/ Register(r) \/ Registered(r) \/ Conflict(r) \/ Refused(r)
  \/ \E r \in Taps : Expire(r) \/ SendAgain(r)
  \/ AskRenewal /\ UNCHANGED taps
  \/ ProfileLost \/ RenewalLost \/ Logout \/ Close \/ FindQr

Spec == Init /\ [][Next]_vars

-----------------------------------------------------------------------------
(* Properties *)

(* A list that came from the load started last has the events of the       *)
(* filter that is set now, whatever loads with other filters were          *)
(* overtaken, failed or will still answer: the callers of loadEvents.      *)
FreshFollowsFilter == fresh => DOMAIN list = Matching[filter]

(* The list of an account shows a registration only if that account has it, *)
(* or if it was marked for a 409 without one, or by an answer that a change  *)
(* of the account overtook while the screen waited: the token of a late      *)
(* renewal. updateToken, _register, doRefresh, registerToEvent.              *)
ShownIsMine ==
  seen # NoToken =>
    \A e \in DOMAIN list :
      list[e].status = "registered" => <<OwnerOf[seen], e>> \in rows \/ e \in unbacked

(* No answer, late or early, takes a registration off an event that stays  *)
(* in the list; only a change of the token does: the merge of loadEvents.  *)
StatusIsKept ==
  [][\A e \in DOMAIN list \cap DOMAIN list' :
       list[e].status = "registered" /\ seen' = seen => list'[e].status = "registered"]_vars
=============================================================================
