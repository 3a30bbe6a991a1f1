-------------------------------- MODULE Session --------------------------------
(***************************************************************************)
(* The session of one phone: the token pairs the API issues, exchanges and *)
(* revokes, and the client that keeps the current pair in memory and in    *)
(* secure storage (api_client.dart, auth_provider.dart).  A request that   *)
(* is answered 401 refreshes the pair once and is repeated, unless another *)
(* request is refreshing already.  Dart gives way at every await: a step   *)
(* of a task ends where the code waits for the network or for the storage. *)
(***************************************************************************)
EXTENDS Naturals, FiniteSets, Sequences

CONSTANTS
  Accounts,
  Polls,        \* slots of refreshProfile calls in flight
  NoAccount,
  MaxPairs,     \* token pairs issued in a behaviour
  MaxFailures,  \* requests that fail or lose their answer
  MaxKills      \* times the application is killed and started again

ASSUME SessionAssumption ==
  /\ NoAccount \notin Accounts /\ "ui" \notin Polls /\ MaxPairs \in Nat \ {0}
  /\ MaxFailures \in Nat /\ MaxKills \in Nat

VARIABLES
  owner,        \* pair to the account it was issued to
  expired,      \* pairs whose access token expired
  dead,         \* pairs whose refresh token expired too
  revoked,      \* revoked_tokens: kind and pair of a token
  everRevoked,  \* history: what revoked_tokens ever held
  memory,       \* ApiClient.accessToken and refreshToken
  stored,       \* the same two keys of the secure storage
  user,         \* AuthProvider._user
  writing,      \* tasks that wait for the storage, in the order of their calls
  refreshing,   \* ApiClient._isRefreshing
  polling,      \* the timer of _startProfilePolling runs
  task, failures, kills

vars == <<owner, expired, dead, revoked, everRevoked, memory, stored, writing, user,
          refreshing, polling, task, failures, kills>>
server == <<owner, expired, dead, revoked, everRevoked>>
phone == <<memory, stored, writing, user, refreshing, polling>>
bounds == <<failures, kills>>

-----------------------------------------------------------------------------
Pairs == 1..MaxPairs
Tokens == [access : Pairs \cup {0}, refresh : Pairs \cup {0}]
None == [access |-> 0, refresh |-> 0]
Pair(n) == [access |-> n, refresh |-> n]
Whole(keys) == keys.access # 0 /\ keys.refresh # 0
Issued == {n \in Pairs : owner[n] # NoAccount}

\* The tasks of AuthProvider: one started from the screens, and the polls.
Tasks == Polls \cup {"ui"}
Idle == [kind |-> "idle", pc |-> "idle", account |-> NoAccount, access |-> 0,
         body |-> 0, spend |-> 0, got |-> 0, via |-> "none", result |-> "none"]
Send(tk) == [tk EXCEPT !.pc = "request", !.access = memory.access, !.result = "none"]
Exchange(tk, via) == [tk EXCEPT !.pc = "exchange", !.spend = memory.refresh, !.via = via,
                                !.got = 0, !.result = "none"]
Goto(t, tk) == task' = [task EXCEPT ![t] = tk]

Init ==
  /\ owner = [n \in Pairs |-> NoAccount] /\ expired = {} /\ dead = {}
  /\ revoked = {} /\ everRevoked = {} /\ memory = None /\ stored = None
  /\ writing = <<>> /\ user = NoAccount /\ refreshing = FALSE /\ polling = FALSE
  /\ task = [t \in Tasks |-> Idle] /\ failures = 0 /\ kills = 0

-----------------------------------------------------------------------------
(* The API *)

AccessAlive(n) == n # 0 /\ n \notin expired
RefreshAlive(n) == n # 0 /\ n \notin dead

AccessExpires(n) ==
  /\ n \in Issued \ expired
  /\ expired' = expired \cup {n}
  /\ UNCHANGED <<owner, dead, revoked, everRevoked, phone, task, bounds>>

RefreshExpires(n) ==
  /\ n \in expired \ dead
  /\ dead' = dead \cup {n}
  /\ UNCHANGED <<owner, expired, revoked, everRevoked, phone, task, bounds>>

\* Mutant: the worker deletes by the age of the row.
CleanupByAge ==
  /\ revoked # {} /\ revoked' = {}
  /\ UNCHANGED <<owner, expired, dead, everRevoked, phone, task, bounds>>

\* docker/cleanup-revoked.sh deletes the rows whose tokens expired.
Cleanup ==
  /\ revoked' = {r \in revoked : IF r[1] = "access" THEN AccessAlive(r[2])
                                                    ELSE RefreshAlive(r[2])}
  /\ revoked' # revoked
  /\ UNCHANGED <<owner, expired, dead, everRevoked, phone, task, bounds>>

\* AuthRequired, and behind it the handler: Logout revokes what it can parse.
ServeRequest(t) ==
  /\ task[t].pc = "request"
  /\ LET ok == AccessAlive(task[t].access)
         gone == IF ~ok \/ task[t].kind # "logout" THEN {}
                 ELSE {<<"access", task[t].access>>}
                      \cup {<<"refresh", n>> : n \in {task[t].body} \ (dead \cup {0})}
     IN /\ Goto(t, [task[t] EXCEPT !.pc = "answered", !.result = IF ok THEN "ok" ELSE "401"])
        /\ revoked' = revoked \cup gone /\ everRevoked' = everRevoked \cup gone
  /\ UNCHANGED <<owner, expired, dead, phone, bounds>>

\* Login, or Refresh of a token that is neither expired nor revoked.
ServeExchange(t) ==
  /\ task[t].pc = "exchange"
  /\ LET login == task[t].via = "none"
         ok == login \/ (RefreshAlive(task[t].spend)
                         /\ <<"refresh", task[t].spend>> \notin revoked)
     IN \/ /\ ok
           /\ \E n \in Pairs :
                /\ n = Cardinality(Issued) + 1
                /\ owner' = [owner EXCEPT ![n] = IF login THEN task[t].account
                                                          ELSE owner[task[t].spend]]
                /\ Goto(t, [task[t] EXCEPT !.pc = "issued", !.got = n, !.result = "ok"])
        \/ /\ ~ok
           /\ Goto(t, [task[t] EXCEPT !.pc = "issued", !.result = "401"])
           /\ UNCHANGED owner
  /\ UNCHANGED <<expired, dead, revoked, everRevoked, phone, bounds>>

\* The request or its answer is lost, or the server fails.  Once all pairs are
\* issued the next exchange ends this way.
Fail(t) ==
  /\ \/ failures < MaxFailures /\ failures' = failures + 1
     \/ Issued = Pairs /\ task[t].pc = "exchange" /\ UNCHANGED failures
  /\ task[t].result # "error"
  /\ \/ /\ task[t].pc \in {"request", "answered"}
        /\ Goto(t, [task[t] EXCEPT !.pc = "answered", !.result = "error"])
     \/ /\ task[t].pc \in {"exchange", "issued"}
        /\ Goto(t, [task[t] EXCEPT !.pc = "issued", !.got = 0, !.result = "error"])
  /\ UNCHANGED <<server, phone, kills>>

-----------------------------------------------------------------------------
(* What starts a task *)

RefreshProfile(p) ==
  /\ task[p] = Idle /\ user # NoAccount
  /\ Goto(p, Send([Idle EXCEPT !.kind = "profile"]))
  /\ UNCHANGED <<server, phone, bounds>>

Login(account) ==
  /\ task["ui"] = Idle /\ user = NoAccount
  /\ Goto("ui", [Idle EXCEPT !.kind = "login", !.pc = "exchange", !.account = account])
  /\ UNCHANGED <<server, memory, stored, writing, user, refreshing, polling, bounds>>

Logout ==
  /\ task["ui"] = Idle /\ user # NoAccount
  /\ polling' = FALSE
  /\ Goto("ui", Send([Idle EXCEPT !.kind = "logout", !.body = memory.refresh]))
  /\ UNCHANGED <<server, memory, stored, writing, user, refreshing, bounds>>

\* The application is killed and started: tryRestoreSession reads the storage.
Restart ==
  /\ kills < MaxKills /\ kills' = kills + 1
  /\ memory' = IF Whole(stored) THEN stored ELSE None
  /\ task' = [t \in Tasks |-> IF t = "ui" /\ Whole(stored)
                              THEN [Idle EXCEPT !.kind = "restore", !.pc = "request",
                                                !.access = stored.access]
                              ELSE Idle]
  /\ writing' = <<>> /\ user' = NoAccount /\ refreshing' = FALSE /\ polling' = FALSE
  /\ UNCHANGED <<server, stored, failures>>

-----------------------------------------------------------------------------
(* What a task does with an answer *)

\* The storage serves its calls in their order.
Returned(t) == writing # <<>> /\ Head(writing) = t
Waits(t) == \E i \in DOMAIN writing : writing[i] = t

\* Mutant: every 401 refreshes.
BeginRefreshAgain(t) ==
  /\ task[t].pc = "answered" /\ task[t].result = "401" /\ task[t].via = "none"
  /\ memory.refresh # 0
  /\ refreshing' = TRUE
  /\ Goto(t, Exchange(task[t], "flag"))
  /\ UNCHANGED <<server, memory, stored, writing, user, polling, bounds>>

\* _retryAfterRefresh: doRefresh sends the refresh token of this moment.
BeginRefresh(t) ==
  /\ task[t].pc = "answered" /\ task[t].result = "401" /\ task[t].via = "none"
  /\ ~refreshing /\ memory.refresh # 0
  /\ refreshing' = TRUE
  /\ Goto(t, Exchange(task[t], "flag"))
  /\ UNCHANGED <<server, memory, stored, writing, user, polling, bounds>>

\* The answer to a login or a refresh: doRefresh assigns, _save begins to write.
TakePair(t) ==
  /\ task[t].pc = "issued" /\ task[t].result = "ok"
  /\ memory' = Pair(task[t].got)
  /\ stored' = [stored EXCEPT !.access = task[t].got]
  /\ writing' = Append(writing, t)
  /\ Goto(t, [task[t] EXCEPT !.pc = "saving"])
  /\ UNCHANGED <<server, user, refreshing, polling, bounds>>

\* Mutant: _save writes the pair it was called with.
SaveRefreshCaptured(t) ==
  /\ task[t].pc = "saving" /\ Returned(t)
  /\ writing' = Append(Tail(writing), t)
  /\ stored' = [stored EXCEPT !.refresh = task[t].got]
  /\ Goto(t, [task[t] EXCEPT !.pc = "saved"])
  /\ UNCHANGED <<server, memory, user, refreshing, polling, bounds>>

\* _save writes what memory holds by now, and nothing if that is null.
SaveRefresh(t) ==
  /\ task[t].pc = "saving" /\ Returned(t)
  /\ IF memory.refresh = 0
     THEN writing' = Tail(writing) /\ UNCHANGED stored
     ELSE /\ writing' = Append(Tail(writing), t)
          /\ stored' = [stored EXCEPT !.refresh = memory.refresh]
  /\ Goto(t, [task[t] EXCEPT !.pc = "saved"])
  /\ UNCHANGED <<server, memory, user, refreshing, polling, bounds>>

\* The request is repeated, or the profile of a new session is asked for.
SendAgain(t) ==
  /\ task[t].pc = "saved" /\ (Waits(t) => Returned(t))
  /\ writing' = IF Waits(t) THEN Tail(writing) ELSE writing
  /\ Goto(t, IF task[t].via = "direct"
             THEN [Send(task[t]) EXCEPT !.kind = "restoreAgain", !.via = "none"]
             ELSE Send(task[t]))
  /\ UNCHANGED <<server, memory, stored, user, refreshing, polling, bounds>>

\* A call has its outcome: its answer, a 401 it may not or cannot refresh, or
\* the failure of the refresh.
Settled(t) ==
  \/ task[t].pc = "answered"
     /\ ~(task[t].result = "401" /\ task[t].via = "none" /\ ~refreshing /\ memory.refresh # 0)
  \/ task[t].pc = "issued" /\ task[t].result # "ok"

\* Mutant: no finally: a failed refresh leaves the flag up.
ReleaseOnSuccess(t) ==
  refreshing' = (refreshing /\ ~(task[t].via = "flag" /\ task[t].result = "ok"))

\* finally of _retryAfterRefresh
Release(t) == refreshing' = (refreshing /\ task[t].via # "flag")

EndProfile(t) ==
  /\ Settled(t) /\ task[t].kind \in {"profile", "login"}
  /\ Release(t)
  /\ user' = IF task[t].pc = "answered" /\ task[t].result = "ok"
             THEN owner[task[t].access] ELSE user
  /\ Goto(t, Idle)
  /\ UNCHANGED <<server, memory, stored, writing, polling, bounds>>

Restored(t) ==
  /\ Settled(t) /\ task[t].kind \in {"restore", "restoreAgain"}
  /\ task[t].pc = "answered" /\ task[t].result = "ok"
  /\ Release(t)
  /\ user' = owner[task[t].access] /\ polling' = TRUE
  /\ Goto(t, Idle)
  /\ UNCHANGED <<server, memory, stored, writing, bounds>>

\* The first me() ended with 401: _doRefresh is called once more, directly.
RefreshDirectly(t) ==
  /\ Settled(t) /\ task[t].kind = "restore" /\ task[t].via # "direct"
  /\ task[t].result = "401" /\ memory.refresh # 0
  /\ Release(t)
  /\ Goto(t, Exchange(task[t], "direct"))
  /\ UNCHANGED <<server, memory, stored, writing, user, polling, bounds>>

RestoreFails(t) ==
  /\ Settled(t) /\ task[t].kind \in {"restore", "restoreAgain"} /\ task[t].result # "ok"
  /\ (task[t].kind = "restore" /\ task[t].result = "401" /\ memory.refresh # 0)
       => task[t].via = "direct"
  /\ Release(t)
  /\ stored' = None /\ writing' = Append(writing, t)
  /\ Goto(t, [task[t] EXCEPT !.pc = "clearing"])
  /\ UNCHANGED <<server, memory, user, polling, bounds>>

\* Whatever the server said: the pair is dropped and the storage emptied.
DropSession(t) ==
  /\ Settled(t) /\ task[t].kind = "logout"
  /\ Release(t)
  /\ memory' = None /\ stored' = None /\ writing' = Append(writing, t)
  /\ Goto(t, [task[t] EXCEPT !.pc = "clearing"])
  /\ UNCHANGED <<server, user, polling, bounds>>

\* deleteAll has returned.
Cleared(t) ==
  /\ task[t].pc = "clearing" /\ Returned(t) /\ writing' = Tail(writing)
  /\ memory' = None
  /\ IF task[t].kind = "logout"
     THEN user' = NoAccount /\ UNCHANGED polling
     ELSE polling' = TRUE /\ UNCHANGED user
  /\ Goto(t, Idle)
  /\ UNCHANGED <<server, stored, refreshing, bounds>>

-----------------------------------------------------------------------------
TaskStep(t) ==
  \/ ServeRequest(t) \/ ServeExchange(t) \/ Fail(t)
  \/ BeginRefresh(t) \/ TakePair(t) \/ SaveRefresh(t) \/ SendAgain(t)
  \/ EndProfile(t) \/ Restored(t) \/ RefreshDirectly(t) \/ RestoreFails(t)
  \/ DropSession(t) \/ Cleared(t)

Next ==
  \/ \E n \in Pairs : AccessExpires(n) \/ RefreshExpires(n)
  \/ Cleanup \/ Restart \/ Logout
  \/ \E account \in Accounts : Login(account)
  \/ \E p \in Polls : RefreshProfile(p)
  \/ \E t \in Tasks : TaskStep(t)

\* Every request is answered or times out after 30 s, and the storage returns.
Fairness == \A t \in Tasks : WF_vars(TaskStep(t))

Spec == Init /\ [][Next]_vars /\ Fairness

-----------------------------------------------------------------------------
TypeOK ==
  /\ owner \in [Pairs -> Accounts \cup {NoAccount}]
  /\ expired \subseteq Issued /\ dead \subseteq expired
  /\ revoked \subseteq everRevoked /\ everRevoked \subseteq {"access", "refresh"} \X Issued
  /\ memory \in Tokens /\ stored \in Tokens /\ writing \in Seq(Tasks)
  /\ user \in Accounts \cup {NoAccount}
  /\ refreshing \in BOOLEAN /\ polling \in BOOLEAN
  /\ task \in [Tasks ->
       [kind : {"idle", "profile", "login", "logout", "restore", "restoreAgain"},
        pc : {"idle", "request", "answered", "exchange", "issued", "saving", "saved", "clearing"},
        account : Accounts \cup {NoAccount}, access : Pairs \cup {0}, body : Pairs \cup {0},
        spend : Pairs \cup {0}, got : Pairs \cup {0}, via : {"none", "flag", "direct"},
        result : {"none", "ok", "401", "error"}]]
  /\ failures \in 0..MaxFailures /\ kills \in 0..MaxKills

\* _isRefreshing is raised and lowered by different calls at different awaits.
\* It is up exactly while one call is between its 401 and the end of its retry.
InRetry(t) == task[t].via = "flag" /\ task[t].pc # "clearing"
OneRefresh ==
  /\ \A t, u \in Tasks : InRetry(t) /\ InRetry(u) => t = u
  /\ refreshing <=> \E t \in Tasks : InRetry(t)

\* Logins, refreshes and logouts write the pair to memory and to the storage in
\* pieces.  When none is under way, a restart restores the session in memory.
Quiet == \A t \in Tasks : task[t] = Idle
StorageFollowsMemory == Quiet /\ (Whole(memory) \/ Whole(stored)) => stored = memory

\* A refresh token that was revoked buys no pair, before and after the worker
\* deleted its row (README.md:222, TestAPIRefresh_Revoked_401).
RevokedBuysNothing ==
  [][\A t \in Tasks :
       (task[t].pc = "exchange" /\ task[t].via # "none" /\ task'[t].got # 0)
         => <<"refresh", task[t].spend>> \notin everRevoked]_vars

\* No failure leaves _isRefreshing up: otherwise no call would refresh again.
RefreshingEnds == refreshing ~> ~refreshing
==============================================================================
