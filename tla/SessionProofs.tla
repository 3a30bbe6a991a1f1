----------------------------- MODULE SessionProofs -----------------------------
(***************************************************************************)
(* Proofs about Session for any number of accounts, polls, pairs, failures *)
(* and kills: its types, one refresh at a time, the storage that follows   *)
(* the memory, and revoked refresh tokens that buy nothing.                *)
(***************************************************************************)
EXTENDS Session, FiniteSetTheorems, SequenceTheorems, TLAPS

Call ==
  [kind : {"idle", "profile", "login", "logout", "restore", "restoreAgain"},
   pc : {"idle", "request", "answered", "exchange", "issued", "saving", "saved", "clearing"},
   account : Accounts \cup {NoAccount}, access : Pairs \cup {0}, body : Pairs \cup {0},
   spend : Pairs \cup {0}, got : Pairs \cup {0}, via : {"none", "flag", "direct"},
   result : {"none", "ok", "401", "error"}]

(* TypeOK without the tokens that were issued, which are numbered in order. *)
Shapes ==
  /\ owner \in [Pairs -> Accounts \cup {NoAccount}]
  /\ memory \in Tokens /\ stored \in Tokens /\ writing \in Seq(Tasks)
  /\ user \in Accounts \cup {NoAccount}
  /\ refreshing \in BOOLEAN /\ polling \in BOOLEAN
  /\ task \in [Tasks -> Call]
  /\ failures \in 0..MaxFailures /\ kills \in 0..MaxKills

InOrder == \A m, n \in Pairs : n \in Issued /\ m <= n => m \in Issued

(* Nobody holds a token that was not issued.                                *)
Known(n) == n = 0 \/ n \in Issued
HeldIsIssued ==
  /\ expired \subseteq Issued /\ dead \subseteq expired
  /\ revoked \subseteq everRevoked /\ everRevoked \subseteq {"access", "refresh"} \X Issued
  /\ \A keys \in {memory, stored} : Known(keys.access) /\ Known(keys.refresh)
  /\ \A t \in Tasks : /\ Known(task[t].access) /\ Known(task[t].body)
                      /\ Known(task[t].spend) /\ Known(task[t].got)

(* What a call has when it comes to a point of its way.                     *)
Prepared(t) ==
  /\ task[t].pc = "answered" /\ task[t].result = "ok" => task[t].access # 0
  /\ task[t].pc = "issued" /\ task[t].result = "ok" => task[t].got # 0
  /\ task[t].pc = "exchange" => task[t].got = 0
  /\ task[t].pc = "exchange" /\ task[t].via = "none" => task[t].account \in Accounts
AllPrepared == \A t \in Tasks : Prepared(t)

(* The worker deletes a revoked refresh token only when it is dead.         *)
RevokedUntilDead ==
  \A n \in Issued : <<"refresh", n>> \in everRevoked => n \in dead \/ <<"refresh", n>> \in revoked

(* Which calls exchange tokens, and which run beside each other.            *)
Exchanging(t) == task[t].pc \in {"exchange", "issued", "saving", "saved"}
Roles ==
  /\ \A p \in Polls : task[p].kind \in {"idle", "profile"}
  /\ task["ui"].kind # "profile"
  /\ \A t \in Tasks :
       /\ task[t].kind = "idle" => task[t] = Idle
       /\ task[t].pc = "clearing" => task[t].kind \in {"logout", "restore", "restoreAgain"}
       /\ task[t].via = "direct" => task[t].kind = "restore"
       /\ Exchanging(t) /\ task[t].via = "none" => task[t].kind = "login"
  /\ task["ui"].kind \in {"restore", "restoreAgain"} =>
       user = NoAccount /\ \A p \in Polls : task[p] = Idle

(* The queue of the storage.                                                *)
Queue ==
  /\ \A i, j \in DOMAIN writing : writing[i] = writing[j] => i = j
  /\ \A i \in DOMAIN writing : task[writing[i]].pc \in {"saving", "saved", "clearing"}
  /\ \A t \in Tasks : task[t].pc \in {"saving", "clearing"} => Waits(t)

(* While the storage is being emptied it has no refresh token, and whoever  *)
(* saves a pair comes after that.                                           *)
Clearing == task["ui"].pc = "clearing"
Emptying ==
  Clearing =>
    /\ stored.refresh = 0
    /\ memory # None =>
         \A j \in DOMAIN writing :
           task[writing[j]].pc = "saving" => \E i \in 1..(j - 1) : writing[i] = "ui"

(* Otherwise the storage has the pair in memory, or somebody is saving it.  *)
Saving == \E t \in Tasks : task[t].pc = "saving"
Following ==
  /\ memory = None \/ Whole(memory)
  /\ stored.refresh # 0 => stored.access # 0
  /\ ~Clearing /\ memory = None => stored.refresh = 0
  /\ ~Clearing /\ memory # None =>
       /\ stored.access = memory.access
       /\ stored.refresh = memory.refresh \/ Saving

IInv ==
  /\ Shapes /\ InOrder /\ HeldIsIssued /\ AllPrepared /\ RevokedUntilDead
  /\ Roles /\ OneRefresh /\ Queue /\ Emptying /\ Following

-----------------------------------------------------------------------------
(* Lemmas about the model's operators.                                      *)

(* The issued pairs are the first ones: a new number is not in use.         *)
LEMMA NextPair ==
  ASSUME InOrder
  PROVE  /\ Cardinality(Issued) \in Nat
         /\ Issued = 1..Cardinality(Issued)
<1>1. IsFiniteSet(Issued) /\ Issued \subseteq Nat \ {0}
  <2>1. IsFiniteSet(Pairs) /\ Pairs \subseteq Nat \ {0}
    BY FS_Interval, SessionAssumption DEF Pairs
  <2>2. Issued \subseteq Pairs
    BY DEF Issued
  <2> QED
    BY <2>1, <2>2, FS_Subset
<1>2. Cardinality(Issued) \in Nat
  BY <1>1, FS_CardinalityType
<1> DEFINE k == Cardinality(Issued)
<1>3. IsFiniteSet(1..k) /\ Cardinality(1..k) = k /\ Cardinality(1..(k + 1)) = k + 1
  BY <1>2, FS_Interval
<1>4. k + 1 \notin Issued
  <2>1. SUFFICES ASSUME k + 1 \in Issued PROVE FALSE
    OBVIOUS
  <2>2. 1..(k + 1) \subseteq Issued
    BY <1>2, <2>1, SessionAssumption DEF InOrder, Issued, Pairs
  <2> QED
    BY <1>1, <1>2, <1>3, <2>2, FS_Subset
<1>5. ASSUME NEW n \in Issued PROVE n \in 1..k
  <2>1. n \in Pairs /\ n \in Nat \ {0} /\ (k + 1 <= n => k + 1 \in Pairs)
    BY <1>1, <1>2, SessionAssumption DEF Issued, Pairs
  <2> QED
    BY <1>2, <1>4, <2>1 DEF InOrder
<1> QED
  BY <1>2, <1>3, <1>5, FS_Subset


Pcs == {"idle", "request", "answered", "exchange", "issued", "saving", "saved", "clearing"}
Results == {"none", "ok", "401", "error"}

LEMMA CallChanges ==
  ASSUME NEW c \in Call, NEW pc \in Pcs, NEW result \in Results, NEW got \in Pairs \cup {0}
  PROVE  /\ [c EXCEPT !.pc = pc] \in Call
         /\ [c EXCEPT !.pc = pc, !.result = result] \in Call
         /\ [c EXCEPT !.pc = pc, !.got = got, !.result = result] \in Call
<1>1. [c EXCEPT !.pc = pc] \in Call
  BY DEF Call, Pcs
<1>2. \A d \in Call : [d EXCEPT !.result = result] \in Call
  BY DEF Call, Results
<1>3. [c EXCEPT !.pc = pc, !.result = result] \in Call
  BY <1>1, <1>2
<1>4. [c EXCEPT !.pc = pc, !.got = got, !.result = result] \in Call
  <2>1. [c EXCEPT !.pc = pc, !.got = got] \in Call
    BY DEF Call, Pcs
  <2> QED
    BY <1>2, <2>1
<1> QED
  BY <1>1, <1>3, <1>4

LEMMA NewCalls ==
  ASSUME Shapes
  PROVE  /\ Idle \in Call
         /\ [Idle EXCEPT !.kind = "profile"] \in Call
         /\ [Idle EXCEPT !.kind = "logout", !.body = memory.refresh] \in Call
         /\ \A a \in Accounts :
              [Idle EXCEPT !.kind = "login", !.pc = "exchange", !.account = a] \in Call
         /\ [Idle EXCEPT !.kind = "restore", !.pc = "request", !.access = stored.access] \in Call
<1>1. memory.refresh \in Pairs \cup {0} /\ stored.access \in Pairs \cup {0}
  BY DEF Shapes, Tokens
<1>2. Idle \in Call
  BY DEF Idle, Call
<1>3. [Idle EXCEPT !.kind = "profile"] \in Call
  BY DEF Idle, Call
<1>4. [Idle EXCEPT !.kind = "logout", !.body = memory.refresh] \in Call
  BY <1>1 DEF Idle, Call
<1>5. \A a \in Accounts :
        [Idle EXCEPT !.kind = "login", !.pc = "exchange", !.account = a] \in Call
  BY DEF Idle, Call
<1>6. [Idle EXCEPT !.kind = "restore", !.pc = "request", !.access = stored.access] \in Call
  BY <1>1 DEF Idle, Call
<1> QED
  BY <1>2, <1>3, <1>4, <1>5, <1>6

LEMMA SendIsCall ==
  ASSUME Shapes, NEW c \in Call
  PROVE  /\ Send(c) \in Call
         /\ [Send(c) EXCEPT !.kind = "restoreAgain", !.via = "none"] \in Call
<1>1. memory.access \in Pairs \cup {0}
  BY DEF Shapes, Tokens
<1>2. Send(c) \in Call
  BY <1>1 DEF Send, Call
<1>3. \A d \in Call : [d EXCEPT !.kind = "restoreAgain", !.via = "none"] \in Call
  BY DEF Call
<1> QED
  BY <1>2, <1>3

LEMMA ExchangeIsCall ==
  ASSUME Shapes, NEW c \in Call, NEW via \in {"none", "flag", "direct"}
  PROVE  Exchange(c, via) \in Call
  BY DEF Exchange, Call, Shapes, Tokens

LEMMA GotoIs ==
  ASSUME Shapes, NEW t \in Tasks, NEW c \in Call, Goto(t, c)
  PROVE  /\ task' \in [Tasks -> Call] /\ task'[t] = c
         /\ \A u \in Tasks \ {t} : task'[u] = task[u]
  BY DEF Goto, Shapes

(* A step of a call changes that call only.                                 *)
Others(t) == \A u \in Tasks \ {t} : task'[u] = task[u]
LEMMA StepMovesOne ==
  ASSUME Shapes, NEW t \in Tasks, TaskStep(t)
  PROVE  task' \in [Tasks -> Call] /\ Others(t)
<1> USE DEF Others, Pcs, Results
<1>1. task[t] \in Call
  BY DEF Shapes
<1>2. CASE ServeRequest(t)
  BY <1>1, <1>2, CallChanges, GotoIs DEF ServeRequest
<1>3. CASE ServeExchange(t)
  BY <1>1, <1>3, CallChanges, GotoIs DEF ServeExchange
<1>4. CASE Fail(t)
  BY <1>1, <1>4, CallChanges, GotoIs DEF Fail
<1>5. CASE BeginRefresh(t) \/ RefreshDirectly(t)
  BY <1>1, <1>5, ExchangeIsCall, GotoIs DEF BeginRefresh, RefreshDirectly
<1>6. CASE TakePair(t) \/ SaveRefresh(t) \/ RestoreFails(t) \/ DropSession(t)
  BY <1>1, <1>6, CallChanges, GotoIs DEF TakePair, SaveRefresh, RestoreFails, DropSession
<1>7. CASE SendAgain(t)
  BY <1>1, <1>7, SendIsCall, GotoIs DEF SendAgain
<1>8. CASE EndProfile(t) \/ Restored(t) \/ Cleared(t)
  BY <1>1, <1>8, NewCalls, GotoIs DEF EndProfile, Restored, Cleared
<1> QED
  BY <1>2, <1>3, <1>4, <1>5, <1>6, <1>7, <1>8 DEF TaskStep

(* The other tasks, when one is started from the screens.                   *)
LEMMA StartMovesOne ==
  ASSUME Shapes
  PROVE  /\ \A p \in Polls : RefreshProfile(p) => task' \in [Tasks -> Call] /\ Others(p)
         /\ \A a \in Accounts : Login(a) => task' \in [Tasks -> Call] /\ Others("ui")
         /\ Logout => task' \in [Tasks -> Call] /\ Others("ui")
<1> USE DEF Others
<1>1. "ui" \in Tasks /\ \A p \in Polls : p \in Tasks
  BY DEF Tasks
<1>2. ASSUME NEW p \in Polls, RefreshProfile(p) PROVE task' \in [Tasks -> Call] /\ Others(p)
  BY <1>1, <1>2, NewCalls, SendIsCall, GotoIs DEF RefreshProfile
<1>3. ASSUME NEW a \in Accounts, Login(a) PROVE task' \in [Tasks -> Call] /\ Others("ui")
  BY <1>1, <1>3, NewCalls, GotoIs DEF Login
<1>4. ASSUME Logout PROVE task' \in [Tasks -> Call] /\ Others("ui")
  BY <1>1, <1>4, NewCalls, SendIsCall, GotoIs DEF Logout
<1> QED
  BY <1>2, <1>3, <1>4


(* The steps that touch memory or storage, and those that issue a pair.     *)
Stores(t) ==
  TakePair(t) \/ SaveRefresh(t) \/ SendAgain(t) \/ RestoreFails(t) \/ DropSession(t) \/ Cleared(t)

LEMMA TouchesStorage ==
  ASSUME [Next]_vars
  PROVE  UNCHANGED <<memory, stored, writing>> \/ Restart \/ \E t \in Tasks : Stores(t)
<1> USE DEF server, phone, bounds
<1>1. CASE UNCHANGED vars
  BY <1>1 DEF vars
<1>2. ASSUME NEW n \in Pairs, AccessExpires(n) \/ RefreshExpires(n)
      PROVE  UNCHANGED <<memory, stored, writing>>
  BY <1>2 DEF AccessExpires, RefreshExpires
<1>3. CASE Cleanup \/ Logout
  BY <1>3 DEF Cleanup, Logout
<1>4. ASSUME NEW a \in Accounts, Login(a) PROVE UNCHANGED <<memory, stored, writing>>
  BY <1>4 DEF Login
<1>5. ASSUME NEW p \in Polls, RefreshProfile(p) PROVE UNCHANGED <<memory, stored, writing>>
  BY <1>5 DEF RefreshProfile
<1>6. ASSUME NEW t \in Tasks, TaskStep(t), ~Stores(t) PROVE UNCHANGED <<memory, stored, writing>>
  BY <1>6 DEF TaskStep, Stores, ServeRequest, ServeExchange, Fail, BeginRefresh, EndProfile, Restored,
       RefreshDirectly
<1> QED
  BY <1>1, <1>2, <1>3, <1>4, <1>5, <1>6 DEF Next

LEMMA IssuesPair ==
  ASSUME [Next]_vars
  PROVE  UNCHANGED owner \/ \E t \in Tasks : ServeExchange(t)
<1> USE DEF server, phone, bounds
<1>1. CASE UNCHANGED vars
  BY <1>1 DEF vars
<1>2. ASSUME NEW n \in Pairs, AccessExpires(n) \/ RefreshExpires(n)
      PROVE  UNCHANGED owner
  BY <1>2 DEF AccessExpires, RefreshExpires
<1>3. CASE Cleanup \/ Logout \/ Restart
  BY <1>3 DEF Cleanup, Logout, Restart
<1>4. ASSUME NEW a \in Accounts, Login(a) PROVE UNCHANGED owner
  BY <1>4 DEF Login
<1>5. ASSUME NEW p \in Polls, RefreshProfile(p) PROVE UNCHANGED owner
  BY <1>5 DEF RefreshProfile
<1>6. ASSUME NEW t \in Tasks, TaskStep(t), ~ServeExchange(t) PROVE UNCHANGED owner
  BY <1>6 DEF TaskStep, ServeRequest, Fail, BeginRefresh, EndProfile, Restored, RefreshDirectly,
       TakePair, SaveRefresh, SendAgain, RestoreFails, DropSession, Cleared
<1> QED
  BY <1>1, <1>2, <1>3, <1>4, <1>5, <1>6 DEF Next

LEMMA QueueType ==
  ASSUME Shapes, [Next]_vars
  PROVE  writing' \in Seq(Tasks)
<1>1. CASE UNCHANGED <<memory, stored, writing>>
  BY <1>1 DEF Shapes
<1>2. CASE Restart
  BY <1>2, EmptySeq DEF Restart
<1>3. ASSUME NEW t \in Tasks, TakePair(t) \/ RestoreFails(t) \/ DropSession(t)
      PROVE  writing' \in Seq(Tasks)
  <2>1. writing' = Append(writing, t)
    BY <1>3 DEF TakePair, RestoreFails, DropSession
  <2> QED
    BY <2>1 DEF Shapes
<1>4. ASSUME NEW t \in Tasks, SaveRefresh(t) \/ SendAgain(t) \/ Cleared(t)
      PROVE  writing' \in Seq(Tasks)
  <2>1. \/ writing # <<>> /\ (writing' = Tail(writing) \/ writing' = Append(Tail(writing), t))
        \/ writing' = writing
    BY <1>4 DEF SaveRefresh, SendAgain, Cleared, Returned
  <2>2. writing # <<>> => Tail(writing) \in Seq(Tasks)
    BY HeadTailProperties DEF Shapes
  <2> QED
    BY <2>1, <2>2 DEF Shapes
<1> QED
  BY <1>1, <1>2, <1>3, <1>4, TouchesStorage DEF Stores

LEMMA TokensType ==
  ASSUME IInv, [Next]_vars
  PROVE  memory' \in Tokens /\ stored' \in Tokens
<1>1. CASE UNCHANGED <<memory, stored, writing>> \/ Restart
  BY <1>1 DEF IInv, Shapes, Restart, Tokens, None
<1>2. ASSUME NEW t \in Tasks, TakePair(t) PROVE memory' \in Tokens /\ stored' \in Tokens
  <2>1. task[t].got \in Pairs \cup {0}
    BY DEF IInv, Shapes, Call
  <2> QED
    BY <1>2, <2>1 DEF IInv, Shapes, TakePair, Tokens, Pair
<1>3. ASSUME NEW t \in Tasks, Stores(t), ~TakePair(t) PROVE memory' \in Tokens /\ stored' \in Tokens
  BY <1>3 DEF IInv, Shapes, Stores, SaveRefresh, SendAgain, RestoreFails, DropSession, Cleared, Tokens, None, Pair, server, phone
<1> QED
  BY <1>1, <1>2, <1>3, TouchesStorage DEF Stores

LEMMA OwnerType ==
  ASSUME IInv, [Next]_vars
  PROVE  owner' \in [Pairs -> Accounts \cup {NoAccount}]
<1>1. ASSUME NEW t \in Tasks, ServeExchange(t) PROVE owner' \in [Pairs -> Accounts \cup {NoAccount}]
  <2>1. task[t].account \in Accounts \cup {NoAccount}
        /\ (task[t].spend # 0 => owner[task[t].spend] \in Accounts \cup {NoAccount})
    BY DEF IInv, Shapes, Call
  <2> QED
    BY <1>1, <2>1 DEF IInv, Shapes, ServeExchange, RefreshAlive
<1> QED
  BY <1>1, IssuesPair DEF IInv, Shapes


LEMMA UserType ==
  ASSUME IInv, [Next]_vars
  PROVE  user' \in Accounts \cup {NoAccount}
<1>1. ASSUME NEW t \in Tasks, EndProfile(t) \/ Restored(t) PROVE user' \in Accounts \cup {NoAccount}
  <2>1. task[t].pc = "answered" /\ task[t].result = "ok" => task[t].access \in Pairs
    BY DEF IInv, Shapes, Call, AllPrepared, Prepared
  <2> QED
    BY <1>1, <2>1 DEF IInv, Shapes, EndProfile, Restored
<1>2. user' \in {user, NoAccount} \/ \E t \in Tasks : EndProfile(t) \/ Restored(t)
  <2> USE DEF server, phone, bounds
  <2>1. CASE UNCHANGED vars \/ Cleanup \/ Logout \/ Restart
    BY <2>1 DEF vars, Cleanup, Logout, Restart
  <2>2. ASSUME NEW n \in Pairs, AccessExpires(n) \/ RefreshExpires(n) PROVE user' = user
    BY <2>2 DEF AccessExpires, RefreshExpires
  <2>3. ASSUME NEW a \in Accounts, Login(a) PROVE user' = user
    BY <2>3 DEF Login
  <2>4. ASSUME NEW p \in Polls, RefreshProfile(p) PROVE user' = user
    BY <2>4 DEF RefreshProfile
  <2>5. ASSUME NEW t \in Tasks, TaskStep(t), ~EndProfile(t), ~Restored(t) PROVE user' \in {user, NoAccount}
    BY <2>5 DEF TaskStep, ServeRequest, ServeExchange, Fail, BeginRefresh, RefreshDirectly, TakePair,
         SaveRefresh, SendAgain, RestoreFails, DropSession, Cleared
  <2> QED
    BY <2>1, <2>2, <2>3, <2>4, <2>5 DEF Next
<1> QED
  BY <1>1, <1>2 DEF IInv, Shapes

LEMMA FlagsType ==
  ASSUME Shapes, [Next]_vars
  PROVE  /\ refreshing' \in BOOLEAN /\ polling' \in BOOLEAN
         /\ failures' \in 0..MaxFailures /\ kills' \in 0..MaxKills
<1> USE DEF server, phone, bounds
<1>1. ASSUME UNCHANGED vars \/ Cleanup \/ Logout
      PROVE  /\ refreshing' \in BOOLEAN /\ polling' \in BOOLEAN
             /\ UNCHANGED <<failures, kills>>
  BY <1>1 DEF vars, Cleanup, Logout, Shapes
<1>2. ASSUME NEW n \in Pairs, AccessExpires(n) \/ RefreshExpires(n)
      PROVE  UNCHANGED <<refreshing, polling, failures, kills>>
  BY <1>2 DEF AccessExpires, RefreshExpires
<1>3. ASSUME NEW a \in Accounts, Login(a) PROVE UNCHANGED <<refreshing, polling, failures, kills>>
  BY <1>3 DEF Login
<1>4. ASSUME NEW p \in Polls, RefreshProfile(p) PROVE UNCHANGED <<refreshing, polling, failures, kills>>
  BY <1>4 DEF RefreshProfile
<1>5. ASSUME Restart
      PROVE  /\ refreshing' \in BOOLEAN /\ polling' \in BOOLEAN
             /\ failures' = failures /\ kills < MaxKills /\ kills' = kills + 1
  BY <1>5 DEF Restart
<1>6. ASSUME NEW t \in Tasks, TaskStep(t)
      PROVE  /\ refreshing' \in BOOLEAN /\ polling' \in BOOLEAN /\ kills' = kills
             /\ failures' = failures \/ (failures < MaxFailures /\ failures' = failures + 1)
  <2>1. CASE Fail(t)
    BY <2>1 DEF Fail, Shapes
  <2>2. CASE ServeRequest(t) \/ ServeExchange(t) \/ TakePair(t) \/ SaveRefresh(t) \/ SendAgain(t)
    BY <2>2 DEF ServeRequest, ServeExchange, TakePair, SaveRefresh, SendAgain, Shapes
  <2>3. CASE BeginRefresh(t) \/ RefreshDirectly(t) \/ EndProfile(t) \/ Restored(t)
    BY <2>3 DEF BeginRefresh, RefreshDirectly, EndProfile, Restored, Release, Shapes
  <2>4. CASE RestoreFails(t) \/ DropSession(t) \/ Cleared(t)
    BY <2>4 DEF RestoreFails, DropSession, Cleared, Release, Shapes
  <2> QED
    BY <1>6, <2>1, <2>2, <2>3, <2>4 DEF TaskStep
<1>7. refreshing' \in BOOLEAN /\ polling' \in BOOLEAN
  <2>1. CASE UNCHANGED <<refreshing, polling>>
    BY <2>1 DEF Shapes
  <2> QED
    BY <1>1, <1>2, <1>3, <1>4, <1>5, <1>6, <2>1 DEF Next
<1>8. /\ failures' = failures \/ (failures < MaxFailures /\ failures' = failures + 1)
      /\ kills' = kills \/ (kills < MaxKills /\ kills' = kills + 1)
  BY <1>1, <1>2, <1>3, <1>4, <1>5, <1>6 DEF Next
<1> QED
  BY <1>7, <1>8, SessionAssumption DEF Shapes

LEMMA TasksType ==
  ASSUME Shapes, [Next]_vars
  PROVE  task' \in [Tasks -> Call]
<1> USE DEF server, phone, bounds
<1>1. CASE UNCHANGED vars \/ Cleanup
  BY <1>1 DEF Shapes, vars, Cleanup
<1>2. ASSUME NEW n \in Pairs, AccessExpires(n) \/ RefreshExpires(n) PROVE task' = task
  BY <1>2 DEF AccessExpires, RefreshExpires
<1>3. CASE Restart
  BY <1>3, NewCalls DEF Restart
<1> QED
  BY <1>1, <1>2, <1>3, StartMovesOne, StepMovesOne DEF Next, Shapes

LEMMA ShapesStep ==
  ASSUME IInv, [Next]_vars
  PROVE  Shapes'
<1>1. Shapes
  BY DEF IInv
<1> QED
  BY <1>1, QueueType, TokensType, OwnerType, UserType, FlagsType, TasksType DEF Shapes



(* A pair is issued under the next number, and to an account.               *)
LEMMA Issuing ==
  ASSUME IInv, NEW t \in Tasks, ServeExchange(t)
  PROVE  Issued \subseteq Issued' /\ InOrder' /\ Known(task[t].got)'
<1>1. task[t] \in Call /\ task[t].got = 0 /\ task[t].pc = "exchange" /\ Prepared(t)
  BY DEF IInv, Shapes, AllPrepared, Prepared, ServeExchange
<1>2. ASSUME UNCHANGED owner, task' = [task EXCEPT ![t] = [task[t] EXCEPT !.pc = "issued", !.result = "401"]]
      PROVE  Issued \subseteq Issued' /\ InOrder' /\ Known(task[t].got)'
  <2>1. task'[t].got = 0
    BY <1>1, <1>2 DEF Call, IInv, Shapes
  <2> QED
    BY <1>2, <2>1 DEF IInv, InOrder, Issued, Known
<1> DEFINE k == Cardinality(Issued)
           login == task[t].via = "none"
           to == IF login THEN task[t].account ELSE owner[task[t].spend]
<1>3. k \in Nat /\ Issued = 1..k
  BY NextPair DEF IInv
<1>4. ASSUME login \/ RefreshAlive(task[t].spend), k + 1 \in Pairs, owner' = [owner EXCEPT ![k + 1] = to],
             task' = [task EXCEPT ![t] = [task[t] EXCEPT !.pc = "issued", !.got = k + 1, !.result = "ok"]]
      PROVE  Issued \subseteq Issued' /\ InOrder' /\ Known(task[t].got)'
  <2>1. to # NoAccount
    <3>1. CASE login
      BY <1>1, <3>1, SessionAssumption DEF Prepared
    <3>2. CASE ~login
      BY <1>4, <3>2 DEF RefreshAlive, IInv, HeldIsIssued, Known, Issued
    <3> QED
      BY <3>1, <3>2
  <2>2. Issued' = Issued \cup {k + 1}
    BY <1>4, <2>1 DEF Issued, IInv, Shapes
  <2>3. Issued' = 1..(k + 1)
    BY <1>3, <2>2
  <2>4. task'[t].got = k + 1
    BY <1>1, <1>4 DEF Call, IInv, Shapes
  <2> QED
    BY <1>3, <1>4, <2>2, <2>3, <2>4, SessionAssumption DEF InOrder, Known, Pairs
<1> QED
  BY <1>2, <1>4 DEF ServeExchange, Goto

LEMMA InOrderStep ==
  ASSUME IInv, [Next]_vars
  PROVE  InOrder' /\ Issued \subseteq Issued'
<1>1. CASE UNCHANGED owner
  BY <1>1 DEF IInv, InOrder, Issued
<1> QED
  BY <1>1, IssuesPair, Issuing

(* What the server knows only grows, but for the rows the worker deletes.   *)
LEMMA ServerStep ==
  ASSUME IInv, [Next]_vars
  PROVE  /\ expired' \subseteq Issued' /\ dead' \subseteq expired'
         /\ revoked' \subseteq everRevoked' /\ everRevoked' \subseteq {"access", "refresh"} \X Issued'
         /\ RevokedUntilDead'
<1> USE DEF server, phone, bounds, Stores
<1>1. Issued \subseteq Issued'
  BY InOrderStep
<1>2. /\ expired \subseteq Issued /\ dead \subseteq expired
      /\ revoked \subseteq everRevoked /\ everRevoked \subseteq {"access", "refresh"} \X Issued
  BY DEF IInv, HeldIsIssued
<1>3. CASE UNCHANGED <<expired, dead, revoked, everRevoked>>
  BY <1>1, <1>2, <1>3 DEF IInv, RevokedUntilDead
<1>4. CASE \E n \in Pairs : AccessExpires(n) \/ RefreshExpires(n)
  BY <1>1, <1>2, <1>4 DEF IInv, RevokedUntilDead, AccessExpires, RefreshExpires
<1>5. CASE Cleanup
  <2>1. /\ revoked' \subseteq revoked /\ UNCHANGED <<owner, expired, dead, everRevoked>>
        /\ \A n \in Issued : <<"refresh", n>> \in revoked /\ n \notin dead => <<"refresh", n>> \in revoked'
    <3>1. \A n \in Issued : n # 0
      BY SessionAssumption DEF Issued, Pairs
    <3>2. \A n : <<"refresh", n>>[1] = "refresh" /\ <<"refresh", n>>[2] = n
      OBVIOUS
    <3> QED
      BY <1>5, <3>1, <3>2 DEF Cleanup, RefreshAlive
  <2> QED
    BY <1>2, <2>1 DEF IInv, RevokedUntilDead, Issued
<1>6. CASE \E t \in Tasks : ServeRequest(t)
  <2>1. PICK t \in Tasks : ServeRequest(t)
    BY <1>6
  <2> DEFINE gone == IF ~AccessAlive(task[t].access) \/ task[t].kind # "logout" THEN {}
                     ELSE {<<"access", task[t].access>>}
                          \cup {<<"refresh", n>> : n \in {task[t].body} \ (dead \cup {0})}
  <2>2. /\ UNCHANGED <<expired, dead, owner>>
        /\ revoked' = revoked \cup gone /\ everRevoked' = everRevoked \cup gone
    BY <2>1 DEF ServeRequest
  <2>3. gone \subseteq {"access", "refresh"} \X Issued
    BY DEF AccessAlive, IInv, HeldIsIssued, Known
  <2>4. \A n : <<"refresh", n>> \in gone => <<"refresh", n>> \in revoked'
    BY <2>2
  <2>5. \A n \in Issued' : n \in Issued
    BY <2>2 DEF Issued
  <2>6. RevokedUntilDead'
    BY <2>2, <2>4, <2>5 DEF IInv, RevokedUntilDead
  <2>7. /\ revoked' \subseteq everRevoked' /\ everRevoked' \subseteq {"access", "refresh"} \X Issued'
        /\ expired' \subseteq Issued' /\ dead' \subseteq expired'
    BY <1>1, <1>2, <2>2, <2>3
  <2> QED
    BY <2>6, <2>7
<1>7. \/ UNCHANGED <<expired, dead, revoked, everRevoked>> \/ Cleanup
      \/ \E n \in Pairs : AccessExpires(n) \/ RefreshExpires(n)
      \/ \E t \in Tasks : ServeRequest(t)
  <2>1. CASE UNCHANGED vars \/ Logout \/ Restart
    BY <2>1 DEF vars, Logout, Restart
  <2>2. CASE (\E a \in Accounts : Login(a)) \/ (\E p \in Polls : RefreshProfile(p))
    BY <2>2 DEF Login, RefreshProfile
  <2>3. ASSUME NEW t \in Tasks, TaskStep(t), ~ServeRequest(t)
        PROVE  UNCHANGED <<expired, dead, revoked, everRevoked>>
    BY <2>3 DEF TaskStep, ServeExchange, Fail, BeginRefresh, EndProfile, Restored, RefreshDirectly,
         TakePair, SaveRefresh, SendAgain, RestoreFails, DropSession, Cleared
  <2> QED
    BY <2>1, <2>2, <2>3 DEF Next
<1> QED
  BY <1>3, <1>4, <1>5, <1>6, <1>7



(* What a call keeps when it is answered, goes on, or is sent again.        *)
SameTokens(c, d) ==
  d.account = c.account /\ d.access = c.access /\ d.body = c.body /\ d.spend = c.spend

(* The effect of every step on its call.                                    *)
Carried(t) ==
  /\ SameTokens(task[t], task'[t])
  /\ task'[t].kind = task[t].kind /\ task'[t].via = task[t].via
Exchanged(t, via) ==
  /\ task'[t].account = task[t].account /\ task'[t].body = task[t].body
  /\ task'[t].access = task[t].access /\ task'[t].kind = task[t].kind
  /\ task'[t].pc = "exchange" /\ task'[t].spend = memory.refresh /\ task'[t].via = via
  /\ task'[t].got = 0 /\ task'[t].result = "none"

LEMMA Effects ==
  ASSUME Shapes, NEW t \in Tasks
  PROVE  /\ ServeRequest(t) =>
              /\ Carried(t) /\ task'[t].got = task[t].got /\ task'[t].pc = "answered"
              /\ task'[t].result = IF AccessAlive(task[t].access) THEN "ok" ELSE "401"
         /\ ServeExchange(t) =>
              /\ Carried(t) /\ task'[t].pc = "issued"
              /\ \/ task'[t].result = "401" /\ task'[t].got = task[t].got
                 \/ /\ task'[t].result = "ok" /\ task'[t].got \in Pairs
                    /\ \/ task[t].via = "none"
                       \/ /\ RefreshAlive(task[t].spend)
                          /\ <<"refresh", task[t].spend>> \notin revoked
         /\ Fail(t) =>
              /\ Carried(t) /\ task'[t].result = "error"
              /\ \/ /\ task[t].pc \in {"request", "answered"}
                    /\ task'[t].pc = "answered" /\ task'[t].got = task[t].got
                 \/ /\ task[t].pc \in {"exchange", "issued"}
                    /\ task'[t].pc = "issued" /\ task'[t].got = 0
         /\ BeginRefresh(t) => Exchanged(t, "flag")
         /\ RefreshDirectly(t) => Exchanged(t, "direct")
         /\ TakePair(t) =>
              /\ Carried(t) /\ task'[t].pc = "saving"
              /\ task'[t].got = task[t].got /\ task'[t].result = task[t].result
         /\ SaveRefresh(t) =>
              /\ Carried(t) /\ task'[t].pc = "saved"
              /\ task'[t].got = task[t].got /\ task'[t].result = task[t].result
         /\ SendAgain(t) =>
              /\ task'[t].account = task[t].account /\ task'[t].body = task[t].body
              /\ task'[t].spend = task[t].spend /\ task'[t].got = task[t].got
              /\ task'[t].pc = "request" /\ task'[t].access = memory.access
              /\ task'[t].result = "none"
              /\ \/ /\ task[t].via = "direct"
                    /\ task'[t].via = "none" /\ task'[t].kind = "restoreAgain"
                 \/ /\ task[t].via # "direct"
                    /\ task'[t].via = task[t].via /\ task'[t].kind = task[t].kind
         /\ EndProfile(t) \/ Restored(t) \/ Cleared(t) => task'[t] = Idle
         /\ RestoreFails(t) \/ DropSession(t) =>
              /\ Carried(t) /\ task'[t].pc = "clearing"
              /\ task'[t].got = task[t].got /\ task'[t].result = task[t].result
<1> USE DEF Carried, Exchanged, SameTokens
<1>1. task[t] \in Call /\ \A c : Goto(t, c) => task'[t] = c
  BY DEF Goto, Shapes
<1>2. ASSUME ServeRequest(t)
      PROVE  /\ Carried(t) /\ task'[t].got = task[t].got /\ task'[t].pc = "answered"
             /\ task'[t].result = IF AccessAlive(task[t].access) THEN "ok" ELSE "401"
  <2>1. task'[t] = [task[t] EXCEPT !.pc = "answered",
                                   !.result = IF AccessAlive(task[t].access) THEN "ok" ELSE "401"]
    BY <1>1, <1>2 DEF ServeRequest
  <2> QED
    BY <1>1, <2>1 DEF Call
<1>3. ASSUME ServeExchange(t)
      PROVE  /\ Carried(t) /\ task'[t].pc = "issued"
             /\ \/ task'[t].result = "401" /\ task'[t].got = task[t].got
                \/ /\ task'[t].result = "ok" /\ task'[t].got \in Pairs
                   /\ \/ task[t].via = "none"
                      \/ /\ RefreshAlive(task[t].spend)
                         /\ <<"refresh", task[t].spend>> \notin revoked
  <2>1. \/ task'[t] = [task[t] EXCEPT !.pc = "issued", !.result = "401"]
        \/ /\ \E n \in Pairs :
                task'[t] = [task[t] EXCEPT !.pc = "issued", !.got = n, !.result = "ok"]
           /\ \/ task[t].via = "none"
              \/ RefreshAlive(task[t].spend) /\ <<"refresh", task[t].spend>> \notin revoked
    BY <1>1, <1>3 DEF ServeExchange
  <2> QED
    BY <1>1, <2>1 DEF Call
<1>4. ASSUME Fail(t)
      PROVE  /\ Carried(t) /\ task'[t].result = "error"
             /\ \/ /\ task[t].pc \in {"request", "answered"}
                   /\ task'[t].pc = "answered" /\ task'[t].got = task[t].got
                \/ /\ task[t].pc \in {"exchange", "issued"}
                   /\ task'[t].pc = "issued" /\ task'[t].got = 0
  <2>1. \/ /\ task[t].pc \in {"request", "answered"}
           /\ task'[t] = [task[t] EXCEPT !.pc = "answered", !.result = "error"]
        \/ /\ task[t].pc \in {"exchange", "issued"}
           /\ task'[t] = [task[t] EXCEPT !.pc = "issued", !.got = 0, !.result = "error"]
    BY <1>1, <1>4 DEF Fail
  <2> QED
    BY <1>1, <2>1 DEF Call
<1>5. BeginRefresh(t) => Exchanged(t, "flag")
  BY <1>1 DEF BeginRefresh, Exchange, Call
<1>6. RefreshDirectly(t) => Exchanged(t, "direct")
  BY <1>1 DEF RefreshDirectly, Exchange, Call
<1>7. ASSUME TakePair(t)
      PROVE  /\ Carried(t) /\ task'[t].pc = "saving"
             /\ task'[t].got = task[t].got /\ task'[t].result = task[t].result
  <2>1. task'[t] = [task[t] EXCEPT !.pc = "saving"]
    BY <1>1, <1>7 DEF TakePair
  <2> QED
    BY <1>1, <2>1 DEF Call
<1>8. ASSUME SaveRefresh(t)
      PROVE  /\ Carried(t) /\ task'[t].pc = "saved"
             /\ task'[t].got = task[t].got /\ task'[t].result = task[t].result
  <2>1. task'[t] = [task[t] EXCEPT !.pc = "saved"]
    BY <1>1, <1>8 DEF SaveRefresh
  <2> QED
    BY <1>1, <2>1 DEF Call
<1>9. ASSUME SendAgain(t)
      PROVE  /\ task'[t].account = task[t].account /\ task'[t].body = task[t].body
             /\ task'[t].spend = task[t].spend /\ task'[t].got = task[t].got
             /\ task'[t].pc = "request" /\ task'[t].access = memory.access
             /\ task'[t].result = "none"
             /\ \/ /\ task[t].via = "direct"
                   /\ task'[t].via = "none" /\ task'[t].kind = "restoreAgain"
                \/ /\ task[t].via # "direct"
                   /\ task'[t].via = task[t].via /\ task'[t].kind = task[t].kind
  <2>1. \/ /\ task[t].via = "direct"
           /\ task'[t] = [Send(task[t]) EXCEPT !.kind = "restoreAgain", !.via = "none"]
        \/ task[t].via # "direct" /\ task'[t] = Send(task[t])
    BY <1>1, <1>9 DEF SendAgain
  <2> QED
    BY <1>1, <2>1 DEF Call, Send
<1>10. EndProfile(t) \/ Restored(t) \/ Cleared(t) => task'[t] = Idle
  BY <1>1 DEF EndProfile, Restored, Cleared
<1>11. ASSUME RestoreFails(t) \/ DropSession(t)
       PROVE  /\ Carried(t) /\ task'[t].pc = "clearing"
              /\ task'[t].got = task[t].got /\ task'[t].result = task[t].result
  <2>1. task'[t] = [task[t] EXCEPT !.pc = "clearing"]
    BY <1>1, <1>11 DEF RestoreFails, DropSession
  <2> QED
    BY <1>1, <2>1 DEF Call
<1> QED
  BY <1>2, <1>3, <1>4, <1>5, <1>6, <1>7, <1>8, <1>9, <1>10, <1>11


Begun(t, kind, pc) ==
  /\ task'[t].kind = kind /\ task'[t].pc = pc
  /\ task'[t].spend = 0 /\ task'[t].got = 0 /\ task'[t].via = "none" /\ task'[t].result = "none"

LEMMA Starts ==
  ASSUME Shapes
  PROVE  /\ \A p \in Polls : RefreshProfile(p) =>
              /\ Begun(p, "profile", "request")
              /\ task'[p].access = memory.access /\ task'[p].body = 0
         /\ \A a \in Accounts : Login(a) =>
              /\ Begun("ui", "login", "exchange")
              /\ task'["ui"].access = 0 /\ task'["ui"].body = 0 /\ task'["ui"].account = a
         /\ Logout =>
              /\ Begun("ui", "logout", "request")
              /\ task'["ui"].access = memory.access /\ task'["ui"].body = memory.refresh
         /\ Restart =>
              /\ \A p \in Polls : task'[p] = Idle
              /\ \/ task'["ui"] = Idle
                 \/ /\ Begun("ui", "restore", "request") /\ Whole(stored)
                    /\ task'["ui"].access = stored.access /\ task'["ui"].body = 0
<1> USE DEF Begun
<1>1. "ui" \in Tasks /\ Polls \subseteq Tasks /\ \A t \in Tasks : \A c : Goto(t, c) => task'[t] = c
  BY DEF Tasks, Goto, Shapes
<1>2. ASSUME NEW p \in Polls, RefreshProfile(p)
      PROVE  /\ Begun(p, "profile", "request")
             /\ task'[p].access = memory.access /\ task'[p].body = 0
  <2>1. task'[p] = Send([Idle EXCEPT !.kind = "profile"])
    BY <1>1, <1>2 DEF RefreshProfile
  <2> QED
    BY <2>1 DEF Send, Idle
<1>3. ASSUME NEW a \in Accounts, Login(a)
      PROVE  /\ Begun("ui", "login", "exchange")
             /\ task'["ui"].access = 0 /\ task'["ui"].body = 0 /\ task'["ui"].account = a
  <2>1. task'["ui"] = [Idle EXCEPT !.kind = "login", !.pc = "exchange", !.account = a]
    BY <1>1, <1>3 DEF Login
  <2> QED
    BY <2>1 DEF Idle
<1>4. ASSUME Logout
      PROVE  /\ Begun("ui", "logout", "request")
             /\ task'["ui"].access = memory.access /\ task'["ui"].body = memory.refresh
  <2>1. task'["ui"] = Send([Idle EXCEPT !.kind = "logout", !.body = memory.refresh])
    BY <1>1, <1>4 DEF Logout
  <2> QED
    BY <2>1 DEF Send, Idle
<1>5. ASSUME Restart
      PROVE  /\ \A p \in Polls : task'[p] = Idle
             /\ \/ task'["ui"] = Idle
                \/ /\ Begun("ui", "restore", "request") /\ Whole(stored)
                   /\ task'["ui"].access = stored.access /\ task'["ui"].body = 0
  <2>1. \A p \in Polls : task'[p] = Idle
    BY <1>1, <1>5, SessionAssumption DEF Restart
  <2>2. \/ task'["ui"] = Idle
        \/ /\ task'["ui"] = [Idle EXCEPT !.kind = "restore", !.pc = "request", !.access = stored.access]
           /\ Whole(stored)
    BY <1>1, <1>5 DEF Restart
  <2>3. CASE task'["ui"] = Idle
    BY <2>1, <2>3
  <2>4. CASE /\ task'["ui"] = [Idle EXCEPT !.kind = "restore", !.pc = "request", !.access = stored.access]
             /\ Whole(stored)
    BY <2>1, <2>4 DEF Idle
  <2> QED
    BY <2>2, <2>3, <2>4
<1> QED
  BY <1>2, <1>3, <1>4, <1>5

(* Steps that leave every call where it is.                                 *)
Elsewhere ==
  \/ UNCHANGED vars \/ Cleanup
  \/ \E n \in Pairs : AccessExpires(n) \/ RefreshExpires(n)

LEMMA ElsewhereKeeps ==
  ASSUME Elsewhere
  PROVE  UNCHANGED <<owner, everRevoked, memory, stored, writing, user, refreshing, polling, task>>
  BY DEF Elsewhere, vars, Cleanup, AccessExpires, RefreshExpires, phone

LEMMA NextCases ==
  ASSUME [Next]_vars
  PROVE  \/ Elsewhere \/ Restart \/ Logout
         \/ \E a \in Accounts : Login(a)
         \/ \E p \in Polls : RefreshProfile(p)
         \/ \E t \in Tasks : TaskStep(t)
  BY DEF Next, Elsewhere

(* Nobody comes to hold a token that was not issued.                        *)
CallKnown(t) ==
  Known(task[t].access) /\ Known(task[t].body) /\ Known(task[t].spend) /\ Known(task[t].got)

LEMMA CallKnownStep ==
  ASSUME IInv, NEW t \in Tasks, TaskStep(t)
  PROVE  CallKnown(t)'
<1> USE DEF Carried, SameTokens
<1>1. Shapes /\ CallKnown(t) /\ Issued \subseteq Issued'
  BY InOrderStep DEF IInv, HeldIsIssued, CallKnown, Next
<1>2. Known(memory.access) /\ Known(memory.refresh) /\ Known(0)
  BY DEF IInv, HeldIsIssued, Known
<1>3. \A n : Known(n) => Known(n)'
  BY <1>1 DEF Known
<1>4. CASE ServeExchange(t)
  BY <1>1, <1>3, <1>4, Effects, Issuing DEF CallKnown, Known
<1>5. ASSUME ~ServeExchange(t)
      PROVE  /\ task'[t].access \in {task[t].access, memory.access, 0}
             /\ task'[t].body \in {task[t].body, 0}
             /\ task'[t].spend \in {task[t].spend, memory.refresh, 0}
             /\ task'[t].got \in {task[t].got, 0}
  <2>1. CASE ServeRequest(t) \/ Fail(t)
    BY <1>1, <2>1, Effects
  <2>2. CASE BeginRefresh(t) \/ RefreshDirectly(t)
    <3>1. Exchanged(t, "flag") \/ Exchanged(t, "direct")
      BY <1>1, <2>2, Effects
    <3> QED
      BY <3>1 DEF Exchanged
  <2>3. CASE TakePair(t) \/ SaveRefresh(t) \/ RestoreFails(t) \/ DropSession(t)
    BY <1>1, <2>3, Effects
  <2>4. CASE SendAgain(t)
    BY <1>1, <2>4, Effects
  <2>5. CASE EndProfile(t) \/ Restored(t) \/ Cleared(t)
    <3>1. task'[t] = Idle
      BY <1>1, <2>5, Effects
    <3> QED
      BY <3>1 DEF Idle
  <2> QED
    BY <1>5, <2>1, <2>2, <2>3, <2>4, <2>5 DEF TaskStep
<1>6. ASSUME ~ServeExchange(t) PROVE CallKnown(t)'
  <2>1. /\ Known(task'[t].access) /\ Known(task'[t].body)
        /\ Known(task'[t].spend) /\ Known(task'[t].got)
    BY <1>1, <1>2, <1>5, <1>6 DEF CallKnown
  <2> QED
    BY <1>1, <2>1 DEF CallKnown, Known
<1> QED
  BY <1>4, <1>6

LEMMA AllKnownStep ==
  ASSUME IInv, [Next]_vars
  PROVE  \A t \in Tasks : CallKnown(t)'
<1>1. Shapes /\ (\A t \in Tasks : CallKnown(t)) /\ Issued \subseteq Issued'
  BY InOrderStep DEF IInv, HeldIsIssued, CallKnown
<1>2. /\ Known(memory.access) /\ Known(memory.refresh) /\ Known(0)
      /\ Known(stored.access)
  BY DEF IInv, HeldIsIssued, Known
<1>3. /\ \A n : Known(n) => Known(n)'
      /\ \A t \in Tasks : task'[t] = task[t] => CallKnown(t)'
      /\ \A t \in Tasks : task'[t] = Idle => CallKnown(t)'
  BY <1>1, <1>2 DEF Known, CallKnown, Idle
<1>4. CASE Elsewhere
  BY <1>3, <1>4, ElsewhereKeeps
<1>5. CASE Restart
  BY <1>1, <1>2, <1>3, <1>5, Starts DEF Begun, CallKnown, Known, Tasks
<1>6. CASE Logout \/ \E a \in Accounts : Login(a)
  BY <1>1, <1>2, <1>3, <1>6, Starts, StartMovesOne DEF Begun, CallKnown, Known, Tasks, Others
<1>7. ASSUME NEW p \in Polls, RefreshProfile(p) PROVE \A t \in Tasks : CallKnown(t)'
  BY <1>1, <1>2, <1>3, <1>7, Starts, StartMovesOne DEF Begun, CallKnown, Known, Tasks, Others
<1>8. ASSUME NEW t \in Tasks, TaskStep(t) PROVE \A u \in Tasks : CallKnown(u)'
  BY <1>1, <1>3, <1>8, CallKnownStep, StepMovesOne DEF Others
<1> QED
  BY <1>4, <1>5, <1>6, <1>7, <1>8, NextCases

LEMMA KeysKnownStep ==
  ASSUME IInv, [Next]_vars
  PROVE  /\ Known(memory.access)' /\ Known(memory.refresh)'
         /\ Known(stored.access)' /\ Known(stored.refresh)'
<1>1. /\ Known(memory.access) /\ Known(memory.refresh)
      /\ Known(stored.access) /\ Known(stored.refresh)
      /\ Known(0) /\ \A t \in Tasks : Known(task[t].got)
  BY DEF IInv, HeldIsIssued, Known
<1>2. /\ Known(memory'.access) /\ Known(memory'.refresh)
      /\ Known(stored'.access) /\ Known(stored'.refresh)
  <2>1. CASE UNCHANGED <<memory, stored, writing>>
    BY <1>1, <2>1
  <2>2. CASE Restart
    BY <1>1, <2>2 DEF Restart, None
  <2>3. ASSUME NEW t \in Tasks, TakePair(t)
        PROVE  /\ memory' = Pair(task[t].got)
               /\ stored' = [stored EXCEPT !.access = task[t].got] /\ stored \in Tokens
    BY <2>3 DEF TakePair, IInv, Shapes
  <2>4. ASSUME NEW t \in Tasks, SaveRefresh(t)
        PROVE  /\ memory' = memory /\ stored \in Tokens
               /\ stored' \in {stored, [stored EXCEPT !.refresh = memory.refresh]}
    BY <2>4 DEF SaveRefresh, IInv, Shapes, server
  <2>5. ASSUME NEW t \in Tasks, SendAgain(t) \/ RestoreFails(t) \/ DropSession(t) \/ Cleared(t)
        PROVE  memory' \in {memory, None} /\ stored' \in {stored, None}
    BY <2>5 DEF SendAgain, RestoreFails, DropSession, Cleared, server
  <2>6. ASSUME NEW t \in Tasks, Stores(t)
        PROVE  /\ Known(memory'.access) /\ Known(memory'.refresh)
               /\ Known(stored'.access) /\ Known(stored'.refresh)
    <3>1. CASE TakePair(t)
      BY <1>1, <2>3, <3>1 DEF Pair, Tokens
    <3>2. CASE SaveRefresh(t)
      BY <1>1, <2>4, <3>2 DEF Tokens
    <3>3. CASE SendAgain(t) \/ RestoreFails(t) \/ DropSession(t) \/ Cleared(t)
      BY <1>1, <2>5, <3>3 DEF None
    <3> QED
      BY <2>6, <3>1, <3>2, <3>3 DEF Stores
  <2> QED
    BY <2>1, <2>2, <2>6, TouchesStorage
<1> QED
  BY <1>2, InOrderStep DEF Known

LEMMA HeldIsIssuedStep ==
  ASSUME IInv, [Next]_vars
  PROVE  HeldIsIssued'
<1>1. \A t \in Tasks : CallKnown(t)'
  BY AllKnownStep
<1> QED
  BY <1>1, KeysKnownStep, ServerStep DEF HeldIsIssued, CallKnown


LEMMA PreparedStep ==
  ASSUME IInv, NEW t \in Tasks, TaskStep(t)
  PROVE  Prepared(t)'
<1>1. Shapes
  BY DEF IInv
<1>2. CASE ServeRequest(t)
  BY <1>1, <1>2, Effects DEF Prepared, AccessAlive, Carried, SameTokens
<1>3. CASE ServeExchange(t)
  <2>1. task'[t].pc = "issued" /\ (task'[t].result = "ok" => task'[t].got \in Pairs)
    BY <1>1, <1>3, Effects
  <2> QED
    BY <2>1, SessionAssumption DEF Prepared, Pairs
<1>4. CASE Fail(t)
  BY <1>1, <1>4, Effects DEF Prepared
<1>5. CASE BeginRefresh(t) \/ RefreshDirectly(t)
  <2>1. task'[t].pc = "exchange" /\ task'[t].got = 0 /\ task'[t].via # "none"
    BY <1>1, <1>5, Effects DEF Exchanged
  <2> QED
    BY <2>1 DEF Prepared
<1>6. CASE TakePair(t) \/ SaveRefresh(t) \/ SendAgain(t) \/ RestoreFails(t) \/ DropSession(t)
  <2>1. task'[t].pc \in {"saving", "saved", "request", "clearing"}
    BY <1>1, <1>6, Effects
  <2> QED
    BY <2>1 DEF Prepared
<1>7. CASE EndProfile(t) \/ Restored(t) \/ Cleared(t)
  <2>1. task'[t] = Idle
    BY <1>1, <1>7, Effects
  <2> QED
    BY <2>1 DEF Prepared, Idle
<1> QED
  BY <1>2, <1>3, <1>4, <1>5, <1>6, <1>7 DEF TaskStep

LEMMA AllPreparedStep ==
  ASSUME IInv, [Next]_vars
  PROVE  AllPrepared'
<1>1. /\ Shapes /\ AllPrepared
      /\ \A t \in Tasks : task'[t] = task[t] => Prepared(t)'
      /\ \A t \in Tasks : task'[t] = Idle => Prepared(t)'
  BY DEF IInv, AllPrepared, Prepared, Idle
<1>2. CASE Elsewhere
  BY <1>1, <1>2, ElsewhereKeeps DEF AllPrepared
<1>3. CASE Restart
  BY <1>1, <1>3, Starts DEF Begun, Prepared, AllPrepared, Tasks
<1>4. CASE Logout
  BY <1>1, <1>4, Starts, StartMovesOne DEF Begun, Prepared, AllPrepared, Tasks, Others
<1>5. ASSUME NEW a \in Accounts, Login(a) PROVE AllPrepared'
  BY <1>1, <1>5, Starts, StartMovesOne DEF Begun, Prepared, AllPrepared, Tasks, Others
<1>6. ASSUME NEW p \in Polls, RefreshProfile(p) PROVE AllPrepared'
  BY <1>1, <1>6, Starts, StartMovesOne DEF Begun, Prepared, AllPrepared, Tasks, Others
<1>7. ASSUME NEW t \in Tasks, TaskStep(t) PROVE AllPrepared'
  BY <1>1, <1>7, PreparedStep, StepMovesOne DEF AllPrepared, Others
<1> QED
  BY <1>2, <1>3, <1>4, <1>5, <1>6, <1>7, NextCases

(* What every call may be, apart from the others.                           *)
Role(t) ==
  /\ IF t = "ui" THEN task[t].kind # "profile" ELSE task[t].kind \in {"idle", "profile"}
  /\ task[t].kind = "idle" => task[t] = Idle
  /\ task[t].pc = "clearing" => task[t].kind \in {"logout", "restore", "restoreAgain"}
  /\ task[t].via = "direct" => task[t].kind = "restore"
  /\ Exchanging(t) /\ task[t].via = "none" => task[t].kind = "login"

LEMMA RolesOfEach ==
  Roles <=> /\ \A t \in Tasks : Role(t)
            /\ task["ui"].kind \in {"restore", "restoreAgain"} =>
                 user = NoAccount /\ \A p \in Polls : task[p] = Idle
  BY SessionAssumption DEF Roles, Role, Tasks

LEMMA RoleStep ==
  ASSUME IInv, NEW t \in Tasks, TaskStep(t)
  PROVE  Role(t)' /\ (task'[t].kind \in {"restore", "restoreAgain"} => task[t].kind \in {"restore", "restoreAgain"})
<1>1. Shapes /\ Role(t)
  BY RolesOfEach DEF IInv
<1>2. task[t].pc # "idle"
  BY DEF TaskStep, ServeRequest, ServeExchange, Fail, BeginRefresh, TakePair, SaveRefresh, SendAgain,
     EndProfile, Restored, RefreshDirectly, RestoreFails, DropSession, Cleared, Settled
<1>3. task[t].kind # "idle"
  BY <1>1, <1>2 DEF Role, Idle
<1>4. CASE ServeRequest(t)
  <2>1. task[t].pc = "request" /\ task'[t].pc = "answered"
        /\ task'[t].kind = task[t].kind /\ task'[t].via = task[t].via
    BY <1>1, <1>4, Effects DEF ServeRequest, Carried
  <2> QED
    BY <1>1, <1>3, <2>1 DEF Role, Exchanging
<1>5. CASE ServeExchange(t) \/ TakePair(t) \/ SaveRefresh(t)
  <2>1. /\ task[t].pc \in {"exchange", "issued", "saving"} /\ task'[t].pc \in {"issued", "saving", "saved"}
        /\ task'[t].kind = task[t].kind /\ task'[t].via = task[t].via
    BY <1>1, <1>5, Effects DEF ServeExchange, TakePair, SaveRefresh, Carried
  <2> QED
    BY <1>1, <1>3, <2>1 DEF Role, Exchanging
<1>6. CASE Fail(t)
  <2>1. /\ task'[t].kind = task[t].kind /\ task'[t].via = task[t].via
        /\ \/ task[t].pc \in {"exchange", "issued"} /\ task'[t].pc = "issued"
           \/ task'[t].pc = "answered"
    BY <1>1, <1>6, Effects DEF Carried
  <2> QED
    BY <1>1, <1>3, <2>1 DEF Role, Exchanging
<1>7. CASE BeginRefresh(t)
  <2>1. task'[t].kind = task[t].kind /\ task'[t].via = "flag" /\ task'[t].pc = "exchange"
    BY <1>1, <1>7, Effects DEF Exchanged
  <2> QED
    BY <1>1, <1>3, <2>1 DEF Role, Exchanging
<1>8. CASE RefreshDirectly(t)
  <2>1. /\ task'[t].kind = task[t].kind /\ task'[t].via = "direct" /\ task'[t].pc = "exchange"
        /\ task[t].kind = "restore"
    BY <1>1, <1>8, Effects DEF Exchanged, RefreshDirectly
  <2> QED
    BY <1>1, <1>3, <2>1 DEF Role, Exchanging
<1>9. CASE SendAgain(t)
  <2>1. /\ task'[t].pc = "request" /\ task'[t].via # "direct"
        /\ \/ task[t].via = "direct" /\ task'[t].kind = "restoreAgain"
           \/ task'[t].kind = task[t].kind
    BY <1>1, <1>9, Effects
  <2> QED
    BY <1>1, <1>3, <2>1 DEF Role, Exchanging
<1>10. CASE EndProfile(t) \/ Restored(t) \/ Cleared(t)
  <2>1. task'[t] = Idle
    BY <1>1, <1>10, Effects
  <2> QED
    BY <2>1 DEF Role, Exchanging, Idle
<1>11. CASE RestoreFails(t) \/ DropSession(t)
  <2>1. /\ task'[t].kind = task[t].kind /\ task'[t].via = task[t].via /\ task'[t].pc = "clearing"
        /\ task[t].kind \in {"logout", "restore", "restoreAgain"}
    BY <1>1, <1>11, Effects DEF Carried, RestoreFails, DropSession
  <2> QED
    BY <1>1, <1>3, <2>1 DEF Role, Exchanging
<1> QED
  BY <1>4, <1>5, <1>6, <1>7, <1>8, <1>9, <1>10, <1>11 DEF TaskStep


Restoring == task["ui"].kind \in {"restore", "restoreAgain"}

(* A session is restored while nothing else runs.                           *)
LEMMA RestoresAlone ==
  ASSUME IInv, NEW t \in Tasks, TaskStep(t), Restoring
  PROVE  t = "ui"
<1>1. task[t].pc # "idle"
  BY DEF TaskStep, ServeRequest, ServeExchange, Fail, BeginRefresh, TakePair, SaveRefresh, SendAgain,
     EndProfile, Restored, RefreshDirectly, RestoreFails, DropSession, Cleared, Settled
<1> QED
  BY <1>1 DEF IInv, Roles, Restoring, Tasks, Idle

LEMMA RolesStep ==
  ASSUME IInv, [Next]_vars
  PROVE  Roles'
<1>1. /\ Shapes /\ \A t \in Tasks : Role(t)
      /\ Restoring => user = NoAccount /\ \A p \in Polls : task[p] = Idle
  BY RolesOfEach DEF IInv, Restoring
<1>2. SUFFICES /\ \A t \in Tasks : Role(t)'
               /\ Restoring' => user' = NoAccount /\ \A p \in Polls : task'[p] = Idle
  BY SessionAssumption DEF Roles, Role, Restoring, Tasks, Exchanging
<1>3. /\ \A t \in Tasks : task'[t] = task[t] => Role(t)'
      /\ \A t \in Tasks : task'[t] = Idle => Role(t)'
  BY <1>1 DEF Role, Exchanging, Idle
<1>4. CASE Elsewhere
  BY <1>1, <1>3, <1>4, ElsewhereKeeps DEF Restoring
<1>5. CASE Restart
  <2>1. /\ \A p \in Polls : task'[p] = Idle
        /\ task'["ui"] = Idle \/ Begun("ui", "restore", "request")
    BY <1>1, <1>5, Starts
  <2>2. Role("ui")'
    BY <1>3, <2>1 DEF Begun, Role, Exchanging, Tasks
  <2> QED
    BY <1>3, <1>5, <2>1, <2>2 DEF Tasks, Restart
<1>6. CASE Logout \/ \E a \in Accounts : Login(a)
  <2>1. /\ Others("ui")
        /\ Begun("ui", "logout", "request") \/ Begun("ui", "login", "exchange")
    BY <1>1, <1>6, Starts, StartMovesOne
  <2>2. Role("ui")' /\ ~Restoring'
    BY <2>1 DEF Begun, Role, Exchanging, Restoring
  <2> QED
    BY <1>3, <2>1, <2>2 DEF Others
<1>7. ASSUME NEW p \in Polls, RefreshProfile(p)
      PROVE  (\A t \in Tasks : Role(t)') /\ ~Restoring'
  <2>1. Others(p) /\ Begun(p, "profile", "request") /\ user # NoAccount /\ p # "ui"
    BY <1>1, <1>7, Starts, StartMovesOne, SessionAssumption DEF RefreshProfile
  <2>2. Role(p)' /\ ~Restoring
    BY <1>1, <2>1 DEF Begun, Role, Exchanging
  <2> QED
    BY <1>3, <2>1, <2>2 DEF Others, Restoring, Tasks
<1>8. ASSUME NEW t \in Tasks, TaskStep(t)
      PROVE  /\ \A u \in Tasks : Role(u)'
             /\ Restoring' => user' = NoAccount /\ \A p \in Polls : task'[p] = Idle
  <2>1. Others(t) /\ Role(t)'
        /\ (task'[t].kind \in {"restore", "restoreAgain"} => task[t].kind \in {"restore", "restoreAgain"})
    BY <1>1, <1>8, RoleStep, StepMovesOne
  <2>2. ASSUME Restoring' PROVE t = "ui" /\ Restoring
    BY <1>1, <1>8, <2>1, <2>2, RestoresAlone DEF Others, Restoring, Tasks
  <2>3. ASSUME Restoring' PROVE user' = user
    <3>1. ~EndProfile(t) /\ ~Restored(t) /\ ~Cleared(t)
      <4>1. task'[t] # Idle
        BY <2>2, <2>3 DEF Restoring, Idle
      <4> QED
        BY <1>1, <4>1, Effects
    <3> QED
      BY <1>8, <3>1 DEF TaskStep, ServeRequest, ServeExchange, Fail, BeginRefresh, RefreshDirectly,
           TakePair, SaveRefresh, SendAgain, RestoreFails, DropSession, phone
  <2>4. \A u \in Tasks : Role(u)'
    BY <1>3, <2>1 DEF Others
  <2>5. ASSUME Restoring' PROVE \A p \in Polls : task'[p] = task[p]
    BY <2>1, <2>2, <2>5, SessionAssumption DEF Others, Tasks
  <2> QED
    BY <1>1, <2>2, <2>3, <2>4, <2>5
<1> QED
  BY <1>4, <1>5, <1>6, <1>7, <1>8, NextCases

(* _isRefreshing goes up with one call and down with it.                    *)
LEMMA OneRefreshStep ==
  ASSUME IInv, [Next]_vars
  PROVE  OneRefresh'
<1>1. Shapes /\ OneRefresh
  BY DEF IInv
<1>2. CASE Elsewhere
  BY <1>1, <1>2, ElsewhereKeeps DEF OneRefresh, InRetry
<1>3. CASE Restart
  <2>1. \A t \in Tasks : task'[t].via = "none"
    BY <1>1, <1>3, Starts DEF Begun, Idle, Tasks
  <2> QED
    BY <1>3, <2>1 DEF OneRefresh, InRetry, Restart
<1>4. ASSUME NEW t \in Tasks, Others(t), refreshing' = refreshing, InRetry(t)' <=> InRetry(t)
      PROVE  OneRefresh'
  BY <1>1, <1>4 DEF OneRefresh, InRetry, Others
<1>5. ASSUME NEW t \in Tasks, Others(t), task[t] = Idle, task'[t].via = "none", UNCHANGED refreshing
      PROVE  OneRefresh'
  BY <1>1, <1>5 DEF OneRefresh, InRetry, Others, Idle
<1>6. CASE Logout \/ (\E a \in Accounts : Login(a)) \/ \E p \in Polls : RefreshProfile(p)
  <2>1. ASSUME NEW a \in Accounts, Login(a) PROVE OneRefresh'
    BY <1>1, <1>5, <2>1, Starts, StartMovesOne DEF Login, Begun, Tasks
  <2>2. ASSUME Logout PROVE OneRefresh'
    BY <1>1, <1>5, <2>2, Starts, StartMovesOne DEF Logout, Begun, Tasks
  <2>3. ASSUME NEW p \in Polls, RefreshProfile(p) PROVE OneRefresh'
    BY <1>1, <1>5, <2>3, Starts, StartMovesOne DEF RefreshProfile, Begun, Tasks, phone
  <2> QED
    BY <1>6, <2>1, <2>2, <2>3
<1>7. ASSUME NEW t \in Tasks, TaskStep(t) PROVE OneRefresh'
  <2>1. Others(t)
    BY <1>1, <1>7, StepMovesOne
  <2>2. CASE ServeRequest(t) \/ ServeExchange(t) \/ Fail(t) \/ TakePair(t) \/ SaveRefresh(t)
    <3>1. /\ task'[t].via = task[t].via /\ task'[t].pc # "clearing" /\ task[t].pc # "clearing"
          /\ UNCHANGED refreshing
      BY <1>1, <2>2, Effects DEF Carried, ServeRequest, ServeExchange, Fail, TakePair, SaveRefresh, phone
    <3> QED
      BY <1>4, <2>1, <3>1 DEF InRetry
  <2>3. CASE SendAgain(t)
    <3>1. /\ (task'[t].via = "flag" <=> task[t].via = "flag")
          /\ task'[t].pc # "clearing" /\ task[t].pc # "clearing" /\ UNCHANGED refreshing
      BY <1>1, <2>3, Effects DEF SendAgain
    <3> QED
      BY <1>4, <2>1, <3>1 DEF InRetry
  <2>4. CASE BeginRefresh(t)
    <3>1. task'[t].via = "flag" /\ task'[t].pc = "exchange" /\ ~refreshing /\ refreshing' = TRUE
      BY <1>1, <2>4, Effects DEF BeginRefresh, Exchanged
    <3> QED
      BY <1>1, <2>1, <3>1 DEF OneRefresh, InRetry, Others
  <2>5. CASE EndProfile(t) \/ Restored(t) \/ RefreshDirectly(t) \/ RestoreFails(t) \/ DropSession(t)
    <3>1. Release(t) /\ task[t].pc # "clearing"
      BY <2>5 DEF EndProfile, Restored, RefreshDirectly, RestoreFails, DropSession, Settled
    <3>2. ~InRetry(t)'
      <4>1. CASE EndProfile(t) \/ Restored(t)
        <5>1. task'[t] = Idle
          BY <1>1, <4>1, Effects
        <5> QED
          BY <5>1 DEF InRetry, Idle
      <4>2. CASE RefreshDirectly(t)
        BY <1>1, <4>2, Effects DEF InRetry, Exchanged
      <4>3. CASE RestoreFails(t) \/ DropSession(t)
        BY <1>1, <4>3, Effects DEF InRetry
      <4> QED
        BY <2>5, <4>1, <4>2, <4>3
    <3>3. CASE task[t].via = "flag"
      <4>1. InRetry(t) /\ refreshing' = FALSE
        BY <3>1, <3>3 DEF InRetry, Release
      <4>2. \A u \in Tasks : ~InRetry(u)'
        BY <1>1, <2>1, <3>2, <4>1 DEF OneRefresh, InRetry, Others
      <4> QED
        BY <4>1, <4>2 DEF OneRefresh
    <3>4. CASE task[t].via # "flag"
      <4>1. ~InRetry(t) /\ (refreshing' <=> refreshing)
        BY <3>1, <3>4 DEF InRetry, Release
      <4>2. \A u \in Tasks : InRetry(u)' <=> InRetry(u)
        BY <2>1, <3>2, <4>1 DEF InRetry, Others
      <4> QED
        BY <1>1, <4>1, <4>2 DEF OneRefresh
    <3> QED
      BY <3>3, <3>4
  <2>6. CASE Cleared(t)
    <3>1. task'[t] = Idle /\ task[t].pc = "clearing" /\ UNCHANGED refreshing
      BY <1>1, <2>6, Effects DEF Cleared
    <3> QED
      BY <1>4, <2>1, <3>1 DEF InRetry, Idle
  <2> QED
    BY <1>7, <2>2, <2>3, <2>4, <2>5, <2>6 DEF TaskStep
<1> QED
  BY <1>2, <1>3, <1>6, <1>7, NextCases


-----------------------------------------------------------------------------
(* The storage.                                                             *)

Members(q) == {q[i] : i \in DOMAIN q}
NoTwice(q) == \A i, j \in DOMAIN q : q[i] = q[j] => i = j
Behind(q, S) == \A j \in DOMAIN q : q[j] \in S => \E i \in 1..(j - 1) : q[i] = "ui"

LEMMA AppendFacts ==
  ASSUME NEW q \in Seq(Tasks), NEW t \in Tasks
  PROVE  /\ Members(Append(q, t)) = Members(q) \cup {t}
         /\ NoTwice(q) /\ t \notin Members(q) => NoTwice(Append(q, t))
         /\ \A S : Behind(q, S) /\ "ui" \in Members(q) => Behind(Append(q, t), S)
<1> DEFINE r == Append(q, t)
           n == Len(q)
<1>1. /\ n \in Nat /\ DOMAIN q = 1..n /\ DOMAIN r = 1..(n + 1)
      /\ (\A i \in 1..n : r[i] = q[i]) /\ r[n + 1] = t
  BY AppendProperties, LenProperties
<1> HIDE DEF r, n
<1>2. Members(r) = Members(q) \cup {t}
  BY <1>1 DEF Members
<1>3. NoTwice(q) /\ t \notin Members(q) => NoTwice(r)
  BY <1>1 DEF NoTwice, Members
<1>4. ASSUME NEW S, Behind(q, S), "ui" \in Members(q) PROVE Behind(r, S)
  BY <1>1, <1>4 DEF Behind, Members
<1> QED
  BY <1>2, <1>3, <1>4 DEF r

LEMMA TailFacts ==
  ASSUME NEW q \in Seq(Tasks), q # <<>>
  PROVE  /\ Head(q) \in Members(q)
         /\ NoTwice(q) => NoTwice(Tail(q)) /\ Members(Tail(q)) = Members(q) \ {Head(q)}
         /\ \A S : Behind(q, S) => Head(q) \notin S
         /\ \A S : Behind(q, S) /\ Head(q) # "ui" => Behind(Tail(q), S)
<1> DEFINE r == Tail(q)
           n == Len(q)
<1>1. /\ n \in Nat \ {0} /\ DOMAIN q = 1..n /\ DOMAIN r = 1..(n - 1)
      /\ (\A i \in 1..(n - 1) : r[i] = q[i + 1]) /\ Head(q) = q[1]
  BY HeadTailProperties, LenProperties, EmptySeq
<1> HIDE DEF r, n
<1>2. Head(q) \in Members(q)
  BY <1>1 DEF Members
<1>3. ASSUME NoTwice(q) PROVE NoTwice(r) /\ Members(r) = Members(q) \ {Head(q)}
  <2>1. ASSUME NEW i \in DOMAIN r, NEW j \in DOMAIN r, r[i] = r[j] PROVE i = j
    <3>1. i + 1 \in DOMAIN q /\ j + 1 \in DOMAIN q /\ q[i + 1] = q[j + 1]
      BY <1>1, <2>1
    <3>2. i + 1 = j + 1
      BY <1>3, <3>1 DEF NoTwice
    <3> QED
      BY <1>1, <3>2
  <2>2. Members(r) \subseteq Members(q) \ {Head(q)}
    BY <1>1, <1>3 DEF NoTwice, Members
  <2>3. ASSUME NEW i \in DOMAIN q, q[i] # Head(q) PROVE q[i] \in Members(r)
    <3>1. i - 1 \in DOMAIN r /\ r[i - 1] = q[i]
      BY <1>1, <2>3
    <3> QED
      BY <3>1 DEF Members
  <2> QED
    BY <2>1, <2>2, <2>3 DEF Members, NoTwice
<1>4. ASSUME NEW S, Behind(q, S) PROVE Head(q) \notin S
  BY <1>1, <1>4 DEF Behind
<1>5. ASSUME NEW S, Behind(q, S), Head(q) # "ui" PROVE Behind(r, S)
  <2>1. SUFFICES ASSUME NEW j \in DOMAIN r, r[j] \in S PROVE \E i \in 1..(j - 1) : r[i] = "ui"
    BY DEF Behind
  <2>2. j + 1 \in DOMAIN q /\ q[j + 1] \in S
    BY <1>1, <2>1
  <2>3. PICK i \in 1..j : q[i] = "ui"
    BY <1>1, <1>5, <2>1, <2>2 DEF Behind
  <2>4. i - 1 \in 1..(j - 1) /\ r[i - 1] = "ui"
    BY <1>1, <1>5, <2>1, <2>3
  <2> QED
    BY <2>4
<1> QED
  BY <1>2, <1>3, <1>4, <1>5 DEF r

LEMMA QueueOf ==
  ASSUME Shapes
  PROVE  Queue <=>
           /\ NoTwice(writing)
           /\ \A u \in Members(writing) : task[u].pc \in {"saving", "saved", "clearing"}
           /\ \A t \in Tasks : task[t].pc \in {"saving", "clearing"} => t \in Members(writing)
  BY DEF Queue, NoTwice, Members, Waits

LEMMA QueueOfNext ==
  ASSUME NEW q, writing' = q, NoTwice(q),
         \A u \in Members(q) : task'[u].pc \in {"saving", "saved", "clearing"},
         \A u \in Tasks : task'[u].pc \in {"saving", "clearing"} => u \in Members(q)
  PROVE  Queue'
  BY DEF Queue, NoTwice, Members, Waits

(* A call that waits for nothing is not in the queue.                       *)
Storing == {"saving", "saved", "clearing"}

LEMMA QueueMoves ==
  ASSUME IInv, NEW t \in Tasks, writing' = writing,
         task[t].pc \notin Storing, task'[t].pc \notin Storing, Others(t)
  PROVE  Queue'
<1>1. /\ NoTwice(writing) /\ t \notin Members(writing) /\ Members(writing) \subseteq Tasks
      /\ \A u \in Members(writing) : task[u].pc \in Storing
      /\ \A u \in Tasks : task[u].pc \in {"saving", "clearing"} => u \in Members(writing)
  BY QueueOf DEF IInv, Storing, Shapes, Members
<1>2. /\ \A u \in Members(writing) : task'[u].pc \in Storing
      /\ \A u \in Tasks : task'[u].pc \in {"saving", "clearing"} => u \in Members(writing)
  BY <1>1 DEF Others, Storing
<1> QED
  BY <1>1, <1>2, QueueOfNext DEF Storing

LEMMA Enqueued ==
  ASSUME IInv, NEW t \in Tasks, writing' = Append(writing, t),
         task[t].pc \notin Storing, task'[t].pc \in {"saving", "clearing"}, Others(t)
  PROVE  Queue'
<1>1. /\ NoTwice(writing) /\ t \notin Members(writing) /\ Members(writing) \subseteq Tasks
      /\ \A u \in Members(writing) : task[u].pc \in Storing
      /\ \A u \in Tasks : task[u].pc \in {"saving", "clearing"} => u \in Members(writing)
  BY QueueOf DEF IInv, Storing, Shapes, Members
<1>2. NoTwice(writing') /\ Members(writing') = Members(writing) \cup {t}
  BY <1>1, AppendFacts DEF IInv, Shapes
<1>3. /\ \A u \in Members(writing') : task'[u].pc \in Storing
      /\ \A u \in Tasks : task'[u].pc \in {"saving", "clearing"} => u \in Members(writing')
  BY <1>1, <1>2 DEF Others, Storing
<1> QED
  BY <1>2, <1>3, QueueOfNext DEF Storing

LEMMA Dequeued ==
  ASSUME IInv, NEW t \in Tasks, Returned(t), writing' = Tail(writing),
         task'[t].pc \notin {"saving", "clearing"}, Others(t)
  PROVE  Queue'
<1>1. /\ NoTwice(writing) /\ Members(writing) \subseteq Tasks
      /\ \A u \in Members(writing) : task[u].pc \in Storing
      /\ \A u \in Tasks : task[u].pc \in {"saving", "clearing"} => u \in Members(writing)
  BY QueueOf DEF IInv, Storing, Shapes, Members
<1>2. NoTwice(writing') /\ Members(writing') = Members(writing) \ {t}
  BY <1>1, TailFacts DEF IInv, Shapes, Returned
<1>3. /\ \A u \in Members(writing') : task'[u].pc \in Storing
      /\ \A u \in Tasks : task'[u].pc \in {"saving", "clearing"} => u \in Members(writing')
  BY <1>1, <1>2 DEF Others, Storing
<1> QED
  BY <1>2, <1>3, QueueOfNext DEF Storing

LEMMA Requeued ==
  ASSUME IInv, NEW t \in Tasks, Returned(t), writing' = Append(Tail(writing), t),
         task'[t].pc = "saved", Others(t)
  PROVE  Queue'
<1>1. /\ NoTwice(writing) /\ Members(writing) \subseteq Tasks /\ Tail(writing) \in Seq(Tasks)
      /\ \A u \in Members(writing) : task[u].pc \in Storing
      /\ \A u \in Tasks : task[u].pc \in {"saving", "clearing"} => u \in Members(writing)
  BY QueueOf, HeadTailProperties DEF IInv, Storing, Shapes, Members, Returned
<1>2. NoTwice(Tail(writing)) /\ Members(Tail(writing)) = Members(writing) \ {t}
  BY <1>1, TailFacts DEF IInv, Shapes, Returned
<1>3. NoTwice(writing') /\ Members(writing') = Members(writing) \cup {t}
  <2>1. t \in Members(writing)
    BY TailFacts DEF IInv, Shapes, Returned
  <2>2. t \notin Members(Tail(writing))
    BY <1>2
  <2>3. /\ NoTwice(Append(Tail(writing), t))
        /\ Members(Append(Tail(writing), t)) = Members(Tail(writing)) \cup {t}
    BY <1>1, <1>2, <2>2, AppendFacts
  <2> QED
    BY <1>2, <2>1, <2>3
<1>4. /\ \A u \in Members(writing') : task'[u].pc \in Storing
      /\ \A u \in Tasks : task'[u].pc \in {"saving", "clearing"} => u \in Members(writing')
  BY <1>1, <1>3 DEF Others, Storing
<1> QED
  BY <1>3, <1>4, QueueOfNext DEF Storing

LEMMA QueueStep ==
  ASSUME IInv, [Next]_vars
  PROVE  Queue'
<1>1. Shapes /\ "ui" \in Tasks /\ Polls \subseteq Tasks
  BY DEF IInv, Tasks
<1>2. CASE Elsewhere
  BY <1>2, ElsewhereKeeps DEF IInv, Queue, Waits
<1>3. CASE Restart
  <2>1. writing' = <<>> /\ \A t \in Tasks : task'[t].pc \in {"idle", "request"}
    BY <1>1, <1>3, Starts DEF Begun, Idle, Tasks, Restart
  <2> QED
    BY <2>1 DEF Queue
<1>4. CASE Logout \/ \E a \in Accounts : Login(a)
  <2>1. /\ task["ui"] = Idle /\ writing' = writing /\ Others("ui")
        /\ Begun("ui", "logout", "request") \/ Begun("ui", "login", "exchange")
    BY <1>1, <1>4, Starts, StartMovesOne DEF Logout, Login
  <2> QED
    BY <1>1, <2>1, QueueMoves DEF Begun, Idle, Storing
<1>5. ASSUME NEW p \in Polls, RefreshProfile(p) PROVE Queue'
  <2>1. /\ task[p] = Idle /\ writing' = writing /\ Others(p) /\ Begun(p, "profile", "request")
    BY <1>1, <1>5, Starts, StartMovesOne DEF RefreshProfile, phone
  <2> QED
    BY <1>1, <2>1, QueueMoves DEF Begun, Idle, Storing
<1>6. ASSUME NEW t \in Tasks, TaskStep(t) PROVE Queue'
  <2>1. Others(t)
    BY <1>1, <1>6, StepMovesOne
  <2>2. CASE ServeRequest(t) \/ ServeExchange(t) \/ Fail(t) \/ BeginRefresh(t) \/ RefreshDirectly(t)
    <3>1. writing' = writing /\ task[t].pc \notin Storing /\ task'[t].pc \notin Storing
      BY <1>1, <2>2, Effects DEF ServeRequest, ServeExchange, Fail, BeginRefresh, RefreshDirectly,
           Settled, phone, Storing, Exchanged
    <3> QED
      BY <2>1, <3>1, QueueMoves
  <2>3. CASE EndProfile(t) \/ Restored(t)
    <3>1. writing' = writing /\ task[t].pc \notin Storing /\ task'[t] = Idle
      BY <1>1, <2>3, Effects DEF EndProfile, Restored, Settled, Storing
    <3> QED
      BY <2>1, <3>1, QueueMoves DEF Idle, Storing
  <2>4. CASE TakePair(t) \/ RestoreFails(t) \/ DropSession(t)
    <3>1. /\ writing' = Append(writing, t) /\ task[t].pc \notin Storing
          /\ task'[t].pc \in {"saving", "clearing"}
      BY <1>1, <2>4, Effects DEF TakePair, RestoreFails, DropSession, Settled, Storing
    <3> QED
      BY <2>1, <3>1, Enqueued
  <2>5. CASE SaveRefresh(t)
    <3>1. /\ Returned(t) /\ task'[t].pc = "saved"
          /\ writing' = Tail(writing) \/ writing' = Append(Tail(writing), t)
      BY <1>1, <2>5, Effects DEF SaveRefresh
    <3> QED
      BY <2>1, <3>1, Dequeued, Requeued
  <2>6. CASE SendAgain(t)
    <3>1. task[t].pc = "saved" /\ task'[t].pc = "request"
      BY <1>1, <2>6, Effects DEF SendAgain
    <3>2. CASE Waits(t)
      BY <2>1, <2>6, <3>1, <3>2, Dequeued DEF SendAgain
    <3>3. CASE ~Waits(t)
      <4>1. writing' = writing /\ t \notin Members(writing)
        BY <2>6, <3>3 DEF SendAgain, Waits, Members
      <4>2. /\ NoTwice(writing) /\ Members(writing) \subseteq Tasks
            /\ \A u \in Members(writing) : task[u].pc \in Storing
            /\ \A u \in Tasks : task[u].pc \in {"saving", "clearing"} => u \in Members(writing)
        BY QueueOf DEF IInv, Storing, Shapes, Members
      <4>3. /\ \A u \in Members(writing) : task'[u].pc \in Storing
            /\ \A u \in Tasks : task'[u].pc \in {"saving", "clearing"} => u \in Members(writing)
        BY <2>1, <3>1, <4>1, <4>2 DEF Others, Storing
      <4> QED
        BY <4>1, <4>2, <4>3, QueueOfNext DEF Storing
    <3> QED
      BY <3>2, <3>3
  <2>7. CASE Cleared(t)
    <3>1. Returned(t) /\ writing' = Tail(writing) /\ task'[t] = Idle
      BY <1>1, <2>7, Effects DEF Cleared
    <3> QED
      BY <2>1, <3>1, Dequeued DEF Idle
  <2> QED
    BY <1>6, <2>2, <2>3, <2>4, <2>5, <2>6, <2>7 DEF TaskStep
<1> QED
  BY <1>2, <1>3, <1>4, <1>5, <1>6, NextCases


(* A step that does not touch the storage leaves all calls that do where    *)
(* they are.                                                                *)
LEMMA StorageAtRest ==
  ASSUME IInv, [Next]_vars, ~Restart, \A t \in Tasks : ~Stores(t)
  PROVE  /\ UNCHANGED <<memory, stored, writing>>
         /\ \A u \in Tasks : \/ task'[u].pc = task[u].pc
                             \/ task'[u].pc \notin Storing /\ task[u].pc \notin Storing
<1>1. Shapes /\ "ui" \in Tasks /\ Polls \subseteq Tasks
  BY DEF IInv, Tasks
<1>2. UNCHANGED <<memory, stored, writing>>
  BY TouchesStorage
<1>3. ASSUME NEW t \in Tasks, Others(t), task[t].pc \notin Storing, task'[t].pc \notin Storing
      PROVE  \A u \in Tasks : \/ task'[u].pc = task[u].pc
                              \/ task'[u].pc \notin Storing /\ task[u].pc \notin Storing
  BY <1>3 DEF Others
<1>4. CASE Elsewhere
  BY <1>2, <1>4, ElsewhereKeeps
<1>5. CASE Logout \/ \E a \in Accounts : Login(a)
  <2>1. /\ task["ui"] = Idle /\ Others("ui")
        /\ Begun("ui", "logout", "request") \/ Begun("ui", "login", "exchange")
    BY <1>1, <1>5, Starts, StartMovesOne DEF Logout, Login
  <2> QED
    BY <1>1, <1>2, <1>3, <2>1 DEF Begun, Idle, Storing
<1>6. ASSUME NEW p \in Polls, RefreshProfile(p)
      PROVE  p \in Tasks /\ Others(p) /\ task[p].pc \notin Storing /\ task'[p].pc \notin Storing
  <2>1. task[p] = Idle /\ Others(p) /\ Begun(p, "profile", "request")
    BY <1>1, <1>6, Starts, StartMovesOne DEF RefreshProfile
  <2> QED
    BY <1>1, <2>1 DEF Begun, Idle, Storing
<1>7. ASSUME NEW t \in Tasks, TaskStep(t)
      PROVE  Others(t) /\ task[t].pc \notin Storing /\ task'[t].pc \notin Storing
  <2>1. CASE ServeRequest(t) \/ ServeExchange(t) \/ Fail(t) \/ BeginRefresh(t) \/ RefreshDirectly(t)
    BY <1>1, <1>7, <2>1, Effects, StepMovesOne
       DEF ServeRequest, ServeExchange, Fail, BeginRefresh, RefreshDirectly, Settled, Storing, Exchanged
  <2>2. CASE EndProfile(t) \/ Restored(t)
    <3>1. task[t].pc \notin Storing /\ task'[t] = Idle
      BY <1>1, <2>2, Effects DEF EndProfile, Restored, Settled, Storing
    <3> QED
      BY <1>1, <1>7, <3>1, StepMovesOne DEF Idle, Storing
  <2> QED
    BY <1>7, <2>1, <2>2 DEF TaskStep, Stores
<1> QED
  BY <1>2, <1>3, <1>4, <1>5, <1>6, <1>7, NextCases

(* While the storage is being emptied only polls exchange, one at a time.   *)
LEMMA OneSaver ==
  ASSUME IInv, Clearing
  PROVE  /\ \A t \in Tasks : Exchanging(t) => InRetry(t)
         /\ \A t, u \in Tasks : Exchanging(t) /\ Exchanging(u) => t = u
<1>1. \A t \in Tasks : Role(t)
  BY RolesOfEach DEF IInv
<1>2. ASSUME NEW t \in Tasks, Exchanging(t) PROVE InRetry(t)
  <2>1. t # "ui"
    BY <1>2 DEF Clearing, Exchanging
  <2>2. task[t].kind \in {"idle", "profile"} /\ task[t].via # "none" /\ task[t].via # "direct"
    BY <1>1, <1>2, <2>1 DEF Role
  <2>3. task[t].via = "flag" /\ task[t].pc # "clearing"
    BY <1>2, <2>2 DEF IInv, Shapes, Call, Exchanging
  <2> QED
    BY <2>3 DEF InRetry
<1> QED
  BY <1>2 DEF IInv, OneRefresh

Savers == {t \in Tasks : task[t].pc = "saving"}

LEMMA EmptyingOf ==
  ASSUME Shapes
  PROVE  Emptying <=> (Clearing => stored.refresh = 0 /\ (memory # None => Behind(writing, Savers)))
<1>1. \A j \in DOMAIN writing : writing[j] \in Savers <=> task[writing[j]].pc = "saving"
  BY DEF Shapes, Savers
<1> QED
  BY <1>1 DEF Emptying, Behind

LEMMA EmptyingOfNext ==
  ASSUME IInv, [Next]_vars, NEW q, writing' = q, NEW S,
         \A t \in Tasks : task'[t].pc = "saving" => t \in S,
         Clearing' => stored'.refresh = 0 /\ (memory' # None => Behind(q, S))
  PROVE  Emptying'
<1>1. writing' \in Seq(Tasks)
  BY ShapesStep DEF Shapes
<1>2. \A j \in DOMAIN writing' : writing'[j] \in Tasks
  BY <1>1
<1>3. None' = None
  BY DEF None
<1> QED
  BY <1>2, <1>3 DEF Emptying, Behind

LEMMA EmptyingStep ==
  ASSUME IInv, [Next]_vars
  PROVE  Emptying'
<1>1. /\ Shapes /\ "ui" \in Tasks /\ writing \in Seq(Tasks)
      /\ Clearing => stored.refresh = 0 /\ (memory # None => Behind(writing, Savers))
  BY EmptyingOf DEF IInv, Shapes, Tasks
<1>2. \A t \in Tasks : Role(t)
  BY RolesOfEach DEF IInv
<1>3. CASE Restart
  <2>1. ~Clearing'
    BY <1>1, <1>3, Starts DEF Begun, Idle, Clearing
  <2> QED
    BY <2>1 DEF Emptying
<1>4. CASE ~Restart /\ \A t \in Tasks : ~Stores(t)
  <2>1. /\ UNCHANGED <<memory, stored, writing>>
        /\ \A t \in Tasks : task'[t].pc = "saving" => t \in Savers
        /\ Clearing' => Clearing
    BY <1>1, <1>4, StorageAtRest DEF Storing, Savers, Clearing
  <2> QED
    BY <1>1, <2>1, EmptyingOfNext
<1>5. ASSUME NEW t \in Tasks, RestoreFails(t) \/ DropSession(t) PROVE Emptying'
  <2>1. /\ Others(t) /\ task'[t].pc = "clearing" /\ stored' = None
        /\ memory' = None \/ Restoring
        /\ t = "ui"
    <3>1. task[t].kind \in {"logout", "restore", "restoreAgain"}
      BY <1>5 DEF RestoreFails, DropSession
    <3>2. t = "ui"
      BY <1>2, <3>1 DEF Role
    <3>3. Others(t) /\ task'[t].pc = "clearing"
      BY <1>1, <1>5, Effects, StepMovesOne DEF TaskStep
    <3> QED
      BY <1>5, <3>2, <3>3 DEF RestoreFails, DropSession, Restoring
  <2>2. stored'.refresh = 0
    BY <2>1 DEF None
  <2>3. ASSUME Restoring PROVE \A u \in Tasks : task'[u].pc # "saving"
    BY <2>1, <2>3 DEF IInv, Roles, Restoring, Others, Tasks, Idle
  <2>4. Restoring => Behind(writing', {}) /\ \A u \in Tasks : task'[u].pc = "saving" => u \in {}
    BY <2>3 DEF Behind
  <2>5. CASE Restoring
    BY <2>2, <2>4, <2>5, EmptyingOfNext
  <2>6. CASE memory' = None
    BY <2>2, <2>6, EmptyingOfNext
  <2> QED
    BY <2>1, <2>5, <2>6
<1>6. ASSUME NEW t \in Tasks, Cleared(t) PROVE Emptying'
  <2>1. t = "ui"
    BY <1>2, <1>6 DEF Role, Cleared
  <2>2. ~Clearing'
    <3>1. task'[t] = Idle
      BY <1>1, <1>6, Effects
    <3> QED
      BY <2>1, <3>1 DEF Clearing, Idle
  <2> QED
    BY <2>2 DEF Emptying
<1>7. ASSUME NEW t \in Tasks, TakePair(t) \/ SaveRefresh(t) \/ SendAgain(t), Clearing' PROVE Emptying'
  <2>1. /\ Others(t) /\ t # "ui" /\ Clearing
    <3>1. Others(t) /\ task'[t].pc # "clearing"
      BY <1>1, <1>7, Effects, StepMovesOne DEF TaskStep
    <3> QED
      BY <1>1, <1>7, <3>1 DEF Clearing, Others
  <2>2. CASE TakePair(t)
    <3>1. /\ Exchanging(t) /\ task[t].pc = "issued"
          /\ writing' = Append(writing, t) /\ stored' = [stored EXCEPT !.access = task[t].got]
      BY <2>2 DEF TakePair, Exchanging
    <3>2. stored'.refresh = 0
      BY <1>1, <2>1, <3>1 DEF Shapes, Tokens
    <3>3. \A u \in Tasks : task'[u].pc = "saving" => u \in {t}
      BY <2>1, <3>1, OneSaver DEF Others, Exchanging
    <3>4. t \notin Members(writing) /\ "ui" \in Members(writing)
      BY <1>1, <2>1, <3>1, QueueOf DEF IInv, Clearing
    <3>5. Behind(writing, {t})
      BY <3>4 DEF Behind, Members
    <3>6. Behind(writing', {t})
      BY <1>1, <3>1, <3>4, <3>5, AppendFacts
    <3> QED
      BY <3>2, <3>3, <3>6, EmptyingOfNext
  <2>3. CASE SaveRefresh(t)
    <3>1. /\ task[t].pc = "saving" /\ writing # <<>> /\ Head(writing) = t /\ t \in Savers /\ memory' = memory
      BY <2>3 DEF SaveRefresh, Returned, Savers
    <3>2. memory = None
      BY <1>1, <2>1, <3>1, TailFacts
    <3>3. stored' = stored
      BY <2>3, <3>2 DEF SaveRefresh, None
    <3> QED
      BY <1>1, <2>1, <3>1, <3>2, <3>3, EmptyingOfNext
  <2>4. CASE SendAgain(t)
    <3>1. /\ UNCHANGED <<memory, stored>> /\ \A u \in Tasks : task'[u].pc = "saving" => u \in Savers
      BY <1>1, <2>1, <2>4, Effects DEF SendAgain, Others, Savers
    <3>2. CASE Waits(t)
      <4>1. writing # <<>> /\ Head(writing) = t /\ writing' = Tail(writing)
        BY <2>4, <3>2 DEF SendAgain, Returned
      <4>2. \A S : Behind(writing, S) => Behind(writing', S)
        BY <1>1, <2>1, <4>1, TailFacts
      <4> QED
        BY <1>1, <2>1, <3>1, <4>2, EmptyingOfNext
    <3>3. CASE ~Waits(t)
      <4>1. writing' = writing
        BY <2>4, <3>3 DEF SendAgain
      <4> QED
        BY <1>1, <2>1, <3>1, <4>1, EmptyingOfNext
    <3> QED
      BY <3>2, <3>3
  <2> QED
    BY <1>7, <2>2, <2>3, <2>4
<1>8. ASSUME ~Clearing' PROVE Emptying'
  BY <1>8 DEF Emptying
<1> QED
  BY <1>3, <1>4, <1>5, <1>6, <1>7, <1>8 DEF Stores

LEMMA FollowingStep ==
  ASSUME IInv, [Next]_vars
  PROVE  Following'
<1>1. /\ Shapes /\ "ui" \in Tasks /\ writing \in Seq(Tasks) /\ None' = None
      /\ Clearing => stored.refresh = 0 /\ (memory # None => Behind(writing, Savers))
  BY EmptyingOf DEF IInv, Shapes, Tasks, None
<1>2. \A t \in Tasks : Role(t)
  BY RolesOfEach DEF IInv
<1>3. /\ memory = None \/ Whole(memory)
      /\ stored.refresh # 0 => stored.access # 0
      /\ ~Clearing /\ memory = None => stored.refresh = 0
      /\ ~Clearing /\ memory # None =>
           stored.access = memory.access /\ (stored.refresh = memory.refresh \/ Saving)
  BY DEF IInv, Following
<1>4. CASE Restart
  <2>1. ~Clearing' /\ stored' = stored /\ memory' = IF Whole(stored) THEN stored ELSE None
    BY <1>1, <1>4, Starts DEF Begun, Idle, Clearing, Restart
  <2>2. CASE Whole(stored)
    BY <1>1, <2>1, <2>2 DEF Following, Whole, None
  <2>3. CASE ~Whole(stored)
    BY <1>1, <1>3, <2>1, <2>3 DEF Following, Whole
  <2> QED
    BY <2>2, <2>3
<1>5. CASE ~Restart /\ \A t \in Tasks : ~Stores(t)
  <2>1. UNCHANGED <<memory, stored>> /\ (Clearing' <=> Clearing) /\ (Saving => Saving')
    BY <1>1, <1>5, StorageAtRest DEF Storing, Saving, Clearing
  <2> QED
    BY <1>1, <1>3, <2>1 DEF Following, Whole
<1>6. ASSUME NEW t \in Tasks, RestoreFails(t) \/ DropSession(t) PROVE Following'
  <2>1. t = "ui"
    <3>1. task[t].kind \in {"logout", "restore", "restoreAgain"}
      BY <1>6 DEF RestoreFails, DropSession
    <3> QED
      BY <1>2, <3>1 DEF Role
  <2>2. Clearing' /\ stored' = None /\ memory' \in {memory, None}
    BY <1>1, <1>6, <2>1, Effects DEF Clearing, RestoreFails, DropSession
  <2> QED
    BY <1>1, <1>3, <2>2 DEF Following, Whole, None
<1>7. ASSUME NEW t \in Tasks, Cleared(t) PROVE Following'
  <2>1. t = "ui" /\ task[t].pc = "clearing" /\ memory' = None /\ stored' = stored
    BY <1>2, <1>7 DEF Role, Cleared
  <2>2. stored'.refresh = 0
    BY <1>1, <2>1 DEF Clearing
  <2> QED
    BY <1>1, <2>1, <2>2 DEF Following, None
<1>8. ASSUME NEW t \in Tasks, TakePair(t) PROVE Following'
  <2>1. /\ task[t].got \in Pairs /\ memory' = Pair(task[t].got)
        /\ stored' = [stored EXCEPT !.access = task[t].got] /\ task'[t].pc = "saving"
    BY <1>1, <1>8, Effects DEF TakePair, IInv, AllPrepared, Prepared, Shapes, Call
  <2>2. /\ memory'.access = task[t].got /\ memory'.refresh = task[t].got
        /\ stored'.access = task[t].got /\ task[t].got # 0
    BY <1>1, <2>1, SessionAssumption DEF Pair, Pairs, Shapes, Tokens
  <2>3. memory' # None /\ Saving'
    BY <2>1, <2>2 DEF None, Saving
  <2> QED
    BY <1>1, <2>2, <2>3 DEF Following, Whole
<1>9. ASSUME NEW t \in Tasks, SaveRefresh(t) PROVE Following'
  <2>1. /\ task[t].pc = "saving" /\ writing # <<>> /\ Head(writing) = t /\ t \in Savers
        /\ memory' = memory
        /\ stored' = IF memory.refresh = 0 THEN stored ELSE [stored EXCEPT !.refresh = memory.refresh]
    BY <1>9 DEF SaveRefresh, Returned, Savers
  <2>2. Clearing' <=> Clearing
    <3>1. Others(t) /\ task'[t].pc = "saved"
      BY <1>1, <1>9, Effects, StepMovesOne DEF TaskStep
    <3> QED
      BY <1>1, <2>1, <3>1 DEF Clearing, Others
  <2>3. CASE memory = None
    BY <1>1, <1>3, <2>1, <2>2, <2>3 DEF Following, None
  <2>4. CASE memory # None
    <3>1. ~Clearing /\ Whole(memory) /\ stored.access = memory.access
      BY <1>1, <1>3, <2>1, <2>4, TailFacts
    <3>2. stored'.access = memory.access /\ stored'.refresh = memory.refresh
      BY <1>1, <2>1, <3>1 DEF Whole, Shapes, Tokens
    <3> QED
      BY <1>1, <2>1, <2>2, <2>4, <3>1, <3>2 DEF Following, Whole
  <2> QED
    BY <2>3, <2>4
<1>10. ASSUME NEW t \in Tasks, SendAgain(t) PROVE Following'
  <2>1. /\ UNCHANGED <<memory, stored>> /\ Others(t)
        /\ task[t].pc = "saved" /\ task'[t].pc = "request"
    BY <1>1, <1>10, Effects, StepMovesOne DEF SendAgain, TaskStep
  <2>2. (Clearing' <=> Clearing) /\ (Saving => Saving')
    BY <1>1, <2>1 DEF Clearing, Saving, Others
  <2> QED
    BY <1>1, <1>3, <2>1, <2>2 DEF Following, Whole
<1> QED
  BY <1>4, <1>5, <1>6, <1>7, <1>8, <1>9, <1>10 DEF Stores

-----------------------------------------------------------------------------
(* The invariant.                                                           *)

LEMMA InitIInv == Init => IInv
<1> SUFFICES ASSUME Init PROVE IInv
  OBVIOUS
<1>1. \A t \in Tasks : task[t] = Idle
  BY DEF Init
<1>2. Shapes
  <2>1. <<>> \in Seq(Tasks)
    BY EmptySeq
  <2>2. Idle \in Call
    BY DEF Idle, Call
  <2>3. memory \in Tokens /\ stored \in Tokens
    BY DEF Init, Tokens, None
  <2>4. failures \in 0..MaxFailures /\ kills \in 0..MaxKills
    BY SessionAssumption DEF Init
  <2> QED
    BY <2>1, <2>2, <2>3, <2>4 DEF Init, Shapes
<1>3. Issued = {}
  BY DEF Init, Issued
<1>4. InOrder /\ HeldIsIssued /\ RevokedUntilDead
  BY <1>1, <1>3 DEF Init, InOrder, HeldIsIssued, RevokedUntilDead, Known, None, Idle
<1>5. AllPrepared /\ Roles /\ OneRefresh
  <2>1. "ui" \in Tasks /\ Polls \subseteq Tasks
    BY DEF Tasks
  <2>2. refreshing = FALSE
    BY DEF Init
  <2> QED
    BY <1>1, <2>1, <2>2 DEF AllPrepared, Prepared, Roles, Exchanging, OneRefresh, InRetry, Idle
<1>6. Queue /\ Emptying /\ Following
  <2>1. "ui" \in Tasks /\ writing = <<>> /\ memory = None /\ stored = None
    BY DEF Init, Tasks
  <2> QED
    BY <1>1, <2>1 DEF Queue, Emptying, Following, Clearing, None, Idle
<1> QED
  BY <1>2, <1>4, <1>5, <1>6 DEF IInv

LEMMA NextIInv == IInv /\ [Next]_vars => IInv'
  BY ShapesStep, InOrderStep, HeldIsIssuedStep, AllPreparedStep, ServerStep, RolesStep, OneRefreshStep,
     QueueStep, EmptyingStep, FollowingStep DEF IInv

LEMMA Invariance == Spec => []IInv
  BY InitIInv, NextIInv, PTL DEF Spec

(* Session keeps its types: what the phone holds was issued.                *)
THEOREM TypeCorrect == Spec => []TypeOK
<1>1. IInv => TypeOK
  BY DEF IInv, Shapes, HeldIsIssued, TypeOK, Call
<1> QED
  BY <1>1, Invariance, PTL

(* _isRefreshing is up exactly while one call is between its 401 and the    *)
(* end of its retry (_retryAfterRefresh).                                   *)
THEOREM OneRefreshHolds == Spec => []OneRefresh
<1>1. IInv => OneRefresh
  BY DEF IInv
<1> QED
  BY <1>1, Invariance, PTL

(* When no call is under way a restart restores the session in memory:      *)
(* doRefresh, _save, logout and tryRestoreSession.                          *)
THEOREM StorageFollowsMemoryHolds == Spec => []StorageFollowsMemory
<1>1. ASSUME IInv, Quiet, Whole(memory) \/ Whole(stored) PROVE stored = memory
  <2>1. ~Clearing /\ ~Saving
    BY <1>1 DEF Quiet, Clearing, Saving, Idle, Tasks
  <2>2. memory # None
    BY <1>1, <2>1 DEF IInv, Following, Whole, None
  <2>3. stored.access = memory.access /\ stored.refresh = memory.refresh
    BY <1>1, <2>1, <2>2 DEF IInv, Following
  <2> QED
    BY <1>1, <2>3 DEF IInv, Shapes, Tokens
<1>2. IInv => StorageFollowsMemory
  BY <1>1 DEF StorageFollowsMemory
<1> QED
  BY <1>2, Invariance, PTL

(* A refresh token that was revoked buys no pair, also after the worker     *)
(* has deleted its row (Refresh, Logout, cleanup-revoked.sh).               *)
THEOREM RevokedBuysNothingHolds == Spec => RevokedBuysNothing
<1> DEFINE A == \A t \in Tasks :
                  (task[t].pc = "exchange" /\ task[t].via # "none" /\ task'[t].got # 0)
                    => <<"refresh", task[t].spend>> \notin everRevoked
<1>1. ASSUME IInv, [Next]_vars, NEW t \in Tasks,
             task[t].pc = "exchange", task[t].via # "none", task'[t].got # 0
      PROVE  <<"refresh", task[t].spend>> \notin everRevoked
  <2>1. Shapes /\ task[t].got = 0 /\ task[t].kind # "idle"
    BY <1>1 DEF IInv, AllPrepared, Prepared, Roles, Idle
  <2>2. ServeExchange(t)
    <3>1. task'[t].got # task[t].got
      BY <1>1, <2>1
    <3>2. ~Elsewhere
      BY <3>1, ElsewhereKeeps
    <3>3. ~Restart
      BY <1>1, <2>1, Starts DEF Begun, Idle, Tasks
    <3>4. ~Logout /\ \A a \in Accounts : ~Login(a)
      BY <1>1, <2>1, Starts, StartMovesOne DEF Begun, Others, Tasks
    <3>5. \A p \in Polls : ~RefreshProfile(p)
      BY <1>1, <2>1, Starts, StartMovesOne DEF Begun, Others, Tasks
    <3>6. PICK u \in Tasks : TaskStep(u)
      BY <1>1, <3>2, <3>3, <3>4, <3>5, NextCases
    <3>7. u = t
      BY <2>1, <3>1, <3>6, StepMovesOne DEF Others
    <3>8. ~Fail(t)
      BY <1>1, <2>1, Effects
    <3> QED
      BY <1>1, <3>6, <3>7, <3>8 DEF TaskStep, ServeRequest, BeginRefresh, TakePair, SaveRefresh,
         SendAgain, EndProfile, Restored, RefreshDirectly, RestoreFails, DropSession, Cleared, Settled
  <2>3. RefreshAlive(task[t].spend) /\ <<"refresh", task[t].spend>> \notin revoked
    BY <1>1, <2>1, <2>2, Effects
  <2>4. task[t].spend \in Issued /\ task[t].spend \notin dead
    BY <1>1, <2>3 DEF RefreshAlive, IInv, HeldIsIssued, Known
  <2> QED
    BY <1>1, <2>3, <2>4 DEF IInv, RevokedUntilDead
<1>2. IInv /\ [Next]_vars => [A]_vars
  BY <1>1
<1>3. RevokedBuysNothing <=> [][A]_vars
  BY DEF RevokedBuysNothing
<1> QED
  BY <1>2, <1>3, Invariance, PTL DEF Spec


==============================================================================
