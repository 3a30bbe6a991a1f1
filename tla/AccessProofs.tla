----------------------------- MODULE AccessProofs -----------------------------
(***************************************************************************)
(* Proofs about Access for any number of users, addresses, requests and    *)
(* roles, any limit and any window: how many guesses the limiter lets      *)
(* through, that blocked accounts stay out, and that a role that was lost  *)
(* stays lost.                                                             *)
(***************************************************************************)
EXTENDS Access, FiniteSetTheorems, TLAPS

LEMMA InitType == Init => TypeOK
  BY LimiterAssumption, AccessAssumption, FS_EmptySet DEF Init, LimiterInit, TypeOK, LimiterTypeOK

(* Letting time pass and recording an attempt keep rows rows.               *)
LEMMA AgedType ==
  ASSUME NEW r \in Row, r.age + 1 < Window
  PROVE  Aged(r) \in Row /\ Aged(r).from = r.from /\ Aged(r).age = r.age + 1 /\ Aged(r).nth = r.nth
<1>1. r.age + 1 \in 0 .. Window - 1
  BY LimiterAssumption DEF Row
<1> QED
  BY <1>1 DEF Row, Aged

LEMMA OlderType ==
  ASSUME NEW rows, rows \subseteq Row
  PROVE  Older(rows) \subseteq Row
  BY AgedType DEF Older

LEMMA NumberedType ==
  ASSUME NEW o \in Origins, NEW n \in Nat
  PROVE  Numbered(o, n) \in Row /\ Numbered(o, n).from = o /\ Numbered(o, n).nth = n
  BY LimiterAssumption DEF Numbered, Row

(* There is a number no answer 401 of the origin has yet.                   *)
LEMMA NewRowIsNew ==
  ASSUME LimiterTypeOK, NEW o \in Origins
  PROVE  NewRow(o) \in Row /\ NewRow(o).from = o /\ NewRow(o) \notin refused
<1> DEFINE c == Cardinality(refused)
<1>1. c \in Nat /\ IsFiniteSet(refused)
  BY FS_CardinalityType DEF LimiterTypeOK
<1>2. \E n \in 0 .. c : Numbered(o, n) \notin refused
  <2> SUFFICES ASSUME \A n \in 0 .. c : Numbered(o, n) \in refused PROVE FALSE
    OBVIOUS
  <2> DEFINE f == [n \in 0 .. c |-> Numbered(o, n)]
  <2>1. f \in Injection(0 .. c, refused)
    <3>1. \A n, m \in 0 .. c : f[n] = f[m] => n = m
      BY <1>1, NumberedType
    <3> QED
      BY <3>1 DEF Injection, IsInjective
  <2>2. Cardinality(0 .. c) <= c
    BY <1>1, <2>1, FS_Injection
  <2>3. Cardinality(0 .. c) = c + 1
    BY <1>1, FS_Interval
  <2> QED
    BY <1>1, <2>2, <2>3
<1> DEFINE n == CHOOSE m \in 0 .. c : Numbered(o, m) \notin refused
<1>3. n \in 0 .. c /\ Numbered(o, n) \notin refused
  BY <1>2
<1>4. NewRow(o) = Numbered(o, n)
  BY DEF NewRow
<1> HIDE DEF n
<1> QED
  BY <1>1, <1>3, <1>4, NumberedType

LEMMA RecordType ==
  ASSUME LimiterTypeOK, NEW o \in Origins, RecordLoginAttempt(o)
  PROVE  LimiterTypeOK'
<1>0. CASE o \notin Storable
  BY <1>0 DEF RecordLoginAttempt, limiterVars, LimiterTypeOK
<1> SUFFICES ASSUME o \in Storable PROVE LimiterTypeOK'
  BY <1>0
<1>1. NewRow(o) \in Row
  BY NewRowIsNew DEF LimiterTypeOK
<1>2. faults' \in 0 .. MaxFaults
  BY LimiterAssumption DEF LimiterTypeOK, RecordLoginAttempt
<1>3. IsFiniteSet(refused')
  BY FS_AddElement DEF RecordLoginAttempt, LimiterTypeOK
<1> QED
  BY <1>1, <1>2, <1>3 DEF LimiterTypeOK, RecordLoginAttempt

LEMMA OlderFinite ==
  ASSUME NEW rows, IsFiniteSet(rows)
  PROVE  IsFiniteSet(Older(rows))
<1> DEFINE young == {s \in rows : s.age + 1 < Window}
           f == [r \in young |-> Aged(r)]
<1>1. IsFiniteSet(young)
  BY FS_Subset
<1>2. f \in Surjection(young, Older(rows))
  BY DEF Surjection, Older
<1> QED
  BY <1>1, <1>2, FS_Surjection

(* What a request is at each of its points.                                 *)
LEMMA RequestAt ==
  ASSUME TypeOK, NEW q \in Requests
  PROVE  /\ request[q].pc = "admitted" =>
              request[q].from \in Origins /\ request[q].right \in BOOLEAN
         /\ request[q].pc = "failed" => request[q].from \in Origins
         /\ request[q].pc \in {"login", "renew"} => request[q].pair \in Pair
  BY DEF TypeOK, Idle, LoginRow, FailedRow, IssueRow

LEMMA IssuingType ==
  ASSUME NEW pc \in {"login", "renew"}, NEW u \in Users, NEW r \in Roles
  PROVE  /\ Issuing(pc, u, r) \in IssueRow
         /\ Issuing(pc, u, r).pc = pc
         /\ Issuing(pc, u, r).pair.user = u /\ Issuing(pc, u, r).pair.role = r
  BY DEF Issuing, IssueRow, Pair

LEMMA RequestStepType == ASSUME TypeOK, NEW q \in Requests, RequestStep(q) PROVE TypeOK'
<1>1. ASSUME NEW o \in Origins, NEW right \in BOOLEAN, Admit(q, o, right) PROVE TypeOK'
  <2>1. [pc |-> "admitted", from |-> o, right |-> right] \in LoginRow
    BY DEF LoginRow
  <2>2. LimiterTypeOK'
    BY <1>1, LimiterAssumption DEF Admit, Admitted, TypeOK, LimiterTypeOK
  <2> QED
    BY <1>1, <2>1, <2>2 DEF Admit, TypeOK
<1>2. CASE ReadUser(q)
  <2>1. request[q].pc = "admitted" /\ request[q].from \in Origins
    BY <1>2, RequestAt DEF ReadUser
  <2>2. [pc |-> "failed", from |-> request[q].from] \in FailedRow
    BY <2>1 DEF FailedRow
  <2>3. ASSUME NEW u, Found(u) PROVE Issuing("login", u, role[u]) \in IssueRow
    <3>1. u \in Users /\ role[u] \in Roles
      BY <2>3 DEF Found, TypeOK
    <3> QED
      BY <3>1, IssuingType
  <2> QED
    BY <1>2, <2>2, <2>3 DEF ReadUser, TypeOK, LimiterTypeOK
<1>3. CASE Refuse(q)
  <2>1. request[q].from \in Origins
    BY <1>3, RequestAt DEF Refuse
  <2>2. LimiterTypeOK'
    BY <1>3, <2>1, RecordType DEF Refuse, TypeOK
  <2> QED
    BY <1>3, <2>2 DEF Refuse, TypeOK
<1>4. CASE Issue(q)
  BY <1>4, RequestAt DEF Issue, TypeOK, LimiterTypeOK
<1>5. ASSUME NEW u \in Users, NEW r \in Roles, Register(q, u, r) PROVE TypeOK'
  BY <1>5, IssuingType, AccessAssumption DEF Register, TypeOK, LimiterTypeOK
<1>6. ASSUME NEW p \in pairs, Refresh(q, p) PROVE TypeOK'
  <2>1. p.user \in Users /\ p.role \in Roles
    BY DEF TypeOK, Pair
  <2> QED
    BY <1>6, <2>1, IssuingType DEF Refresh, TypeOK, LimiterTypeOK
<1> QED
  BY <1>1, <1>2, <1>3, <1>4, <1>5, <1>6 DEF RequestStep

LEMMA NextType == TypeOK /\ [Next]_vars => TypeOK'
<1> SUFFICES ASSUME TypeOK, [Next]_vars PROVE TypeOK'
  OBVIOUS
<1>1. ASSUME NEW q \in Requests, RequestStep(q) PROVE TypeOK'
  BY <1>1, RequestStepType
<1>2. ASSUME NEW u \in Users, UserStep(u) PROVE TypeOK'
  BY <1>2 DEF UserStep, BlockUser, UnblockUser, DeleteUser, SetStatus, ChangeRole, TypeOK,
              LimiterTypeOK
<1>3. ASSUME NEW p \in pairs, EndPair(p) PROVE TypeOK'
  BY <1>3 DEF EndPair, TypeOK, LimiterTypeOK
<1>4. CASE Time
  BY <1>4, OlderType, OlderFinite DEF Time, Tick, TypeOK, LimiterTypeOK
<1>5. CASE UNCHANGED vars
  BY <1>5 DEF vars, TypeOK, LimiterTypeOK
<1> QED
  BY <1>1, <1>2, <1>3, <1>4, <1>5 DEF Next

(* Every reachable state is well typed.                                     *)
THEOREM TypeCorrect == Spec => []TypeOK
  BY InitType, NextType, PTL DEF Spec

-----------------------------------------------------------------------------
(* A session that was not there before is the login of an active account,   *)
(* with the role its row has, or a registration, which says "participant":  *)
(* everything else passes on, or ends, what somebody holds already.         *)
Begins(u, r) ==
  \/ status[u] = "active" /\ role[u] = r
  \/ status[u] = "new" /\ status'[u] = "active" /\ r = "participant"

(* Holds of one pair.                                                       *)
HoldsPair(x) ==
  \/ x \in pairs
  \/ \E q \in Requests : request[q].pc \in {"login", "renew"} /\ request[q].pair = x

LEMMA HoldsIfPair ==
  ASSUME NEW x \in Pair, NEW roles, x.role \in roles, HoldsPair(x)
  PROVE  Holds(x.user, roles)
  BY DEF HoldsPair, Holds

LEMMA HeldByPair ==
  ASSUME TypeOK', NEW u \in Users, NEW roles, Holds(u, roles)'
  PROVE  \E x \in Pair : x.user = u /\ x.role \in roles /\ HoldsPair(x)'
<1>1. CASE \E p \in pairs' : p.user = u /\ p.role \in roles
  BY <1>1 DEF TypeOK, HoldsPair
<1>2. ASSUME NEW q \in Requests, request'[q].pc \in {"login", "renew"},
             request'[q].pair.user = u, request'[q].pair.role \in roles
      PROVE  \E x \in Pair : x.user = u /\ x.role \in roles /\ HoldsPair(x)'
  <2>1. request'[q].pair \in Pair
    BY <1>2 DEF TypeOK, Idle, LoginRow, FailedRow, IssueRow
  <2> QED
    BY <1>2, <2>1 DEF HoldsPair
<1> QED
  BY <1>1, <1>2 DEF Holds

(* One step of one request brings at most the pair that it is served with.  *)
LEMMA RequestStepHolds ==
  ASSUME TypeOK, NEW q \in Requests, RequestStep(q), NEW x \in Pair, HoldsPair(x)'
  PROVE  HoldsPair(x) \/ Begins(x.user, x.role)
<1>0. \A s \in Requests \ {q} : request'[s] = request[s]
  BY DEF RequestStep, Admit, ReadUser, Refuse, Issue, Register, Refresh, TypeOK
<1>1. ASSUME x \in pairs' PROVE HoldsPair(x)
  BY <1>1 DEF RequestStep, Admit, ReadUser, Refuse, Issue, Register, Refresh, HoldsPair
<1>2. ASSUME request'[q].pc \in {"login", "renew"}, request'[q].pair = x
      PROVE  HoldsPair(x) \/ Begins(x.user, x.role)
  <2>1. ASSUME NEW o \in Origins, NEW right \in BOOLEAN, Admit(q, o, right) PROVE FALSE
    BY <1>2, <2>1 DEF Admit, TypeOK
  <2>2. ASSUME ReadUser(q) PROVE Begins(x.user, x.role)
    <3>1. PICK u : u = AccountOf[request[q].from[1]]
      OBVIOUS
    <3>2. request'[q] = IF Found(u) /\ request[q].right THEN Issuing("login", u, role[u])
                        ELSE [pc |-> "failed", from |-> request[q].from]
      BY <2>2, <3>1 DEF ReadUser, TypeOK
    <3>3. Found(u) /\ request'[q] = Issuing("login", u, role[u])
      BY <1>2, <3>2
    <3>4. u \in Users /\ status[u] = "active" /\ role[u] \in Roles
      BY <3>3 DEF Found, TypeOK
    <3> QED
      BY <1>2, <3>3, <3>4, IssuingType DEF Begins
  <2>3. ASSUME Refuse(q) \/ Issue(q) PROVE FALSE
    BY <1>2, <2>3 DEF Refuse, Issue, TypeOK, Idle
  <2>4. ASSUME NEW u \in Users, NEW r \in Roles, Register(q, u, r) PROVE Begins(x.user, x.role)
    <3>1. request'[q] = Issuing("login", u, "participant")
      BY <2>4 DEF Register, TypeOK
    <3>2. x.user = u /\ x.role = "participant"
      BY <1>2, <3>1, IssuingType, AccessAssumption
    <3> QED
      BY <2>4, <3>2 DEF Register, Begins, TypeOK
  <2>5. ASSUME NEW p \in pairs, Refresh(q, p) PROVE HoldsPair(x)
    <3>1. request'[q] = Issuing("renew", p.user, p.role) /\ p \in Pair
      BY <2>5 DEF Refresh, TypeOK
    <3>2. x = p
      BY <1>2, <3>1 DEF Issuing, Pair
    <3> QED
      BY <3>2 DEF HoldsPair
  <2> QED
    BY <2>1, <2>2, <2>3, <2>4, <2>5 DEF RequestStep
<1> QED
  BY <1>0, <1>1, <1>2 DEF HoldsPair

LEMMA NextHolds ==
  ASSUME TypeOK, [Next]_vars, NEW x \in Pair, HoldsPair(x)'
  PROVE  HoldsPair(x) \/ Begins(x.user, x.role)
<1>1. ASSUME NEW q \in Requests, RequestStep(q) PROVE HoldsPair(x) \/ Begins(x.user, x.role)
  BY <1>1, RequestStepHolds
<1>2. ASSUME NEW u \in Users, UserStep(u) PROVE HoldsPair(x)
  BY <1>2 DEF UserStep, BlockUser, UnblockUser, DeleteUser, SetStatus, ChangeRole, HoldsPair
<1>3. ASSUME NEW p \in pairs, EndPair(p) PROVE HoldsPair(x)
  BY <1>3 DEF EndPair, HoldsPair
<1>4. CASE Time \/ UNCHANGED vars
  BY <1>4 DEF Time, Tick, vars, HoldsPair
<1> QED
  BY <1>1, <1>2, <1>3, <1>4 DEF Next

(* Once its sessions have ended, a blocked or deleted account gets none     *)
(* until it is unblocked.                                                   *)
THEOREM BlockedStaysOutHolds == Spec => BlockedStaysOut
<1>1. TypeOK /\ [Next]_vars =>
        [\A u \in Users :
           (status[u] \in {"blocked", "deleted"} /\ ~Holds(u, Roles)
              /\ status'[u] \in {"blocked", "deleted"})
           => ~Holds(u, Roles)']_vars
  <2> SUFFICES ASSUME TypeOK, [Next]_vars, NEW u \in Users,
                      status[u] \in {"blocked", "deleted"}, Holds(u, Roles)'
               PROVE  Holds(u, Roles)
    OBVIOUS
  <2>1. TypeOK'
    BY NextType
  <2>2. PICK x \in Pair : x.user = u /\ HoldsPair(x)'
    BY <2>1, HeldByPair
  <2>3. HoldsPair(x)
    BY <2>2, NextHolds DEF Begins
  <2> QED
    BY <2>2, <2>3, HoldsIfPair DEF Pair
<1> QED
  BY <1>1, InitType, NextType, PTL DEF Spec, BlockedStaysOut

(* A role that was taken away comes back with no login and no refresh once  *)
(* the sessions that carried it have ended.                                 *)
THEOREM LostRoleStaysLostHolds == Spec => LostRoleStaysLost
<1>1. TypeOK /\ [Next]_vars =>
        [\A u \in Users, r \in Roles \ {"participant"} :
           (role[u] # r /\ ~Holds(u, {r}) /\ role'[u] # r) => ~Holds(u, {r})']_vars
  <2> SUFFICES ASSUME TypeOK, [Next]_vars, NEW u \in Users, NEW r \in Roles \ {"participant"},
                      role[u] # r, Holds(u, {r})'
               PROVE  Holds(u, {r})
    OBVIOUS
  <2>1. TypeOK'
    BY NextType
  <2>2. PICK x \in Pair : x.user = u /\ x.role \in {r} /\ HoldsPair(x)'
    BY <2>1, HeldByPair
  <2>3. HoldsPair(x)
    BY <2>2, NextHolds DEF Begins
  <2> QED
    BY <2>2, <2>3, HoldsIfPair
<1> QED
  BY <1>1, InitType, NextType, PTL DEF Spec, LostRoleStaysLost
-----------------------------------------------------------------------------
(* How many guesses the limiter lets through.                               *)

(* The answers 401 to the address of o, and the requests that were          *)
(* admitted with it and are not answered yet.                               *)
Answered(o) == {r \in refused : r.from \in SameAddress(o)}
Trying(o) ==
  {q \in Requests : request[q].pc \in {"admitted", "failed"} /\ request[q].from \in SameAddress(o)}

(* Every row of the table was answered 401, a failure explains each answer  *)
(* without a row, and whoever was admitted is counted before the answer.    *)
Counted ==
  /\ attempt \subseteq refused
  /\ Cardinality(refused \ attempt) <= faults
  /\ \A o \in Origins :
       Cardinality(Answered(o)) + Cardinality(Trying(o))
         <= Limit - 1 + Cardinality(Requests) + faults

LEMMA Sizes ==
  ASSUME TypeOK, NEW o \in Origins
  PROVE  /\ IsFiniteSet(Answered(o)) /\ Cardinality(Answered(o)) \in Nat
         /\ IsFiniteSet(Trying(o)) /\ Cardinality(Trying(o)) \in Nat
         /\ Cardinality(Trying(o)) <= Cardinality(Requests)
         /\ Cardinality(Requests) \in Nat /\ Cardinality(refused \ attempt) \in Nat
         /\ faults \in Nat /\ Limit \in Nat \ {0}
<1>1. IsFiniteSet(refused) /\ IsFiniteSet(Requests)
  BY AccessAssumption DEF TypeOK, LimiterTypeOK
<1>2. Answered(o) \subseteq refused /\ Trying(o) \subseteq Requests
  BY DEF Answered, Trying
<1>3. refused \ attempt \subseteq refused
  OBVIOUS
<1>4. faults \in Nat
  BY LimiterAssumption DEF TypeOK, LimiterTypeOK
<1> QED
  BY <1>1, <1>2, <1>3, <1>4, LimiterAssumption, FS_Subset, FS_CardinalityType

(* A fresh answer counts for its address.                                   *)
LEMMA AnsweredGrows ==
  ASSUME TypeOK, NEW p \in Origins, refused' = refused \cup {NewRow(p)},
         NEW o \in Origins
  PROVE  Cardinality(Answered(o)') =
           IF p \in SameAddress(o) THEN Cardinality(Answered(o)) + 1 ELSE Cardinality(Answered(o))
<1>1. NewRow(p).from = p /\ NewRow(p) \notin refused
  BY NewRowIsNew DEF TypeOK
<1>2. Answered(o)' = IF p \in SameAddress(o) THEN Answered(o) \cup {NewRow(p)} ELSE Answered(o)
  BY <1>1 DEF Answered, SameAddress
<1>3. NewRow(p) \notin Answered(o)
  BY <1>1 DEF Answered
<1> QED
  BY <1>2, <1>3, Sizes, FS_AddElement

(* Whom the limiter admits has fewer than Limit rows of its address in the  *)
(* table.                                                                   *)
LEMMA AdmittedUnderLimit ==
  ASSUME TypeOK, attempt \subseteq refused, NEW p \in Origins, ~IsRateLimited(p),
         NEW o \in Origins, p \in SameAddress(o)
  PROVE  Cardinality(Answered(o)) <= Limit - 1 + Cardinality(refused \ attempt)
<1> DEFINE rows == {r \in attempt : r.from \in Matching(p)}
           unseen == refused \ attempt
<1>1. IsFiniteSet(refused) /\ IsFiniteSet(rows) /\ IsFiniteSet(unseen)
  <2>1. IsFiniteSet(refused)
    BY DEF TypeOK, LimiterTypeOK
  <2> QED
    BY <2>1, FS_Subset
<1>2. Cardinality(rows) < Limit
  <2>1. Cardinality(rows) \in Nat
    BY <1>1, FS_CardinalityType
  <2>2. ~(Cardinality(rows) >= Limit)
    BY DEF IsRateLimited, Made
  <2> QED
    BY <2>1, <2>2, LimiterAssumption
<1>3. Answered(o) \subseteq rows \cup unseen
  BY DEF Answered, SameAddress, Matching
<1> HIDE DEF rows, unseen
<1>4. Cardinality(Answered(o)) <= Cardinality(rows \cup unseen)
  BY <1>1, <1>3, FS_Union, FS_Subset
<1>5. Cardinality(rows \cup unseen) <= Cardinality(rows) + Cardinality(unseen)
  <2>1. IsFiniteSet(rows \cap unseen)
    BY <1>1, FS_Intersection
  <2>2. Cardinality(rows \cap unseen) \in Nat /\ Cardinality(rows) \in Nat /\ Cardinality(unseen) \in Nat
    BY <1>1, <2>1, FS_CardinalityType
  <2>3. Cardinality(rows \cup unseen) = Cardinality(rows) + Cardinality(unseen) - Cardinality(rows \cap unseen)
    BY <1>1, FS_Union
  <2> QED
    BY <2>2, <2>3
<1>6. /\ Cardinality(rows) \in Nat /\ Cardinality(unseen) \in Nat
      /\ Cardinality(rows \cup unseen) \in Nat /\ Cardinality(Answered(o)) \in Nat
  BY <1>1, Sizes, FS_Union, FS_CardinalityType
<1> QED
  BY <1>2, <1>4, <1>5, <1>6, LimiterAssumption DEF unseen

(* The clock takes answers away and adds none.                              *)
LEMMA OlderCard ==
  ASSUME NEW rows, rows \subseteq Row, IsFiniteSet(rows)
  PROVE  Cardinality(Older(rows)) <= Cardinality(rows)
<1> DEFINE young == {s \in rows : s.age + 1 < Window}
           f == [r \in young |-> Aged(r)]
<1>1. IsFiniteSet(young) /\ Cardinality(young) <= Cardinality(rows)
  BY FS_Subset
<1>2. f \in Surjection(young, Older(rows))
  BY DEF Surjection, Older
<1>3. IsFiniteSet(Older(rows)) /\ Cardinality(Older(rows)) <= Cardinality(young)
  BY <1>1, <1>2, FS_Surjection
<1> QED
  BY <1>1, <1>3, FS_CardinalityType

LEMMA OlderKeepsOrigin ==
  ASSUME NEW rows, rows \subseteq Row, NEW origins
  PROVE  {r \in Older(rows) : r.from \in origins} = Older({r \in rows : r.from \in origins})
  BY AgedType DEF Older

(* Two rows that differ still differ when they are older.                   *)
LEMMA AgedInjective ==
  ASSUME NEW r \in Row, NEW s \in Row, Aged(r) = Aged(s), r.age + 1 < Window, s.age + 1 < Window
  PROVE  r = s
<1>1. r.from = s.from /\ r.nth = s.nth /\ r.age + 1 = s.age + 1
  BY AgedType
<1>2. r.age = s.age
  BY <1>1 DEF Row
<1> QED
  BY <1>1, <1>2 DEF Row

LEMMA TickCounts ==
  ASSUME TypeOK, Counted, Time
  PROVE  Counted'
<1>1. /\ attempt' = Older(attempt) /\ refused' = Older(refused) /\ faults' = faults /\ request' = request
      /\ refused \subseteq Row /\ attempt \subseteq refused /\ IsFiniteSet(refused)
  BY DEF Time, Tick, TypeOK, LimiterTypeOK, Counted
<1>2. attempt' \subseteq refused'
  BY <1>1 DEF Older
<1>3. Cardinality(refused' \ attempt') <= faults'
  <2>1. refused' \ attempt' \subseteq Older(refused \ attempt)
    BY <1>1 DEF Older
  <2>2. IsFiniteSet(refused \ attempt) /\ IsFiniteSet(Older(refused \ attempt))
    BY <1>1, OlderFinite, FS_Subset
  <2>3. /\ Cardinality(refused' \ attempt') <= Cardinality(Older(refused \ attempt))
        /\ Cardinality(Older(refused \ attempt)) <= Cardinality(refused \ attempt)
        /\ IsFiniteSet(refused' \ attempt')
    BY <1>1, <2>1, <2>2, OlderCard, FS_Subset
  <2>4. /\ Cardinality(refused' \ attempt') \in Nat /\ Cardinality(Older(refused \ attempt)) \in Nat
        /\ Cardinality(refused \ attempt) \in Nat /\ faults \in Nat
    BY <2>2, <2>3, LimiterAssumption, FS_CardinalityType DEF TypeOK, LimiterTypeOK
  <2> QED
    BY <1>1, <2>3, <2>4 DEF Counted
<1>4. ASSUME NEW o \in Origins
      PROVE  Cardinality(Answered(o)') + Cardinality(Trying(o)')
               <= Limit - 1 + Cardinality(Requests) + faults'
  <2>1. Trying(o)' = Trying(o)
    BY <1>1 DEF Trying, SameAddress
  <2>2. Answered(o)' = Older(Answered(o))
    <3> DEFINE sharing == SameAddress(o)
    <3>1. {r \in Older(refused) : r.from \in sharing} = Older({r \in refused : r.from \in sharing})
      BY <1>1, OlderKeepsOrigin
    <3>2. Answered(o)' = {r \in Older(refused) : r.from \in sharing}
      BY <1>1 DEF Answered, SameAddress
    <3> QED
      BY <3>1, <3>2 DEF Answered
  <2>3. IsFiniteSet(Answered(o)) /\ Answered(o) \subseteq Row
    BY <1>1, Sizes DEF Answered
  <2>4. /\ Cardinality(Older(Answered(o))) <= Cardinality(Answered(o))
        /\ Cardinality(Older(Answered(o))) \in Nat
    BY <2>3, OlderCard, OlderFinite, FS_CardinalityType
  <2> QED
    BY <1>1, <2>1, <2>2, <2>4, Sizes DEF Counted
<1> QED
  BY <1>2, <1>3, <1>4 DEF Counted

LEMMA AdmitCounts ==
  ASSUME TypeOK, Counted, NEW q \in Requests, NEW p \in Origins, NEW right \in BOOLEAN,
         Admit(q, p, right)
  PROVE  Counted'
<1>1. /\ attempt' = attempt /\ refused' = refused
      /\ request[q] = Idle /\ request'[q].pc = "admitted" /\ request'[q].from = p
      /\ \A s \in Requests \ {q} : request'[s] = request[s]
  BY DEF Admit, TypeOK
<1>2. TypeOK'
  BY NextType DEF Next, RequestStep
<1>3. faults \in Nat /\ (faults' = faults + 1 \/ (faults' = faults /\ ~IsRateLimited(p)))
  BY LimiterAssumption DEF Admit, Admitted, TypeOK, LimiterTypeOK
<1>4. ASSUME NEW o \in Origins
      PROVE  Cardinality(Answered(o)') + Cardinality(Trying(o)')
               <= Limit - 1 + Cardinality(Requests) + faults'
  <2>1. Answered(o)' = Answered(o)
    BY <1>1 DEF Answered, SameAddress
  <2>2. CASE p \notin SameAddress(o)
    <3>1. Trying(o)' = Trying(o)
      BY <1>1, <2>2 DEF Trying, SameAddress, Idle
    <3> QED
      BY <1>3, <2>1, <3>1, Sizes DEF Counted
  <2>3. CASE p \in SameAddress(o) /\ faults' = faults + 1
    <3>1. Trying(o)' = Trying(o) \cup {q} /\ q \notin Trying(o)
      BY <1>1, <2>3 DEF Trying, SameAddress, Idle
    <3>2. Cardinality(Trying(o)') = Cardinality(Trying(o)) + 1
      BY <3>1, Sizes, FS_AddElement
    <3> QED
      BY <2>1, <2>3, <3>2, Sizes DEF Counted
  <2>4. CASE p \in SameAddress(o) /\ faults' = faults /\ ~IsRateLimited(p)
    <3>1. Cardinality(Answered(o)) <= Limit - 1 + Cardinality(refused \ attempt)
      BY <2>4, AdmittedUnderLimit DEF Counted
    <3>2. /\ Trying(o)' \subseteq Requests
          /\ Cardinality(Trying(o)') <= Cardinality(Requests)
          /\ Cardinality(Trying(o)') \in Nat
      <4>1. Trying(o)' \subseteq Requests
        BY DEF Trying
      <4> QED
        BY <4>1, AccessAssumption, FS_Subset, FS_CardinalityType
    <3>3. Cardinality(refused \ attempt) <= faults
      BY DEF Counted
    <3>4. /\ Cardinality(refused \ attempt) \in Nat /\ Cardinality(Answered(o)) \in Nat
          /\ Cardinality(Requests) \in Nat /\ faults \in Nat /\ Limit \in Nat
      BY Sizes
    <3>5. Cardinality(Answered(o)) + Cardinality(Trying(o)')
            <= Limit - 1 + Cardinality(Requests) + faults
      BY <3>1, <3>2, <3>3, <3>4
    <3> QED
      BY <2>1, <2>4, <3>5
  <2> QED
    BY <1>3, <2>2, <2>3, <2>4
<1>5. Cardinality(refused' \ attempt') <= faults' /\ attempt' \subseteq refused'
  <2>1. IsFiniteSet(refused \ attempt)
    BY FS_Subset DEF TypeOK, LimiterTypeOK
  <2>2. Cardinality(refused \ attempt) \in Nat
    BY <2>1, FS_CardinalityType
  <2>3. Cardinality(refused \ attempt) <= faults /\ attempt \subseteq refused
    BY DEF Counted
  <2> QED
    BY <1>1, <1>3, <2>2, <2>3
<1> QED
  BY <1>4, <1>5 DEF Counted

(* A step that touches no row and lets nobody in.                           *)
LEMMA QuietCounts ==
  ASSUME TypeOK, Counted, UNCHANGED <<attempt, refused, faults>>,
         \A q \in Requests : request'[q].pc \in {"admitted", "failed"} =>
            request[q].pc \in {"admitted", "failed"} /\ request'[q].from = request[q].from
  PROVE  Counted'
<1>1. ASSUME NEW o \in Origins
      PROVE  Cardinality(Answered(o)') + Cardinality(Trying(o)')
               <= Limit - 1 + Cardinality(Requests) + faults'
  <2>1. Trying(o)' \subseteq Trying(o)
    BY DEF Trying, SameAddress
  <2>2. Cardinality(Trying(o)') <= Cardinality(Trying(o)) /\ Cardinality(Trying(o)') \in Nat
    BY <2>1, Sizes, FS_Subset, FS_CardinalityType
  <2>3. Answered(o)' = Answered(o) /\ faults' = faults
    BY DEF Answered, SameAddress
  <2> QED
    BY <2>2, <2>3, Sizes DEF Counted
<1> QED
  BY <1>1 DEF Counted

LEMMA RefuseCounts ==
  ASSUME TypeOK, Counted, NEW q \in Requests, Refuse(q)
  PROVE  Counted'
<1> DEFINE p == request[q].from
<1>1. /\ request[q].pc = "failed" /\ p \in Origins
      /\ request'[q] = Idle /\ \A s \in Requests \ {q} : request'[s] = request[s]
  BY RequestAt DEF Refuse, TypeOK
<1>0. CASE p \notin Storable
  <2>1. UNCHANGED <<attempt, refused, faults>>
    BY <1>0 DEF Refuse, RecordLoginAttempt, limiterVars
  <2>2. request'[q].pc = "idle"
    BY <1>1 DEF Idle
  <2> QED
    BY <1>1, <2>1, <2>2, QuietCounts
<1> SUFFICES ASSUME p \in Storable PROVE Counted'
  BY <1>0
<1>2. /\ refused' = refused \cup {NewRow(p)} /\ faults \in Nat
      /\ \/ attempt' = attempt \cup {NewRow(p)} /\ faults' = faults
         \/ attempt' = attempt /\ faults' = faults + 1
  BY LimiterAssumption DEF Refuse, RecordLoginAttempt, TypeOK, LimiterTypeOK
<1>3. NewRow(p) \notin refused
  BY <1>1, NewRowIsNew DEF TypeOK
<1> HIDE DEF p
<1>4. attempt' \subseteq refused'
  BY <1>2 DEF Counted
<1>5. Cardinality(refused' \ attempt') <= faults'
  <2>1. attempt \subseteq refused /\ Cardinality(refused \ attempt) <= faults /\ IsFiniteSet(refused \ attempt)
    BY FS_Subset DEF Counted, TypeOK, LimiterTypeOK
  <2>2. CASE attempt' = attempt \cup {NewRow(p)} /\ faults' = faults
    <3>1. refused' \ attempt' = refused \ attempt
      BY <1>2, <1>3, <2>2
    <3> QED
      BY <2>1, <2>2, <3>1
  <2>3. CASE attempt' = attempt /\ faults' = faults + 1
    <3>1. refused' \ attempt' = (refused \ attempt) \cup {NewRow(p)} /\ NewRow(p) \notin refused \ attempt
      BY <1>2, <1>3, <2>1, <2>3
    <3>2. Cardinality(refused' \ attempt') = Cardinality(refused \ attempt) + 1
      BY <2>1, <3>1, FS_AddElement
    <3>3. Cardinality(refused \ attempt) \in Nat
      BY <2>1, FS_CardinalityType
    <3> QED
      BY <1>2, <2>1, <2>3, <3>2, <3>3
  <2> QED
    BY <1>2, <2>2, <2>3
<1>6. ASSUME NEW o \in Origins
      PROVE  Cardinality(Answered(o)') + Cardinality(Trying(o)')
               <= Limit - 1 + Cardinality(Requests) + faults'
  <2>1. Cardinality(Answered(o)') =
          IF p \in SameAddress(o) THEN Cardinality(Answered(o)) + 1 ELSE Cardinality(Answered(o))
    BY <1>1, <1>2, AnsweredGrows
  <2>2. CASE p \in SameAddress(o)
    <3>1. Trying(o)' = Trying(o) \ {q} /\ q \in Trying(o)
      BY <1>1, <2>2 DEF Trying, SameAddress, Idle, p
    <3>2. Cardinality(Trying(o)') = Cardinality(Trying(o)) - 1
      BY <3>1, Sizes, FS_RemoveElement
    <3> QED
      BY <1>2, <2>1, <2>2, <3>2, Sizes DEF Counted
  <2>3. CASE p \notin SameAddress(o)
    <3>1. Trying(o)' = Trying(o)
      BY <1>1, <2>3 DEF Trying, SameAddress, Idle, p
    <3> QED
      BY <1>2, <2>1, <2>3, <3>1, Sizes DEF Counted
  <2> QED
    BY <2>2, <2>3
<1> QED
  BY <1>4, <1>5, <1>6 DEF Counted

LEMMA NextCounts ==
  ASSUME TypeOK, Counted, [Next]_vars
  PROVE  Counted'
<1>1. ASSUME NEW q \in Requests, RequestStep(q) PROVE Counted'
  <2>1. CASE ReadUser(q)
    <3>1. /\ request[q].pc = "admitted"
          /\ \A s \in Requests \ {q} : request'[s] = request[s]
          /\ request'[q].pc \in {"login", "failed"}
          /\ request'[q].pc = "failed" => request'[q].from = request[q].from
      BY <2>1 DEF ReadUser, TypeOK, Issuing
    <3> QED
      BY <2>1, <3>1, QuietCounts DEF ReadUser
  <2>2. CASE Issue(q)
    <3>1. request'[q].pc = "idle" /\ \A s \in Requests \ {q} : request'[s] = request[s]
      BY <2>2 DEF Issue, TypeOK, Idle
    <3> QED
      BY <2>2, <3>1, QuietCounts DEF Issue
  <2>3. ASSUME NEW u, NEW r, Register(q, u, r) PROVE Counted'
    <3>1. request'[q].pc = "login" /\ \A s \in Requests \ {q} : request'[s] = request[s]
      BY <2>3 DEF Register, TypeOK, Issuing
    <3> QED
      BY <2>3, <3>1, QuietCounts DEF Register
  <2>4. ASSUME NEW p \in pairs, Refresh(q, p) PROVE Counted'
    <3>1. request'[q].pc = "renew" /\ \A s \in Requests \ {q} : request'[s] = request[s]
      BY <2>4 DEF Refresh, TypeOK, Issuing
    <3> QED
      BY <2>4, <3>1, QuietCounts DEF Refresh
  <2> QED
    BY <1>1, <2>1, <2>2, <2>3, <2>4, AdmitCounts, RefuseCounts DEF RequestStep
<1>2. ASSUME NEW u \in Users, UserStep(u) PROVE Counted'
  BY <1>2, QuietCounts DEF UserStep, BlockUser, UnblockUser, DeleteUser, SetStatus, ChangeRole
<1>3. ASSUME NEW p \in pairs, EndPair(p) PROVE Counted'
  BY <1>3, QuietCounts DEF EndPair
<1>4. CASE UNCHANGED vars
  BY <1>4, QuietCounts DEF vars
<1> QED
  BY <1>1, <1>2, <1>3, <1>4, TickCounts DEF Next

LEMMA InitCounts ==
  ASSUME Init
  PROVE  Counted
<1>1. attempt = {} /\ refused = {} /\ faults = 0 /\ \A q \in Requests : request[q].pc = "idle"
  BY DEF Init, LimiterInit, Idle
<1>2. \A o \in Origins : Answered(o) = {} /\ Trying(o) = {}
  BY <1>1 DEF Answered, Trying
<1>3. refused \ attempt = {}
  BY <1>1
<1>4. Limit \in Nat \ {0} /\ Cardinality(Requests) \in Nat
  BY LimiterAssumption, AccessAssumption, FS_CardinalityType
<1>5. Cardinality({}) = 0
  BY FS_EmptySet
<1>6. Cardinality(refused \ attempt) <= faults
  BY <1>1, <1>3, <1>5
<1>7. ASSUME NEW o \in Origins
      PROVE  Cardinality(Answered(o)) + Cardinality(Trying(o))
               <= Limit - 1 + Cardinality(Requests) + faults
  <2>1. Cardinality(Answered(o)) = 0 /\ Cardinality(Trying(o)) = 0
    BY <1>2, <1>5
  <2> QED
    BY <1>1, <1>4, <2>1
<1> QED
  BY <1>1, <1>6, <1>7 DEF Counted

(* However many requests pass the limiter together, and whatever callers     *)
(* they name, within one window an address is told 401 at most Limit - 1     *)
(* times, once for every request in flight and once for every statement that *)
(* failed, not counting attempts that do not fit the table.                  *)
THEOREM GuessesBoundedHolds == Spec => []GuessesBounded
<1>1. TypeOK /\ Counted => GuessesBounded
  <2> SUFFICES ASSUME TypeOK, Counted, NEW o \in Origins
               PROVE  Made(refused, SameAddress(o)) <= Limit - 1 + Cardinality(Requests) + faults
    BY DEF GuessesBounded, SameAddress
  <2>1. Made(refused, SameAddress(o)) = Cardinality(Answered(o))
    BY DEF Made, Answered
  <2> QED
    BY <2>1, Sizes DEF Counted
<1>2. TypeOK /\ Counted /\ [Next]_vars => TypeOK' /\ Counted'
  BY NextType, NextCounts
<1>3. Init => TypeOK /\ Counted
  BY InitType, InitCounts
<1> QED
  BY <1>1, <1>2, <1>3, PTL DEF Spec



==============================================================================
