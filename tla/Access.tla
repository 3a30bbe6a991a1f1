-------------------------------- MODULE Access --------------------------------
(***************************************************************************)
(* Who gets a pair of tokens, and with which role: login behind the        *)
(* limiter, register, refresh and logout (handlers.go, service.go, jwt.go) *)
(* while administrators block and unblock accounts and posts change hands. *)
(* A request reads the user's row with one statement and issues the tokens *)
(* later, after the comparison of the password; the tokens carry the role  *)
(* it read, and a refresh copies the role of the old token.                *)
(***************************************************************************)
EXTENDS LoginLimiter

CONSTANTS
  Users,
  AccountOf,     \* the account of an address, whichever way it is typed
  Roles,         \* the roles of posts, as userSelect computes them
  AdminRoles,    \* isAdminRole
  StandingRoles, \* roles of administrators other than Users, signed in
  Requests,      \* requests in flight, each slot served again and again
  Nobody

ASSUME AccessAssumption ==
  /\ Nobody \notin Users
  /\ IsFiniteSet(Requests)
  /\ AccountOf \in [{o[1] : o \in Origins} -> Users \cup {Nobody}]
  /\ "participant" \in Roles

VARIABLES
  status,   \* the user's row: not yet there, active, is_blocked, or deleted
  role,     \* RoleCode of userSelect
  pairs,    \* the pairs of tokens that can be refreshed, by user and role
  request

vars == <<attempt, refused, faults, status, role, pairs, request>>

-----------------------------------------------------------------------------
Pair == [user : Users, role : Roles]

Idle == [pc |-> "idle"]
LoginRow == [pc : {"admitted"}, from : Origins, right : BOOLEAN]
FailedRow == [pc : {"failed"}, from : Origins]
IssueRow == [pc : {"login", "renew"}, pair : Pair]

TypeOK ==
  /\ LimiterTypeOK
  /\ status \in [Users -> {"new", "active", "blocked", "deleted"}]
  /\ role \in [Users -> Roles]
  /\ pairs \subseteq Pair
  /\ request \in [Requests -> {Idle} \cup LoginRow \cup FailedRow \cup IssueRow]

Init ==
  /\ LimiterInit
  /\ status = [u \in Users |-> "new"]
  /\ role = [u \in Users |-> "participant"]
  /\ pairs = {}
  /\ request = [q \in Requests |-> Idle]

-----------------------------------------------------------------------------
(* login: the limiter answers 429 and leaves no trace, or lets the request  *)
(* in; whether the password is the right one is up to who typed it.         *)
Admit(q, o, right) ==
  /\ request[q] = Idle
  /\ Admitted(o)
  /\ request' = [request EXCEPT ![q] = [pc |-> "admitted", from |-> o, right |-> right]]
  /\ UNCHANGED <<attempt, refused, status, role, pairs>>

Issuing(pc, u, r) == [pc |-> pc, pair |-> [user |-> u, role |-> r]]

\* Mutant: GetUserByEmail without is_blocked = false.
FoundBlocked(u) == u \in Users /\ status[u] \in {"active", "blocked"}

Found(u) == u \in Users /\ status[u] = "active"

(* GetUserByEmail and the comparison of the hash it returned.  A statement  *)
(* that fails is answered like a wrong password.                            *)
ReadUser(q) ==
  /\ request[q].pc = "admitted"
  /\ LET u == AccountOf[request[q].from[1]] IN
       request' = [request EXCEPT ![q] =
         IF Found(u) /\ request[q].right THEN Issuing("login", u, role[u])
                                         ELSE [pc |-> "failed", from |-> request[q].from]]
  /\ UNCHANGED <<attempt, refused, faults, status, role, pairs>>

Refuse(q) ==
  /\ request[q].pc = "failed"
  /\ RecordLoginAttempt(request[q].from)
  /\ request' = [request EXCEPT ![q] = Idle]
  /\ UNCHANGED <<status, role, pairs>>

(* IssueTokens.  The old pair of a refresh stays valid.                     *)
Issue(q) ==
  /\ request[q].pc \in {"login", "renew"}
  /\ pairs' = pairs \cup {request[q].pair}
  /\ request' = [request EXCEPT ![q] = Idle]
  /\ UNCHANGED <<attempt, refused, faults, status, role>>

\* Mutant: the first token names a headquarters post that was only asked for.
RegisterAsked(q, u, r) ==
  /\ request[q] = Idle
  /\ status[u] = "new"
  /\ status' = [status EXCEPT ![u] = "active"]
  /\ request' = [request EXCEPT ![q] = Issuing("login", u, r)]
  /\ UNCHANGED <<attempt, refused, faults, role, pairs>>

(* CreateUser stores the post it is given; the tokens say "participant".    *)
Register(q, u, r) ==
  /\ request[q] = Idle
  /\ status[u] = "new"
  /\ status' = [status EXCEPT ![u] = "active"]
  /\ role' = [role EXCEPT ![u] = r]
  /\ request' = [request EXCEPT ![q] = Issuing("login", u, "participant")]
  /\ UNCHANGED <<attempt, refused, faults, pairs>>

(* Refresh asks revoked_tokens and never the users table.                   *)
Refresh(q, p) ==
  /\ request[q] = Idle
  /\ p \in pairs
  /\ request' = [request EXCEPT ![q] = Issuing("renew", p.user, p.role)]
  /\ UNCHANGED <<attempt, refused, faults, status, role, pairs>>

(* The last refresh token of a user and role is revoked by Logout, or it    *)
(* expires.  A refresh that has asked before goes on.                       *)
EndPair(p) ==
  /\ p \in pairs
  /\ pairs' = pairs \ {p}
  /\ UNCHANGED <<attempt, refused, faults, status, role, request>>

-----------------------------------------------------------------------------
(* AuthRequired takes the caller's role from the access token.  The owner   *)
(* of one that outlives its pair is counted in StandingRoles.               *)
Administered ==
  \E r \in AdminRoles : r \in StandingRoles \/ \E p \in pairs : p.role = r

SetStatus(u, from, to) ==
  /\ status[u] \in from
  /\ status' = [status EXCEPT ![u] = to]
  /\ UNCHANGED <<attempt, refused, faults, role, pairs, request>>

BlockUser(u) == Administered /\ SetStatus(u, {"active"}, "blocked")
UnblockUser(u) == Administered /\ SetStatus(u, {"blocked"}, "active")

(* deleteAccount, whose access token may have outlived its pair.            *)
DeleteUser(u) == SetStatus(u, {"active", "blocked"}, "deleted")

(* A post is given or taken, by Positions or by a review of the             *)
(* headquarters: userSelect answers another role from now on.               *)
ChangeRole(u, r) ==
  /\ status[u] \in {"active", "blocked"}
  /\ role' = [role EXCEPT ![u] = r]
  /\ UNCHANGED <<attempt, refused, faults, status, pairs, request>>

-----------------------------------------------------------------------------
RequestStep(q) ==
  \/ \E o \in Origins, right \in BOOLEAN : Admit(q, o, right)
  \/ ReadUser(q) \/ Refuse(q) \/ Issue(q)
  \/ \E u \in Users, r \in Roles : Register(q, u, r)
  \/ \E p \in pairs : Refresh(q, p)

UserStep(u) ==
  \/ BlockUser(u) \/ UnblockUser(u) \/ DeleteUser(u)
  \/ \E r \in Roles : ChangeRole(u, r)

Time == Tick /\ UNCHANGED <<status, role, pairs, request>>

Next ==
  \/ \E q \in Requests : RequestStep(q)
  \/ \E u \in Users : UserStep(u)
  \/ \E p \in pairs : EndPair(p)
  \/ Time

Spec == Init /\ [][Next]_vars

-----------------------------------------------------------------------------
SameAddress(o) == {p \in Origins : p[1] = o[1]}

(* The limiter counts, the password is compared and the attempt recorded by *)
(* three statements, so requests that are in flight together pass it        *)
(* together.  Within one window an address, spelled as it was typed and     *)
(* whatever the callers, is told 401 at most Limit - 1 times, once for      *)
(* every request in flight, and once more for every statement on            *)
(* login_attempts that failed; attempts that cannot be stored at all are    *)
(* beyond this count.                                                       *)
GuessesBounded ==
  \A o \in Origins :
    Made(refused, SameAddress(o)) <= Limit - 1 + Cardinality(Requests) + faults

(* A pair of the user with one of the roles exists or is being issued.      *)
Holds(u, roles) ==
  \/ \E p \in pairs : p.user = u /\ p.role \in roles
  \/ \E q \in Requests :
       /\ request[q].pc \in {"login", "renew"}
       /\ request[q].pair.user = u /\ request[q].pair.role \in roles

(* A block takes no session away, but once the sessions of a blocked or     *)
(* deleted account have ended, and no login that read the row before is     *)
(* under way, it gets none until an administrator unblocks it.              *)
BlockedStaysOut ==
  [][\A u \in Users :
       (status[u] \in {"blocked", "deleted"} /\ ~Holds(u, Roles)
          /\ status'[u] \in {"blocked", "deleted"})
       => ~Holds(u, Roles)']_vars

(* A role that was taken away lives on in the sessions that carry it, for   *)
(* as long as they are refreshed, and nowhere else: once these have ended,  *)
(* no login and no refresh brings it back while the post is not.  Every     *)
(* token of a registration says "participant".                              *)
LostRoleStaysLost ==
  [][\A u \in Users, r \in Roles \ {"participant"} :
       (role[u] # r /\ ~Holds(u, {r}) /\ role'[u] # r) => ~Holds(u, {r})']_vars
=============================================================================
