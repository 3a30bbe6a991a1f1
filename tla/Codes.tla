--------------------------------- MODULE Codes ---------------------------------
(***************************************************************************)
(* The six-digit codes that are mailed to confirm an address, to reset a   *)
(* password and to change an address, and the requests that spend them     *)
(* (service_patch.go, repo.go, migrations 009 and 010).  A request checks  *)
(* a code with one statement and does its work with the next ones, so      *)
(* other requests, resends and account removals run in between.  A letter  *)
(* is sent by a goroutine of its own: it may come late, out of order or    *)
(* never, which here is when, and whether, somebody enters its code.       *)
(***************************************************************************)
EXTENDS Naturals, FiniteSets

CONSTANTS
  Users,        \* ids of accounts, each given to one account
  Addresses,    \* email addresses
  Passwords,
  Requests,     \* slots for the requests in flight
  NoAddress,
  MaxCodes,     \* codes made in a behaviour
  DbMayFail     \* TRUE if a statement may fail or lose its answer

ASSUME CodesAssumption ==
  /\ NoAddress \notin Addresses /\ Addresses \cap Users = {}
  /\ MaxCodes \in Nat /\ DbMayFail \in BOOLEAN

VARIABLES
  home,         \* the address an id was registered with; ids are given out once
  email,        \* users.email, NoAddress if there is no such account
  password,     \* users.password_hash
  verified,     \* users.email_verified
  verification, \* email_verifications, by user
  reset,        \* password_resets, by address
  change,       \* email_change_requests, by user
  letters,      \* every letter handed to the mail goroutine
  request,
  entered,      \* history: the letters whose code was accepted
  spent         \* history: the codes whose work was done and whose DELETE did not fail

vars == <<home, email, password, verified, verification, reset, change, letters,
          request, entered, spent>>
accounts == <<home, email, password, verified>>
tables == <<verification, reset, change>>
history == <<entered, spent>>

-----------------------------------------------------------------------------
Codes == 1..MaxCodes
Account == {u \in Users : email[u] # NoAddress}

NoCode == [code |-> 0, to |-> NoAddress]
CodeRow == [code : Codes, to : Addresses]
Row(c, a) == [code |-> c, to |-> a]

Letter == [kind : {"verification", "reset", "change"}, to : Addresses, code : Codes,
           by : Users \cup {NoAddress}]

\* generateCode: the code of a new letter is not one that is still around.
NewCode == Cardinality(letters) + 1

Idle == [op |-> "idle", pc |-> "idle", user |-> NoAddress, address |-> NoAddress,
         code |-> 0, new |-> "none"]
Accept(r, tk) == request[r] = Idle /\ request' = [request EXCEPT ![r] = tk]
Advance(r, pc) == request' = [request EXCEPT ![r].pc = pc]
Finish(r) == request' = [request EXCEPT ![r] = Idle]
At(r, op, pc) == request[r].op = op /\ request[r].pc = pc

Init ==
  /\ home = [u \in Users |-> NoAddress] /\ email = [u \in Users |-> NoAddress]
  /\ password = [u \in Users |-> "none"] /\ verified = [u \in Users |-> FALSE]
  /\ verification = [u \in Users |-> NoCode] /\ reset = [a \in Addresses |-> NoCode]
  /\ change = [u \in Users |-> NoCode] /\ letters = {}
  /\ request = [r \in Requests |-> Idle] /\ entered = {} /\ spent = {}

-----------------------------------------------------------------------------
(* Accounts *)

Taken(a) == \E u \in Users : email[u] = a

\* CreateUser; no code is sent, and the address counts as verified.
Register(u, a, new) ==
  /\ home[u] = NoAddress /\ ~Taken(a)
  /\ home' = [home EXCEPT ![u] = a] /\ email' = [email EXCEPT ![u] = a]
  /\ password' = [password EXCEPT ![u] = new] /\ verified' = [verified EXCEPT ![u] = TRUE]
  /\ UNCHANGED <<tables, letters, request, history>>

\* ChangePassword and DeleteAccount read the hash and compare the password.
ComparePassword(r, u, op, old, new) ==
  /\ u \in Account /\ password[u] = old
  /\ Accept(r, [Idle EXCEPT !.op = op, !.pc = "checked", !.user = u,
                          !.new = IF op = "password" THEN new ELSE @])
  /\ UNCHANGED <<accounts, tables, letters, history>>

UpdatePasswordHash(r) ==
  /\ At(r, "password", "checked")
  /\ password' = IF request[r].user \in Account
                 THEN [password EXCEPT ![request[r].user] = request[r].new] ELSE password
  /\ Finish(r)
  /\ UNCHANGED <<home, email, verified, tables, letters, history>>

\* The codes keyed by the user go with the account, a reset code stays.
DeleteUser(r) ==
  /\ At(r, "delete", "checked")
  /\ LET u == request[r].user IN
       /\ email' = [email EXCEPT ![u] = NoAddress]
       /\ password' = [password EXCEPT ![u] = "none"] /\ verified' = [verified EXCEPT ![u] = FALSE]
       /\ verification' = [verification EXCEPT ![u] = NoCode]
       /\ change' = [change EXCEPT ![u] = NoCode]
  /\ Finish(r)
  /\ UNCHANGED <<home, reset, letters, history>>

-----------------------------------------------------------------------------
(* Letters *)

Mail(kind, a, u) == letters' = letters \cup {[kind |-> kind, to |-> a, code |-> NewCode, by |-> u]}

\* resendCode takes the user and the address from its body and compares neither
\* with the account; the foreign key to users refuses an unknown user.
SendVerificationCode(u, a) ==
  /\ NewCode \in Codes /\ u \in Account
  /\ verification' = [verification EXCEPT ![u] = Row(NewCode, a)]
  /\ Mail("verification", a, u)
  /\ UNCHANGED <<accounts, reset, change, request, history>>

\* SendPasswordResetCode answers 200 whether the account exists or not.
FindForReset(r, a) ==
  /\ Taken(a)
  /\ Accept(r, [Idle EXCEPT !.op = "forgot", !.pc = "checked", !.address = a])
  /\ UNCHANGED <<accounts, tables, letters, history>>

SavePasswordResetCode(r) ==
  /\ NewCode \in Codes /\ At(r, "forgot", "checked")
  /\ LET a == request[r].address IN
       reset' = [reset EXCEPT ![a] = Row(NewCode, a)] /\ Mail("reset", a, NoAddress)
  /\ Finish(r)
  /\ UNCHANGED <<accounts, verification, change, history>>

\* Any error of the query counts as "not found".
FindDuplicate(r, u, a) ==
  /\ u \in Account /\ ~Taken(a)
  /\ Accept(r, [Idle EXCEPT !.op = "ask", !.pc = "checked", !.user = u, !.address = a])
  /\ UNCHANGED <<accounts, tables, letters, history>>

\* Mutant: ON CONFLICT DO UPDATE SET new_email, without the code.
SaveKeepingCode(r) ==
  /\ At(r, "ask", "checked")
  /\ LET u == request[r].user
         a == request[r].address
     IN IF u \in Account
        THEN /\ NewCode \in Codes
             /\ change' = [change EXCEPT ![u] = IF @ = NoCode THEN Row(NewCode, a)
                                                             ELSE Row(@.code, a)]
             /\ Mail("change", a, u)
        ELSE UNCHANGED <<change, letters>>
  /\ Finish(r)
  /\ UNCHANGED <<accounts, verification, reset, history>>

\* The foreign key to users refuses the row of a deleted account.
SaveEmailChangeCode(r) ==
  /\ At(r, "ask", "checked")
  /\ LET u == request[r].user
         a == request[r].address
     IN IF u \in Account
        THEN /\ NewCode \in Codes
             /\ change' = [change EXCEPT ![u] = Row(NewCode, a)] /\ Mail("change", a, u)
        ELSE UNCHANGED <<change, letters>>
  /\ Finish(r)
  /\ UNCHANGED <<accounts, verification, reset, history>>

\* expires_at passes: an expired row answers every query and every upsert like
\* a missing one, and an hour later the worker deletes it.
Expire ==
  /\ \/ \E u \in Users : verification' = [verification EXCEPT ![u] = NoCode]
                         /\ UNCHANGED <<reset, change>>
     \/ \E a \in Addresses : reset' = [reset EXCEPT ![a] = NoCode]
                             /\ UNCHANGED <<verification, change>>
     \/ \E u \in Users : change' = [change EXCEPT ![u] = NoCode]
                         /\ UNCHANGED <<verification, reset>>
  /\ UNCHANGED <<accounts, letters, request, history>>

-----------------------------------------------------------------------------
(* Codes that come back *)

Matches(row, l) == row.code = l.code
Enter(r, l, tk) ==
  /\ Accept(r, tk) /\ entered' = entered \cup {l}
  /\ UNCHANGED <<accounts, tables, letters, spent>>

\* VerifyEmailCode, VerifyResetCode
CheckVerification(r, u, l) ==
  /\ Matches(verification[u], l)
  /\ Enter(r, l, [Idle EXCEPT !.op = "verify", !.pc = "checked", !.user = u, !.code = l.code])

\* Mutant: the query does not ask for the address.
CheckAnyReset(r, a, l, new) ==
  /\ \E b \in Addresses : Matches(reset[b], l)
  /\ Enter(r, l, [Idle EXCEPT !.op = "reset", !.pc = "checked", !.address = a,
                              !.code = l.code, !.new = new])

CheckReset(r, a, l, new) ==
  /\ Matches(reset[a], l)
  /\ Enter(r, l, [Idle EXCEPT !.op = "reset", !.pc = "checked", !.address = a,
                              !.code = l.code, !.new = new])

\* One transaction marks the user and deletes the row, whatever code it holds.
MarkEmailVerified(r) ==
  /\ At(r, "verify", "checked")
  /\ LET u == request[r].user IN
       /\ verified' = IF u \in Account THEN [verified EXCEPT ![u] = TRUE] ELSE verified
       /\ verification' = [verification EXCEPT ![u] = NoCode]
  /\ spent' = spent \cup {request[r].code}
  /\ Finish(r)
  /\ UNCHANGED <<home, email, password, reset, change, letters, entered>>

\* Mutant: the code stays after its work is done.
ResetKeepingCode(r) ==
  /\ At(r, "reset", "checked")
  /\ password' = [u \in Users |-> IF email[u] = request[r].address
                                  THEN request[r].new ELSE password[u]]
  /\ spent' = spent \cup {request[r].code}
  /\ Finish(r)
  /\ UNCHANGED <<home, email, verified, tables, letters, entered>>

ResetPassword(r) ==
  /\ At(r, "reset", "checked")
  /\ password' = [u \in Users |-> IF email[u] = request[r].address
                                  THEN request[r].new ELSE password[u]]
  /\ reset' = [reset EXCEPT ![request[r].address] = NoCode]
  /\ spent' = spent \cup {request[r].code}
  /\ Finish(r)
  /\ UNCHANGED <<home, email, verified, verification, change, letters, entered>>

\* VerifyEmailChangeCode reads the address with the code, and deletes the row;
\* the error of the DELETE is dropped.
SelectChange(r, u, l) ==
  /\ Matches(change[u], l)
  /\ Enter(r, l, [Idle EXCEPT !.op = "confirm", !.pc = "selected", !.user = u,
                              !.code = l.code, !.address = change[u].to])

DeleteChange(r) ==
  /\ At(r, "confirm", "selected")
  /\ \/ change' = [change EXCEPT ![request[r].user] = NoCode] /\ Advance(r, "deleted")
     \/ DbMayFail /\ Advance(r, "kept") /\ UNCHANGED change
  /\ UNCHANGED <<accounts, verification, reset, letters, history>>

\* users_email_key
Refused(u, a) == \E v \in Users \ {u} : email[v] = a

UpdateEmail(r) ==
  /\ At(r, "confirm", "deleted") \/ At(r, "confirm", "kept")
  /\ LET u == request[r].user
         a == request[r].address
     IN /\ email' = IF u \in Account /\ ~Refused(u, a) THEN [email EXCEPT ![u] = a] ELSE email
        /\ spent' = IF request[r].pc = "deleted" THEN spent \cup {request[r].code} ELSE spent
  /\ Finish(r)
  /\ UNCHANGED <<home, password, verified, tables, letters, entered>>

\* A statement fails and its transaction with it; what was committed stays.
Fail(r) ==
  /\ DbMayFail /\ request[r] # Idle /\ Finish(r)
  /\ UNCHANGED <<accounts, tables, letters, history>>

-----------------------------------------------------------------------------
Step(r) ==
  \/ \E u \in Users, old, new \in Passwords, op \in {"password", "delete"} :
       ComparePassword(r, u, op, old, new)
  \/ \E a \in Addresses : FindForReset(r, a) \/ \E u \in Users : FindDuplicate(r, u, a)
  \/ \E l \in letters :
       \/ \E u \in Users : CheckVerification(r, u, l) \/ SelectChange(r, u, l)
       \/ \E a \in Addresses, new \in Passwords : CheckReset(r, a, l, new)
  \/ UpdatePasswordHash(r) \/ DeleteUser(r) \/ SavePasswordResetCode(r)
  \/ SaveEmailChangeCode(r) \/ MarkEmailVerified(r) \/ ResetPassword(r)
  \/ DeleteChange(r) \/ UpdateEmail(r) \/ Fail(r)

Next ==
  \/ \E u \in Users, a \in Addresses :
       SendVerificationCode(u, a) \/ \E new \in Passwords : Register(u, a, new)
  \/ Expire
  \/ \E r \in Requests : Step(r)

Spec == Init /\ [][Next]_vars

-----------------------------------------------------------------------------
TypeOK ==
  /\ home \in [Users -> Addresses \cup {NoAddress}]
  /\ email \in [Users -> Addresses \cup {NoAddress}]
  /\ password \in [Users -> Passwords \cup {"none"}] /\ verified \in [Users -> BOOLEAN]
  /\ verification \in [Users -> CodeRow \cup {NoCode}]
  /\ reset \in [Addresses -> CodeRow \cup {NoCode}]
  /\ change \in [Users -> CodeRow \cup {NoCode}]
  /\ \A u \in Users : verification[u] # NoCode \/ change[u] # NoCode => u \in Account
  /\ letters \subseteq Letter /\ entered \subseteq letters /\ spent \subseteq Codes
  /\ request \in [Requests ->
       [op : {"idle", "password", "delete", "forgot", "ask", "verify", "reset", "confirm"},
        pc : {"idle", "checked", "selected", "deleted", "kept"}, user : Users \cup {NoAddress},
        address : Addresses \cup {NoAddress}, code : Codes \cup {0},
        new : Passwords \cup {"none"}]]

\* An account has the address it was registered with, or one at which its user
\* read the code of a change asked for by this account, whatever requests, resends
\* and failures came between the check of the code and the UPDATE of the address.
\* (users.email_verified says less: it is TRUE from the INSERT of the account on,
\* and a confirmation code is mailed to whatever address the resend names.)
Proven(u, a) == \E l \in entered : l.kind = "change" /\ l.by = u /\ l.to = a
AddressProven == \A u \in Account : email[u] = home[u] \/ Proven(u, email[u])

\* A code that has done its work is in no table again, although the row is
\* deleted by its key and may have been replaced meanwhile.  The error of the
\* DELETE of a change is dropped: a code whose DELETEs all failed has changed
\* the address, is not counted as spent and works until it expires.
SpentIsGone ==
  /\ \A u \in Users : verification[u].code \notin spent /\ change[u].code \notin spent
  /\ \A a \in Addresses : reset[a].code \notin spent

\* A password is set by who knew the one before or by who read a letter at the
\* address the account has at that moment; accounts may swap addresses between
\* the letter, the check and the UPDATE.
PasswordByMail ==
  [][\A u \in Account : password'[u] \notin {password[u], "none"} =>
       \E r \in Requests :
         \/ request[r].op = "password" /\ request[r].user = u
         \/ /\ request[r].op = "reset"
            /\ \E l \in entered : /\ l.kind = "reset" /\ l.to = email[u]
                                  /\ l.code = request[r].code]_vars
=============================================================================
