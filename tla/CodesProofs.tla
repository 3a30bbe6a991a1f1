------------------------------ MODULE CodesProofs ------------------------------
(***************************************************************************)
(* Proofs about Codes for any number of accounts, addresses, passwords,    *)
(* letters and requests in flight: an account moves only to an address at  *)
(* which its user read a letter, a code works once, and a password comes   *)
(* from its owner.                                                         *)
(***************************************************************************)
EXTENDS Codes, FiniteSetTheorems, TLAPS

RequestType ==
  [op : {"idle", "password", "delete", "forgot", "ask", "verify", "reset", "confirm"},
   pc : {"idle", "checked", "selected", "deleted", "kept"}, user : Users \cup {NoAddress},
   address : Addresses \cup {NoAddress}, code : Codes \cup {0},
   new : Passwords \cup {"none"}]

Shapes ==
  /\ home \in [Users -> Addresses \cup {NoAddress}]
  /\ email \in [Users -> Addresses \cup {NoAddress}]
  /\ password \in [Users -> Passwords \cup {"none"}] /\ verified \in [Users -> BOOLEAN]
  /\ verification \in [Users -> CodeRow \cup {NoCode}]
  /\ reset \in [Addresses -> CodeRow \cup {NoCode}]
  /\ change \in [Users -> CodeRow \cup {NoCode}]
  /\ letters \subseteq Letter /\ entered \subseteq letters /\ spent \subseteq Codes
  /\ request \in [Requests -> RequestType]

(* The codes keyed by a user are those of an account, and an account was    *)
(* registered.                                                              *)
KeyedByAccounts ==
  \A u \in Users :
    /\ verification[u] # NoCode \/ change[u] # NoCode => u \in Account
    /\ u \in Account => home[u] # NoAddress

(* What a request carries.                                                  *)
Fit(q) ==
  /\ q.op \in {"password", "delete", "ask", "verify", "confirm"} => q.user \in Users
  /\ q.op \in {"forgot", "ask", "reset", "confirm"} => q.address \in Addresses
  /\ q.op \in {"verify", "reset", "confirm"} => q.code \in Codes
  /\ q.op \in {"password", "reset"} => q.new \in Passwords
Fits == \A r \in Requests : Fit(request[r])

(* Letters are counted, so that a new code is in none of them.              *)
Numbered ==
  /\ IsFiniteSet(letters)
  /\ \A l \in letters : l.code <= Cardinality(letters)
  /\ \A k, l \in letters : k.code = l.code => k = l

(* Each code of a table went out in a letter of its kind, for the user and  *)
(* to the address of its row.                                               *)
SentOut(kind, l, c) == l.kind = kind /\ l.code = c
TablesAreSent ==
  /\ \A u \in Users : verification[u] # NoCode =>
       \E l \in letters : SentOut("verification", l, verification[u].code) /\ l.by = u
  /\ \A a \in Addresses : reset[a] # NoCode =>
       \E l \in letters : SentOut("reset", l, reset[a].code) /\ l.to = a
  /\ \A u \in Users : change[u] # NoCode =>
       \E l \in letters : SentOut("change", l, change[u].code) /\ l.by = u /\ l.to = change[u].to

(* A request that has passed its check has read such a letter.              *)
Read(q, seen) ==
  /\ q.op = "verify" =>
       \E l \in seen : SentOut("verification", l, q.code) /\ l.by = q.user
  /\ q.op = "reset" =>
       \E l \in seen : SentOut("reset", l, q.code) /\ l.to = q.address
  /\ q.op = "confirm" =>
       \E l \in seen : SentOut("change", l, q.code) /\ l.by = q.user /\ l.to = q.address
AllRead == \A r \in Requests : Read(request[r], entered)

(* A code that is spent came in a letter.                                   *)
SpentWasSent == \A c \in spent : \E l \in letters : l.code = c

(* The code of a change whose row was deleted is in the row of nobody.      *)
DeletedIsGone ==
  \A r \in Requests : At(r, "confirm", "deleted") =>
    \A u \in Users : change[u].code # request[r].code

IInv ==
  /\ Shapes /\ KeyedByAccounts /\ Fits /\ Numbered /\ TablesAreSent /\ AllRead
  /\ SpentWasSent /\ DeletedIsGone /\ AddressProven /\ SpentIsGone

-----------------------------------------------------------------------------
(* Lemmas about rows, letters and requests.                                 *)

LEMMA RowIs ==
  ASSUME NEW c \in Codes, NEW a \in Addresses
  PROVE  /\ Row(c, a) \in CodeRow /\ Row(c, a).code = c /\ Row(c, a).to = a
         /\ Row(c, a) # NoCode
  BY CodesAssumption DEF Row, CodeRow, NoCode, Codes

LEMMA RowOf ==
  ASSUME NEW x \in CodeRow \cup {NoCode}
  PROVE  /\ x # NoCode => x.code \in Codes /\ x.to \in Addresses
         /\ x.code \in Codes => x # NoCode
         /\ x = NoCode => x.code = 0
  BY CodesAssumption DEF CodeRow, NoCode, Codes

LEMMA IdleIs ==
  /\ Idle \in RequestType /\ Idle.op = "idle" /\ Idle.pc = "idle" /\ Fit(Idle)
  /\ \A seen : Read(Idle, seen)
<1>1. Idle \in RequestType /\ Idle.op = "idle" /\ Idle.pc = "idle"
  BY DEF Idle, RequestType
<1> QED
  BY <1>1 DEF Fit, Read

LEMMA RequestIs ==
  ASSUME Shapes, NEW r \in Requests
  PROVE  /\ request[r] \in RequestType
         /\ request[r].op \in {"idle", "password", "delete", "forgot", "ask", "verify", "reset", "confirm"}
         /\ request[r].new \in Passwords \cup {"none"} /\ request[r].code \in Codes \cup {0}
  BY DEF Shapes, RequestType

LEMMA RequestSet ==
  ASSUME Shapes, NEW r \in Requests, NEW q \in RequestType, request' = [request EXCEPT ![r] = q]
  PROVE  /\ request' \in [Requests -> RequestType]
         /\ request'[r] = q
         /\ \A s \in Requests \ {r} : request'[s] = request[s]
  BY DEF Shapes

(* A new code is in no letter, and the letters stay numbered.               *)
LEMMA NewCodeIsNew ==
  ASSUME Numbered, letters \subseteq Letter
  PROVE  /\ Cardinality(letters) \in Nat /\ NewCode \in Nat
         /\ \A l \in letters : l.code # NewCode
<1>1. Cardinality(letters) \in Nat
  BY FS_CardinalityType DEF Numbered
<1>2. ASSUME NEW l \in letters PROVE l.code # NewCode
  <2>1. l.code \in Nat
    BY CodesAssumption DEF Letter, Codes
  <2>2. l.code <= Cardinality(letters)
    BY DEF Numbered
  <2> QED
    BY <1>1, <2>1, <2>2 DEF NewCode
<1> QED
  BY <1>1, <1>2 DEF NewCode

LEMMA MailIs ==
  ASSUME Numbered, letters \subseteq Letter, NewCode \in Codes,
         NEW kind \in {"verification", "reset", "change"}, NEW a \in Addresses,
         NEW u \in Users \cup {NoAddress}, Mail(kind, a, u)
  PROVE  /\ letters' \subseteq Letter /\ letters \subseteq letters'
         /\ Numbered'
         /\ \E l \in letters' : SentOut(kind, l, NewCode) /\ l.to = a /\ l.by = u
<1> DEFINE new == [kind |-> kind, to |-> a, code |-> NewCode, by |-> u]
<1>1. letters' = letters \cup {new}
  BY DEF Mail
<1>2. new \in Letter /\ new.kind = kind /\ new.to = a /\ new.code = NewCode /\ new.by = u
  BY DEF Letter
<1> HIDE DEF new
<1>3. new \notin letters /\ \A l \in letters : l.code # new.code
  BY <1>2, NewCodeIsNew
<1>4. /\ IsFiniteSet(letters') /\ Cardinality(letters') = Cardinality(letters) + 1
      /\ Cardinality(letters) \in Nat
  BY <1>1, <1>3, NewCodeIsNew, FS_AddElement DEF Numbered
<1>5. \A l \in letters : l.code \in Nat /\ l.code <= Cardinality(letters)
  BY CodesAssumption DEF Letter, Codes, Numbered
<1>6. Numbered'
  <2>1. \A l \in letters' : l.code <= Cardinality(letters')
    BY <1>1, <1>2, <1>4, <1>5 DEF NewCode
  <2>2. \A k, l \in letters' : k.code = l.code => k = l
    BY <1>1, <1>3 DEF Numbered
  <2> QED
    BY <1>4, <2>1, <2>2 DEF Numbered
<1>7. new \in letters' /\ SentOut(kind, new, NewCode)
  BY <1>1, <1>2 DEF SentOut
<1> QED
  BY <1>1, <1>2, <1>6, <1>7

-----------------------------------------------------------------------------
(* Which steps change what.                                                 *)

LEMMA AccountsChange ==
  ASSUME [Next]_vars
  PROVE  /\ home' = home \/ \E u \in Users, a \in Addresses, new \in Passwords : Register(u, a, new)
         /\ \/ email' = email
            \/ \E u \in Users, a \in Addresses, new \in Passwords : Register(u, a, new)
            \/ \E r \in Requests : DeleteUser(r) \/ UpdateEmail(r)
         /\ \/ password' = password
            \/ \E u \in Users, a \in Addresses, new \in Passwords : Register(u, a, new)
            \/ \E r \in Requests : UpdatePasswordHash(r) \/ ResetPassword(r) \/ DeleteUser(r)
         /\ \/ verified' = verified
            \/ \E u \in Users, a \in Addresses, new \in Passwords : Register(u, a, new)
            \/ \E r \in Requests : MarkEmailVerified(r) \/ DeleteUser(r)
<1> USE DEF Next, Step, vars, accounts
<1>1. home' = home \/ \E u \in Users, a \in Addresses, new \in Passwords : Register(u, a, new)
  BY DEF SendVerificationCode, Expire, ComparePassword, FindForReset, FindDuplicate, CheckVerification,
     SelectChange, CheckReset, Enter, UpdatePasswordHash, DeleteUser, SavePasswordResetCode,
     SaveEmailChangeCode, MarkEmailVerified, ResetPassword, DeleteChange, UpdateEmail, Fail
<1>2. \/ email' = email
      \/ \E u \in Users, a \in Addresses, new \in Passwords : Register(u, a, new)
      \/ \E r \in Requests : DeleteUser(r) \/ UpdateEmail(r)
  BY DEF SendVerificationCode, Expire, ComparePassword, FindForReset, FindDuplicate, CheckVerification,
     SelectChange, CheckReset, Enter, UpdatePasswordHash, SavePasswordResetCode,
     SaveEmailChangeCode, MarkEmailVerified, ResetPassword, DeleteChange, Fail
<1>3. \/ password' = password
      \/ \E u \in Users, a \in Addresses, new \in Passwords : Register(u, a, new)
      \/ \E r \in Requests : UpdatePasswordHash(r) \/ ResetPassword(r) \/ DeleteUser(r)
  BY DEF SendVerificationCode, Expire, ComparePassword, FindForReset, FindDuplicate, CheckVerification,
     SelectChange, CheckReset, Enter, SavePasswordResetCode,
     SaveEmailChangeCode, MarkEmailVerified, DeleteChange, UpdateEmail, Fail
<1>4. \/ verified' = verified
      \/ \E u \in Users, a \in Addresses, new \in Passwords : Register(u, a, new)
      \/ \E r \in Requests : MarkEmailVerified(r) \/ DeleteUser(r)
  BY DEF SendVerificationCode, Expire, ComparePassword, FindForReset, FindDuplicate, CheckVerification,
     SelectChange, CheckReset, Enter, UpdatePasswordHash, SavePasswordResetCode,
     SaveEmailChangeCode, ResetPassword, DeleteChange, UpdateEmail, Fail
<1> QED
  BY <1>1, <1>2, <1>3, <1>4

LEMMA TablesChange ==
  ASSUME [Next]_vars
  PROVE  /\ \/ verification' = verification \/ Expire
            \/ \E u \in Users, a \in Addresses : SendVerificationCode(u, a)
            \/ \E r \in Requests : DeleteUser(r) \/ MarkEmailVerified(r)
         /\ \/ reset' = reset \/ Expire
            \/ \E r \in Requests : SavePasswordResetCode(r) \/ ResetPassword(r)
         /\ \/ change' = change \/ Expire
            \/ \E r \in Requests : SaveEmailChangeCode(r) \/ DeleteUser(r) \/ DeleteChange(r)
<1> USE DEF Next, Step, vars, tables
<1>1. \/ verification' = verification \/ Expire
      \/ \E u \in Users, a \in Addresses : SendVerificationCode(u, a)
      \/ \E r \in Requests : DeleteUser(r) \/ MarkEmailVerified(r)
  BY DEF Register, ComparePassword, FindForReset, FindDuplicate, CheckVerification,
     SelectChange, CheckReset, Enter, UpdatePasswordHash, SavePasswordResetCode,
     SaveEmailChangeCode, ResetPassword, DeleteChange, UpdateEmail, Fail
<1>2. \/ reset' = reset \/ Expire
      \/ \E r \in Requests : SavePasswordResetCode(r) \/ ResetPassword(r)
  BY DEF Register, SendVerificationCode, ComparePassword, FindForReset, FindDuplicate, CheckVerification,
     SelectChange, CheckReset, Enter, UpdatePasswordHash, DeleteUser,
     SaveEmailChangeCode, MarkEmailVerified, DeleteChange, UpdateEmail, Fail
<1>3. \/ change' = change \/ Expire
      \/ \E r \in Requests : SaveEmailChangeCode(r) \/ DeleteUser(r) \/ DeleteChange(r)
  BY DEF Register, SendVerificationCode, ComparePassword, FindForReset, FindDuplicate, CheckVerification,
     SelectChange, CheckReset, Enter, UpdatePasswordHash, SavePasswordResetCode,
     MarkEmailVerified, ResetPassword, UpdateEmail, Fail
<1> QED
  BY <1>1, <1>2, <1>3

LEMMA LettersChange ==
  ASSUME [Next]_vars
  PROVE  \/ letters' = letters
         \/ \E u \in Users, a \in Addresses : SendVerificationCode(u, a)
         \/ \E r \in Requests : SavePasswordResetCode(r) \/ SaveEmailChangeCode(r)
  BY DEF Next, Step, vars, Register, Expire, ComparePassword, FindForReset, FindDuplicate, CheckVerification,
     SelectChange, CheckReset, Enter, UpdatePasswordHash, DeleteUser,
     MarkEmailVerified, ResetPassword, DeleteChange, UpdateEmail, Fail

LEMMA HistoryChanges ==
  ASSUME [Next]_vars
  PROVE  /\ entered' = entered \/ \E l \in letters : entered' = entered \cup {l}
         /\ \/ spent' = spent
            \/ \E r \in Requests :
                 /\ MarkEmailVerified(r) \/ ResetPassword(r) \/ UpdateEmail(r)
                 /\ UpdateEmail(r) => At(r, "confirm", "deleted")
                 /\ spent' = spent \cup {request[r].code}
<1> USE DEF Next, Step, vars, history
<1>1. entered' = entered \/ \E l \in letters : entered' = entered \cup {l}
  BY DEF Register, SendVerificationCode, Expire, ComparePassword, FindForReset, FindDuplicate, CheckVerification,
     SelectChange, CheckReset, Enter, UpdatePasswordHash, DeleteUser, SavePasswordResetCode,
     SaveEmailChangeCode, MarkEmailVerified, ResetPassword, DeleteChange, UpdateEmail, Fail
<1>2. ASSUME NEW r \in Requests, UpdateEmail(r)
      PROVE  spent' = spent \/ (At(r, "confirm", "deleted") /\ spent' = spent \cup {request[r].code})
  BY <1>2 DEF UpdateEmail, At
<1>3. ASSUME NEW r \in Requests, MarkEmailVerified(r) \/ ResetPassword(r)
      PROVE  ~UpdateEmail(r) /\ spent' = spent \cup {request[r].code}
  BY <1>3 DEF MarkEmailVerified, ResetPassword, UpdateEmail, At
<1>4. spent' = spent \/ \E r \in Requests : MarkEmailVerified(r) \/ ResetPassword(r) \/ UpdateEmail(r)
  BY DEF Register, SendVerificationCode, Expire, ComparePassword, FindForReset, FindDuplicate, CheckVerification,
     SelectChange, CheckReset, Enter, UpdatePasswordHash, DeleteUser, SavePasswordResetCode,
     SaveEmailChangeCode, DeleteChange, Fail
<1> QED
  BY <1>1, <1>2, <1>3, <1>4

(* The requests: how each of them begins, goes on and ends.                 *)
LEMMA RequestsChange ==
  ASSUME [Next]_vars
  PROVE  \/ request' = request
         \/ \E r \in Requests : Finish(r)
         \/ \E r \in Requests : DeleteChange(r)
         \/ \E r \in Requests :
              \/ \E u \in Users, old, new \in Passwords, op \in {"password", "delete"} :
                   ComparePassword(r, u, op, old, new)
              \/ \E a \in Addresses : FindForReset(r, a) \/ \E u \in Users : FindDuplicate(r, u, a)
              \/ \E l \in letters :
                   \/ \E u \in Users : CheckVerification(r, u, l) \/ SelectChange(r, u, l)
                   \/ \E a \in Addresses, new \in Passwords : CheckReset(r, a, l, new)
  BY DEF Next, Step, vars, Register, SendVerificationCode, Expire,
     UpdatePasswordHash, DeleteUser, SavePasswordResetCode,
     SaveEmailChangeCode, MarkEmailVerified, ResetPassword, UpdateEmail, Fail

-----------------------------------------------------------------------------
(* The requests: what each carries, and that it read the letter of its code. *)

LEMMA EnteredGrows ==
  ASSUME [Next]_vars
  PROVE  entered \subseteq entered'
  BY HistoryChanges

LEMMA ReadGrows ==
  ASSUME NEW q, NEW seen, NEW more, seen \subseteq more, Read(q, seen)
  PROVE  Read(q, more)
  BY DEF Read

(* What a step may do to the requests, once: nothing that needs a letter    *)
(* unread.                                                                  *)
Good(q) == q \in RequestType /\ Fit(q) /\ Read(q, entered')

LEMMA ComparePasswordIs ==
  ASSUME Shapes, NEW r \in Requests, NEW u \in Users, NEW old \in Passwords, NEW new \in Passwords,
         NEW op \in {"password", "delete"}, ComparePassword(r, u, op, old, new)
  PROVE  \E q : Good(q) /\ request' = [request EXCEPT ![r] = q]
<1> DEFINE q == [Idle EXCEPT !.op = op, !.pc = "checked", !.user = u,
                          !.new = IF op = "password" THEN new ELSE @]
<1>1. request' = [request EXCEPT ![r] = q]
  BY DEF ComparePassword, Accept
<1>2. q \in RequestType /\ q.op = op /\ q.user = u /\ (op = "password" => q.new = new)
  BY DEF Idle, RequestType
<1> HIDE DEF q
<1>3. Good(q)
  BY <1>2 DEF Good, Fit, Read
<1> QED
  BY <1>1, <1>3

LEMMA FindForResetIs ==
  ASSUME Shapes, NEW r \in Requests, NEW a \in Addresses, FindForReset(r, a)
  PROVE  \E q : Good(q) /\ request' = [request EXCEPT ![r] = q]
<1> DEFINE q == [Idle EXCEPT !.op = "forgot", !.pc = "checked", !.address = a]
<1>1. request' = [request EXCEPT ![r] = q]
  BY DEF FindForReset, Accept
<1>2. q \in RequestType /\ q.op = "forgot" /\ q.address = a
  BY DEF Idle, RequestType
<1> HIDE DEF q
<1>3. Good(q)
  BY <1>2 DEF Good, Fit, Read
<1> QED
  BY <1>1, <1>3

LEMMA FindDuplicateIs ==
  ASSUME Shapes, NEW r \in Requests, NEW u \in Users, NEW a \in Addresses, FindDuplicate(r, u, a)
  PROVE  \E q : Good(q) /\ request' = [request EXCEPT ![r] = q]
<1> DEFINE q == [Idle EXCEPT !.op = "ask", !.pc = "checked", !.user = u, !.address = a]
<1>1. request' = [request EXCEPT ![r] = q]
  BY DEF FindDuplicate, Accept
<1>2. q \in RequestType /\ q.op = "ask" /\ q.address = a /\ q.user = u
  BY DEF Idle, RequestType
<1> HIDE DEF q
<1>3. Good(q)
  BY <1>2 DEF Good, Fit, Read
<1> QED
  BY <1>1, <1>3

(* A code that matches a row is the code of the one letter with it.         *)
LEMMA MatchesIs ==
  ASSUME Shapes, NEW x \in CodeRow \cup {NoCode}, NEW l \in letters, Matches(x, l)
  PROVE  x # NoCode /\ x.code = l.code /\ l.code \in Codes /\ x.to \in Addresses
<1>1. l.code \in Codes /\ x.code = l.code
  BY DEF Shapes, Letter, Matches
<1> QED
  BY <1>1, RowOf

LEMMA CheckVerificationIs ==
  ASSUME Shapes, Numbered, TablesAreSent,
         NEW r \in Requests, NEW u \in Users, NEW l \in letters, CheckVerification(r, u, l)
  PROVE  \E q : Good(q) /\ request' = [request EXCEPT ![r] = q]
<1> DEFINE q == [Idle EXCEPT !.op = "verify", !.pc = "checked", !.user = u, !.code = l.code]
<1>1. request' = [request EXCEPT ![r] = q] /\ l \in entered'
  BY DEF CheckVerification, Accept, Enter
<1>2. verification[u] # NoCode /\ verification[u].code = l.code /\ l.code \in Codes
  BY MatchesIs DEF CheckVerification, Shapes
<1>3. q \in RequestType /\ q.op = "verify" /\ q.user = u /\ q.code = l.code
  BY <1>2 DEF Idle, RequestType
<1> HIDE DEF q
<1>4. SentOut("verification", l, l.code) /\ l.by = u
  BY <1>2 DEF TablesAreSent, Numbered, SentOut
<1>5. Good(q)
  BY <1>1, <1>2, <1>3, <1>4 DEF Good, Fit, Read
<1> QED
  BY <1>1, <1>5

LEMMA CheckResetIs ==
  ASSUME Shapes, Numbered, TablesAreSent,
         NEW r \in Requests, NEW a \in Addresses, NEW l \in letters, NEW new \in Passwords,
         CheckReset(r, a, l, new)
  PROVE  \E q : Good(q) /\ request' = [request EXCEPT ![r] = q]
<1> DEFINE q == [Idle EXCEPT !.op = "reset", !.pc = "checked", !.address = a,
                             !.code = l.code, !.new = new]
<1>1. request' = [request EXCEPT ![r] = q] /\ l \in entered'
  BY DEF CheckReset, Accept, Enter
<1>2. reset[a] # NoCode /\ reset[a].code = l.code /\ l.code \in Codes
  BY MatchesIs DEF CheckReset, Shapes
<1>3. q \in RequestType /\ q.op = "reset" /\ q.address = a /\ q.code = l.code /\ q.new = new
  BY <1>2 DEF Idle, RequestType
<1> HIDE DEF q
<1>4. SentOut("reset", l, l.code) /\ l.to = a
  BY <1>2 DEF TablesAreSent, Numbered, SentOut
<1>5. Good(q)
  BY <1>1, <1>2, <1>3, <1>4 DEF Good, Fit, Read
<1> QED
  BY <1>1, <1>5

LEMMA SelectChangeIs ==
  ASSUME Shapes, Numbered, TablesAreSent,
         NEW r \in Requests, NEW u \in Users, NEW l \in letters, SelectChange(r, u, l)
  PROVE  \E q : Good(q) /\ request' = [request EXCEPT ![r] = q]
<1> DEFINE to == change[u].to
           q == [Idle EXCEPT !.op = "confirm", !.pc = "selected", !.user = u,
                             !.code = l.code, !.address = to]
<1>1. request' = [request EXCEPT ![r] = q] /\ l \in entered'
  BY DEF SelectChange, Accept, Enter
<1>2. change[u] # NoCode /\ change[u].code = l.code /\ l.code \in Codes /\ to \in Addresses
  BY MatchesIs DEF SelectChange, Shapes
<1>3. q \in RequestType /\ q.op = "confirm" /\ q.user = u /\ q.code = l.code /\ q.address = to
  BY <1>2 DEF Idle, RequestType
<1> HIDE DEF q
<1>4. SentOut("change", l, l.code) /\ l.by = u /\ l.to = to
  BY <1>2 DEF TablesAreSent, Numbered, SentOut
<1>5. Good(q)
  BY <1>1, <1>2, <1>3, <1>4 DEF Good, Fit, Read
<1> QED
  BY <1>1, <1>5

LEMMA DeleteChangeIs ==
  ASSUME Shapes, Fits, AllRead, [Next]_vars, NEW r \in Requests, DeleteChange(r)
  PROVE  \E q : Good(q) /\ request' = [request EXCEPT ![r] = q]
<1>0. PICK pc \in {"deleted", "kept"} : request' = [request EXCEPT ![r].pc = pc]
  BY DEF DeleteChange, Advance
<1> DEFINE q == [request[r] EXCEPT !.pc = pc]
<1>1. request' = [request EXCEPT ![r] = q]
  BY <1>0 DEF Shapes
<1>2. /\ q \in RequestType /\ q.op = request[r].op /\ q.user = request[r].user
      /\ q.code = request[r].code /\ q.address = request[r].address /\ q.new = request[r].new
  BY RequestIs DEF RequestType
<1> HIDE DEF q
<1>3. Fit(request[r]) /\ Read(request[r], entered')
  BY EnteredGrows, ReadGrows DEF Fits, AllRead
<1>4. Good(q)
  BY <1>2, <1>3 DEF Good, Fit, Read
<1> QED
  BY <1>1, <1>4

LEMMA RequestsStep ==
  ASSUME Shapes, Fits, AllRead, Numbered, TablesAreSent, [Next]_vars
  PROVE  request' \in [Requests -> RequestType] /\ Fits' /\ AllRead'
<1>1. \/ request' = request
      \/ \E r \in Requests : \E q : Good(q) /\ request' = [request EXCEPT ![r] = q]
  <2>1. ASSUME NEW r \in Requests, Finish(r)
        PROVE  Good(Idle) /\ request' = [request EXCEPT ![r] = Idle]
    BY <2>1, IdleIs DEF Good, Finish
  <2> QED
    BY <2>1, RequestsChange, ComparePasswordIs, FindForResetIs, FindDuplicateIs, CheckVerificationIs,
       CheckResetIs, SelectChangeIs, DeleteChangeIs
<1>2. \A s \in Requests : Good(request[s])
  BY EnteredGrows, ReadGrows, RequestIs DEF Good, Fits, AllRead
<1>3. request' \in [Requests -> RequestType] /\ \A s \in Requests : Good(request'[s])
  <2>1. CASE request' = request
    BY <1>2, <2>1 DEF Shapes
  <2>2. ASSUME NEW r \in Requests, NEW q, Good(q), request' = [request EXCEPT ![r] = q]
        PROVE  request' \in [Requests -> RequestType] /\ \A s \in Requests : Good(request'[s])
    <3>1. q \in RequestType
      BY <2>2 DEF Good
    <3> QED
      BY <1>2, <2>2, <3>1, RequestSet
  <2> QED
    BY <1>1, <2>1, <2>2
<1> QED
  BY <1>3 DEF Good, Fits, AllRead

-----------------------------------------------------------------------------
(* The letters and the tables.                                              *)

(* A code that is saved is a new one, and its letter is handed on.          *)
LEMMA SendIs ==
  ASSUME Shapes, KeyedByAccounts, NEW u \in Users, NEW a \in Addresses, SendVerificationCode(u, a)
  PROVE  /\ u \in Account /\ NewCode \in Codes
         /\ Mail("verification", a, u)
         /\ verification' = [verification EXCEPT ![u] = Row(NewCode, a)]
  BY DEF SendVerificationCode

LEMMA SaveResetIs ==
  ASSUME Fits, NEW r \in Requests, SavePasswordResetCode(r)
  PROVE  /\ request[r].address \in Addresses /\ NewCode \in Codes
         /\ Mail("reset", request[r].address, NoAddress)
         /\ reset' = [reset EXCEPT ![request[r].address] = Row(NewCode, request[r].address)]
<1>1. request[r].op = "forgot" /\ Fit(request[r])
  BY DEF SavePasswordResetCode, At, Fits
<1> QED
  BY <1>1 DEF SavePasswordResetCode, Fit

LEMMA SaveChangeIs ==
  ASSUME Fits, NEW r \in Requests, SaveEmailChangeCode(r)
  PROVE  \/ change' = change /\ letters' = letters
         \/ /\ request[r].user \in Account
            /\ request[r].user \in Users /\ request[r].address \in Addresses /\ NewCode \in Codes
            /\ Mail("change", request[r].address, request[r].user)
            /\ change' = [change EXCEPT ![request[r].user] = Row(NewCode, request[r].address)]
<1>1. request[r].op = "ask" /\ Fit(request[r])
  BY DEF SaveEmailChangeCode, At, Fits
<1> QED
  BY <1>1 DEF SaveEmailChangeCode, Fit

LEMMA LettersStep ==
  ASSUME Shapes, KeyedByAccounts, Fits, Numbered, [Next]_vars
  PROVE  letters' \subseteq Letter /\ letters \subseteq letters' /\ Numbered'
<1>1. letters \subseteq Letter
  BY DEF Shapes
<1>2. CASE letters' = letters
  BY <1>1, <1>2 DEF Numbered
<1>3. ASSUME NEW u \in Users, NEW a \in Addresses, SendVerificationCode(u, a)
      PROVE  letters' \subseteq Letter /\ letters \subseteq letters' /\ Numbered'
  BY <1>1, <1>3, SendIs, MailIs
<1>4. ASSUME NEW r \in Requests, SavePasswordResetCode(r)
      PROVE  letters' \subseteq Letter /\ letters \subseteq letters' /\ Numbered'
  BY <1>1, <1>4, SaveResetIs, MailIs
<1>5. ASSUME NEW r \in Requests, SaveEmailChangeCode(r)
      PROVE  letters' \subseteq Letter /\ letters \subseteq letters' /\ Numbered'
  BY <1>1, <1>2, <1>5, SaveChangeIs, MailIs
<1> QED
  BY <1>2, <1>3, <1>4, <1>5, LettersChange

(* A row stays, goes, or comes with a new code and its letter.              *)
LEMMA VerificationRows ==
  ASSUME Shapes, KeyedByAccounts, Fits, Numbered, [Next]_vars
  PROVE  /\ verification' \in [Users -> CodeRow \cup {NoCode}]
         /\ \A u \in Users :
              \/ verification'[u] = verification[u]
              \/ verification'[u] = NoCode
              \/ /\ verification'[u] \in CodeRow /\ verification'[u].code = NewCode
                 /\ u \in Account /\ email' = email
                 /\ \E l \in letters' : SentOut("verification", l, NewCode) /\ l.by = u
<1>1. verification \in [Users -> CodeRow \cup {NoCode}] /\ letters \subseteq Letter
  BY DEF Shapes
<1>2. CASE verification' = verification
  BY <1>1, <1>2
<1>3. CASE Expire
  BY <1>1, <1>3 DEF Expire
<1>4. ASSUME NEW r \in Requests, DeleteUser(r) \/ MarkEmailVerified(r)
      PROVE  \E u \in Users : verification' = [verification EXCEPT ![u] = NoCode]
  <2>1. request[r].op \in {"delete", "verify"} /\ Fit(request[r])
    BY <1>4 DEF DeleteUser, MarkEmailVerified, At, Fits
  <2>2. request[r].user \in Users
    BY <2>1 DEF Fit
  <2> QED
    BY <1>4, <2>2 DEF DeleteUser, MarkEmailVerified
<1>5. ASSUME NEW u \in Users, verification' = [verification EXCEPT ![u] = NoCode]
      PROVE  /\ verification' \in [Users -> CodeRow \cup {NoCode}]
             /\ \A v \in Users : verification'[v] = verification[v] \/ verification'[v] = NoCode
  BY <1>1, <1>5
<1>6. ASSUME NEW u \in Users, NEW a \in Addresses, SendVerificationCode(u, a)
      PROVE  /\ verification' \in [Users -> CodeRow \cup {NoCode}]
             /\ \A v \in Users :
                  \/ verification'[v] = verification[v]
                  \/ /\ verification'[v] \in CodeRow /\ verification'[v].code = NewCode
                     /\ v \in Account /\ email' = email
                     /\ \E l \in letters' : SentOut("verification", l, NewCode) /\ l.by = v
  <2>1. /\ u \in Account /\ NewCode \in Codes
        /\ verification' = [verification EXCEPT ![u] = Row(NewCode, a)]
    BY <1>6, SendIs
  <2>2. \E l \in letters' : SentOut("verification", l, NewCode) /\ l.by = u
    BY <1>1, <1>6, SendIs, MailIs
  <2>3. Row(NewCode, a) \in CodeRow /\ Row(NewCode, a).code = NewCode
    BY <2>1, RowIs
  <2>4. email' = email
    BY <1>6 DEF SendVerificationCode, accounts
  <2> QED
    BY <1>1, <2>1, <2>2, <2>3, <2>4
<1> QED
  BY <1>2, <1>3, <1>4, <1>5, <1>6, TablesChange

LEMMA ResetRows ==
  ASSUME Shapes, Fits, Numbered, [Next]_vars
  PROVE  /\ reset' \in [Addresses -> CodeRow \cup {NoCode}]
         /\ \A a \in Addresses :
              \/ reset'[a] = reset[a]
              \/ reset'[a] = NoCode
              \/ /\ reset'[a] \in CodeRow /\ reset'[a].code = NewCode
                 /\ \E l \in letters' : SentOut("reset", l, NewCode) /\ l.to = a
<1>1. reset \in [Addresses -> CodeRow \cup {NoCode}] /\ letters \subseteq Letter
  BY DEF Shapes
<1>2. CASE reset' = reset
  BY <1>1, <1>2
<1>3. CASE Expire
  BY <1>1, <1>3 DEF Expire
<1>4. ASSUME NEW r \in Requests, ResetPassword(r)
      PROVE  /\ reset' \in [Addresses -> CodeRow \cup {NoCode}]
             /\ \A a \in Addresses : reset'[a] = reset[a] \/ reset'[a] = NoCode
  BY <1>1, <1>4 DEF ResetPassword
<1>5. ASSUME NEW r \in Requests, SavePasswordResetCode(r)
      PROVE  /\ reset' \in [Addresses -> CodeRow \cup {NoCode}]
             /\ \A a \in Addresses :
                  \/ reset'[a] = reset[a]
                  \/ /\ reset'[a] \in CodeRow /\ reset'[a].code = NewCode
                     /\ \E l \in letters' : SentOut("reset", l, NewCode) /\ l.to = a
  <2> DEFINE b == request[r].address
  <2>1. /\ b \in Addresses /\ NewCode \in Codes /\ Mail("reset", b, NoAddress)
        /\ reset' = [reset EXCEPT ![b] = Row(NewCode, b)]
    BY <1>5, SaveResetIs
  <2> HIDE DEF b
  <2>2. \E l \in letters' : SentOut("reset", l, NewCode) /\ l.to = b
    BY <1>1, <2>1, MailIs
  <2>3. Row(NewCode, b) \in CodeRow /\ Row(NewCode, b).code = NewCode
    BY <2>1, RowIs
  <2> QED
    BY <1>1, <2>1, <2>2, <2>3
<1> QED
  BY <1>2, <1>3, <1>4, <1>5, TablesChange

LEMMA ChangeRows ==
  ASSUME Shapes, Fits, Numbered, [Next]_vars
  PROVE  /\ change' \in [Users -> CodeRow \cup {NoCode}]
         /\ \A u \in Users :
              \/ change'[u] = change[u]
              \/ change'[u] = NoCode
              \/ /\ change'[u] \in CodeRow /\ change'[u].code = NewCode
                 /\ u \in Account /\ email' = email
                 /\ \E l \in letters' : SentOut("change", l, NewCode) /\ l.by = u /\ l.to = change'[u].to
<1>1. change \in [Users -> CodeRow \cup {NoCode}] /\ letters \subseteq Letter
  BY DEF Shapes
<1>2. CASE change' = change
  BY <1>1, <1>2
<1>3. CASE Expire
  BY <1>1, <1>3 DEF Expire
<1>4. ASSUME NEW r \in Requests, DeleteUser(r) \/ DeleteChange(r)
      PROVE  /\ change' \in [Users -> CodeRow \cup {NoCode}]
             /\ \A v \in Users : change'[v] = change[v] \/ change'[v] = NoCode
  BY <1>1, <1>4 DEF DeleteUser, DeleteChange
<1>5. ASSUME NEW r \in Requests, SaveEmailChangeCode(r)
      PROVE  /\ change' \in [Users -> CodeRow \cup {NoCode}]
             /\ \A u \in Users :
                  \/ change'[u] = change[u]
                  \/ /\ change'[u] \in CodeRow /\ change'[u].code = NewCode
                     /\ u \in Account /\ email' = email
                     /\ \E l \in letters' : SentOut("change", l, NewCode) /\ l.by = u /\ l.to = change'[u].to
  <2> DEFINE u == request[r].user
             a == request[r].address
  <2>1. \/ change' = change
        \/ /\ u \in Account /\ u \in Users /\ a \in Addresses /\ NewCode \in Codes
           /\ Mail("change", a, u)
           /\ change' = [change EXCEPT ![u] = Row(NewCode, a)]
    BY <1>5, SaveChangeIs
  <2>2. email' = email
    BY <1>5 DEF SaveEmailChangeCode, accounts
  <2> HIDE DEF u, a
  <2>3. CASE /\ u \in Account /\ u \in Users /\ a \in Addresses /\ NewCode \in Codes
             /\ Mail("change", a, u)
             /\ change' = [change EXCEPT ![u] = Row(NewCode, a)]
    <3>1. \E l \in letters' : SentOut("change", l, NewCode) /\ l.to = a /\ l.by = u
      BY <1>1, <2>3, MailIs
    <3>2. Row(NewCode, a) \in CodeRow /\ Row(NewCode, a).code = NewCode /\ Row(NewCode, a).to = a
      BY <2>3, RowIs
    <3> QED
      BY <1>1, <2>2, <2>3, <3>1, <3>2
  <2> QED
    BY <1>1, <2>1, <2>3
<1> QED
  BY <1>2, <1>3, <1>4, <1>5, TablesChange

LEMMA TablesAreSentStep ==
  ASSUME Shapes, KeyedByAccounts, Fits, Numbered, TablesAreSent, [Next]_vars
  PROVE  TablesAreSent'
<1>1. letters \subseteq letters'
  BY LettersStep
<1>2. ASSUME NEW u \in Users, verification'[u] # NoCode
      PROVE  \E l \in letters' : SentOut("verification", l, verification'[u].code) /\ l.by = u
  <2>1. CASE verification'[u] = verification[u]
    BY <1>1, <1>2, <2>1 DEF TablesAreSent
  <2> QED
    BY <1>2, <2>1, VerificationRows
<1>3. ASSUME NEW a \in Addresses, reset'[a] # NoCode
      PROVE  \E l \in letters' : SentOut("reset", l, reset'[a].code) /\ l.to = a
  <2>1. CASE reset'[a] = reset[a]
    BY <1>1, <1>3, <2>1 DEF TablesAreSent
  <2> QED
    BY <1>3, <2>1, ResetRows
<1>4. ASSUME NEW u \in Users, change'[u] # NoCode
      PROVE  \E l \in letters' :
               SentOut("change", l, change'[u].code) /\ l.by = u /\ l.to = change'[u].to
  <2>1. CASE change'[u] = change[u]
    BY <1>1, <1>4, <2>1 DEF TablesAreSent
  <2> QED
    BY <1>4, <2>1, ChangeRows
<1> QED
  BY <1>2, <1>3, <1>4 DEF TablesAreSent, SentOut

-----------------------------------------------------------------------------
(* The accounts.                                                            *)

(* An address stays, goes with its account and the codes of it, comes with  *)
(* the account, or is the one of a request that confirmed it.               *)
LEMMA AccountRows ==
  ASSUME Shapes, Fits, [Next]_vars
  PROVE  /\ home' \in [Users -> Addresses \cup {NoAddress}]
         /\ email' \in [Users -> Addresses \cup {NoAddress}]
         /\ \A u \in Users :
              \/ home'[u] = home[u]
              \/ home[u] = NoAddress /\ home'[u] \in Addresses /\ email'[u] = home'[u]
         /\ \A u \in Users :
              \/ email'[u] = email[u]
              \/ email'[u] = NoAddress /\ verification'[u] = NoCode /\ change'[u] = NoCode
              \/ home'[u] \in Addresses /\ email'[u] = home'[u]
              \/ /\ u \in Account /\ email'[u] \in Addresses
                 /\ \E r \in Requests : /\ request[r].op = "confirm"
                                        /\ request[r].user = u /\ request[r].address = email'[u]
<1>1. /\ home \in [Users -> Addresses \cup {NoAddress}]
      /\ email \in [Users -> Addresses \cup {NoAddress}]
      /\ verification \in [Users -> CodeRow \cup {NoCode}]
      /\ change \in [Users -> CodeRow \cup {NoCode}]
  BY DEF Shapes
<1>2. CASE home' = home /\ email' = email
  BY <1>1, <1>2
<1>3. ASSUME NEW v \in Users, NEW a \in Addresses, NEW new \in Passwords, Register(v, a, new)
      PROVE  /\ home' \in [Users -> Addresses \cup {NoAddress}]
             /\ email' \in [Users -> Addresses \cup {NoAddress}]
             /\ \A u \in Users :
                  \/ home'[u] = home[u] /\ email'[u] = email[u]
                  \/ home[u] = NoAddress /\ home'[u] \in Addresses /\ email'[u] = home'[u]
  BY <1>1, <1>3 DEF Register
<1>4. ASSUME NEW r \in Requests, DeleteUser(r)
      PROVE  /\ home' = home
             /\ email' \in [Users -> Addresses \cup {NoAddress}]
             /\ \A u \in Users :
                  \/ email'[u] = email[u]
                  \/ email'[u] = NoAddress /\ verification'[u] = NoCode /\ change'[u] = NoCode
  <2> DEFINE v == request[r].user
  <2>1. request[r].op = "delete" /\ Fit(request[r])
    BY <1>4 DEF DeleteUser, At, Fits
  <2>2. v \in Users
    BY <2>1 DEF Fit
  <2>3. /\ home' = home /\ email' = [email EXCEPT ![v] = NoAddress]
        /\ verification' = [verification EXCEPT ![v] = NoCode]
        /\ change' = [change EXCEPT ![v] = NoCode]
    BY <1>4 DEF DeleteUser
  <2> HIDE DEF v
  <2> QED
    BY <1>1, <2>2, <2>3
<1>5. ASSUME NEW r \in Requests, UpdateEmail(r)
      PROVE  /\ home' = home
             /\ email' \in [Users -> Addresses \cup {NoAddress}]
             /\ \A u \in Users :
                  \/ email'[u] = email[u]
                  \/ /\ u \in Account /\ email'[u] \in Addresses
                     /\ request[r].op = "confirm"
                     /\ request[r].user = u /\ request[r].address = email'[u]
  <2> DEFINE v == request[r].user
             a == request[r].address
  <2>1. request[r].op = "confirm" /\ Fit(request[r])
    BY <1>5 DEF UpdateEmail, At, Fits
  <2>2. v \in Users /\ a \in Addresses
    BY <2>1 DEF Fit
  <2>3. /\ home' = home
        /\ email' = email \/ (v \in Account /\ email' = [email EXCEPT ![v] = a])
    BY <1>5 DEF UpdateEmail
  <2>4. request[r].user = v /\ request[r].address = a
    OBVIOUS
  <2> HIDE DEF v, a
  <2>5. CASE email' = email
    BY <1>1, <2>3, <2>5
  <2>6. CASE v \in Account /\ email' = [email EXCEPT ![v] = a]
    BY <1>1, <2>1, <2>2, <2>3, <2>4, <2>6
  <2> QED
    BY <2>3, <2>5, <2>6
<1>6. \/ home' = home /\ email' = email
      \/ \E u \in Users, a \in Addresses, new \in Passwords : Register(u, a, new)
      \/ \E r \in Requests : DeleteUser(r) \/ UpdateEmail(r)
  BY AccountsChange
<1>7. CASE \E u \in Users, a \in Addresses, new \in Passwords : Register(u, a, new)
  BY <1>3, <1>7
<1>8. CASE \E r \in Requests : DeleteUser(r)
  BY <1>1, <1>4, <1>8
<1>9. CASE \E r \in Requests : UpdateEmail(r)
  BY <1>1, <1>5, <1>9
<1> QED
  BY <1>2, <1>6, <1>7, <1>8, <1>9

LEMMA PasswordsShape ==
  ASSUME Shapes, Fits, [Next]_vars
  PROVE  password' \in [Users -> Passwords \cup {"none"}] /\ verified' \in [Users -> BOOLEAN]
<1>1. password \in [Users -> Passwords \cup {"none"}] /\ verified \in [Users -> BOOLEAN]
  BY DEF Shapes
<1>2. ASSUME NEW r \in Requests, UpdatePasswordHash(r) PROVE password' \in [Users -> Passwords \cup {"none"}]
  <2>1. request[r].op = "password" /\ Fit(request[r])
    BY <1>2 DEF UpdatePasswordHash, At, Fits
  <2>2. request[r].new \in Passwords
    BY <2>1 DEF Fit
  <2> QED
    BY <1>1, <1>2, <2>2 DEF UpdatePasswordHash
<1>3. ASSUME NEW r \in Requests, ResetPassword(r) PROVE password' \in [Users -> Passwords \cup {"none"}]
  <2>1. request[r].op = "reset" /\ Fit(request[r])
    BY <1>3 DEF ResetPassword, At, Fits
  <2>2. request[r].new \in Passwords
    BY <2>1 DEF Fit
  <2> QED
    BY <1>1, <1>3, <2>2 DEF ResetPassword
<1>4. ASSUME NEW u \in Users, NEW a \in Addresses, NEW new \in Passwords, Register(u, a, new)
      PROVE  password' \in [Users -> Passwords \cup {"none"}] /\ verified' \in [Users -> BOOLEAN]
  BY <1>1, <1>4 DEF Register
<1>5. ASSUME NEW r \in Requests, MarkEmailVerified(r) PROVE verified' \in [Users -> BOOLEAN]
  BY <1>1, <1>5 DEF MarkEmailVerified
<1>6. ASSUME NEW r \in Requests, DeleteUser(r)
      PROVE  password' \in [Users -> Passwords \cup {"none"}] /\ verified' \in [Users -> BOOLEAN]
  BY <1>1, <1>6 DEF DeleteUser
<1> QED
  BY <1>1, <1>2, <1>3, <1>4, <1>5, <1>6, AccountsChange

LEMMA KeyedByAccountsStep ==
  ASSUME Shapes, KeyedByAccounts, Fits, Numbered, [Next]_vars
  PROVE  KeyedByAccounts'
<1> SUFFICES ASSUME NEW u \in Users
             PROVE  /\ verification'[u] # NoCode \/ change'[u] # NoCode => email'[u] # NoAddress
                    /\ email'[u] # NoAddress => home'[u] # NoAddress
  BY DEF KeyedByAccounts, Account
<1>1. /\ verification[u] # NoCode \/ change[u] # NoCode => email[u] # NoAddress
      /\ email[u] # NoAddress => home[u] # NoAddress
  BY DEF KeyedByAccounts, Account
<1>2. u \in Account <=> email[u] # NoAddress
  BY DEF Account
<1>3. NoAddress \notin Addresses
  BY CodesAssumption
<1>4. \/ home'[u] = home[u]
      \/ home[u] = NoAddress /\ home'[u] \in Addresses /\ email'[u] = home'[u]
  BY AccountRows
<1>5. \/ email'[u] = email[u]
      \/ email'[u] = NoAddress /\ verification'[u] = NoCode /\ change'[u] = NoCode
      \/ home'[u] \in Addresses /\ email'[u] = home'[u]
      \/ u \in Account /\ email'[u] \in Addresses
  BY AccountRows
<1>6. verification'[u] # NoCode => verification'[u] = verification[u] \/ (u \in Account /\ email' = email)
  BY VerificationRows
<1>7. change'[u] # NoCode => change'[u] = change[u] \/ (u \in Account /\ email' = email)
  BY ChangeRows
<1> QED
  BY <1>1, <1>2, <1>3, <1>4, <1>5, <1>6, <1>7

(* The codes that are spent.                                                *)
LEMMA SpendIs ==
  ASSUME Fits, AllRead, NEW r \in Requests,
         MarkEmailVerified(r) \/ ResetPassword(r) \/ UpdateEmail(r)
  PROVE  /\ request[r].code \in Codes
         /\ \E l \in entered :
              /\ l.code = request[r].code
              /\ MarkEmailVerified(r) => l.kind = "verification" /\ l.by = request[r].user
              /\ ResetPassword(r) => l.kind = "reset" /\ l.to = request[r].address
              /\ UpdateEmail(r) => l.kind = "change"
<1>0. Fit(request[r]) /\ Read(request[r], entered)
  BY DEF Fits, AllRead
<1>1. /\ MarkEmailVerified(r) <=> MarkEmailVerified(r) /\ request[r].op = "verify"
      /\ ResetPassword(r) <=> ResetPassword(r) /\ request[r].op = "reset"
      /\ UpdateEmail(r) <=> UpdateEmail(r) /\ request[r].op = "confirm"
  BY DEF MarkEmailVerified, ResetPassword, UpdateEmail, At
<1>2. request[r].code \in Codes
  BY <1>0, <1>1 DEF Fit
<1> QED
  BY <1>0, <1>1, <1>2 DEF Read, SentOut

LEMMA HistoryShape ==
  ASSUME Shapes, KeyedByAccounts, Fits, Numbered, AllRead, [Next]_vars
  PROVE  entered' \subseteq letters' /\ spent' \subseteq Codes
<1>1. letters \subseteq letters' /\ entered \subseteq letters /\ spent \subseteq Codes
  BY LettersStep DEF Shapes
<1>2. entered' \subseteq letters'
  BY <1>1, HistoryChanges
<1>3. spent' \subseteq Codes
  BY <1>1, HistoryChanges, SpendIs
<1> QED
  BY <1>2, <1>3

LEMMA ShapesStep ==
  ASSUME Shapes, KeyedByAccounts, Fits, Numbered, TablesAreSent, AllRead, [Next]_vars
  PROVE  Shapes'
  BY AccountRows, PasswordsShape, VerificationRows, ResetRows, ChangeRows, LettersStep, HistoryShape,
     RequestsStep DEF Shapes

LEMMA SpentWasSentStep ==
  ASSUME Shapes, KeyedByAccounts, Fits, Numbered, AllRead, SpentWasSent, [Next]_vars
  PROVE  SpentWasSent'
<1>1. letters \subseteq letters' /\ entered \subseteq letters
  BY LettersStep DEF Shapes
<1>2. ASSUME NEW c \in spent' PROVE \E l \in letters' : l.code = c
  <2>1. CASE c \in spent
    BY <1>1, <2>1 DEF SpentWasSent
  <2>2. ASSUME NEW r \in Requests, MarkEmailVerified(r) \/ ResetPassword(r) \/ UpdateEmail(r),
               c = request[r].code
        PROVE  \E l \in letters' : l.code = c
    BY <1>1, <2>2, SpendIs
  <2> QED
    BY <1>2, <2>1, <2>2, HistoryChanges
<1> QED
  BY <1>2 DEF SpentWasSent

-----------------------------------------------------------------------------
(* Addresses, codes and passwords.                                          *)

LEMMA AddressProvenStep ==
  ASSUME Shapes, KeyedByAccounts, Fits, AllRead, AddressProven, [Next]_vars
  PROVE  AddressProven'
<1> SUFFICES ASSUME NEW u \in Users, email'[u] # NoAddress
             PROVE  email'[u] = home'[u]
                    \/ \E l \in entered' : l.kind = "change" /\ l.by = u /\ l.to = email'[u]
  BY DEF AddressProven, Account, Proven
<1>1. entered \subseteq entered'
  BY EnteredGrows
<1>2. CASE email'[u] = email[u]
  <2>1. u \in Account
    BY <1>2 DEF Account
  <2>2. home[u] # NoAddress /\ (email[u] = home[u] \/ Proven(u, email[u]))
    BY <2>1 DEF KeyedByAccounts, AddressProven
  <2>3. home'[u] = home[u]
    BY <2>2, AccountRows
  <2> QED
    BY <1>1, <1>2, <2>2, <2>3 DEF Proven
<1>3. ASSUME NEW r \in Requests, request[r].op = "confirm", request[r].user = u,
             request[r].address = email'[u]
      PROVE  \E l \in entered' : l.kind = "change" /\ l.by = u /\ l.to = email'[u]
  BY <1>1, <1>3 DEF AllRead, Read, SentOut
<1> QED
  BY <1>2, <1>3, AccountRows

(* A request comes to "deleted" by its own DELETE only.                     *)
LEMMA DeletedBy ==
  ASSUME Shapes, [Next]_vars, NEW r \in Requests,
         request'[r].op = "confirm", request'[r].pc = "deleted"
  PROVE  \/ request'[r] = request[r]
         \/ /\ DeleteChange(r) /\ At(r, "confirm", "selected")
            /\ request'[r].code = request[r].code
            /\ change' = [change EXCEPT ![request[r].user] = NoCode]
<1>1. request \in [Requests -> RequestType]
  BY DEF Shapes
<1>2. ASSUME NEW s \in Requests, NEW q, request' = [request EXCEPT ![s] = q], q.pc # "deleted"
      PROVE  request'[r] = request[r]
  BY <1>1, <1>2
<1>3. ASSUME NEW s \in Requests, Finish(s) PROVE request'[r] = request[r]
  BY <1>2, <1>3, IdleIs DEF Finish
<1>4. ASSUME NEW s \in Requests, NEW u \in Users, NEW old \in Passwords, NEW new \in Passwords,
             NEW op \in {"password", "delete"}, ComparePassword(s, u, op, old, new)
      PROVE  request'[r] = request[r]
  BY <1>2, <1>4 DEF ComparePassword, Accept, Idle
<1>5. ASSUME NEW s \in Requests, NEW a \in Addresses,
             FindForReset(s, a) \/ \E u \in Users : FindDuplicate(s, u, a)
      PROVE  request'[r] = request[r]
  <2>1. CASE FindForReset(s, a)
    BY <1>2, <2>1 DEF FindForReset, Accept, Idle
  <2>2. ASSUME NEW u \in Users, FindDuplicate(s, u, a) PROVE request'[r] = request[r]
    BY <1>2, <2>2 DEF FindDuplicate, Accept, Idle
  <2> QED
    BY <1>5, <2>1, <2>2
<1>6. ASSUME NEW s \in Requests, NEW l \in letters,
             \/ \E u \in Users : CheckVerification(s, u, l) \/ SelectChange(s, u, l)
             \/ \E a \in Addresses, new \in Passwords : CheckReset(s, a, l, new)
      PROVE  request'[r] = request[r]
  <2>1. ASSUME NEW u \in Users, CheckVerification(s, u, l) PROVE request'[r] = request[r]
    BY <1>2, <2>1 DEF CheckVerification, Enter, Accept, Idle
  <2>2. ASSUME NEW u \in Users, SelectChange(s, u, l) PROVE request'[r] = request[r]
    BY <1>2, <2>2 DEF SelectChange, Enter, Accept, Idle
  <2>3. ASSUME NEW a \in Addresses, NEW new \in Passwords, CheckReset(s, a, l, new)
        PROVE  request'[r] = request[r]
    BY <1>2, <2>3 DEF CheckReset, Enter, Accept, Idle
  <2> QED
    BY <1>6, <2>1, <2>2, <2>3
<1>7. ASSUME NEW s \in Requests, DeleteChange(s), request'[r] # request[r]
      PROVE  /\ s = r /\ At(r, "confirm", "selected")
             /\ request'[r].code = request[r].code
             /\ change' = [change EXCEPT ![request[r].user] = NoCode]
  <2>1. PICK pc \in {"deleted", "kept"} :
          /\ request' = [request EXCEPT ![s].pc = pc]
          /\ pc = "deleted" => change' = [change EXCEPT ![request[s].user] = NoCode]
    BY <1>7 DEF DeleteChange, Advance
  <2>2. s = r
    BY <1>1, <1>7, <2>1
  <2>3. request'[r] = [request[r] EXCEPT !.pc = pc] /\ request[r] \in RequestType
    BY <1>1, <2>1, <2>2
  <2>4. request'[r].pc = pc /\ request'[r].code = request[r].code
    BY <2>3 DEF RequestType
  <2> QED
    BY <1>7, <2>1, <2>2, <2>4 DEF DeleteChange
<1> QED
  BY <1>3, <1>4, <1>5, <1>6, <1>7, RequestsChange

(* The code of a change whose row was deleted comes into no row again.      *)
LEMMA DeletedIsGoneStep ==
  ASSUME Shapes, Fits, Numbered, TablesAreSent, AllRead, DeletedIsGone, [Next]_vars
  PROVE  DeletedIsGone'
<1> SUFFICES ASSUME NEW r \in Requests, request'[r].op = "confirm", request'[r].pc = "deleted",
                    NEW u \in Users
             PROVE  change'[u].code # request'[r].code
  BY DEF DeletedIsGone, At
<1>1. /\ letters \subseteq Letter /\ entered \subseteq letters
      /\ change \in [Users -> CodeRow \cup {NoCode}]
  BY DEF Shapes
<1>2. request'[r].code = request[r].code /\ request[r].op = "confirm"
  BY DeletedBy DEF At
<1>3. Fit(request[r]) /\ Read(request[r], entered)
  BY DEF Fits, AllRead
<1>4. request[r].code \in Codes
  BY <1>2, <1>3 DEF Fit
<1>5. PICK l \in entered : SentOut("change", l, request[r].code) /\ l.by = request[r].user
  BY <1>2, <1>3 DEF Read
<1>6. l \in letters /\ l.code = request[r].code /\ l.code # NewCode
  BY <1>1, <1>5, NewCodeIsNew DEF SentOut
<1>7. NoCode.code # request[r].code
  BY <1>4, CodesAssumption DEF NoCode, Codes
<1>8. CASE change'[u] = NoCode
  BY <1>2, <1>7, <1>8
<1>9. CASE change'[u].code = NewCode
  BY <1>2, <1>6, <1>9
<1>10. CASE change'[u] = change[u] /\ change[u] # NoCode
  <2>1. CASE request'[r] = request[r]
    BY <1>10, <2>1 DEF DeletedIsGone, At
  <2>2. CASE change' = [change EXCEPT ![request[r].user] = NoCode]
    <3>1. PICK k \in letters : SentOut("change", k, change[u].code) /\ k.by = u
      BY <1>10 DEF TablesAreSent
    <3>2. CASE change[u].code = request[r].code
      <4>1. k = l
        BY <1>6, <3>1, <3>2 DEF SentOut, Numbered
      <4>2. u = request[r].user
        BY <1>5, <3>1, <4>1
      <4> QED
        BY <1>1, <1>10, <2>2, <4>2
    <3> QED
      BY <1>2, <1>10, <3>2
  <2> QED
    BY <2>1, <2>2, DeletedBy
<1> QED
  BY <1>8, <1>9, <1>10, ChangeRows

(* Codes that are still in a table: an old row is spared by the step that   *)
(* spends a code, because no two letters share one, and a new code is not   *)
(* among the spent.                                                         *)
LEMMA SpentIsGoneStep ==
  ASSUME Shapes, KeyedByAccounts, Fits, Numbered, TablesAreSent, AllRead, SpentWasSent,
         DeletedIsGone, SpentIsGone, [Next]_vars
  PROVE  SpentIsGone'
<1>1. letters \subseteq Letter /\ entered \subseteq letters /\ spent \subseteq Codes
  BY DEF Shapes
<1>2. NewCode \notin spent
  BY <1>1, NewCodeIsNew DEF SpentWasSent
<1>3. \A r \in Requests : MarkEmailVerified(r) \/ ResetPassword(r) \/ UpdateEmail(r) =>
        request[r].code # NewCode
  BY <1>1, NewCodeIsNew, SpendIs
<1>4. spent' \subseteq Codes /\ 0 \notin Codes
  BY HistoryShape, CodesAssumption DEF Codes
<1>5. NewCode \notin spent'
  BY <1>2, <1>3, HistoryChanges
<1>6. NoCode.code \notin spent'
  BY <1>4 DEF NoCode
<1>7. ASSUME NEW u \in Users PROVE verification'[u].code \notin spent'
  <2>1. CASE verification'[u] = verification[u] /\ verification[u] # NoCode
    <3>1. verification[u].code \notin spent
      BY DEF SpentIsGone
    <3>2. PICK l \in letters : SentOut("verification", l, verification[u].code) /\ l.by = u
      BY <2>1 DEF TablesAreSent
    <3>3. ASSUME NEW r \in Requests, MarkEmailVerified(r) \/ ResetPassword(r) \/ UpdateEmail(r),
                 request[r].code = verification[u].code
          PROVE  FALSE
      <4>1. PICK k \in entered :
              /\ k.code = request[r].code
              /\ MarkEmailVerified(r) => k.kind = "verification" /\ k.by = request[r].user
              /\ ResetPassword(r) => k.kind = "reset" /\ k.to = request[r].address
              /\ UpdateEmail(r) => k.kind = "change"
        BY <3>3, SpendIs
      <4>2. k = l
        BY <1>1, <3>2, <3>3, <4>1 DEF SentOut, Numbered
      <4>3. MarkEmailVerified(r) /\ u = request[r].user
        BY <3>2, <3>3, <4>1, <4>2 DEF SentOut
      <4>4. verification'[u] = NoCode
        BY <4>3 DEF MarkEmailVerified, Shapes
      <4> QED
        BY <2>1, <4>4
    <3>4. verification[u].code \notin spent'
      BY <3>1, <3>3, HistoryChanges
    <3> QED
      BY <2>1, <3>4
  <2>2. CASE verification'[u] = NoCode
    BY <1>6, <2>2
  <2>3. CASE verification'[u].code = NewCode
    BY <1>5, <2>3
  <2> QED
    BY <2>1, <2>2, <2>3, VerificationRows
<1>8. ASSUME NEW a \in Addresses PROVE reset'[a].code \notin spent'
  <2>1. CASE reset'[a] = reset[a] /\ reset[a] # NoCode
    <3>1. reset[a].code \notin spent
      BY DEF SpentIsGone
    <3>2. PICK l \in letters : SentOut("reset", l, reset[a].code) /\ l.to = a
      BY <2>1 DEF TablesAreSent
    <3>3. ASSUME NEW r \in Requests, MarkEmailVerified(r) \/ ResetPassword(r) \/ UpdateEmail(r),
                 request[r].code = reset[a].code
          PROVE  FALSE
      <4>1. PICK k \in entered :
              /\ k.code = request[r].code
              /\ MarkEmailVerified(r) => k.kind = "verification" /\ k.by = request[r].user
              /\ ResetPassword(r) => k.kind = "reset" /\ k.to = request[r].address
              /\ UpdateEmail(r) => k.kind = "change"
        BY <3>3, SpendIs
      <4>2. k = l
        BY <1>1, <3>2, <3>3, <4>1 DEF SentOut, Numbered
      <4>3. ResetPassword(r) /\ a = request[r].address
        BY <3>2, <3>3, <4>1, <4>2 DEF SentOut
      <4>4. reset'[a] = NoCode
        BY <4>3 DEF ResetPassword, Shapes
      <4> QED
        BY <2>1, <4>4
    <3>4. reset[a].code \notin spent'
      BY <3>1, <3>3, HistoryChanges
    <3> QED
      BY <2>1, <3>4
  <2>2. CASE reset'[a] = NoCode
    BY <1>6, <2>2
  <2>3. CASE reset'[a].code = NewCode
    BY <1>5, <2>3
  <2> QED
    BY <2>1, <2>2, <2>3, ResetRows
<1>9. ASSUME NEW u \in Users PROVE change'[u].code \notin spent'
  <2>1. CASE change'[u] = change[u] /\ change[u] # NoCode
    <3>1. change[u].code \notin spent
      BY DEF SpentIsGone
    <3>2. PICK l \in letters : SentOut("change", l, change[u].code) /\ l.by = u
      BY <2>1 DEF TablesAreSent
    <3>3. ASSUME NEW r \in Requests, MarkEmailVerified(r) \/ ResetPassword(r) \/ UpdateEmail(r),
                 UpdateEmail(r) => At(r, "confirm", "deleted"), request[r].code = change[u].code
          PROVE  FALSE
      <4>1. PICK k \in entered :
              /\ k.code = request[r].code
              /\ MarkEmailVerified(r) => k.kind = "verification" /\ k.by = request[r].user
              /\ ResetPassword(r) => k.kind = "reset" /\ k.to = request[r].address
              /\ UpdateEmail(r) => k.kind = "change"
        BY <3>3, SpendIs
      <4>2. k = l
        BY <1>1, <3>2, <3>3, <4>1 DEF SentOut, Numbered
      <4>3. At(r, "confirm", "deleted")
        BY <3>2, <3>3, <4>1, <4>2 DEF SentOut
      <4> QED
        BY <3>3, <4>3 DEF DeletedIsGone
    <3>4. change[u].code \notin spent'
      BY <3>1, <3>3, HistoryChanges
    <3> QED
      BY <2>1, <3>4
  <2>2. CASE change'[u] = NoCode
    BY <1>6, <2>2
  <2>3. CASE change'[u].code = NewCode
    BY <1>5, <2>3
  <2> QED
    BY <2>1, <2>2, <2>3, ChangeRows
<1> QED
  BY <1>7, <1>8, <1>9 DEF SpentIsGone

-----------------------------------------------------------------------------
(* The theorems.                                                            *)

LEMMA InitInvariant == Init => IInv
<1> SUFFICES ASSUME Init PROVE IInv
  OBVIOUS
<1> USE DEF Init
<1>1. request \in [Requests -> RequestType] /\ \A r \in Requests : request[r] = Idle
  BY IdleIs
<1>2. Shapes
  BY <1>1 DEF Shapes
<1>3. KeyedByAccounts
  BY DEF KeyedByAccounts, Account
<1>4. Fits /\ AllRead
  BY <1>1, IdleIs DEF Fits, AllRead
<1>5. Numbered
  BY FS_EmptySet DEF Numbered
<1>6. TablesAreSent /\ SpentWasSent
  BY DEF TablesAreSent, SpentWasSent
<1>7. AddressProven /\ SpentIsGone /\ DeletedIsGone
  BY <1>1, IdleIs DEF AddressProven, SpentIsGone, DeletedIsGone, Account, At
<1> QED
  BY <1>2, <1>3, <1>4, <1>5, <1>6, <1>7 DEF IInv

LEMMA StepInvariant == IInv /\ [Next]_vars => IInv'
<1> SUFFICES ASSUME IInv, [Next]_vars PROVE IInv'
  OBVIOUS
<1> USE DEF IInv
<1>1. Shapes' /\ KeyedByAccounts' /\ Fits' /\ AllRead'
  BY ShapesStep, KeyedByAccountsStep, RequestsStep
<1>2. Numbered' /\ TablesAreSent' /\ SpentWasSent'
  BY LettersStep, TablesAreSentStep, SpentWasSentStep
<1>3. DeletedIsGone' /\ AddressProven' /\ SpentIsGone'
  BY DeletedIsGoneStep, AddressProvenStep, SpentIsGoneStep
<1> QED
  BY <1>1, <1>2, <1>3

LEMMA Invariant == Spec => []IInv
  BY InitInvariant, StepInvariant, PTL DEF Spec

(* Every table, letter and request keeps its type, and the codes keyed by a *)
(* user go with the account.                                                *)
THEOREM TypeCorrect == Spec => []TypeOK
<1>1. IInv => TypeOK
  BY DEF IInv, Shapes, KeyedByAccounts, RequestType, TypeOK
<1> QED
  BY <1>1, Invariant, PTL

(* However many requests check a code before any of them does its work, and *)
(* whatever is resent, expires, fails or is deleted in between, an account  *)
(* has its first address or one at which its user read the code of a change.*)
THEOREM AddressProvenHolds == Spec => []AddressProven
<1>1. IInv => AddressProven
  BY DEF IInv
<1> QED
  BY <1>1, Invariant, PTL

(* A code whose work was done confirms no address, resets no password and   *)
(* changes no address a second time, unless every DELETE of its row failed. *)
THEOREM SpentIsGoneHolds == Spec => []SpentIsGone
<1>1. IInv => SpentIsGone
  BY DEF IInv
<1> QED
  BY <1>1, Invariant, PTL

(* A password is set by a request of its account that gave the one before,  *)
(* or with the code of a letter to the address the account has now.         *)
THEOREM PasswordByMailHolds == Spec => PasswordByMail
<1>1. ASSUME IInv, [Next]_vars
      PROVE  \A u \in Account : password'[u] \notin {password[u], "none"} =>
               \E r \in Requests :
                 \/ request[r].op = "password" /\ request[r].user = u
                 \/ /\ request[r].op = "reset"
                    /\ \E l \in entered : /\ l.kind = "reset" /\ l.to = email[u]
                                          /\ l.code = request[r].code
  <2> SUFFICES ASSUME NEW u \in Account, password'[u] \notin {password[u], "none"}
               PROVE  \E r \in Requests :
                        \/ request[r].op = "password" /\ request[r].user = u
                        \/ /\ request[r].op = "reset"
                           /\ \E l \in entered : /\ l.kind = "reset" /\ l.to = email[u]
                                                 /\ l.code = request[r].code
    OBVIOUS
  <2>0. u \in Users /\ password \in [Users -> Passwords \cup {"none"}] /\ Fits /\ AllRead
    BY <1>1 DEF Account, IInv, Shapes
  <2>1. PICK r \in Requests : UpdatePasswordHash(r) \/ ResetPassword(r)
    <3>1. ASSUME NEW v \in Users, NEW a \in Addresses, NEW new \in Passwords, Register(v, a, new)
          PROVE  password'[u] = password[u]
      <4>1. v # u
        BY <1>1, <3>1 DEF Register, IInv, KeyedByAccounts
      <4> QED
        BY <2>0, <3>1, <4>1 DEF Register
    <3>2. ASSUME NEW s \in Requests, DeleteUser(s)
          PROVE  password'[u] \in {password[u], "none"}
      BY <2>0, <3>2 DEF DeleteUser
    <3> QED
      BY <1>1, <3>1, <3>2, AccountsChange
  <2>2. CASE UpdatePasswordHash(r)
    <3>1. request[r].op = "password" /\ Fit(request[r])
      BY <2>0, <2>2 DEF UpdatePasswordHash, At, Fits
    <3>2. request[r].user \in Users
      BY <3>1 DEF Fit
    <3>3. request[r].user = u
      BY <1>1, <2>0, <2>2, <3>2 DEF UpdatePasswordHash
    <3> QED
      BY <3>1, <3>3
  <2>3. CASE ResetPassword(r)
    <3>1. request[r].op = "reset"
      BY <2>3 DEF ResetPassword, At
    <3>2. email[u] = request[r].address
      BY <1>1, <2>0, <2>3 DEF ResetPassword
    <3>3. Read(request[r], entered)
      BY <2>0 DEF AllRead
    <3> QED
      BY <3>1, <3>2, <3>3 DEF Read, SentOut
  <2> QED
    BY <2>1, <2>2, <2>3
<1> QED
  BY <1>1, Invariant, PTL DEF Spec, PasswordByMail


==============================================================================
