------------------------------ MODULE Attendance ------------------------------
(***************************************************************************)
(* Attendance by QR code: POST /attendance/scan (handlers.go scanAttendance, *)
(* service_patch.go ScanAttendance, repo.go FindRegistrationByQR and       *)
(* MarkAttendance), the trigger that moves the registration to 'attended', *)
(* and the removal of an account, on top of the registrations table.       *)
(*                                                                         *)
(* MarkAttendance runs in a READ COMMITTED transaction: what it inserts is *)
(* visible to others at the commit, and an INSERT of the same              *)
(* registration_id waits for the transaction that inserted it first.       *)
(***************************************************************************)
EXTENDS Registration

CONSTANTS
  Managers,   \* the users whose token carries a managing role
  Pinned,     \* the users another row names without a cascade (hq_staff,
              \* events.created_by, reviewed_by and the like)
  Scans,      \* scan requests, each served once; a retry is another request
  NoScanner

ASSUME ScannersAssumption ==
  Managers \subseteq Users /\ Pinned \subseteq Users /\ NoScanner \notin Users

VARIABLES
  attendance, \* the committed attendances: who marked the registration
  scan        \* the scan requests in flight

attVars == <<attendance, scan>>
vars == <<now, account, event, reg, request, attendance, scan>>

-----------------------------------------------------------------------------
IdleScan == [pc |-> "idle", key |-> <<>>, by |-> NoScanner, answer |-> "none"]
ScanRow ==
  [pc : {"found", "counted", "inserted", "done"}, key : RegKeys, by : Managers,
   answer : {"none", "marked", "already", "notfound", "error"}]

TypeOK ==
  /\ RegTypeOK
  /\ attendance \in [RegKeys -> Managers \cup {NoScanner}]
  /\ scan \in [Scans -> ScanRow \cup {IdleScan}]

Init ==
  /\ RegInit
  /\ attendance = [k \in RegKeys |-> NoScanner]
  /\ scan = [s \in Scans |-> IdleScan]

-----------------------------------------------------------------------------
Finish(s, a) == scan' = [scan EXCEPT ![s].pc = "done", ![s].answer = a]

Attended(k) == attendance[k] # NoScanner

(* The QR code is the identity of a registration row: a code that names no  *)
(* row any more is answered 404.                                            *)
FindByQR(s, k, m) ==
  /\ scan[s].pc = "idle"
  /\ scan' = [scan EXCEPT ![s] =
       [pc |-> IF reg[k] # NoRow THEN "found" ELSE "done", key |-> k, by |-> m,
        answer |-> IF reg[k] # NoRow THEN "none" ELSE "notfound"]]
  /\ UNCHANGED <<regVars, attendance>>

CountAttendances(s) ==
  /\ scan[s].pc = "found"
  /\ IF Attended(scan[s].key) THEN Finish(s, "already")
                              ELSE scan' = [scan EXCEPT ![s].pc = "counted"]
  /\ UNCHANGED <<regVars, attendance>>

\* Mutant: a transaction that ended without releasing its locks.
InsertedByEnded(s) ==
  \E t \in Scans \ {s} : scan[t].pc \in {"inserted", "done"} /\ scan[t].key = scan[s].key

(* The row the INSERT has to wait for.                                      *)
InsertedByOther(s) ==
  \E t \in Scans \ {s} : scan[t].pc = "inserted" /\ scan[t].key = scan[s].key

\* Mutant: attendances without UNIQUE (registration_id).
MarkableTwice(s) == reg[scan[s].key] # NoRow /\ scan[s].by \in account

(* UNIQUE (registration_id) and the foreign keys to registrations, users.   *)
Markable(s) ==
  /\ ~Attended(scan[s].key)
  /\ reg[scan[s].key] # NoRow
  /\ scan[s].by \in account

InsertAttendance(s) ==
  /\ scan[s].pc = "counted"
  /\ ~InsertedByOther(s)
  /\ IF Markable(s) THEN scan' = [scan EXCEPT ![s].pc = "inserted"]
                    ELSE Finish(s, "error")
  /\ UNCHANGED <<regVars, attendance>>

\* Mutant: no trigger on attendances.
PublishUntriggered(s) ==
  /\ attendance' = [attendance EXCEPT ![scan[s].key] = scan[s].by]
  /\ UNCHANGED <<regVars>>

(* The commit publishes the attendance and the trigger's UPDATE together.   *)
Publish(s) ==
  /\ attendance' = [attendance EXCEPT ![scan[s].key] = scan[s].by]
  /\ reg' = [reg EXCEPT ![scan[s].key].status = "attended"]
  /\ UNCHANGED <<now, account, event, request>>

Commit(s) ==
  /\ scan[s].pc = "inserted"
  /\ Publish(s)
  /\ Finish(s, "marked")

(* The commit took effect and its answer was lost.                          *)
CommitUnheard(s) ==
  /\ DbMayFail
  /\ scan[s].pc = "inserted"
  /\ Publish(s)
  /\ Finish(s, "error")

\* Mutant: the error of tx.Commit is not checked.
RollbackUnchecked(s) ==
  /\ DbMayFail
  /\ scan[s].pc = "inserted"
  /\ Finish(s, "marked")
  /\ UNCHANGED <<regVars, attendance>>

(* A statement fails: the deferred Rollback undoes the transaction.         *)
Rollback(s) ==
  /\ DbMayFail
  /\ scan[s].pc \in {"found", "counted", "inserted"}
  /\ Finish(s, "error")
  /\ UNCHANGED <<regVars, attendance>>

(* DELETE FROM users: the user's registrations and their attendances go by  *)
(* cascade; attendances.scanner_id has no cascade, so a scanner stays, and  *)
(* so do the pinned.  The statement waits for row locks an uncommitted      *)
(* attendance holds.                                                        *)
Locked(u) ==
  \E s \in Scans : scan[s].pc = "inserted" /\ (scan[s].key[1] = u \/ scan[s].by = u)

\* Mutant: scanner_id without a foreign key.
DeleteScannerToo(u) ==
  /\ u \in account \ Pinned
  /\ ~Locked(u)
  /\ account' = account \ {u}
  /\ reg' = [k \in RegKeys |-> IF k[1] = u THEN NoRow ELSE reg[k]]
  /\ attendance' = [k \in RegKeys |-> IF k[1] = u THEN NoScanner ELSE attendance[k]]
  /\ UNCHANGED <<now, event, request, scan>>

DeleteUser(u) ==
  /\ u \in account \ Pinned
  /\ ~Locked(u)
  /\ \A k \in RegKeys : attendance[k] = u => k[1] = u
  /\ account' = account \ {u}
  /\ reg' = [k \in RegKeys |-> IF k[1] = u THEN NoRow ELSE reg[k]]
  /\ attendance' = [k \in RegKeys |-> IF k[1] = u THEN NoScanner ELSE attendance[k]]
  /\ UNCHANGED <<now, event, request, scan>>

-----------------------------------------------------------------------------
ServeStep(s) == CountAttendances(s) \/ InsertAttendance(s) \/ Commit(s)

ScanStep(s) == ServeStep(s) \/ CommitUnheard(s) \/ Rollback(s)

RegNext ==
  /\ Tick \/ AdminStep \/ \E q \in Requests : RequestStep(q)
  /\ UNCHANGED attVars

Next ==
  \/ RegNext
  \/ \E s \in Scans : ScanStep(s) \/ \E k \in RegKeys, m \in Managers : FindByQR(s, k, m)
  \/ \E u \in Users : DeleteUser(u)

(* A request that arrived is served: the handler's goroutine is never       *)
(* starved and every statement that waits for no lock returns.  Nobody has  *)
(* to send a request, and nothing has to fail.                              *)
Fairness == \A s \in Scans : WF_vars(ServeStep(s))

Spec == Init /\ [][Next]_vars /\ Fairness

-----------------------------------------------------------------------------
(* At most one scan is ever told that it marked a registration, however     *)
(* many scanners read the same code at once: the count of MarkAttendance    *)
(* does not protect it, UNIQUE (registration_id) does.                      *)
MarkedOnce ==
  \A s, t \in Scans :
    (/\ scan[s].answer = "marked"
     /\ scan[t].answer = "marked"
     /\ scan[s].key = scan[t].key) => s = t

(* The registration's status and the attendance journal agree: the trigger  *)
(* of 004 and the cascades keep the two tables in step.                     *)
StatusFollowsJournal ==
  \A k \in RegKeys : reg[k].status = "attended" <=> Attended(k)

(* An answer is true of the tables as long as the participant has an        *)
(* account: 'marked' means the journal names this very scanner, and 409     *)
(* means somebody's mark is there.                                          *)
AnswersAreTrue ==
  \A s \in Scans :
    (scan[s].pc # "idle" /\ scan[s].key[1] \in account) =>
      /\ scan[s].answer = "marked" => attendance[scan[s].key] = scan[s].by
      /\ scan[s].answer = "already" => Attended(scan[s].key)

(* A mark is final: its scanner never changes and it is removed only with   *)
(* the participant's account, in the same step.                             *)
MarkIsFinal ==
  [][\A k \in RegKeys :
       Attended(k) => attendance'[k] = attendance[k] \/ k[1] \in account \ account']_vars

(* Every scan that reached its registration is answered: no two scans and   *)
(* no removal of an account wait for each other for ever.                   *)
ScanAnswered == \A s \in Scans : scan[s].pc = "found" ~> scan[s].pc = "done"

(* The inductive strengthening of the three invariants above.  A            *)
(* transaction between its INSERT and its commit owns the right to mark: the *)
(* row is there, unmarked, its accounts cannot go, and nobody else inserts. *)
RowsHaveAccounts == \A k \in RegKeys : reg[k] # NoRow => k[1] \in account

InsertOwnsRow ==
  \A s \in Scans : scan[s].pc = "inserted" =>
    /\ Markable(s)
    /\ \A t \in Scans : scan[t].pc = "inserted" /\ scan[t].key = scan[s].key => t = s

AnsweredWhenDone == \A s \in Scans : scan[s].pc # "done" => scan[s].answer = "none"

IInv ==
  /\ TypeOK
  /\ AnsweredWhenDone
  /\ RowsHaveAccounts
  /\ InsertOwnsRow
  /\ MarkedOnce
  /\ StatusFollowsJournal
  /\ AnswersAreTrue

Log == INSTANCE AttendanceLog WITH
  members <- account,
  place <- [k \in RegKeys |-> reg[k].status],
  by <- attendance

(* The tables implement the journal: handlers, transactions and failures    *)
(* never show a registration, a mark or a removal AttendanceLog forbids.    *)
ImplementsLog == Log!Spec
=============================================================================
