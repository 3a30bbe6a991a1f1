--------------------------- MODULE AttendanceProofs ---------------------------
(***************************************************************************)
(* Proofs about Attendance for every number of users, events, requests and *)
(* scans.  IInv is the inductive invariant: one lemma per group of actions *)
(* preserves the type invariant, one theorem the rest.                     *)
(***************************************************************************)
EXTENDS Attendance, TLAPS

LEMMA InitType == Init => TypeOK
  BY ConstantsAssumption DEF Init, RegInit, TypeOK, RegTypeOK

(* The steps of the registration component keep the types.                  *)
LEMMA RegNextType == TypeOK /\ RegNext => TypeOK'
<1> SUFFICES ASSUME TypeOK, RegNext PROVE TypeOK'
  OBVIOUS
<1> USE ConstantsAssumption DEF TypeOK, RegTypeOK
<1>0. attendance' = attendance /\ scan' = scan
  BY DEF RegNext, attVars
<1>1. CASE Tick
  BY <1>0, <1>1 DEF Tick
<1>2. CASE AdminStep
  <2>0. PICK e \in Events :
        (\E d \in Dates, m \in Modes : CreateEvent(e, d, m) \/ UpdateEvent(e, d, m))
        \/ CancelEvent(e)
    BY <1>2 DEF AdminStep
  <2>1. ASSUME NEW d \in Dates, NEW m \in Modes, CreateEvent(e, d, m) PROVE TypeOK'
    BY <1>0, <2>1 DEF CreateEvent, EventRow
  <2>2. ASSUME NEW d \in Dates, NEW m \in Modes, UpdateEvent(e, d, m) PROVE TypeOK'
    <3>1. event[e] \in EventRow
      BY <2>2 DEF UpdateEvent
    <3>2. event' = [event EXCEPT ![e] = [event[e] EXCEPT !.date = d, !.mode = m]]
      BY <2>2, <3>1 DEF UpdateEvent, EventRow
    <3>3. [event[e] EXCEPT !.date = d, !.mode = m] \in EventRow
      BY <3>1 DEF EventRow
    <3> QED
      BY <1>0, <2>2, <3>2, <3>3 DEF UpdateEvent
  <2>3. ASSUME CancelEvent(e) PROVE TypeOK'
    <3>1. event[e] \in EventRow
      BY <2>3 DEF CancelEvent
    <3>2. [event[e] EXCEPT !.status = "cancelled"] \in EventRow
      BY <3>1 DEF EventRow
    <3> QED
      BY <1>0, <2>3, <3>2 DEF CancelEvent
  <2> QED
    BY <2>0, <2>1, <2>2, <2>3
<1>3. ASSUME NEW q \in Requests, RequestStep(q) PROVE TypeOK'
  <2>1. ASSUME NEW u \in Users, NEW e \in Events, NEW w \in Wants, Lookup(q, u, e, w)
        PROVE TypeOK'
    BY <1>0, <2>1 DEF Lookup, Listed, Answer, RequestRow, EventRow, NoEvent
  <2>2. ASSUME request[q].pc \in {"listed", "open"} PROVE request[q] \in RequestRow
    BY <2>2 DEF Idle, Served
  <2>3. ASSUME CheckDeadline(q) PROVE TypeOK'
    <3>1. CASE Closed(request[q].copy.date)
      BY <1>0, <2>3, <3>1 DEF CheckDeadline
    <3>2. CASE ~Closed(request[q].copy.date)
      BY <1>0, <2>2, <2>3, <3>2 DEF CheckDeadline, RequestRow
    <3> QED
      BY <3>1, <3>2
  <2>4. ASSUME request[q].pc = "open" PROVE KeyOf(q) \in RegKeys /\ NewRow(q) \in RegRow
    BY <2>2, <2>4 DEF KeyOf, RegKeys, RequestRow, NewRow, RegRow, StoredType, PTypes
  <2>5. ASSUME InsertCreated(q) PROVE TypeOK'
    BY <1>0, <2>4, <2>5 DEF InsertCreated, Answer
  <2>6. ASSUME InsertConflict(q) PROVE TypeOK'
    BY <1>0, <2>4, <2>6 DEF InsertConflict, Answer
  <2> QED
    BY <1>3, <2>1, <2>3, <2>5, <2>6 DEF RequestStep
<1> QED
  BY <1>1, <1>2, <1>3 DEF RegNext

(* A started scan that is answered or that advances stays a ScanRow about   *)
(* the same registration and by the same scanner, and no other scan moves.  *)
LEMMA FinishType ==
  ASSUME NEW s \in Scans, TypeOK, scan[s].pc # "idle",
         NEW a \in {"marked", "already", "notfound", "error"}, Finish(s, a)
  PROVE  /\ scan' \in [Scans -> ScanRow \cup {IdleScan}]
         /\ scan'[s].pc = "done" /\ scan'[s].key = scan[s].key
         /\ scan'[s].by = scan[s].by /\ scan'[s].answer = a
         /\ \A t \in Scans \ {s} : scan'[t] = scan[t]
<1>1. scan[s] \in ScanRow
  BY DEF TypeOK, IdleScan
<1>2. [scan[s] EXCEPT !.pc = "done", !.answer = a] \in ScanRow
  BY <1>1 DEF ScanRow
<1>3. scan' = [scan EXCEPT ![s] = [scan[s] EXCEPT !.pc = "done", !.answer = a]]
  BY <1>1 DEF Finish, TypeOK, ScanRow
<1> QED
  BY <1>1, <1>2, <1>3 DEF TypeOK, ScanRow

LEMMA AdvanceType ==
  ASSUME NEW s \in Scans, TypeOK, scan[s].pc # "idle",
         NEW p \in {"counted", "inserted"}, scan' = [scan EXCEPT ![s].pc = p]
  PROVE  /\ scan' \in [Scans -> ScanRow \cup {IdleScan}]
         /\ scan'[s].pc = p /\ scan'[s].key = scan[s].key
         /\ scan'[s].by = scan[s].by /\ scan'[s].answer = scan[s].answer
         /\ \A t \in Scans \ {s} : scan'[t] = scan[t]
<1>1. scan[s] \in ScanRow
  BY DEF TypeOK, IdleScan
<1>2. [scan[s] EXCEPT !.pc = p] \in ScanRow
  BY <1>1 DEF ScanRow
<1>3. scan' = [scan EXCEPT ![s] = [scan[s] EXCEPT !.pc = p]]
  BY <1>1 DEF TypeOK, ScanRow
<1> QED
  BY <1>1, <1>2, <1>3 DEF TypeOK, ScanRow

LEMMA ScanStepType == ASSUME NEW s \in Scans, TypeOK, ScanStep(s) PROVE TypeOK'
<1>1. scan[s].pc # "idle"
  BY DEF ScanStep, ServeStep, CountAttendances, InsertAttendance, Commit, CommitUnheard, Rollback
<1>2. scan[s] \in ScanRow
  BY <1>1 DEF TypeOK, IdleScan
<1>3. scan' \in [Scans -> ScanRow \cup {IdleScan}]
  <2>1. ASSUME NEW a \in {"marked", "already", "notfound", "error"}, Finish(s, a)
        PROVE  scan' \in [Scans -> ScanRow \cup {IdleScan}]
    BY <1>1, <2>1, FinishType
  <2>2. ASSUME NEW p \in {"counted", "inserted"}, scan' = [scan EXCEPT ![s].pc = p]
        PROVE  scan' \in [Scans -> ScanRow \cup {IdleScan}]
    BY <1>1, <2>2, AdvanceType
  <2>3. CASE CountAttendances(s)
    BY <2>1, <2>2, <2>3 DEF CountAttendances
  <2>4. CASE InsertAttendance(s)
    BY <2>1, <2>2, <2>4 DEF InsertAttendance
  <2>5. CASE Commit(s) \/ CommitUnheard(s) \/ Rollback(s)
    BY <2>1, <2>5 DEF Commit, CommitUnheard, Rollback
  <2> QED
    BY <2>3, <2>4, <2>5 DEF ScanStep, ServeStep
<1>4. attendance' \in [RegKeys -> Managers \cup {NoScanner}]
  BY <1>2 DEF TypeOK, ScanRow, ScanStep, ServeStep, CountAttendances, InsertAttendance,
              Commit, CommitUnheard, Rollback, Publish
<1>5. RegTypeOK'
  <2>1. CASE UNCHANGED regVars
    BY <2>1 DEF TypeOK, RegTypeOK, regVars
  <2>2. CASE Publish(s) /\ scan[s].pc = "inserted"
    <3>1. reg[scan[s].key] \in RegRow \cup {NoRow} /\ scan[s].key \in RegKeys
      BY <1>2 DEF TypeOK, RegTypeOK, ScanRow
    <3>2. [reg[scan[s].key] EXCEPT !.status = "attended"] \in RegRow
      BY <3>1 DEF RegRow, NoRow, PTypes
    <3> QED
      BY <2>2, <3>1, <3>2 DEF Publish, TypeOK, RegTypeOK
  <2> QED
    BY <2>1, <2>2 DEF ScanStep, ServeStep, CountAttendances, InsertAttendance, Commit,
                      CommitUnheard, Rollback
<1> QED
  BY <1>3, <1>4, <1>5 DEF TypeOK

LEMMA NextType == TypeOK /\ [Next]_vars => TypeOK'
<1> SUFFICES ASSUME TypeOK, [Next]_vars PROVE TypeOK'
  OBVIOUS
<1>1. CASE RegNext
  BY <1>1, RegNextType
<1>2. ASSUME NEW s \in Scans, ScanStep(s) PROVE TypeOK'
  BY <1>2, ScanStepType
<1>3. ASSUME NEW s \in Scans, NEW k \in RegKeys, NEW m \in Managers, FindByQR(s, k, m)
      PROVE TypeOK'
  BY <1>3 DEF FindByQR, TypeOK, RegTypeOK, regVars, ScanRow
<1>4. ASSUME NEW u \in Users, DeleteUser(u) PROVE TypeOK'
  BY <1>4 DEF DeleteUser, TypeOK, RegTypeOK
<1>5. CASE UNCHANGED vars
  BY <1>5 DEF vars, TypeOK, RegTypeOK
<1> QED
  BY <1>1, <1>2, <1>3, <1>4, <1>5 DEF Next

(* Every reachable state is well typed.                                     *)
THEOREM TypeCorrect == Spec => []TypeOK
  BY InitType, NextType, PTL DEF Spec

-----------------------------------------------------------------------------
(* The registration component only adds rows, for users with an account.    *)
LEMMA RegNextAdds ==
  ASSUME TypeOK, RegNext
  PROVE  /\ account' = account /\ attendance' = attendance /\ scan' = scan
         /\ \A k \in RegKeys :
              \/ reg'[k] = reg[k]
              \/ /\ reg[k] = NoRow /\ reg'[k] # NoRow
                 /\ reg'[k].status = "registered" /\ k[1] \in account
<1>1. attendance' = attendance /\ scan' = scan
  BY DEF RegNext, attVars
<1>2. CASE Tick \/ AdminStep
  BY <1>1, <1>2 DEF Tick, AdminStep, CreateEvent, UpdateEvent, CancelEvent
<1>3. ASSUME NEW q \in Requests, RequestStep(q)
      PROVE  /\ account' = account
             /\ \/ reg' = reg
                \/ /\ Insertable(q)
                   /\ reg' = [reg EXCEPT ![KeyOf(q)] = NewRow(q)]
  BY <1>3 DEF RequestStep, Lookup, CheckDeadline, InsertCreated, InsertConflict
<1>4. ASSUME NEW q \in Requests, Insertable(q), reg' = [reg EXCEPT ![KeyOf(q)] = NewRow(q)],
             NEW k \in RegKeys
      PROVE  \/ reg'[k] = reg[k]
             \/ /\ reg[k] = NoRow /\ reg'[k] # NoRow
                /\ reg'[k].status = "registered" /\ k[1] \in account
  <2>1. CASE k # KeyOf(q)
    BY <1>4, <2>1 DEF TypeOK, RegTypeOK
  <2>2. CASE k = KeyOf(q)
    <3>1. reg'[k] = NewRow(q) /\ reg[k] = NoRow
      BY <1>4, <2>2 DEF TypeOK, RegTypeOK, Insertable
    <3>2. NewRow(q).status = "registered" /\ NoRow.status = "none"
      BY DEF NewRow, NoRow
    <3>3. k[1] \in account
      BY <1>4, <2>2 DEF Insertable, KeyOf
    <3> QED
      BY <3>1, <3>2, <3>3
  <2> QED
    BY <2>1, <2>2
<1> QED
  BY <1>1, <1>2, <1>3, <1>4 DEF RegNext

(* A scan that has not inserted anything reads, gives up or takes the row;  *)
(* one that has inserted publishes the mark.                                *)
LEMMA ScanStepShape ==
  ASSUME TypeOK, NEW s \in Scans, ScanStep(s)
  PROVE  /\ scan[s] \in ScanRow
         /\ scan'[s].key = scan[s].key /\ scan'[s].by = scan[s].by
         /\ \A t \in Scans \ {s} : scan'[t] = scan[t]
         /\ account' = account
         /\ \/ /\ reg' = reg /\ attendance' = attendance
               /\ \/ scan'[s].pc = "done" /\ scan'[s].answer # "marked"
                  \/ /\ scan'[s].pc = "counted" /\ scan[s].pc = "found"
                     /\ scan'[s].answer = scan[s].answer
                  \/ /\ scan'[s].pc = "inserted" /\ scan[s].pc = "counted"
                     /\ scan'[s].answer = scan[s].answer
                     /\ ~InsertedByOther(s) /\ Markable(s)
               /\ scan'[s].answer = "already" =>
                    scan[s].answer = "already" \/ Attended(scan[s].key)
            \/ /\ scan[s].pc = "inserted" /\ Publish(s)
               /\ scan'[s].pc = "done" /\ scan'[s].answer \in {"marked", "error"}
<1>1. scan[s].pc # "idle"
  BY DEF ScanStep, ServeStep, CountAttendances, InsertAttendance, Commit, CommitUnheard, Rollback
<1>2. scan[s] \in ScanRow
  BY <1>1 DEF TypeOK, IdleScan
<1>3. ASSUME NEW a \in {"marked", "already", "notfound", "error"}, Finish(s, a)
      PROVE  /\ scan'[s].pc = "done" /\ scan'[s].key = scan[s].key
             /\ scan'[s].by = scan[s].by /\ scan'[s].answer = a
             /\ \A t \in Scans \ {s} : scan'[t] = scan[t]
  BY <1>1, <1>3, FinishType
<1>4. ASSUME NEW p \in {"counted", "inserted"}, scan' = [scan EXCEPT ![s].pc = p]
      PROVE  /\ scan'[s].pc = p /\ scan'[s].key = scan[s].key
             /\ scan'[s].by = scan[s].by /\ scan'[s].answer = scan[s].answer
             /\ \A t \in Scans \ {s} : scan'[t] = scan[t]
  BY <1>1, <1>4, AdvanceType
<1>5. CASE CountAttendances(s)
  <2>1. CASE Attended(scan[s].key)
    BY <1>2, <1>3, <1>5, <2>1 DEF CountAttendances, regVars
  <2>2. CASE ~Attended(scan[s].key)
    BY <1>2, <1>4, <1>5, <2>2 DEF CountAttendances, regVars
  <2> QED
    BY <2>1, <2>2
<1>6. CASE InsertAttendance(s)
  BY <1>2, <1>3, <1>4, <1>6 DEF InsertAttendance, regVars
<1>7. CASE Commit(s) \/ CommitUnheard(s)
  BY <1>2, <1>3, <1>7 DEF Commit, CommitUnheard, Publish
<1>8. CASE Rollback(s)
  BY <1>2, <1>3, <1>8 DEF Rollback, regVars
<1> QED
  BY <1>5, <1>6, <1>7, <1>8 DEF ScanStep, ServeStep

LEMMA InitInv == Init => IInv
<1> SUFFICES ASSUME Init PROVE IInv
  OBVIOUS
<1>1. TypeOK
  BY InitType
<1>2. \A s \in Scans : scan[s].pc = "idle" /\ scan[s].answer = "none"
  BY DEF Init, IdleScan
<1>3. \A k \in RegKeys : reg[k] = NoRow /\ attendance[k] = NoScanner
  BY DEF Init, RegInit
<1> QED
  BY <1>1, <1>2, <1>3 DEF IInv, AnsweredWhenDone, RowsHaveAccounts, InsertOwnsRow,
     MarkedOnce, StatusFollowsJournal, AnswersAreTrue, Attended, NoRow

LEMMA RegNextInv == IInv /\ RegNext => IInv'
<1> SUFFICES ASSUME IInv, RegNext PROVE IInv'
  OBVIOUS
<1>1. TypeOK'
  BY RegNextType DEF IInv
<1>2. /\ account' = account /\ attendance' = attendance /\ scan' = scan
      /\ \A k \in RegKeys :
           \/ reg'[k] = reg[k]
           \/ /\ reg[k] = NoRow /\ reg'[k] # NoRow
              /\ reg'[k].status = "registered" /\ k[1] \in account
  BY RegNextAdds DEF IInv
<1>3. AnsweredWhenDone' /\ MarkedOnce' /\ AnswersAreTrue'
  BY <1>2 DEF IInv, AnsweredWhenDone, MarkedOnce, AnswersAreTrue, Attended
<1>4. RowsHaveAccounts'
  BY <1>2 DEF IInv, RowsHaveAccounts
<1>5. InsertOwnsRow'
  <2>1. ASSUME NEW s \in Scans, scan[s].pc = "inserted" PROVE scan[s].key \in RegKeys
    BY <2>1 DEF IInv, TypeOK, ScanRow, IdleScan
  <2> QED
    BY <1>2, <2>1 DEF IInv, InsertOwnsRow, Markable, Attended
<1>6. StatusFollowsJournal'
  BY <1>2 DEF IInv, StatusFollowsJournal, Attended, NoRow
<1> QED
  BY <1>1, <1>3, <1>4, <1>5, <1>6 DEF IInv

(* A scan step that publishes nothing: the tables stay, and the scan either *)
(* advances or is answered by what the tables say.                          *)
LEMMA QuietScanInv ==
  ASSUME IInv, NEW s \in Scans, ScanStep(s), reg' = reg, attendance' = attendance, TypeOK'
  PROVE  IInv'
<1> USE DEF IInv
<1>1. /\ scan[s] \in ScanRow
      /\ scan'[s].key = scan[s].key /\ scan'[s].by = scan[s].by
      /\ \A t \in Scans \ {s} : scan'[t] = scan[t]
      /\ account' = account
  BY ScanStepShape
<1>2. \/ /\ \/ scan'[s].pc = "done" /\ scan'[s].answer # "marked"
            \/ /\ scan'[s].pc = "counted" /\ scan[s].pc = "found"
               /\ scan'[s].answer = scan[s].answer
            \/ /\ scan'[s].pc = "inserted" /\ scan[s].pc = "counted"
               /\ scan'[s].answer = scan[s].answer
               /\ ~InsertedByOther(s) /\ Markable(s)
         /\ scan'[s].answer = "already" =>
              scan[s].answer = "already" \/ Attended(scan[s].key)
      \/ scan[s].pc = "inserted" /\ Publish(s)
  BY ScanStepShape
<1>3. ~(scan[s].pc = "inserted" /\ Publish(s))
  <2> SUFFICES ASSUME scan[s].pc = "inserted", Publish(s) PROVE FALSE
    OBVIOUS
  <2>1. attendance'[scan[s].key] = scan[s].by
    BY <1>1 DEF Publish, TypeOK, ScanRow
  <2>2. attendance[scan[s].key] = NoScanner
    BY DEF InsertOwnsRow, Markable, Attended
  <2> QED
    BY <1>1, <2>1, <2>2, ScannersAssumption DEF ScanRow
<1>4. AnsweredWhenDone'
  BY <1>1, <1>2, <1>3 DEF AnsweredWhenDone
<1>5. RowsHaveAccounts' /\ StatusFollowsJournal'
  BY <1>1 DEF RowsHaveAccounts, StatusFollowsJournal, Attended
<1>6. \A t \in Scans : scan'[t].answer = "marked" => scan[t].answer = "marked"
  BY <1>1, <1>2, <1>3
<1>7. \A t \in Scans : scan'[t].key = scan[t].key /\ scan'[t].by = scan[t].by
  BY <1>1
<1>8. MarkedOnce'
  BY <1>6, <1>7 DEF MarkedOnce
<1>9. AnswersAreTrue'
  <2> SUFFICES ASSUME NEW t \in Scans, (scan[t].pc # "idle")', (scan[t].key[1] \in account)'
               PROVE  /\ (scan[t].answer = "marked" => attendance[scan[t].key] = scan[t].by)'
                      /\ (scan[t].answer = "already" => Attended(scan[t].key))'
    BY DEF AnswersAreTrue
  <2>1. CASE t = s
    BY <1>1, <1>2, <1>3, <1>6, <1>7, <2>1 DEF AnswersAreTrue, Attended, ScanRow
  <2>2. CASE t # s
    BY <1>1, <2>2 DEF AnswersAreTrue, Attended
  <2> QED
    BY <2>1, <2>2
<1>10. InsertOwnsRow'
  <2>1. \A t \in Scans : Markable(t)' <=> Markable(t)
    BY <1>1, <1>7 DEF Markable, Attended
  <2>2. CASE scan'[s].pc = "inserted"
    <3>1. ~InsertedByOther(s) /\ Markable(s)
      BY <1>2, <1>3, <2>2
    <3> QED
      BY <1>1, <1>7, <2>1, <3>1 DEF InsertOwnsRow, InsertedByOther
  <2>3. CASE scan'[s].pc # "inserted"
    BY <1>1, <1>7, <2>1, <2>3 DEF InsertOwnsRow
  <2> QED
    BY <2>2, <2>3
<1> QED
  BY <1>4, <1>5, <1>8, <1>9, <1>10

(* A commit: the scan owned the row, so the mark it publishes is the first. *)
LEMMA PublishInv ==
  ASSUME IInv, NEW s \in Scans, ScanStep(s), scan[s].pc = "inserted", Publish(s),
         scan'[s].pc = "done", scan'[s].answer \in {"marked", "error"}, TypeOK'
  PROVE  IInv'
<1> USE DEF IInv
<1>1. /\ scan[s] \in ScanRow
      /\ scan'[s].key = scan[s].key /\ scan'[s].by = scan[s].by
      /\ \A t \in Scans \ {s} : scan'[t] = scan[t]
      /\ account' = account
  BY ScanStepShape
<1> DEFINE k == scan[s].key
<1>2. /\ k \in RegKeys /\ scan[s].by \in Managers /\ scan[s].by # NoScanner
      /\ attendance[k] = NoScanner /\ reg[k] # NoRow /\ reg[k] \in RegRow
      /\ k[1] \in account
  <2>1. Markable(s)
    BY DEF InsertOwnsRow
  <2>2. k \in RegKeys /\ scan[s].by \in Managers
    BY <1>1 DEF ScanRow
  <2> QED
    BY <2>1, <2>2, ScannersAssumption
       DEF Markable, Attended, RowsHaveAccounts, TypeOK, RegTypeOK
<1>3. /\ attendance'[k] = scan[s].by
      /\ \A j \in RegKeys \ {k} : attendance'[j] = attendance[j] /\ reg'[j] = reg[j]
      /\ reg'[k].status = "attended" /\ reg'[k] # NoRow
  <2>1. reg'[k] = [reg[k] EXCEPT !.status = "attended"]
    BY <1>2 DEF Publish, TypeOK, RegTypeOK
  <2>2. reg'[k].status = "attended"
    BY <1>2, <2>1 DEF RegRow
  <2>3. reg'[k] # NoRow
    BY <2>2 DEF NoRow
  <2> QED
    BY <1>2, <2>2, <2>3 DEF Publish, TypeOK, RegTypeOK
<1>4. AnsweredWhenDone' /\ RowsHaveAccounts' /\ StatusFollowsJournal'
  BY <1>1, <1>2, <1>3 DEF AnsweredWhenDone, RowsHaveAccounts, StatusFollowsJournal, Attended
<1>5. \A t \in Scans : scan'[t].key = scan[t].key /\ scan'[t].by = scan[t].by
  BY <1>1
<1>6. \A t \in Scans : scan[t].answer \in {"marked", "already"} =>
        scan[t].key \in RegKeys /\ scan[t].key # k
  <2> SUFFICES ASSUME NEW t \in Scans, scan[t].answer \in {"marked", "already"},
                      scan[t].key = k
               PROVE  FALSE
    BY DEF TypeOK, ScanRow, IdleScan
  <2>1. scan[t].pc # "idle" /\ scan[t].by \in Managers
    BY DEF TypeOK, ScanRow, IdleScan
  <2> QED
    BY <1>2, <2>1, ScannersAssumption DEF AnswersAreTrue, Attended
<1>7. MarkedOnce'
  BY <1>1, <1>5, <1>6 DEF MarkedOnce, AnsweredWhenDone
<1>8. AnswersAreTrue'
  <2> SUFFICES ASSUME NEW t \in Scans, (scan[t].pc # "idle")', (scan[t].key[1] \in account)'
               PROVE  /\ (scan[t].answer = "marked" => attendance[scan[t].key] = scan[t].by)'
                      /\ (scan[t].answer = "already" => Attended(scan[t].key))'
    BY DEF AnswersAreTrue
  <2>1. CASE t = s
    BY <1>1, <1>3, <2>1
  <2>2. CASE t # s
    BY <1>1, <1>3, <1>6, <2>2 DEF AnswersAreTrue, Attended
  <2> QED
    BY <2>1, <2>2
<1>9. InsertOwnsRow'
  <2> SUFFICES ASSUME NEW t \in Scans, scan'[t].pc = "inserted"
               PROVE  /\ Markable(t)'
                      /\ \A x \in Scans : scan'[x].pc = "inserted" /\ scan'[x].key = scan'[t].key
                                          => x = t
    BY DEF InsertOwnsRow
  <2>1. t # s /\ scan[t].pc = "inserted"
    BY <1>1
  <2>2. scan[t].key \in RegKeys /\ scan[t].key # k
    BY <2>1 DEF InsertOwnsRow, TypeOK, ScanRow, IdleScan
  <2> QED
    BY <1>1, <1>3, <1>5, <2>1, <2>2 DEF InsertOwnsRow, Markable, Attended
<1> QED
  BY <1>4, <1>7, <1>8, <1>9

LEMMA ScanStepInv == ASSUME IInv, NEW s \in Scans, ScanStep(s) PROVE IInv'
<1>1. TypeOK'
  BY ScanStepType DEF IInv
<1>2. \/ reg' = reg /\ attendance' = attendance
      \/ /\ scan[s].pc = "inserted" /\ Publish(s)
         /\ scan'[s].pc = "done" /\ scan'[s].answer \in {"marked", "error"}
  BY ScanStepShape DEF IInv
<1> QED
  BY <1>1, <1>2, QuietScanInv, PublishInv

(* A new scan has neither inserted nor been told anything about a mark.     *)
LEMMA FindByQRInv ==
  ASSUME IInv, NEW s \in Scans, NEW k \in RegKeys, NEW m \in Managers, FindByQR(s, k, m)
  PROVE  IInv'
<1> USE DEF IInv
<1>1. TypeOK'
  BY NextType DEF Next
<1>2. /\ account' = account /\ reg' = reg /\ attendance' = attendance
      /\ scan'[s].pc \in {"found", "done"}
      /\ scan'[s].answer \in {"none", "notfound"}
      /\ scan'[s].pc = "found" => scan'[s].answer = "none"
      /\ \A t \in Scans \ {s} : scan'[t] = scan[t]
  BY DEF FindByQR, TypeOK, regVars
<1>3. AnsweredWhenDone' /\ RowsHaveAccounts' /\ StatusFollowsJournal'
  BY <1>2 DEF AnsweredWhenDone, RowsHaveAccounts, StatusFollowsJournal, Attended
<1>4. MarkedOnce' /\ AnswersAreTrue'
  BY <1>2 DEF MarkedOnce, AnswersAreTrue, Attended
<1>5. InsertOwnsRow'
  BY <1>2 DEF InsertOwnsRow, Markable, Attended
<1> QED
  BY <1>1, <1>3, <1>4, <1>5

(* Removing an account takes its rows from both tables at once, and waits   *)
(* for the transactions that hold one of them.                              *)
LEMMA DeleteUserInv == ASSUME IInv, NEW u \in Users, DeleteUser(u) PROVE IInv'
<1> USE DEF IInv
<1>1. TypeOK'
  BY NextType DEF Next
<1>2. /\ scan' = scan /\ account' = account \ {u}
      /\ \A k \in RegKeys :
           IF k[1] = u THEN reg'[k] = NoRow /\ attendance'[k] = NoScanner
                       ELSE reg'[k] = reg[k] /\ attendance'[k] = attendance[k]
  BY DEF DeleteUser
<1>3. AnsweredWhenDone' /\ MarkedOnce'
  BY <1>2 DEF AnsweredWhenDone, MarkedOnce
<1>4. RowsHaveAccounts' /\ StatusFollowsJournal'
  BY <1>2 DEF RowsHaveAccounts, StatusFollowsJournal, Attended, NoRow
<1>5. AnswersAreTrue'
  <2>1. \A s \in Scans : scan[s].pc # "idle" => scan[s].key \in RegKeys
    BY DEF TypeOK, ScanRow, IdleScan
  <2> QED
    BY <1>2, <2>1 DEF AnswersAreTrue, Attended
<1>6. InsertOwnsRow'
  <2>1. ASSUME NEW s \in Scans, scan[s].pc = "inserted"
        PROVE  scan[s].key \in RegKeys /\ scan[s].key[1] # u /\ scan[s].by # u
    BY <2>1 DEF TypeOK, ScanRow, IdleScan, DeleteUser, Locked
  <2> QED
    BY <1>2, <2>1 DEF InsertOwnsRow, Markable, Attended
<1> QED
  BY <1>1, <1>3, <1>4, <1>5, <1>6

LEMMA NextInv == IInv /\ [Next]_vars => IInv'
<1> SUFFICES ASSUME IInv, [Next]_vars PROVE IInv'
  OBVIOUS
<1>1. CASE RegNext
  BY <1>1, RegNextInv
<1>2. ASSUME NEW s \in Scans, ScanStep(s) PROVE IInv'
  BY <1>2, ScanStepInv
<1>3. ASSUME NEW s \in Scans, NEW k \in RegKeys, NEW m \in Managers, FindByQR(s, k, m)
      PROVE IInv'
  BY <1>3, FindByQRInv
<1>4. ASSUME NEW u \in Users, DeleteUser(u) PROVE IInv'
  BY <1>4, DeleteUserInv
<1>5. CASE UNCHANGED vars
  BY <1>5 DEF vars, IInv, TypeOK, RegTypeOK, AnsweredWhenDone, RowsHaveAccounts,
     InsertOwnsRow, MarkedOnce, StatusFollowsJournal, AnswersAreTrue, Markable, Attended
<1> QED
  BY <1>1, <1>2, <1>3, <1>4, <1>5 DEF Next

(* However many scanners read one code at once, one of them at most is told *)
(* that it marked the attendance.                                           *)
THEOREM MarkedOnceHolds == Spec => []MarkedOnce
<1>1. IInv => MarkedOnce
  BY DEF IInv
<1> QED
  BY <1>1, InitInv, NextInv, PTL DEF Spec

(* registrations.status_id and the attendances table never disagree.        *)
THEOREM StatusFollowsJournalHolds == Spec => []StatusFollowsJournal
<1>1. IInv => StatusFollowsJournal
  BY DEF IInv
<1> QED
  BY <1>1, InitInv, NextInv, PTL DEF Spec

(* What a scanner was told stays true while the participant has an account. *)
THEOREM AnswersAreTrueHolds == Spec => []AnswersAreTrue
<1>1. IInv => AnswersAreTrue
  BY DEF IInv
<1> QED
  BY <1>1, InitInv, NextInv, PTL DEF Spec
-----------------------------------------------------------------------------
(* The tables of a step, seen as the journal: what is not a step of the     *)
(* journal leaves its three variables alone.                                *)
LEMMA StatusOf ==
  ASSUME TypeOK, NEW k \in RegKeys
  PROVE  /\ reg[k].status \in {"none", "registered", "attended"}
         /\ reg[k].status = "none" <=> reg[k] = NoRow
  BY DEF TypeOK, RegTypeOK, RegRow, NoRow

LEMMA SameTables ==
  ASSUME account' = account, reg' = reg, attendance' = attendance
  PROVE  UNCHANGED <<account, [k \in RegKeys |-> reg[k].status], attendance>>
  OBVIOUS

LEMMA RegNextLogs == ASSUME IInv, RegNext PROVE [Log!Next]_(Log!vars)
<1>1. /\ account' = account /\ attendance' = attendance
      /\ \/ reg' = reg
         \/ \E q \in Requests :
              /\ request[q].pc = "open" /\ Insertable(q)
              /\ reg' = [reg EXCEPT ![KeyOf(q)] = NewRow(q)]
  BY DEF RegNext, attVars, Tick, AdminStep, CreateEvent, UpdateEvent, CancelEvent,
         RequestStep, Lookup, CheckDeadline, InsertCreated, InsertConflict
<1>2. CASE reg' = reg
  BY <1>1, <1>2 DEF Log!vars
<1>3. ASSUME NEW q \in Requests, request[q].pc = "open", Insertable(q),
             reg' = [reg EXCEPT ![KeyOf(q)] = NewRow(q)]
      PROVE  Log!Next
  <2>1. KeyOf(q) \in RegKeys
    BY <1>3 DEF IInv, TypeOK, RegTypeOK, RequestRow, Idle, Served, KeyOf, RegKeys
  <2>2. PICK k \in RegKeys : k = KeyOf(q)
    BY <2>1
  <2>3. reg[k].status = "none" /\ k[1] \in account
    BY <1>3, <2>2 DEF Insertable, NoRow, KeyOf
  <2>4. \A j \in RegKeys :
          reg'[j].status = IF j = k THEN "registered" ELSE reg[j].status
    BY <1>3, <2>2 DEF IInv, TypeOK, RegTypeOK, NewRow
  <2>5. Log!Register(k)
    BY <1>1, <2>3, <2>4 DEF Log!Register, Log!Places, RegKeys
  <2> QED
    BY <2>5 DEF Log!Next, Log!Places, RegKeys
<1> QED
  BY <1>1, <1>2, <1>3

LEMMA ScanStepLogs == ASSUME IInv, NEW s \in Scans, ScanStep(s) PROVE [Log!Next]_(Log!vars)
<1>1. /\ account' = account
      /\ \/ reg' = reg /\ attendance' = attendance
         \/ scan[s].pc = "inserted" /\ Publish(s)
  BY ScanStepShape DEF IInv
<1>2. CASE reg' = reg /\ attendance' = attendance
  BY <1>1, <1>2 DEF Log!vars
<1>3. CASE scan[s].pc = "inserted" /\ Publish(s)
  <2>0. PICK k \in RegKeys, m \in Users : k = scan[s].key /\ m = scan[s].by
    BY <1>3, ScannersAssumption DEF IInv, TypeOK, ScanRow, IdleScan
  <2>1. m \in account /\ reg[k] # NoRow /\ ~Attended(k)
    BY <1>3, <2>0 DEF IInv, InsertOwnsRow, Markable
  <2>2. reg[k].status = "registered"
    BY <2>1, StatusOf DEF IInv, StatusFollowsJournal
  <2>3. reg' = [reg EXCEPT ![k] = [reg[k] EXCEPT !.status = "attended"]]
    BY <1>3, <2>0 DEF Publish, IInv, TypeOK, RegTypeOK
  <2>4. [reg[k] EXCEPT !.status = "attended"].status = "attended"
    BY <2>1 DEF IInv, TypeOK, RegTypeOK, RegRow
  <2>5. \A j \in RegKeys :
          reg'[j].status = IF j = k THEN "attended" ELSE reg[j].status
    BY <2>3, <2>4 DEF IInv, TypeOK, RegTypeOK
  <2>6. attendance' = [attendance EXCEPT ![k] = m]
    BY <1>3, <2>0 DEF Publish
  <2>7. Log!Mark(k, m)
    BY <1>1, <2>1, <2>2, <2>5, <2>6 DEF Log!Mark
  <2> QED
    BY <2>7 DEF Log!Next, Log!Places, RegKeys
<1> QED
  BY <1>1, <1>2, <1>3

LEMMA DeleteUserLogs == ASSUME IInv, NEW u \in Users, DeleteUser(u) PROVE Log!Erase(u)
<1>1. /\ u \in account /\ account' = account \ {u}
      /\ \A k \in RegKeys : attendance[k] = u => k[1] = u
      /\ attendance' = [k \in RegKeys |-> IF k[1] = u THEN NoScanner ELSE attendance[k]]
  BY DEF DeleteUser
<1>2. \A k \in RegKeys : reg'[k].status = IF k[1] = u THEN "none" ELSE reg[k].status
  BY DEF DeleteUser, NoRow
<1> QED
  BY <1>1, <1>2 DEF Log!Erase, Log!Places, RegKeys

LEMMA NextLogs == IInv /\ [Next]_vars => [Log!Next]_(Log!vars)
<1> SUFFICES ASSUME IInv, [Next]_vars PROVE [Log!Next]_(Log!vars)
  OBVIOUS
<1>1. CASE RegNext
  BY <1>1, RegNextLogs
<1>2. ASSUME NEW s \in Scans, ScanStep(s) PROVE [Log!Next]_(Log!vars)
  BY <1>2, ScanStepLogs
<1>3. ASSUME NEW s \in Scans, NEW k \in RegKeys, NEW m \in Managers, FindByQR(s, k, m)
      PROVE [Log!Next]_(Log!vars)
  BY <1>3 DEF FindByQR, regVars, Log!vars
<1>4. ASSUME NEW u \in Users, DeleteUser(u) PROVE [Log!Next]_(Log!vars)
  BY <1>4, DeleteUserLogs DEF Log!Next
<1>5. CASE UNCHANGED vars
  BY <1>5 DEF vars, Log!vars
<1> QED
  BY <1>1, <1>2, <1>3, <1>4, <1>5 DEF Next

(* The handlers, their transactions and their failures implement the        *)
(* journal: every behaviour is one AttendanceLog allows.                    *)
THEOREM JournalImplemented == Spec => ImplementsLog
<1>1. Init => Log!Init
  BY DEF Init, RegInit, NoRow, Log!Init, Log!Places, RegKeys
<1> QED
  BY <1>1, InitInv, NextInv, NextLogs, PTL DEF Spec, ImplementsLog, Log!Spec

(* A mark never changes hands, and goes only in the step that removes the   *)
(* participant's account.                                                   *)
THEOREM MarkFinal == Spec => MarkIsFinal
<1>1. IInv /\ [Next]_vars =>
        [\A k \in RegKeys : Attended(k) =>
           attendance'[k] = attendance[k] \/ k[1] \in account \ account']_vars
  <2> SUFFICES ASSUME IInv, [Next]_vars, NEW k \in RegKeys, Attended(k)
               PROVE  attendance'[k] = attendance[k] \/ k[1] \in account \ account'
    OBVIOUS
  <2>1. CASE RegNext
    BY <2>1, RegNextAdds DEF IInv
  <2>2. ASSUME NEW s \in Scans, ScanStep(s) PROVE attendance'[k] = attendance[k]
    <3>1. \/ attendance' = attendance
          \/ scan[s].pc = "inserted" /\ Publish(s)
      BY <2>2, ScanStepShape DEF IInv
    <3>2. scan[s].pc = "inserted" => scan[s].key # k
      BY DEF IInv, InsertOwnsRow, Markable
    <3> QED
      BY <3>1, <3>2 DEF Publish, IInv, TypeOK
  <2>3. ASSUME NEW s \in Scans, NEW j \in RegKeys, NEW m \in Managers, FindByQR(s, j, m)
        PROVE  attendance'[k] = attendance[k]
    BY <2>3 DEF FindByQR
  <2>4. ASSUME NEW u \in Users, DeleteUser(u)
        PROVE  attendance'[k] = attendance[k] \/ k[1] \in account \ account'
    BY <2>4 DEF DeleteUser
  <2>5. CASE UNCHANGED vars
    BY <2>5 DEF vars
  <2> QED
    BY <2>1, <2>2, <2>3, <2>4, <2>5 DEF Next
<1> QED
  BY <1>1, InitInv, NextInv, PTL DEF Spec, MarkIsFinal
=============================================================================
