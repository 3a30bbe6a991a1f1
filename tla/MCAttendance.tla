----------------------------- MODULE MCAttendance -----------------------------
(* An instance of Attendance for TLC: one event, a participant and two      *)
(* managers, each of whom may scan, register or lose the account.           *)
EXTENDS Attendance

MCDates == {1}
MCDeadlineOf == [d \in MCDates |-> 0]
=============================================================================
