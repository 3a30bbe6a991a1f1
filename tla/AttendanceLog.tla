----------------------------- MODULE AttendanceLog -----------------------------
(***************************************************************************)
(* What the attendance journal promises, without requests, transactions or *)
(* failures: a participant's place at an event is registered, is marked    *)
(* once by one scanner, and disappears only together with the account.     *)
(***************************************************************************)
CONSTANTS Users, Events, NoScanner

VARIABLES
  members,  \* the users that have an account
  place,    \* "none", "registered" or "attended" for each user and event
  by        \* who marked the attendance

vars == <<members, place, by>>

Places == Users \X Events

Init ==
  /\ members = Users
  /\ place = [k \in Places |-> "none"]
  /\ by = [k \in Places |-> NoScanner]

Register(k) ==
  /\ k[1] \in members
  /\ place[k] = "none"
  /\ place' = [place EXCEPT ![k] = "registered"]
  /\ UNCHANGED <<members, by>>

Mark(k, s) ==
  /\ place[k] = "registered"
  /\ s \in members
  /\ place' = [place EXCEPT ![k] = "attended"]
  /\ by' = [by EXCEPT ![k] = s]
  /\ UNCHANGED members

(* An account goes with everything that is its own, and cannot go while an  *)
(* attendance of somebody else names it as the scanner.                     *)
Erase(u) ==
  /\ u \in members
  /\ \A k \in Places : by[k] = u => k[1] = u
  /\ members' = members \ {u}
  /\ place' = [k \in Places |-> IF k[1] = u THEN "none" ELSE place[k]]
  /\ by' = [k \in Places |-> IF k[1] = u THEN NoScanner ELSE by[k]]

Next ==
  \/ \E k \in Places : Register(k) \/ \E s \in Users : Mark(k, s)
  \/ \E u \in Users : Erase(u)

Spec == Init /\ [][Next]_vars
=============================================================================
