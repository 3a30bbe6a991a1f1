---------------------------- MODULE MCMailSchedule ----------------------------
(* Instances of MailSchedule for TLC: registration closes a day before the  *)
(* event.  With the near dates it closes on the day the clock starts or on  *)
(* the next one, so that an event may be moved over its deadline; the       *)
(* letter that is sent twice needs one date only.                           *)
EXTENDS MailSchedule, TLC

NearDates == {1, 2}
NearDeadlineOf == [d \in NearDates |-> d - 1]
OneDate == {2}
OneDeadline == [d \in OneDate |-> d - 1]

(* Users and requests are interchangeable; only runs of safety properties   *)
(* use the reduction.                                                       *)
Symmetry == Permutations(Users) \cup Permutations(Requests)
=============================================================================
