------------------------------ MODULE MCDeadlines ------------------------------
(* Instances of Deadlines for TLC: an event on any day of the second week,  *)
(* and a clock that stops around midnight in both zones.                    *)
EXTENDS Deadlines

MCDates == 7 .. 13
=============================================================================
