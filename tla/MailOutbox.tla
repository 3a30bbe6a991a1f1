------------------------------ MODULE MailOutbox ------------------------------
(***************************************************************************)
(* What the mail of participants promises, without requests, dates,        *)
(* goroutines, an SMTP server or a database: whoever takes a place at an   *)
(* event is owed a list, a list names everybody who has a place when it is *)
(* read, and it is carried to its end unless a failure waives the event.   *)
(***************************************************************************)
CONSTANTS Users, Events

VARIABLES
  places,   \* the users that have a place, for each event
  owed,     \* the events whose list somebody will read from now on
  carried,  \* the lists that were read, delivered or on their way
  waived    \* the events that a failure has touched

vars == <<places, owed, carried, waived>>

Init ==
  /\ places = [e \in Events |-> {}]
  /\ owed = {}
  /\ carried = [e \in Events |-> {}]
  /\ waived = {}

(* A place and the debt of a list for it come in one step, or the failure   *)
(* that keeps the server from knowing of the place waives the event.        *)
Join(e, u) ==
  /\ u \notin places[e]
  /\ places' = [places EXCEPT ![e] = places[e] \cup {u}]
  /\ \/ owed' = owed \cup {e} /\ UNCHANGED waived
     \/ waived' = waived \cup {e} /\ UNCHANGED owed
  /\ UNCHANGED carried

(* A user who leaves gives up every place; the lists that are owed are read *)
(* without the user from then on.                                           *)
Leave(u) ==
  /\ places' = [e \in Events |-> places[e] \ {u}]
  /\ UNCHANGED <<owed, carried, waived>>

(* After a restart the list of an event is owed anew.                       *)
Owe(e) ==
  /\ owed' = owed \cup {e}
  /\ UNCHANGED <<places, carried, waived>>

(* Several debts of one event may stand: reading a list settles one.        *)
Settle(e) == owed' = owed \/ owed' = owed \ {e}

Read(e) ==
  /\ e \in owed
  /\ Settle(e)
  /\ carried' = [carried EXCEPT ![e] = carried[e] \cup ({places[e]} \ {{}})]
  /\ UNCHANGED <<places, waived>>

ReadFails(e) ==
  /\ e \in owed
  /\ Settle(e)
  /\ waived' = waived \cup {e}
  /\ UNCHANGED <<places, carried>>

(* A letter is lost; another with the same list may be on its way.          *)
Lose(e) ==
  /\ waived' = waived \cup {e}
  /\ \E list \in carried[e] :
       carried' = carried \/ carried' = [carried EXCEPT ![e] = carried[e] \ {list}]
  /\ UNCHANGED <<places, owed>>

(* The process dies with what it owed and with letters on their way.        *)
Die ==
  /\ owed' = {} /\ waived' = Events
  /\ carried' \in [Events -> SUBSET (SUBSET Users)]
  /\ \A e \in Events : carried'[e] \subseteq carried[e]
  /\ UNCHANGED places

Next ==
  \/ \E e \in Events :
       \/ Owe(e) \/ Read(e) \/ ReadFails(e) \/ Lose(e)
       \/ \E u \in Users : Join(e, u)
  \/ \E u \in Users : Leave(u)
  \/ Die

Spec == Init /\ [][Next]_vars

(* A whole list is carried for an event that owes none and was not waived.  *)
WholeListCarried ==
  \A e \in Events :
    e \notin owed \cup waived /\ places[e] # {} =>
      \E list \in carried[e] : places[e] \subseteq list
=============================================================================
