----------------------------- MODULE PostRegister -----------------------------
(***************************************************************************)
(* What Positions promises, without requests, reviews, notifications and   *)
(* failures: a leading post of a unit and a unique post of a headquarters  *)
(* have one holder; a user may move as he likes to what is not taken, but  *)
(* the record has only, and all of, what was granted: to a user the very   *)
(* place or seat he asked for.  A headquarters post can be lost at any     *)
(* time.  Positions implements it.                                         *)
(***************************************************************************)
EXTENDS Sequences

CONSTANTS Users, Units, HQs, Posts, Leaders, HQPosts, UniqueHQPosts, NoUnit

VARIABLES
  place,   \* the post and the unit of each user
  asked,   \* the posts in units that users ask for
  seat,    \* the headquarters posts that users ask for or hold
  record   \* what was granted, in order

vars == <<place, asked, seat, record>>

Place == [post : Posts \cup {"none"}, unit : Units \cup {NoUnit}]
NoPlace == [post |-> "none", unit |-> NoUnit]
Absent == [post |-> "absent", unit |-> NoUnit]
Wish == [user : Users, post : Posts, unit : Units \cup {NoUnit}]
Seats == Users \X HQs
NoSeat == [post |-> "none", state |-> "asked"]

Leading(p) == {u \in Users : place[u] = p /\ p.post \in Leaders /\ p.unit # NoUnit}
Holding(h, p) == {u \in Users : seat[<<u, h>>] = [post |-> p, state |-> "held"]}

Init ==
  /\ place = [u \in Users |-> Absent]
  /\ asked = {}
  /\ seat = [k \in Seats |-> NoSeat]
  /\ record = <<>>

(* Who names no unit stays in his own.                                      *)
At(u, p, n) == [post |-> p, unit |-> IF n = NoUnit THEN place[u].unit ELSE n]

Settle(u, p) ==
  /\ Leading(p) \subseteq {u}
  /\ place' = [place EXCEPT ![u] = p]
  /\ UNCHANGED <<asked, seat>>

Join(u, p) == place[u] = Absent /\ Settle(u, p) /\ UNCHANGED record

Move(u, p, n) == place[u] # Absent /\ Settle(u, At(u, p, n)) /\ UNCHANGED record

(* A new wish may replace earlier ones of the user.                         *)
Ask(w) ==
  /\ w \in asked'
  /\ asked' \subseteq asked \cup {w}
  /\ \A o \in asked \ asked' : o.user = w.user
  /\ UNCHANGED <<place, seat, record>>

Grant(w) ==
  /\ w \in asked
  /\ place[w.user] # Absent
  /\ Settle(w.user, At(w.user, w.post, w.unit))
  /\ record' = Append(record, [user |-> w.user, new |-> At(w.user, w.post, w.unit)])

AskSeat(k, p) ==
  /\ seat' = [seat EXCEPT ![k] = [post |-> p, state |-> "asked"]]
  /\ UNCHANGED <<place, asked, record>>

TakeSeat(k) ==
  /\ seat[k] # NoSeat
  /\ seat[k].post \in UniqueHQPosts => Holding(k[2], seat[k].post) \subseteq {k[1]}
  /\ seat' = [seat EXCEPT ![k].state = "held"]
  /\ record' = Append(record, [user |-> k[1], new |-> NoPlace])
  /\ UNCHANGED <<place, asked>>

LoseSeats(u, hqs) ==
  /\ seat' = [k \in Seats |-> IF k[1] = u /\ k[2] \in hqs
                              THEN [seat[k] EXCEPT !.state = "asked"] ELSE seat[k]]
  /\ UNCHANGED <<place, asked, record>>

Next ==
  \/ \E u \in Users, p \in Place : Join(u, p)
  \/ \E u \in Users, p \in Posts, n \in Units \cup {NoUnit} : Move(u, p, n)
  \/ \E w \in Wish : Ask(w) \/ Grant(w)
  \/ \E k \in Seats : TakeSeat(k) \/ \E p \in HQPosts : AskSeat(k, p)
  \/ \E u \in Users, hqs \in SUBSET HQs : LoseSeats(u, hqs)

Spec == Init /\ [][Next]_vars
=============================================================================
