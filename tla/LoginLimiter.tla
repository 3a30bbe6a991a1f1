----------------------------- MODULE LoginLimiter -----------------------------
(***************************************************************************)
(* The table login_attempts and the question the login handler asks of it: *)
(* were there Limit failed attempts with this e-mail address or this       *)
(* caller within the last Window units of time (repo.go IsRateLimited,     *)
(* RecordLoginAttempt; handlers.go login).  Access extends this module.    *)
(*                                                                         *)
(* The caller is what the handler puts into ip_address: the X-Real-IP      *)
(* header of the request, or the remote address with its port.  It names   *)
(* no machine: two requests of one phone may bring two of them, so the     *)
(* model gives each request any, and nothing is claimed for a caller.      *)
(*                                                                         *)
(* Only the age of an attempt matters, so a tick of the clock makes the    *)
(* attempts older instead of counting time; those that have left the       *)
(* window are dropped, since nothing reads them (cleanup-revoked.sh        *)
(* deletes them after a day).  Rows of successful attempts are written and *)
(* never read, and are left out.                                           *)
(***************************************************************************)
EXTENDS Naturals, FiniteSets

CONSTANTS
  Origins,    \* pairs of an e-mail address as typed and a caller
  Storable,   \* those that fit email VARCHAR(255) and ip_address VARCHAR(45)
  Limit,      \* failed attempts that close the door, 5 in the code
  Window,     \* how long an attempt counts, 15 minutes in the code
  MaxFaults   \* bound of the statements on login_attempts that fail

ASSUME LimiterAssumption ==
  /\ {Limit, Window} \subseteq Nat \ {0}
  /\ MaxFaults \in Nat
  /\ Storable \subseteq Origins

VARIABLES
  attempt,    \* the rows of login_attempts, the failed ones
  refused,    \* history: the answers 401 to Storable ones, as the rows they were to leave
  faults      \* history: statements on login_attempts that failed

limiterVars == <<attempt, refused, faults>>

-----------------------------------------------------------------------------
(* Rows of one origin and age differ in nth, which stands for their id.     *)
Row == [from : Origins, age : 0 .. Window - 1, nth : Nat]

LimiterTypeOK ==
  /\ attempt \subseteq Row
  /\ refused \subseteq Row /\ IsFiniteSet(refused)
  /\ faults \in 0 .. MaxFaults

LimiterInit ==
  /\ attempt = {}
  /\ refused = {}
  /\ faults = 0

Made(rows, origins) == Cardinality({r \in rows : r.from \in origins})

(* email = $1 OR ip_address = $2                                            *)
Matching(o) == {p \in Origins : p[1] = o[1] \/ p[2] = o[2]}

\* Mutant: one attempt more than the limit.
IsRateLimitedLate(o) == Made(attempt, Matching(o)) > Limit

IsRateLimited(o) == Made(attempt, Matching(o)) >= Limit

(* The handler drops the error of the count and reads it as FALSE.          *)
Admitted(o) ==
  \/ ~IsRateLimited(o) /\ UNCHANGED faults
  \/ faults < MaxFaults /\ faults' = faults + 1

Numbered(o, n) == [from |-> o, age |-> 0, nth |-> n]

NewRow(o) ==
  Numbered(o, CHOOSE n \in 0 .. Cardinality(refused) : Numbered(o, n) \notin refused)

(* The attempt is recorded, or the INSERT fails unnoticed, and the answer   *)
(* is 401 either way.  The INSERT of a value too long for its column always *)
(* fails.                                                                   *)
RecordLoginAttempt(o) ==
  IF o \notin Storable THEN UNCHANGED limiterVars ELSE
  /\ \/ attempt' = attempt \cup {NewRow(o)} /\ UNCHANGED faults
     \/ faults < MaxFaults /\ faults' = faults + 1 /\ UNCHANGED attempt
  /\ refused' = refused \cup {NewRow(o)}

Aged(r) == [r EXCEPT !.age = @ + 1]
Older(rows) == {Aged(r) : r \in {s \in rows : s.age + 1 < Window}}

Tick ==
  /\ attempt' = Older(attempt)
  /\ refused' = Older(refused)
  /\ UNCHANGED faults
=============================================================================
