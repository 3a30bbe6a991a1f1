----------------------------- MODULE Migrations -----------------------------
(***************************************************************************)
(* docker/run-migrations.sh, the one-shot container that brings the        *)
(* database up to date, and the API service docker-compose.yml starts      *)
(* when that container has ended well.                                     *)
(*                                                                         *)
(* The script walks the files in order.  For each one it asks             *)
(* schema_migrations whether the file was applied, runs the file with psql *)
(* and then, in another psql call, records it.  Nothing joins the three:   *)
(* the container may be killed between any two statements, and a query     *)
(* that fails where the script asks counts as the answer "not applied".    *)
(*                                                                         *)
(* The specification is named MigrationSpec: DeploymentProofs extends this  *)
(* module together with Deadlines.                                         *)
(***************************************************************************)
EXTENDS Naturals, FiniteSets, SqlStatements

CONSTANTS
    Files,          \* the sorted files, each a sequence of statements
    MaxRuns,        \* bound: how many times the container is started
    MaxFailures     \* bound: how many psql calls fail for want of a connection

\* An empty file would be recorded without a statement to run; the repository has none.
ASSUME FilesAssumption ==
    /\ Len(Files) \in Nat
    /\ \A f \in 1..Len(Files) : Len(Files[f]) \in Nat \ {0}
ASSUME BoundsAssumption == MaxRuns \in Nat /\ MaxFailures \in Nat

VARIABLES
    objects,    \* what there is in the schema
    recorded,   \* rows of schema_migrations: the places in Files of the recorded ones
    written,    \* <<d, n>>: the n-th run wrote the data d
    runner,     \* the script: where it stands, at which file, at which statement
    api,        \* whether the API service has been started
    runs, failures

migrationVars == <<objects, recorded, written, runner, api, runs, failures>>

LockTable == "schema_migrations"

RunnerStates == {"off", "preparing", "asking", "applying", "recording",
                 "done", "refused", "unreachable", "killed"}

ScriptRuns == runner.at \in {"preparing", "asking", "applying", "recording"}

MigrationTypeOK ==
    /\ recorded \subseteq 1..Len(Files)
    /\ \A w \in written : w[2] \in 1..runs
    /\ runner.at \in RunnerStates
    /\ runner.file \in 1..Len(Files) + 1
    /\ runner.at = "applying" => runner.statement \in 1..Len(Files[runner.file])
    /\ api \in BOOLEAN
    /\ runs \in 0..MaxRuns
    /\ failures \in 0..MaxFailures

MigrationInit ==
    /\ objects = {}
    /\ recorded = {}
    /\ written = {}
    /\ runner = [at |-> "off", file |-> 1, statement |-> 1]
    /\ api = FALSE
    /\ runs = 0
    /\ failures = 0

(***************************************************************************)
(* A psql call that gets no connection.                                    *)
(***************************************************************************)

Fails == failures < MaxFailures /\ failures' = failures + 1

Ends(how) == runner' = [runner EXCEPT !.at = how]

(***************************************************************************)
(* docker compose up                                                       *)
(***************************************************************************)

\* The container starts; the wait for postgres either ends or is given up.
StartContainer ==
    /\ ~ ScriptRuns
    /\ runs < MaxRuns
    /\ runs' = runs + 1
    /\ runner' = [at |-> "preparing", file |-> 1, statement |-> 1]
    /\ UNCHANGED <<objects, recorded, written, api, failures>>

\* CREATE TABLE IF NOT EXISTS schema_migrations, whose failure "|| true" hides.
CreateLockTable ==
    /\ runner.at = "preparing"
    /\ \/ objects' = objects \cup {LockTable} /\ UNCHANGED failures
       \/ Fails /\ UNCHANGED objects
    /\ Ends("asking")
    /\ UNCHANGED <<recorded, written, api, runs>>

\* SELECT COUNT(*) FROM schema_migrations: "1" skips the file, any other outcome and
\* an error ("0") apply it.
Skip ==
    /\ runner.at = "asking"
    /\ runner.file \in recorded
    /\ runner' = [runner EXCEPT !.file = @ + 1]
    /\ UNCHANGED <<objects, recorded, written, api, runs, failures>>

\* Mutant: the file is recorded before it is applied.
RecordFirst ==
    /\ runner.at = "asking"
    /\ runner.file <= Len(Files)
    /\ \/ runner.file \notin recorded /\ UNCHANGED failures
       \/ Fails
    /\ recorded' = recorded \cup {runner.file}
    /\ runner' = [runner EXCEPT !.at = "applying", !.statement = 1]
    /\ UNCHANGED <<objects, written, api, runs>>

Apply ==
    /\ runner.at = "asking"
    /\ runner.file <= Len(Files)
    /\ \/ runner.file \notin recorded /\ UNCHANGED failures
       \/ Fails
    /\ runner' = [runner EXCEPT !.at = "applying", !.statement = 1]
    /\ UNCHANGED <<objects, recorded, written, api, runs>>

(***************************************************************************)
(* psql -v ON_ERROR_STOP=1 -f                                              *)
(***************************************************************************)

Following(s, file) ==
    IF s < Len(Files[file])
    THEN [at |-> "applying", file |-> file, statement |-> s + 1]
    ELSE [at |-> "recording", file |-> file, statement |-> s]

\* The statement is applied and committed by itself.
RunStatement ==
    /\ runner.at = "applying"
    /\ LET s == Files[runner.file][runner.statement] IN
       /\ ~ Refused(s, objects)
       /\ objects' = After(s, objects)
       /\ written' = written \cup (Written(s, objects) \X {runs})
    /\ runner' = Following(runner.statement, runner.file)
    /\ UNCHANGED <<recorded, api, runs, failures>>

\* Mutant: no "set -e", the loop goes on with the next file.
RefusedGoesOn ==
    /\ runner.at = "applying"
    /\ Refused(Files[runner.file][runner.statement], objects)
    /\ runner' = [at |-> "asking", file |-> runner.file + 1, statement |-> 1]
    /\ UNCHANGED <<objects, recorded, written, api, runs, failures>>

\* The database refuses the statement: psql stops, and "set -e" stops the script.
StatementRefused ==
    /\ runner.at = "applying"
    /\ Refused(Files[runner.file][runner.statement], objects)
    /\ Ends("refused")
    /\ UNCHANGED <<objects, recorded, written, api, runs, failures>>

\* INSERT INTO schema_migrations ... ON CONFLICT DO NOTHING.
Record ==
    /\ runner.at = "recording"
    /\ LockTable \in objects
    /\ recorded' = recorded \cup {runner.file}
    /\ runner' = [at |-> "asking", file |-> runner.file + 1, statement |-> 1]
    /\ UNCHANGED <<objects, written, api, runs, failures>>

\* With no table to record in, the INSERT fails and the script stops.
RecordRefused ==
    /\ runner.at = "recording"
    /\ LockTable \notin objects
    /\ Ends("refused")
    /\ UNCHANGED <<objects, recorded, written, api, runs, failures>>

\* psql loses or does not get its connection, while it applies or records.
ConnectionLost ==
    /\ runner.at \in {"applying", "recording"}
    /\ Fails
    /\ Ends("unreachable")
    /\ UNCHANGED <<objects, recorded, written, api, runs>>

\* After the last file the script ends with 0: service_completed_successfully.
Done ==
    /\ runner.at = "asking"
    /\ runner.file > Len(Files)
    /\ Ends("done")
    /\ api' = TRUE
    /\ UNCHANGED <<objects, recorded, written, runs, failures>>

\* The container or its host goes down; restart: "no".
Kill ==
    /\ ScriptRuns
    /\ Ends("killed")
    /\ UNCHANGED <<objects, recorded, written, api, runs, failures>>

ScriptStep == CreateLockTable \/ Skip \/ Apply \/ RunStatement \/ StatementRefused
              \/ Record \/ RecordRefused \/ ConnectionLost \/ Done

MigrationNext == StartContainer \/ ScriptStep \/ Kill

MigrationSpec == MigrationInit /\ [][MigrationNext]_migrationVars

(***************************************************************************)
(* Properties                                                              *)
(***************************************************************************)

\* The files are recorded in their order with no gap, whatever runs were killed, lost
\* a query or applied a recorded file again (run-migrations.sh:31-49), and the API, which
\* docker-compose starts on service_completed_successfully, meets a database that every
\* file has been recorded for.
RecordedInOrder ==
    \E n \in 0..Len(Files) : recorded = 1..n /\ (api => n = Len(Files))
=============================================================================
