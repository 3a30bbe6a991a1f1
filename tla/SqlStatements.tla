--------------------------- MODULE SqlStatements ---------------------------
(***************************************************************************)
(* What one statement of a migration file does to a PostgreSQL schema.    *)
(* psql -f runs a file without a transaction around it, so a statement    *)
(* (a DO block counts as one) is the unit that is applied or not.         *)
(*                                                                         *)
(* An object is a table, column, index, view, trigger or set of reference *)
(* rows.  A statement                                                      *)
(*   needs   objects it names: without one of them it is an error          *)
(*   clash   objects it creates with no IF NOT EXISTS: with one of them    *)
(*           already there it is an error                                  *)
(*   guard   objects its IF EXISTS asks for: without them it does nothing  *)
(*   unless  objects its IF NOT EXISTS asks for: with them it does nothing *)
(*   makes, drops   objects that are there / gone when it has run          *)
(*   writes  the data it writes again each time it runs                    *)
(***************************************************************************)
EXTENDS Sequences

Statement == [needs |-> {}, clash |-> {}, guard |-> {}, unless |-> {},
              makes |-> {}, drops |-> {}, writes |-> {}]

\* CREATE TABLE IF NOT EXISTS: with the table there its columns stay as they are.
Table(table, needs, columns) ==
    [Statement EXCEPT !.needs = needs, !.unless = {table}, !.makes = {table} \cup columns]

\* A run of statements that add what is missing: ADD COLUMN IF NOT EXISTS, CREATE
\* INDEX IF NOT EXISTS, CREATE OR REPLACE, INSERT ... ON CONFLICT on a unique key.
\* A crash between two of them leaves nothing the next run does not finish.
Add(needs, objects) == [Statement EXCEPT !.needs = needs, !.makes = objects]

\* CREATE with neither IF NOT EXISTS nor OR REPLACE.
Create(needs, objects) ==
    [Statement EXCEPT !.needs = needs, !.clash = objects, !.makes = objects]

\* The same in a DO block that asks for the reference rows it reads.
CreateIf(asked, needs, objects) ==
    [Statement EXCEPT !.guard = asked, !.needs = needs, !.clash = objects, !.makes = objects]

\* DROP ... IF EXISTS.
Drop(objects) == [Statement EXCEPT !.drops = objects]

\* INSERT or UPDATE that nothing keeps from taking effect again.
Write(needs, data) == [Statement EXCEPT !.needs = needs, !.writes = data]

\* DO block: IF the old columns exist THEN copy their data, drop them.
Move(old, needs, objects, data) ==
    [Statement EXCEPT !.guard = old, !.needs = needs, !.makes = objects,
                      !.drops = old, !.writes = data]

(***************************************************************************)

Idle(s, objects) == ~ s.guard \subseteq objects \/ (s.unless # {} /\ s.unless \subseteq objects)

Refused(s, objects) == ~ Idle(s, objects) /\ (~ s.needs \subseteq objects \/ s.clash \cap objects # {})

After(s, objects) == IF Idle(s, objects) THEN objects
                     ELSE (objects \ s.drops) \cup s.makes

Written(s, objects) == IF Idle(s, objects) THEN {} ELSE s.writes
=============================================================================
