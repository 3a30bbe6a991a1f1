--------------------------- MODULE DeploymentProofs ---------------------------
(***************************************************************************)
(* What an upgrade of the service may rely on.  The runner of the          *)
(* migrations records any list of files in its order and lets the API      *)
(* start last (Migrations).  With the repository's 22 files no data are    *)
(* moved twice, a script that ends well leaves the whole schema, and a     *)
(* file applied again is refused only where RefusedOnlyAt says, for any    *)
(* number of starts, kills and lost queries.  Around one of those files,   *)
(* 023, the closing of the registrations means what the calendar says, and *)
(* the letters are neither repeated nor forgotten beyond what Deadlines    *)
(* allows, for any number of working days, any event and any restarts.     *)
(***************************************************************************)
EXTENDS MCMigrations, Deadlines, FiniteSetTheorems, TLAPS

-----------------------------------------------------------------------------
\* What a step needs to know of the runner: it is never further than one file past
\* the recorded ones, although it may be behind them, at a file it applies again.
Bounded(n) ==
    /\ recorded = 1..n
    /\ runner \in [at : RunnerStates, file : Nat \ {0}, statement : Nat]
    /\ ScriptRuns => runner.file <= n + 1
    /\ runner.at \in {"applying", "recording"} => runner.file <= Len(Files)
    /\ api = TRUE => n = Len(Files)

MigrationIInv == /\ api \in BOOLEAN
        /\ \E n \in 0..Len(Files) : Bounded(n)

\* Before the first run nothing is recorded.
LEMMA MigrationInitIInv == MigrationInit => MigrationIInv
<1> SUFFICES ASSUME MigrationInit PROVE MigrationIInv
    OBVIOUS
<1>1. recorded = 1..0 /\ api = FALSE /\ runner = [at |-> "off", file |-> 1, statement |-> 1]
    BY DEF MigrationInit
<1>2. ~ScriptRuns
    BY <1>1 DEF ScriptRuns
<1>3. Bounded(0)
    BY <1>1, <1>2 DEF Bounded, RunnerStates
<1>4. 0 \in 0..Len(Files)
    BY FilesAssumption
<1>5. api \in BOOLEAN
    BY <1>1
<1> QED
    BY <1>3, <1>4, <1>5, Zenon DEF MigrationIInv

\* Every step of the script, its start and its end keep the bound.
LEMMA MigrationNextIInv == MigrationIInv /\ [MigrationNext]_migrationVars => MigrationIInv'
<1> SUFFICES ASSUME MigrationIInv, [MigrationNext]_migrationVars PROVE MigrationIInv'
    OBVIOUS
<1> PICK n \in 0..Len(Files) : Bounded(n)
    BY DEF MigrationIInv
<1> USE FilesAssumption DEF Bounded, RunnerStates
<1>1. CASE StartContainer
  <2>1. Bounded(n)'
      BY <1>1 DEF StartContainer, ScriptRuns
  <2> QED
      BY <1>1, <2>1 DEF StartContainer, MigrationIInv
<1>2. CASE CreateLockTable
  <2>1. Bounded(n)'
      BY <1>2 DEF CreateLockTable, Ends, ScriptRuns
  <2> QED
      BY <1>2, <2>1 DEF CreateLockTable, MigrationIInv
<1>3. CASE Skip
  <2>1. runner.file + 1 <= n + 1
      BY <1>3 DEF Skip
  <2>2. Bounded(n)'
      BY <1>3, <2>1 DEF Skip, ScriptRuns
  <2> QED
      BY <1>3, <2>2 DEF Skip, MigrationIInv
<1>4. CASE Apply
  <2>1. Bounded(n)'
      BY <1>4 DEF Apply, ScriptRuns
  <2> QED
      BY <1>4, <2>1 DEF Apply, MigrationIInv
<1>5. CASE RunStatement
  <2>1. runner.file' = runner.file /\ runner'.at \in {"applying", "recording"}
      BY <1>5 DEF RunStatement, Following
  <2>2. runner' \in [at : RunnerStates, file : Nat \ {0}, statement : Nat]
      BY <1>5 DEF RunStatement, Following
  <2>3. Bounded(n)'
      BY <1>5, <2>1, <2>2 DEF RunStatement, ScriptRuns
  <2> QED
      BY <1>5, <2>3 DEF RunStatement, MigrationIInv
<1>6. CASE StatementRefused \/ RecordRefused \/ ConnectionLost \/ Kill
  <2>1. UNCHANGED <<recorded, api>> /\ ~ScriptRuns' /\ runner'.at \in RunnerStates
      BY <1>6 DEF StatementRefused, RecordRefused, ConnectionLost, Kill, Ends, ScriptRuns
  <2>2. runner' \in [at : RunnerStates, file : Nat \ {0}, statement : Nat]
      BY <1>6 DEF StatementRefused, RecordRefused, ConnectionLost, Kill, Ends
  <2>3. Bounded(n)'
      BY <2>1, <2>2 DEF ScriptRuns
  <2> QED
      BY <2>1, <2>3 DEF MigrationIInv
<1>7. CASE Record
  <2>1. CASE runner.file = n + 1
    <3>1. recorded' = 1..(n + 1) /\ n + 1 \in 0..Len(Files)
        BY <1>7, <2>1 DEF Record
    <3>2. Bounded(n + 1)'
        BY <1>7, <2>1, <3>1 DEF Record, ScriptRuns
    <3> QED
        BY <1>7, <3>1, <3>2 DEF Record, MigrationIInv
  <2>2. CASE runner.file # n + 1
    <3>1. recorded' = 1..n /\ runner.file <= n
        BY <1>7, <2>2 DEF Record, ScriptRuns
    <3>2. Bounded(n)'
        BY <1>7, <3>1 DEF Record, ScriptRuns
    <3> QED
        BY <1>7, <3>2 DEF Record, MigrationIInv
  <2> QED
      BY <2>1, <2>2
<1>8. CASE Done
  <2>1. n = Len(Files)
      BY <1>8 DEF Done, ScriptRuns
  <2>2. Bounded(n)'
      BY <1>8, <2>1 DEF Done, Ends, ScriptRuns
  <2> QED
      BY <1>8, <2>2 DEF Done, MigrationIInv
<1>9. CASE UNCHANGED migrationVars
    BY <1>9 DEF migrationVars, MigrationIInv, ScriptRuns
<1> QED
    BY <1>1, <1>2, <1>3, <1>4, <1>5, <1>6, <1>7, <1>8, <1>9 DEF MigrationNext, ScriptStep

\* A run that works has been counted: what it writes carries its number.
Counted == ScriptRuns => runs \in Nat \ {0}

MigrationTypes == MigrationIInv /\ MigrationTypeOK /\ Counted

LEMMA MigrationInitTypes == MigrationInit => MigrationTypeOK /\ Counted
<1> SUFFICES ASSUME MigrationInit PROVE MigrationTypeOK /\ Counted
    OBVIOUS
<1>1. ~ ScriptRuns /\ runner.at = "off" /\ runner.file = 1 /\ 1 \in 1..Len(Files) + 1
    BY FilesAssumption DEF MigrationInit, ScriptRuns
<1>2. 0 \in 0..MaxRuns /\ 0 \in 0..MaxFailures /\ runs = 0 /\ failures = 0
    BY BoundsAssumption DEF MigrationInit
<1>3. recorded = {} /\ written = {} /\ api \in BOOLEAN
    BY DEF MigrationInit
<1> QED
    BY <1>1, <1>2, <1>3 DEF MigrationTypeOK, Counted, RunnerStates

LEMMA MigrationNextTypes ==
    ASSUME MigrationTypes, [MigrationNext]_migrationVars
    PROVE  MigrationTypeOK' /\ Counted'
<1> USE DEF MigrationTypes, RunnerStates
<1>n. PICK n \in 0..Len(Files) : Bounded(n)
    BY DEF MigrationIInv
<1>b. /\ Len(Files) \in Nat /\ MaxRuns \in Nat /\ MaxFailures \in Nat
      /\ runs \in Nat /\ failures \in Nat /\ n \in Nat
    BY FilesAssumption, BoundsAssumption DEF MigrationTypeOK
<1>f. runner \in [at : RunnerStates, file : Nat \ {0}, statement : Nat]
    BY <1>n DEF Bounded
<1>1. CASE StartContainer
    <2>1. runs' \in 1..MaxRuns /\ runs' = runs + 1 /\ 1 \in 1..Len(Files) + 1
        BY <1>1, <1>b DEF StartContainer, MigrationTypeOK
    <2>2. \A w \in written : w[2] \in 1..runs'
        BY <2>1, <1>b DEF MigrationTypeOK
    <2> QED
        BY <1>1, <1>b, <2>1, <2>2 DEF StartContainer, MigrationTypeOK, Counted
<1>2. CASE CreateLockTable
    <2>1. failures' \in 0..MaxFailures
        BY <1>2, <1>b DEF CreateLockTable, Fails, MigrationTypeOK
    <2> QED
        BY <1>2, <1>f, <2>1 DEF CreateLockTable, Ends, MigrationTypeOK, Counted, ScriptRuns
<1>3. CASE Skip
    <2>1. runner'.file \in 1..Len(Files) + 1 /\ runner'.at = "asking"
        BY <1>3, <1>b, <1>n, <1>f DEF Skip, Bounded
    <2> QED
        BY <1>3, <2>1 DEF Skip, MigrationTypeOK, Counted, ScriptRuns
<1>4. CASE Apply
    <2>1. failures' \in 0..MaxFailures
        BY <1>4, <1>b DEF Apply, Fails, MigrationTypeOK
    <2>2. /\ runner'.file = runner.file /\ runner'.at = "applying" /\ runner'.statement = 1
          /\ runner.file \in 1..Len(Files)
        BY <1>4, <1>b, <1>f DEF Apply
    <2>3. 1 \in 1..Len(Files[runner.file])
        BY <2>2, FilesAssumption
    <2> QED
        BY <1>4, <2>1, <2>2, <2>3 DEF Apply, MigrationTypeOK, Counted, ScriptRuns
<1>5. CASE RunStatement
    <2>1. /\ runner.file \in 1..Len(Files) /\ runner.statement \in 1..Len(Files[runner.file])
          /\ runs \in 1..runs
        BY <1>5, <1>b, <1>n, <1>f DEF RunStatement, Bounded, MigrationTypeOK, Counted, ScriptRuns
    <2>2. \A w \in written' : w[2] \in 1..runs
        BY <1>5, <2>1 DEF RunStatement, MigrationTypeOK
    <2>3. /\ runner'.file = runner.file /\ runner'.at \in {"applying", "recording"}
          /\ runner'.at = "applying" => runner'.statement \in 1..Len(Files[runner.file])
        BY <1>5, <2>1, FilesAssumption DEF RunStatement, Following
    <2> QED
        BY <1>5, <2>2, <2>3 DEF RunStatement, MigrationTypeOK, Counted, ScriptRuns
<1>6. CASE StatementRefused \/ RecordRefused \/ Kill
    BY <1>6, <1>f DEF StatementRefused, RecordRefused, Kill, Ends, MigrationTypeOK, Counted, ScriptRuns
<1>7. CASE Record
    <2>1. runner.file \in 1..Len(Files)
        BY <1>7, <1>b, <1>n, <1>f DEF Record, Bounded
    <2>2. /\ runner'.at = "asking" /\ runner'.file \in 1..Len(Files) + 1
          /\ recorded' \subseteq 1..Len(Files)
        <3>1. runner.file + 1 \in 1..Len(Files) + 1
            BY <1>b, <2>1
        <3>2. recorded \subseteq 1..Len(Files)
            BY DEF MigrationTypeOK
        <3>3. /\ runner'.at = "asking" /\ runner'.file = runner.file + 1
              /\ recorded' = recorded \cup {runner.file}
            BY <1>7 DEF Record
        <3> QED
            BY <2>1, <3>1, <3>2, <3>3
    <2> QED
        BY <1>7, <2>2 DEF Record, MigrationTypeOK, Counted, ScriptRuns
<1>8. CASE ConnectionLost
    <2>1. failures' \in 0..MaxFailures
        BY <1>8, <1>b DEF ConnectionLost, Fails, MigrationTypeOK
    <2> QED
        BY <1>8, <1>f, <2>1 DEF ConnectionLost, Ends, MigrationTypeOK, Counted, ScriptRuns
<1>9. CASE Done
    BY <1>9, <1>f DEF Done, Ends, MigrationTypeOK, Counted, ScriptRuns
<1>10. CASE UNCHANGED migrationVars
    BY <1>10 DEF migrationVars, MigrationTypeOK, Counted, ScriptRuns
<1> QED
    BY <1>1, <1>2, <1>3, <1>4, <1>5, <1>6, <1>7, <1>8, <1>9, <1>10 DEF MigrationNext, ScriptStep

\* The script stands at a file and a statement there are, and data carry the number of
\* the run that wrote them.
THEOREM MigrationTypeCorrect == MigrationSpec => []MigrationTypeOK
<1>1. MigrationInit => MigrationTypes
    BY MigrationInitIInv, MigrationInitTypes DEF MigrationTypes
<1>2. MigrationTypes /\ [MigrationNext]_migrationVars => MigrationTypes'
    BY MigrationNextIInv, MigrationNextTypes DEF MigrationTypes
<1>3. MigrationTypes => MigrationTypeOK
    BY DEF MigrationTypes
<1> QED
    BY <1>1, <1>2, <1>3, PTL DEF MigrationSpec

\* The files are recorded in their order, whatever is killed, lost or applied again, and
\* the API starts after the last of them.
THEOREM FilesRecordedInOrder == MigrationSpec => []RecordedInOrder
<1>1. MigrationIInv => RecordedInOrder
    BY DEF MigrationIInv, Bounded, RecordedInOrder
<1> QED
    BY <1>1, MigrationInitIInv, MigrationNextIInv, PTL DEF MigrationSpec

-----------------------------------------------------------------------------
\* A column that a DO block takes apart, the data it copies out of it, the table the
\* column is in and the objects the block makes in its place.
Takes(data, old, table, new) == [data |-> data, old |-> old, table |-> table, new |-> new]

Moves == {
    Takes("events.location_lat", "events.location_coordinates", "events", {}),
    Takes("attendances.scan_lat", "attendances.scan_location", "attendances", {}),
    Takes("notifications.action_url", "notifications.json", "notifications",
          {"notifications.action_url", "notification_filters"}),
    Takes("user_notifications.ref_id", "user_notifications.data", "user_notifications",
          {"user_notifications.ref_id"}),
    Takes("event_organizers", "events.organizer", "events", {}),
    Takes("notification_targets", "notifications.target", "notifications",
          {"notification_targets"}),
    Takes("file_owners", "files.owner", "files",
          {"user_avatars", "event_banners", "file_reports"}) }

\* The columns that the files drop.
Gone == {"regional_offices.contacts", "local_headquarters.contacts", "events.location_coordinates",
         "events.organizer", "registrations.qr_code_data", "attendances.scan_location",
         "attendances.attended_at", "notifications.json", "notifications.target", "files.owner",
         "user_notifications.data", "users.account_status"}

\* What a statement makes for good.
Lasting(s) == s.makes \ (Gone \cup Rebuilt)

\* And a whole file.
MadeBy(file) == UNION {Lasting(file[i]) : i \in 1..Len(file)}

\* What every statement does to such a column: its data are copied only by the block that
\* drops it, it is made with its table and never again, and what replaces it is made when
\* it is dropped.
Keeps(s, m) ==
    /\ m.data \in s.writes => m.old \in s.guard /\ m.old \in s.drops /\ m.old \notin s.makes
    /\ m.old \in s.makes => s.unless = {m.table} /\ m.table \in s.makes
    /\ m.table \in s.makes => m.old \in s.makes
    /\ m.old \in s.drops => m.new \subseteq s.makes
    /\ m.table \notin s.drops

\* A statement takes away nothing that is made for good; and when IF NOT EXISTS or the
\* question of a DO block leaves it without effect, what it would have made for good is
\* there, or the column it asks for has been replaced.
Sound(s) ==
    /\ \A m \in Moves : Keeps(s, m)
    /\ s.drops \subseteq Gone \cup Rebuilt
    /\ s.unless # {} => s.guard = {} /\ Lasting(s) \subseteq s.unless
    /\ s.guard # {} => Lasting(s) = {} \/ \E m \in Moves : s.guard = {m.old} /\ Lasting(s) = m.new

\* What the place of a file in the order decides: where the column of 003, the trigger of
\* 004 and the indexes of 021 are dropped, which files need a column that some file drops
\* (003 and 015, the two that RefusedOnlyAt names), and that no such column is made after 006.
Placed(s, f) ==
    /\ "events.organizer" \in s.drops => f = 18
    /\ "trg_attendance_status" \in s.drops => f = 4
    /\ "idx_users_leaders" \in s.drops \/ "idx_hq_staff_leaders" \in s.drops => f = 20
    /\ s.clash # {} => f \in {4, 20}
    /\ \A o \in s.needs \cap Gone :
         \/ f = File003 /\ o = "events.organizer"
         \/ f = File015 /\ o \in {"regional_offices.contacts", "local_headquarters.contacts"}
    /\ s.makes \cap Gone # {} => f <= 6

\* What a statement relies on: what it needs, unless the files drop it, and the table of
\* the column that it asks for.
Relies(s, o) ==
    \/ o \in s.needs /\ o \notin Gone
    \/ \E m \in Moves : m.table = o /\ m.old \in s.guard


\* It was made for good by base or by an earlier statement of the file.
Supplied(file, i, base) ==
    \A o : Relies(file[i], o) => o \in base \/ \E j \in 1..(i - 1) : o \in Lasting(file[j])

SoundAt(file, i, f) == Sound(file[i]) /\ Placed(file[i], f)

\* A file fits as the f-th one where base has been made for good.
Fits(file, f, base) ==
    \A i \in 1..Len(file) : SoundAt(file, i, f) /\ Supplied(file, i, base)

\* The fields of a statement, by its kind.
Has(s, needs, clash, guard, unless, makes, drops, writes) ==
    /\ s.needs = needs /\ s.clash = clash /\ s.guard = guard /\ s.unless = unless
    /\ s.makes = makes /\ s.drops = drops /\ s.writes = writes

LEMMA TableIs ==
    ASSUME NEW t, NEW needs, NEW columns
    PROVE  Has(Table(t, needs, columns), needs, {}, {}, {t}, {t} \cup columns, {}, {})
    BY DEF Has, Table, Statement

LEMMA AddIs ==
    ASSUME NEW needs, NEW made PROVE Has(Add(needs, made), needs, {}, {}, {}, made, {}, {})
    BY DEF Has, Add, Statement

LEMMA CreateIs ==
    ASSUME NEW needs, NEW made PROVE Has(Create(needs, made), needs, made, {}, {}, made, {}, {})
    BY DEF Has, Create, Statement

LEMMA CreateIfIs ==
    ASSUME NEW asked, NEW needs, NEW made
    PROVE  Has(CreateIf(asked, needs, made), needs, made, asked, {}, made, {}, {})
    BY DEF Has, CreateIf, Statement

LEMMA DropIs == ASSUME NEW dropped PROVE Has(Drop(dropped), {}, {}, {}, {}, {}, dropped, {})
    BY DEF Has, Drop, Statement

LEMMA WriteIs ==
    ASSUME NEW needs, NEW data PROVE Has(Write(needs, data), needs, {}, {}, {}, {}, {}, data)
    BY DEF Has, Write, Statement

LEMMA MoveIs ==
    ASSUME NEW old, NEW needs, NEW made, NEW data
    PROVE  Has(Move(old, needs, made, data), needs, {}, old, {}, made, old, data)
    BY DEF Has, Move, Statement

\* A table comes with every column that is taken out of it later, and with no other.
LEMMA TableSound ==
    ASSUME NEW t, NEW needs, NEW columns, NEW f \in Nat,
           f <= 6, columns \subseteq Gone, t \notin Gone \cup Rebuilt, needs \cap Gone = {},
           \A m \in Moves : m.old \in columns <=> m.table = t
    PROVE  Sound(Table(t, needs, columns)) /\ Placed(Table(t, needs, columns), f)
<1>1. \A m \in Moves : m.old \in Gone /\ m.table \notin Gone
    BY DEF Moves, Takes, Gone
<1>2. Sound(Table(t, needs, columns))
    BY <1>1, TableIs DEF Has, Sound, Keeps, Lasting
<1>3. Placed(Table(t, needs, columns), f)
    BY TableIs DEF Has, Placed
<1> QED
    BY <1>2, <1>3

\* What makes objects for good and asks for none that go is sound anywhere.
LEMMA AddSound ==
    ASSUME NEW needs, NEW made, NEW f \in Nat, made \cap Gone = {}, needs \cap Gone = {},
           \A m \in Moves : m.table \notin made
    PROVE  Sound(Add(needs, made)) /\ Placed(Add(needs, made), f)
<1>1. \A m \in Moves : m.old \in Gone
    BY DEF Moves, Takes, Gone
<1> QED
    BY <1>1, AddIs DEF Has, Sound, Keeps, Placed

-----------------------------------------------------------------------------
\* The 22 files, one by one: each fits at its place, relying on the files named there.
LEMMA Init001Fits == Fits(Init001, 1, {})
<1>0. Len(Init001) = 13
    BY DEF Init001
<1>1. SoundAt(Init001, 1, 1)
    BY AddSound DEF Init001, SoundAt, Moves, Takes, Gone, Rebuilt
<1>2. SoundAt(Init001, 2, 1)
    BY TableSound DEF Init001, SoundAt, Moves, Takes, Gone, Rebuilt
<1>3. SoundAt(Init001, 3, 1)
    BY AddSound DEF Init001, SoundAt, Moves, Takes, Gone, Rebuilt
<1>4. SoundAt(Init001, 4, 1)
    BY TableSound DEF Init001, SoundAt, Moves, Takes, Gone, Rebuilt
<1>5. SoundAt(Init001, 5, 1)
    BY AddSound DEF Init001, SoundAt, Moves, Takes, Gone, Rebuilt
<1>6. SoundAt(Init001, 6, 1)
    BY TableSound DEF Init001, SoundAt, Moves, Takes, Gone, Rebuilt
<1>7. SoundAt(Init001, 7, 1)
    BY TableSound DEF Init001, SoundAt, Moves, Takes, Gone, Rebuilt
<1>8. SoundAt(Init001, 8, 1)
    BY TableSound DEF Init001, SoundAt, Moves, Takes, Gone, Rebuilt
<1>9. SoundAt(Init001, 9, 1)
    BY AddSound DEF Init001, SoundAt, Moves, Takes, Gone, Rebuilt
<1>10. SoundAt(Init001, 10, 1)
    BY TableSound DEF Init001, SoundAt, Moves, Takes, Gone, Rebuilt
<1>11. SoundAt(Init001, 11, 1)
    BY TableSound DEF Init001, SoundAt, Moves, Takes, Gone, Rebuilt
<1>12. SoundAt(Init001, 12, 1)
    BY AddSound DEF Init001, SoundAt, Moves, Takes, Gone, Rebuilt
<1>13. SoundAt(Init001, 13, 1)
    BY AddSound DEF Init001, SoundAt, Moves, Takes, Gone, Rebuilt
<1>14. \A i \in 1..Len(Init001) : Supplied(Init001, i, {})
    BY TableIs, AddIs, SMTT(30) DEF Init001, Supplied, Has, Relies, Moves, Takes, Lasting, Gone, Rebuilt
<1> QED
    BY <1>0, <1>1, <1>2, <1>3, <1>4, <1>5, <1>6, <1>7, <1>8, <1>9, <1>10, <1>11, <1>12, <1>13, <1>14
       DEF Fits, SoundAt

USE DEF Has, Sound, Keeps, Moves, Takes, Lasting, Gone, Rebuilt, Placed, Relies, File003, File015

\* What the later files rely on, of those that make it.
LEMMA Init001Makes ==
    {"pgcrypto", "regional_offices", "local_headquarters", "units", "users", "events",
     "registrations", "attendances", "notification_types", "notifications", "files",
     "system_roles", "unit_positions", "unit_positions_rows", "directions_rows"} \subseteq
     MadeBy(Init001)
    BY TableIs, AddIs DEF Init001, MadeBy

LEMMA HQStaff005Makes ==
    {"users.member_card_number", "hq_positions", "hq_positions_rows", "hq_staff"} \subseteq
     MadeBy(HQStaff005)
    BY AddIs DEF HQStaff005, MadeBy

LEMMA Notifications006Makes ==
    {"user_notifications"} \subseteq MadeBy(Notifications006)
    BY TableIs, AddIs DEF Notifications006, MadeBy

LEMMA EmailVerification009Makes ==
    {"email_verifications", "password_resets"} \subseteq MadeBy(EmailVerification009)
    BY AddIs DEF EmailVerification009, MadeBy

LEMMA EmailChange010Makes ==
    {"email_change_requests"} \subseteq MadeBy(EmailChange010)
    BY AddIs DEF EmailChange010, MadeBy

LEMMA BruteForce011Makes ==
    {"login_attempts"} \subseteq MadeBy(BruteForce011)
    BY AddIs DEF BruteForce011, MadeBy

LEMMA EmailSentAt022Makes ==
    {"events.email_sent_at"} \subseteq MadeBy(EmailSentAt022)
    BY AddIs DEF EmailSentAt022, MadeBy

\* The other files at their places.
LEMMA SeedOrg002Fits == Fits(SeedOrg002, 2, MadeBy(Init001))
    BY WriteIs, Init001Makes, SMTT(30) DEF SeedOrg002, Fits, SoundAt, Supplied

LEMMA SeedEvents003Fits == Fits(SeedEvents003, 3, MadeBy(Init001))
    BY AddIs, WriteIs, Init001Makes DEF SeedEvents003, Fits, SoundAt, Supplied

LEMMA Functions004Fits == Fits(Functions004, 4, MadeBy(Init001))
    BY AddIs, CreateIs, DropIs, Init001Makes, SMTT(30) DEF Functions004, Fits, SoundAt,
       Supplied

LEMMA HQStaff005Fits == Fits(HQStaff005, 5, MadeBy(Init001))
    BY AddIs, Init001Makes, SMTT(30) DEF HQStaff005, Fits, SoundAt, Supplied

LEMMA Notifications006Fits == Fits(Notifications006, 6, MadeBy(Init001))
    BY TableIs, AddIs, Init001Makes, SMTT(30) DEF Notifications006, Fits, SoundAt, Supplied

LEMMA UniquePositions007Fits == Fits(UniquePositions007, 7, MadeBy(Init001) \cup
       MadeBy(HQStaff005))
    BY AddIs, Init001Makes, HQStaff005Makes DEF UniquePositions007, Fits, SoundAt, Supplied

LEMMA EmailVerification009Fits == Fits(EmailVerification009, 8, MadeBy(Init001))
    BY AddIs, Init001Makes DEF EmailVerification009, Fits, SoundAt, Supplied

LEMMA EmailChange010Fits == Fits(EmailChange010, 9, MadeBy(Init001))
    BY AddIs, Init001Makes, SMTT(30) DEF EmailChange010, Fits, SoundAt, Supplied

LEMMA BruteForce011Fits == Fits(BruteForce011, 10, MadeBy(Init001))
    BY AddIs, Init001Makes DEF BruteForce011, Fits, SoundAt, Supplied

LEMMA FcmTokens012Fits == Fits(FcmTokens012, 11, MadeBy(Init001))
    BY AddIs, Init001Makes DEF FcmTokens012, Fits, SoundAt, Supplied

LEMMA CleanupIndexes013Fits == Fits(CleanupIndexes013, 12, MadeBy(Notifications006) \cup
       MadeBy(BruteForce011) \cup MadeBy(EmailVerification009) \cup MadeBy(EmailChange010))
    BY AddIs, Notifications006Makes, BruteForce011Makes, EmailVerification009Makes,
       EmailChange010Makes DEF CleanupIndexes013, Fits, SoundAt, Supplied

LEMMA PointFields014Fits == Fits(PointFields014, 13, MadeBy(Init001))
    BY AddIs, MoveIs, Init001Makes, SMTT(30) DEF PointFields014, Fits, SoundAt, Supplied

LEMMA Contacts015Fits == Fits(Contacts015, 14, MadeBy(Init001))
    BY AddIs, DropIs, WriteIs, Init001Makes, SMTT(30) DEF Contacts015, Fits, SoundAt,
       Supplied

LEMMA QrData016Fits == Fits(QrData016, 15, {})
    BY DropIs DEF QrData016, Fits, SoundAt, Supplied

LEMMA JsonNotifications017Fits == Fits(JsonNotifications017, 16, MadeBy(Init001) \cup
       MadeBy(Notifications006))
    BY AddIs, MoveIs, Init001Makes, Notifications006Makes, SMTT(30) DEF
       JsonNotifications017, Fits, SoundAt, Supplied

LEMMA AccountStatus018Fits == Fits(AccountStatus018, 17, MadeBy(Init001) \cup
       MadeBy(HQStaff005))
    BY AddIs, MoveIs, Init001Makes, HQStaff005Makes DEF AccountStatus018, Fits, SoundAt,
       Supplied

LEMMA Organizers019Fits == Fits(Organizers019, 18, MadeBy(Init001))
    BY AddIs, MoveIs, Init001Makes, SMTT(30) DEF Organizers019, Fits, SoundAt, Supplied

LEMMA Files020Fits == Fits(Files020, 19, MadeBy(Init001))
    BY MoveIs, Init001Makes DEF Files020, Fits, SoundAt, Supplied

LEMMA HardcodedIds021Fits == Fits(HardcodedIds021, 20, MadeBy(Init001) \cup
       MadeBy(HQStaff005))
    BY CreateIfIs, DropIs, Init001Makes, HQStaff005Makes, SMTT(30) DEF HardcodedIds021,
       Fits, SoundAt, Supplied

LEMMA EmailSentAt022Fits == Fits(EmailSentAt022, 21, MadeBy(Init001))
    BY AddIs, Init001Makes DEF EmailSentAt022, Fits, SoundAt, Supplied

LEMMA BackfillEmailSent023Fits == Fits(BackfillEmailSent023, 22, MadeBy(EmailSentAt022))
    BY WriteIs, EmailSentAt022Makes DEF BackfillEmailSent023, Fits, SoundAt, Supplied

HIDE DEF Has, Sound, Keeps, Moves, Takes, Lasting, Gone, Rebuilt, Placed, Relies, File003, File015


\* What the files before the f-th make for good.
MadeBefore(f) == UNION {MadeBy(SortedFiles[g]) : g \in 1..(f - 1)}

\* A file that fits on less fits on more.
LEMMA FitsMore ==
    ASSUME NEW file, NEW f, NEW base, Fits(file, f, base), NEW more, base \subseteq more
    PROVE  Fits(file, f, more)
    BY DEF Fits, Supplied

\* Every statement of the 22 files fits, and relies on nothing but what comes before it.
LEMMA FilesFit ==
    ASSUME NEW f \in 1..Len(SortedFiles) PROVE Fits(SortedFiles[f], f, MadeBefore(f))
<1>1. ASSUME NEW g \in 1..(f - 1) PROVE MadeBy(SortedFiles[g]) \subseteq MadeBefore(f)
    BY <1>1 DEF MadeBefore
<1>2. f > 1 => MadeBy(Init001) \subseteq MadeBefore(f)
    BY <1>1 DEF SortedFiles
<1>3. f > 5 => MadeBy(HQStaff005) \subseteq MadeBefore(f)
    BY <1>1 DEF SortedFiles
<1>4. f > 6 => MadeBy(Notifications006) \subseteq MadeBefore(f)
    BY <1>1 DEF SortedFiles
<1>5. f > 8 => MadeBy(EmailVerification009) \subseteq MadeBefore(f)
    BY <1>1 DEF SortedFiles
<1>6. f > 9 => MadeBy(EmailChange010) \subseteq MadeBefore(f)
    BY <1>1 DEF SortedFiles
<1>7. f > 10 => MadeBy(BruteForce011) \subseteq MadeBefore(f)
    BY <1>1 DEF SortedFiles
<1>8. f > 21 => MadeBy(EmailSentAt022) \subseteq MadeBefore(f)
    BY <1>1 DEF SortedFiles
<1>9. CASE f = 1
    BY <1>9, Init001Fits, FitsMore DEF SortedFiles
<1>10. CASE f = 2
    BY <1>10, <1>2, SeedOrg002Fits, FitsMore DEF SortedFiles
<1>11. CASE f = 3
    BY <1>11, <1>2, SeedEvents003Fits, FitsMore DEF SortedFiles
<1>12. CASE f = 4
    BY <1>12, <1>2, Functions004Fits, FitsMore DEF SortedFiles
<1>13. CASE f = 5
    BY <1>13, <1>2, HQStaff005Fits, FitsMore DEF SortedFiles
<1>14. CASE f = 6
    BY <1>14, <1>2, Notifications006Fits, FitsMore DEF SortedFiles
<1>15. CASE f = 7
    BY <1>15, <1>2, <1>3, UniquePositions007Fits, FitsMore DEF SortedFiles
<1>16. CASE f = 8
    BY <1>16, <1>2, EmailVerification009Fits, FitsMore DEF SortedFiles
<1>17. CASE f = 9
    BY <1>17, <1>2, EmailChange010Fits, FitsMore DEF SortedFiles
<1>18. CASE f = 10
    BY <1>18, <1>2, BruteForce011Fits, FitsMore DEF SortedFiles
<1>19. CASE f = 11
    BY <1>19, <1>2, FcmTokens012Fits, FitsMore DEF SortedFiles
<1>20. CASE f = 12
    BY <1>20, <1>4, <1>7, <1>5, <1>6, CleanupIndexes013Fits, FitsMore DEF SortedFiles
<1>21. CASE f = 13
    BY <1>21, <1>2, PointFields014Fits, FitsMore DEF SortedFiles
<1>22. CASE f = 14
    BY <1>22, <1>2, Contacts015Fits, FitsMore DEF SortedFiles
<1>23. CASE f = 15
    BY <1>23, QrData016Fits, FitsMore DEF SortedFiles
<1>24. CASE f = 16
    BY <1>24, <1>2, <1>4, JsonNotifications017Fits, FitsMore DEF SortedFiles
<1>25. CASE f = 17
    BY <1>25, <1>2, <1>3, AccountStatus018Fits, FitsMore DEF SortedFiles
<1>26. CASE f = 18
    BY <1>26, <1>2, Organizers019Fits, FitsMore DEF SortedFiles
<1>27. CASE f = 19
    BY <1>27, <1>2, Files020Fits, FitsMore DEF SortedFiles
<1>28. CASE f = 20
    BY <1>28, <1>2, <1>3, HardcodedIds021Fits, FitsMore DEF SortedFiles
<1>29. CASE f = 21
    BY <1>29, <1>2, EmailSentAt022Fits, FitsMore DEF SortedFiles
<1>30. CASE f = 22
    BY <1>30, <1>8, BackfillEmailSent023Fits, FitsMore DEF SortedFiles
<1>31. Len(SortedFiles) = 22
    BY DEF SortedFiles
<1> QED
    BY <1>9, <1>10, <1>11, <1>12, <1>13, <1>14, <1>15, <1>16, <1>17, <1>18, <1>19, <1>20,
       <1>21, <1>22, <1>23, <1>24, <1>25, <1>26, <1>27, <1>28, <1>29, <1>30, <1>31

-----------------------------------------------------------------------------
\* The tables the blocks take columns from keep what they had or have what replaced it.
Coupled == \A m \in Moves : m.table \in objects => m.old \in objects \/ m.new \subseteq objects

\* A recorded file has made what lasts, and so have the statements of a file that is
\* being applied up to the one the script stands at.
MadeSoFar ==
    /\ \A g \in recorded : MadeBy(Files[g]) \subseteq objects
    /\ runner.at = "applying" =>
         \A j \in 1..(runner.statement - 1) : Lasting(Files[runner.file][j]) \subseteq objects
    /\ runner.at = "recording" => MadeBy(Files[runner.file]) \subseteq objects

\* Only 019 drops events.organizer, once the 17 files before it are recorded.
OrganizerGone == "events" \in objects /\ "events.organizer" \notin objects => 17 \in recorded

\* Until a query is lost the lock table is there and no recorded file is applied again.
NothingLost == failures = 0 =>
    /\ runner.at \in {"asking", "applying", "recording"} => LockTable \in objects
    /\ runner.at \in {"applying", "recording"} => runner.file \notin recorded

\* What 004 and 021 create anew has been dropped when they come to it.
Dropped == runner.at = "applying" =>
    /\ runner.file = 4 /\ runner.statement = 3 => "trg_attendance_status" \notin objects
    /\ runner.file = 20 /\ runner.statement \in {2, 3} => "idx_users_leaders" \notin objects
    /\ runner.file = 20 /\ runner.statement = 3 => "idx_hq_staff_leaders" \notin objects

\* Until a query is lost it is there when they are through.
RebuiltThere == failures = 0 =>
    /\ \/ 4 \in recorded
       \/ runner.file = 4 /\ runner.at = "recording"
       \/ runner.file = 4 /\ runner.at = "applying" /\ runner.statement = 4
       => "trg_attendance_status" \in objects
    /\ \/ 20 \in recorded
       \/ runner.file = 20 /\ runner.at = "recording"
       => {"idx_users_leaders", "idx_hq_staff_leaders"} \subseteq objects

\* A script that is done has recorded every file.
AllRecorded == runner.at = "done" => recorded = 1..Len(Files)

\* The inductive invariant of the schema.
SchemaInv == /\ Coupled /\ MadeSoFar /\ OrganizerGone /\ NothingLost /\ Dropped /\ RebuiltThere
             /\ AllRecorded /\ RefusedOnlyAt

-----------------------------------------------------------------------------
\* The statement that is being applied, and what it may rely on.
Current == SortedFiles[runner.file][runner.statement]

LEMMA AtStatement ==
    ASSUME Files = SortedFiles, MigrationTypes, runner.at = "applying"
    PROVE  /\ runner.file \in 1..Len(SortedFiles)
           /\ runner.statement \in 1..Len(SortedFiles[runner.file])
           /\ Sound(Current) /\ Placed(Current, runner.file)
           /\ Supplied(SortedFiles[runner.file], runner.statement, MadeBefore(runner.file))
           /\ \A g \in 1..(runner.file - 1) : g \in recorded
<1>1. PICK n \in 0..Len(Files) : Bounded(n)
    BY DEF MigrationTypes, MigrationIInv
<1>2. /\ runner.file \in 1..Len(SortedFiles)
      /\ runner.statement \in 1..Len(SortedFiles[runner.file])
    BY <1>1, FilesAssumption DEF Bounded, MigrationTypes, MigrationTypeOK
<1>3. Fits(SortedFiles[runner.file], runner.file, MadeBefore(runner.file))
    BY <1>2, FilesFit
<1>4. \A g \in 1..(runner.file - 1) : g \in recorded
    BY <1>1, <1>2, FilesAssumption DEF Bounded, ScriptRuns
<1> QED
    BY <1>2, <1>3, <1>4 DEF Fits, SoundAt, Current

\* What the current statement relies on is there, whatever was killed or applied again.
LEMMA ReliedOn ==
    ASSUME Files = SortedFiles, MigrationTypes, MadeSoFar, runner.at = "applying",
           NEW o, Relies(Current, o)
    PROVE  o \in objects
<1>1. \/ o \in MadeBefore(runner.file)
      \/ \E j \in 1..(runner.statement - 1) : o \in Lasting(SortedFiles[runner.file][j])
    BY AtStatement DEF Supplied, Current
<1>2. CASE o \in MadeBefore(runner.file)
    <2>1. PICK g \in 1..(runner.file - 1) : o \in MadeBy(SortedFiles[g])
        BY <1>2 DEF MadeBefore
    <2> QED
        BY <2>1, AtStatement DEF MadeSoFar
<1> QED
    BY <1>1, <1>2 DEF MadeSoFar

\* No step takes away what lasts.
LEMMA LastingStays ==
    ASSUME Files = SortedFiles, MigrationTypes, [MigrationNext]_migrationVars,
           NEW o \in objects, o \notin Gone \cup Rebuilt
    PROVE  o \in objects'
<1>1. CASE RunStatement
    <2>1. Sound(Current) /\ objects' = After(Current, objects)
        BY <1>1, AtStatement DEF RunStatement, Current
    <2> QED
        BY <2>1 DEF Sound, After
<1>2. CASE CreateLockTable
    BY <1>2 DEF CreateLockTable
<1>3. CASE UNCHANGED objects
    BY <1>3
<1> QED
    BY <1>1, <1>2, <1>3 DEF MigrationNext, ScriptStep, StartContainer, Skip, Apply,
       StatementRefused, Record, RecordRefused, ConnectionLost, Done, Kill, migrationVars

\* A statement that is not refused leaves what it makes for good, also when it has
\* nothing to do.
LEMMA LastingMade ==
    ASSUME Files = SortedFiles, MigrationTypes, MadeSoFar, Coupled, RunStatement
    PROVE  Lasting(Current) \subseteq objects'
<1>1. Sound(Current) /\ objects' = After(Current, objects)
    BY AtStatement DEF RunStatement, Current
<1>2. CASE ~ Idle(Current, objects)
    BY <1>1, <1>2 DEF After, Lasting
<1>3. CASE Idle(Current, objects)
    <2>1. objects' = objects
        BY <1>1, <1>3 DEF After
    <2>2. CASE Current.unless # {} /\ Current.unless \subseteq objects
        BY <1>1, <2>1, <2>2 DEF Sound
    <2>3. CASE ~ Current.guard \subseteq objects /\ Lasting(Current) # {}
        <3>1. PICK m \in Moves : Current.guard = {m.old} /\ Lasting(Current) = m.new
            BY <1>1, <2>3 DEF Sound
        <3>2. m.old \notin objects /\ m.table \in objects
            BY <2>3, <3>1, ReliedOn DEF RunStatement, Relies
        <3> QED
            BY <2>1, <3>1, <3>2 DEF Coupled
    <2> QED
        BY <1>3, <2>2, <2>3 DEF Idle
<1> QED
    BY <1>2, <1>3

\* Each part of the invariant after each step.  A column and its table come together, and
\* the block that drops the column makes what replaces it.
LEMMA CoupledNext ==
    ASSUME Files = SortedFiles, MigrationTypes, Coupled, [MigrationNext]_migrationVars
    PROVE  Coupled'
<1> SUFFICES ASSUME NEW m \in Moves, m.table \in objects'
             PROVE  m.old \in objects' \/ m.new \subseteq objects'
    BY DEF Coupled
<1>0. m.new \cap (Gone \cup Rebuilt) = {} /\ m.table # LockTable
    BY DEF Moves, Takes, Gone, Rebuilt, LockTable
<1>1. CASE RunStatement
    <2>1. Sound(Current) /\ objects' = After(Current, objects)
        BY <1>1, AtStatement DEF RunStatement, Current
    <2>2. Keeps(Current, m)
        BY <2>1 DEF Sound
    <2>3. CASE m.table \in objects
        <3>1. m.old \in objects \/ m.new \subseteq objects
            BY <2>3 DEF Coupled
        <3>2. m.new \subseteq objects => m.new \subseteq objects'
            BY <1>0, LastingStays
        <3> QED
            BY <2>1, <2>2, <3>1, <3>2 DEF After, Keeps
    <2>4. CASE m.table \notin objects
        BY <2>1, <2>2, <2>4 DEF After, Keeps
    <2> QED
        BY <2>3, <2>4
<1>2. CASE CreateLockTable
    BY <1>0, <1>2 DEF CreateLockTable, Coupled
<1>3. CASE UNCHANGED objects
    BY <1>3 DEF Coupled
<1> QED
    BY <1>1, <1>2, <1>3 DEF MigrationNext, ScriptStep, StartContainer, Skip, Apply,
       StatementRefused, Record, RecordRefused, ConnectionLost, Done, Kill, migrationVars

\* The files make what lasts as they are applied, and no step takes it away.
LEMMA MadeSoFarNext ==
    ASSUME Files = SortedFiles, MigrationTypes, Coupled, MadeSoFar, [MigrationNext]_migrationVars
    PROVE  MadeSoFar'
<1>1. ASSUME NEW file, MadeBy(file) \subseteq objects PROVE MadeBy(file) \subseteq objects'
    <2>1. MadeBy(file) \cap (Gone \cup Rebuilt) = {}
        BY DEF MadeBy, Lasting
    <2> QED
        BY <1>1, <2>1, LastingStays
<1>2. ASSUME NEW s, Lasting(s) \subseteq objects PROVE Lasting(s) \subseteq objects'
    BY <1>2, LastingStays DEF Lasting
<1>3. \A g \in recorded : MadeBy(Files[g]) \subseteq objects'
    BY <1>1 DEF MadeSoFar
<1>4. CASE RunStatement
    <2>1. \A j \in 1..runner.statement : Lasting(Files[runner.file][j]) \subseteq objects'
        <3>1. runner.statement \in Nat /\ runner.at = "applying"
            BY <1>4, AtStatement DEF RunStatement
        <3>2. Lasting(Files[runner.file][runner.statement]) \subseteq objects'
            BY <1>4, LastingMade DEF Current
        <3>3. \A j \in 1..(runner.statement - 1) : Lasting(Files[runner.file][j]) \subseteq objects'
            BY <1>2, <3>1 DEF MadeSoFar
        <3>4. ASSUME NEW j \in 1..runner.statement
              PROVE  j = runner.statement \/ j \in 1..(runner.statement - 1)
            BY <3>1
        <3> QED
            BY <3>2, <3>3, <3>4
    <2>2. runner.statement \in 1..Len(Files[runner.file]) /\ Len(Files[runner.file]) \in Nat
        BY <1>4, AtStatement, FilesAssumption DEF RunStatement
    <2>3. CASE runner.statement < Len(Files[runner.file])
        <3>1. runner' = [at |-> "applying", file |-> runner.file, statement |-> runner.statement + 1]
            BY <1>4, <2>3 DEF RunStatement, Following
        <3>2. (runner.statement + 1) - 1 = runner.statement
            BY <2>2
        <3> QED
            BY <1>3, <1>4, <2>1, <3>1, <3>2 DEF RunStatement, MadeSoFar
    <2>4. CASE runner.statement = Len(Files[runner.file])
        <3>1. runner'.at = "recording" /\ runner'.file = runner.file
            BY <1>4, <2>2, <2>4 DEF RunStatement, Following
        <3>2. MadeBy(Files[runner.file]) \subseteq objects'
            BY <2>1, <2>4 DEF MadeBy
        <3> QED
            BY <1>3, <1>4, <3>1, <3>2 DEF RunStatement, MadeSoFar
    <2> QED
        BY <2>2, <2>3, <2>4
<1>5. CASE Record
    <2>1. MadeBy(Files[runner.file]) \subseteq objects'
        BY <1>1, <1>5 DEF Record, MadeSoFar
    <2> QED
        BY <1>3, <1>5, <2>1 DEF Record, MadeSoFar
<1>6. CASE Apply
    <2>1. runner'.at = "applying" /\ 1..(runner'.statement - 1) = {}
        BY <1>6 DEF Apply, MigrationTypes, MigrationTypeOK, MigrationIInv, Bounded
    <2> QED
        BY <1>3, <1>6, <2>1 DEF Apply, MadeSoFar
<1>7. CASE Skip \/ StartContainer \/ CreateLockTable \/ StatementRefused \/ RecordRefused
           \/ ConnectionLost \/ Done \/ Kill
    <2>1. recorded' = recorded /\ runner'.at \notin {"applying", "recording"}
        <3>1. \E n \in 0..Len(Files) : Bounded(n)
            BY DEF MigrationTypes, MigrationIInv
        <3>2. runner \in [at : RunnerStates, file : Nat \ {0}, statement : Nat]
            BY <3>1 DEF Bounded
        <3> QED
            BY <1>7, <3>2 DEF Skip, StartContainer, CreateLockTable, StatementRefused,
               RecordRefused, ConnectionLost, Done, Kill, Ends
    <2> QED
        BY <1>3, <2>1 DEF MadeSoFar
<1>8. CASE UNCHANGED migrationVars
    BY <1>8 DEF migrationVars, MadeSoFar
<1> QED
    BY <1>4, <1>5, <1>6, <1>7, <1>8 DEF MigrationNext, ScriptStep

\* What 004 does to its trigger and 021 to its indexes.
LEMMA Trigger004 ==
    ASSUME NEW present
    PROVE  /\ "trg_attendance_status" \notin After(Functions004[2], present)
           /\ "trg_attendance_status" \in After(Functions004[3], present)
           /\ Functions004[4].drops = {}
           /\ \A i \in 1..4 : Functions004[i].clash = IF i = 3 THEN {"trg_attendance_status"} ELSE {}
    BY AddIs, DropIs, CreateIs DEF Functions004, Has, After, Idle

\* And 021 to its indexes, when the rows it asks for are there.
LEMMA Indexes021 ==
    ASSUME NEW present
    PROVE  /\ "idx_users_leaders" \notin After(HardcodedIds021[1], present)
           /\ HardcodedIds021[2].makes = {}
           /\ "idx_hq_staff_leaders" \notin After(HardcodedIds021[2], present)
           /\ {"unit_positions_rows", "hq_positions_rows"} \subseteq present =>
                {"idx_users_leaders", "idx_hq_staff_leaders"} \subseteq After(HardcodedIds021[3], present)
           /\ HardcodedIds021[1].clash = {} /\ HardcodedIds021[2].clash = {}
           /\ HardcodedIds021[3].clash = {"idx_users_leaders", "idx_hq_staff_leaders"}
    BY DropIs, CreateIfIs DEF HardcodedIds021, Has, After, Idle

\* Where the files are whose objects are told apart.
LEMMA Places ==
    /\ SortedFiles[1] = Init001 /\ SortedFiles[5] = HQStaff005
    /\ SortedFiles[4] = Functions004 /\ Len(Functions004) = 4
    /\ SortedFiles[20] = HardcodedIds021 /\ Len(HardcodedIds021) = 3
    BY DEF SortedFiles, Functions004, HardcodedIds021

\* 019 comes after the 17 files before it have been recorded.
LEMMA OrganizerGoneNext ==
    ASSUME Files = SortedFiles, MigrationTypes, OrganizerGone, [MigrationNext]_migrationVars
    PROVE  OrganizerGone'
<1>0. recorded \subseteq recorded'
    BY DEF MigrationNext, ScriptStep, StartContainer, CreateLockTable, Skip, Apply, RunStatement,
       StatementRefused, Record, RecordRefused, ConnectionLost, Done, Kill, migrationVars
<1>1. CASE RunStatement
    <2>1. Sound(Current) /\ Placed(Current, runner.file) /\ objects' = After(Current, objects)
        BY <1>1, AtStatement DEF RunStatement, Current
    <2>2. CASE "events.organizer" \in Current.drops
        <3>1. runner.file = 18 /\ 17 \in 1..(18 - 1)
            BY <2>1, <2>2 DEF Placed
        <3>2. 17 \in recorded
            BY <1>1, <3>1, AtStatement DEF RunStatement
        <3> QED
            BY <1>0, <3>2 DEF OrganizerGone
    <2>3. CASE "events.organizer" \notin Current.drops
        <3>1. "events" \in Current.makes => "events.organizer" \in Current.makes
            BY <2>1 DEF Sound, Keeps, Moves, Takes
        <3> QED
            BY <1>0, <2>1, <2>3, <3>1 DEF After, OrganizerGone
    <2> QED
        BY <2>2, <2>3
<1>2. CASE CreateLockTable
    BY <1>0, <1>2 DEF CreateLockTable, LockTable, OrganizerGone
<1>3. CASE UNCHANGED objects
    BY <1>0, <1>3 DEF OrganizerGone
<1> QED
    BY <1>1, <1>2, <1>3 DEF MigrationNext, ScriptStep, StartContainer, Skip, Apply,
       StatementRefused, Record, RecordRefused, ConnectionLost, Done, Kill, migrationVars

\* What the script stands at is a record, and a lost query is counted.
LEMMA Standing ==
    ASSUME MigrationTypes, [MigrationNext]_migrationVars
    PROVE  /\ runner \in [at : RunnerStates, file : Nat \ {0}, statement : Nat]
           /\ failures \in Nat /\ (failures' = 0 => failures = 0 /\ ~ Fails)
<1>1. \E n \in 0..Len(Files) : Bounded(n)
    BY DEF MigrationTypes, MigrationIInv
<1>2. failures \in Nat
    BY BoundsAssumption DEF MigrationTypes, MigrationTypeOK
<1>3. failures' = failures \/ Fails
    BY DEF MigrationNext, ScriptStep, StartContainer, CreateLockTable, Skip, Apply, RunStatement,
       StatementRefused, Record, RecordRefused, ConnectionLost, Done, Kill, migrationVars
<1> QED
    BY <1>1, <1>2, <1>3 DEF Bounded, Fails

\* The lock table stays, and a file is applied only when it is found unrecorded.
LEMMA NothingLostNext ==
    ASSUME Files = SortedFiles, MigrationTypes, NothingLost, [MigrationNext]_migrationVars
    PROVE  NothingLost'
<1> SUFFICES ASSUME failures' = 0
             PROVE  /\ runner'.at \in {"asking", "applying", "recording"} => LockTable \in objects'
                    /\ runner'.at \in {"applying", "recording"} => runner'.file \notin recorded'
    BY DEF NothingLost
<1>0. /\ failures = 0 /\ ~ Fails
      /\ runner \in [at : RunnerStates, file : Nat \ {0}, statement : Nat]
    BY Standing
<1>1. LockTable \in objects => LockTable \in objects'
    <2>1. LockTable \notin Gone \cup Rebuilt
        BY DEF LockTable, Gone, Rebuilt
    <2> QED
        BY <2>1, LastingStays
<1>2. CASE RunStatement
    BY <1>0, <1>1, <1>2 DEF RunStatement, Following, NothingLost
<1>3. CASE CreateLockTable
    BY <1>0, <1>3 DEF CreateLockTable, Ends
<1>4. CASE Skip \/ Record
    BY <1>0, <1>1, <1>4 DEF Skip, Record, NothingLost
<1>7. CASE Apply
    BY <1>0, <1>1, <1>7 DEF Apply, NothingLost
<1>5. CASE StartContainer \/ StatementRefused \/ RecordRefused \/ ConnectionLost \/ Done \/ Kill
    BY <1>0, <1>5 DEF StartContainer, StatementRefused, RecordRefused, ConnectionLost,
       Done, Kill, Ends
<1>6. CASE UNCHANGED migrationVars
    BY <1>0, <1>6 DEF migrationVars, NothingLost
<1> QED
    BY <1>2, <1>3, <1>4, <1>5, <1>6, <1>7 DEF MigrationNext, ScriptStep

\* 004 and 021 drop what they are about to create, also when they begin again.
LEMMA DroppedNext ==
    ASSUME Files = SortedFiles, MigrationTypes, Dropped, [MigrationNext]_migrationVars
    PROVE  Dropped'
<1>0. runner \in [at : RunnerStates, file : Nat \ {0}, statement : Nat]
    BY Standing
<1>1. CASE RunStatement
    <2> SUFFICES ASSUME runner'.at = "applying" PROVE Dropped'
        BY DEF Dropped
    <2>1. /\ runner'.file = runner.file /\ runner'.statement = runner.statement + 1
          /\ runner.at = "applying"
        BY <1>1 DEF RunStatement, Following
    <2>2. runner.statement \in Nat /\ runner.statement # 0
        BY <2>1, AtStatement
    <2>3. objects' = After(SortedFiles[runner.file][runner.statement], objects)
        BY <1>1 DEF RunStatement
    <2>4. runner.file = 4 /\ runner'.statement = 3 => "trg_attendance_status" \notin objects'
        BY <2>1, <2>2, <2>3, Places, Trigger004
    <2>5. runner.file = 20 /\ runner'.statement = 2 => "idx_users_leaders" \notin objects'
        BY <2>1, <2>2, <2>3, Places, Indexes021
    <2>6. runner.file = 20 /\ runner'.statement = 3 =>
              "idx_users_leaders" \notin objects' /\ "idx_hq_staff_leaders" \notin objects'
        <3> SUFFICES ASSUME runner.file = 20, runner.statement = 2
                     PROVE  "idx_users_leaders" \notin objects' /\ "idx_hq_staff_leaders" \notin objects'
            BY <2>1, <2>2
        <3>1. objects' = After(HardcodedIds021[2], objects) /\ "idx_users_leaders" \notin objects
            BY <2>1, <2>3, Places DEF Dropped
        <3> QED
            BY <3>1, Indexes021 DEF After
    <2> QED
        BY <2>1, <2>4, <2>5, <2>6 DEF Dropped
<1>2. CASE Apply
    BY <1>0, <1>2 DEF Apply, Dropped
<1>3. CASE StartContainer \/ CreateLockTable \/ Skip \/ StatementRefused \/ Record \/ RecordRefused
           \/ ConnectionLost \/ Done \/ Kill
    BY <1>0, <1>3 DEF StartContainer, CreateLockTable, Skip, StatementRefused, Record, RecordRefused,
       ConnectionLost, Done, Kill, Ends, Dropped
<1>4. CASE UNCHANGED migrationVars
    BY <1>4 DEF migrationVars, Dropped
<1> QED
    BY <1>1, <1>2, <1>3, <1>4 DEF MigrationNext, ScriptStep

\* The trigger and the indexes stay once their file is through: no recorded file is
\* applied again before a query is lost.
LEMMA RebuiltThereNext ==
    ASSUME Files = SortedFiles, MigrationTypes, MadeSoFar, NothingLost, RebuiltThere,
           [MigrationNext]_migrationVars
    PROVE  RebuiltThere'
<1> SUFFICES ASSUME failures' = 0 PROVE RebuiltThere'
    BY DEF RebuiltThere
<1>0. /\ failures = 0
      /\ runner \in [at : RunnerStates, file : Nat \ {0}, statement : Nat]
    BY Standing
<1>1. CASE RunStatement
    <2>1. runner.at = "applying" /\ runner.file \notin recorded /\ recorded' = recorded
        BY <1>0, <1>1 DEF RunStatement, NothingLost
    <2>2. Placed(Current, runner.file) /\ objects' = After(Current, objects)
        BY <1>1, <2>1, AtStatement DEF RunStatement, Current
    <2>3. runner.statement \in 1..Len(SortedFiles[runner.file])
        BY <2>1, AtStatement
    <2>4. /\ runner'.file = runner.file
          /\ runner'.at = "applying" => runner'.statement = runner.statement + 1
          /\ runner'.at = "recording" => ~ runner.statement < Len(SortedFiles[runner.file])
        BY <1>1 DEF RunStatement, Following
    <2>5. ASSUME 4 \in recorded PROVE "trg_attendance_status" \in objects'
        BY <1>0, <2>1, <2>2, <2>5 DEF RebuiltThere, Placed, After
    <2>6. ASSUME runner.file = 4, runner'.at = "applying", runner'.statement = 4
          PROVE  "trg_attendance_status" \in objects'
        <3>1. runner.statement = 3
            BY <2>3, <2>4, <2>6
        <3> QED
            BY <2>2, <2>6, <3>1, Places, Trigger004 DEF Current
    <2>7. ASSUME runner.file = 4, runner'.at = "recording"
          PROVE  "trg_attendance_status" \in objects'
        <3>1. runner.statement = 4
            BY <2>3, <2>4, <2>7, Places
        <3>2. "trg_attendance_status" \in objects /\ Current.drops = {}
            BY <1>0, <2>1, <2>7, <3>1, Places, Trigger004 DEF RebuiltThere, Current
        <3> QED
            BY <2>2, <3>2 DEF After
    <2>8. ASSUME 20 \in recorded
          PROVE  {"idx_users_leaders", "idx_hq_staff_leaders"} \subseteq objects'
        BY <1>0, <2>1, <2>2, <2>8 DEF RebuiltThere, Placed, After
    <2>9. ASSUME runner.file = 20, runner'.at = "recording"
          PROVE  {"idx_users_leaders", "idx_hq_staff_leaders"} \subseteq objects'
        <3>1. runner.statement = 3 /\ Current = HardcodedIds021[3]
            BY <2>3, <2>4, <2>9, Places DEF Current
        <3>2. 1 \in recorded /\ 5 \in recorded
            BY <2>1, <2>9, AtStatement
        <3>3. {"unit_positions_rows", "hq_positions_rows"} \subseteq objects
            BY <3>2, Places, Init001Makes, HQStaff005Makes DEF MadeSoFar
        <3> QED
            BY <2>2, <3>1, <3>3, Indexes021
    <2> QED
        BY <2>1, <2>4, <2>5, <2>6, <2>7, <2>8, <2>9 DEF RebuiltThere
<1>2. CASE Record
    BY <1>0, <1>2 DEF Record, RebuiltThere
<1>3. CASE Apply
    BY <1>0, <1>3 DEF Apply, RebuiltThere
<1>4. CASE StartContainer \/ CreateLockTable \/ Skip \/ StatementRefused \/ RecordRefused
           \/ ConnectionLost \/ Done \/ Kill
    BY <1>0, <1>4 DEF StartContainer, CreateLockTable, Skip, StatementRefused, RecordRefused,
       ConnectionLost, Done, Kill, Ends, RebuiltThere
<1>5. CASE UNCHANGED migrationVars
    BY <1>5 DEF migrationVars, RebuiltThere
<1> QED
    BY <1>1, <1>2, <1>3, <1>4, <1>5 DEF MigrationNext, ScriptStep

\* The script ends well only past the last file.
LEMMA AllRecordedNext ==
    ASSUME MigrationTypes, AllRecorded, [MigrationNext]_migrationVars PROVE AllRecorded'
<1>1. PICK n \in 0..Len(Files) : Bounded(n)
    BY DEF MigrationTypes, MigrationIInv
<1>2. CASE Done
    <2>1. runner.file <= n + 1 /\ runner.file > Len(Files)
        BY <1>1, <1>2 DEF Done, Bounded, ScriptRuns
    <2>2. n = Len(Files)
        BY <1>1, <2>1, FilesAssumption DEF Bounded
    <2> QED
        BY <1>1, <1>2, <2>2 DEF Done, Bounded, AllRecorded
<1>3. CASE UNCHANGED migrationVars
    BY <1>3 DEF migrationVars, AllRecorded
<1>4. CASE RunStatement
    BY <1>4 DEF RunStatement, Following, AllRecorded
<1>5. CASE StartContainer \/ CreateLockTable \/ Skip \/ Record
    BY <1>1, <1>5 DEF Bounded, StartContainer, CreateLockTable, Skip, Record, Ends, AllRecorded
<1>7. CASE Apply
    BY <1>1, <1>7 DEF Bounded, Apply, AllRecorded
<1>6. CASE StatementRefused \/ RecordRefused \/ ConnectionLost \/ Kill
    BY <1>1, <1>6 DEF Bounded, StatementRefused, RecordRefused, ConnectionLost, Kill, Ends, AllRecorded
<1> QED
    BY <1>2, <1>3, <1>4, <1>5, <1>6, <1>7 DEF MigrationNext, ScriptStep

\* A statement is refused for want of a column that another file dropped, and only in
\* 003 and 015: nothing else it names is missing and nothing it creates is there.
LEMMA OnlyForColumns ==
    ASSUME Files = SortedFiles, MigrationTypes, MadeSoFar, Dropped, StatementRefused
    PROVE  \/ runner.file = File003 /\ "events.organizer" \notin objects
           \/ /\ runner.file = File015
              /\ ~ {"regional_offices.contacts", "local_headquarters.contacts"} \subseteq objects
<1>1. runner.at = "applying" /\ Refused(Current, objects)
    BY DEF StatementRefused, Current
<1>2. /\ runner.statement \in 1..Len(SortedFiles[runner.file]) /\ Placed(Current, runner.file)
    BY <1>1, AtStatement
<1>3. Current.clash \cap objects = {}
    <2>1. CASE runner.file = 4
        BY <1>1, <1>2, <2>1, Places, Trigger004 DEF Current, Dropped
    <2>2. CASE runner.file = 20
        <3>1. runner.statement \in {1, 2, 3}
            BY <1>2, <2>2, Places
        <3> QED
            BY <1>1, <2>2, <3>1, Places, Indexes021 DEF Current, Dropped
    <2> QED
        BY <1>2, <2>1, <2>2 DEF Placed
<1>4. PICK o \in Current.needs : o \notin objects
    BY <1>1, <1>3 DEF Refused
<1>5. o \in Gone
    BY <1>1, <1>4, ReliedOn DEF Relies
<1> QED
    BY <1>2, <1>4, <1>5 DEF Placed

\* A refusal in 003 needs 019 applied before it, so a lost answer about 003.
LEMMA RefusedOnlyAtNext ==
    ASSUME Files = SortedFiles, MigrationTypes, MadeSoFar, OrganizerGone, NothingLost, Dropped,
           RefusedOnlyAt, [MigrationNext]_migrationVars
    PROVE  RefusedOnlyAt'
<1>0. /\ failures \in Nat
      /\ runner \in [at : RunnerStates, file : Nat \ {0}, statement : Nat]
    BY Standing
<1>1. CASE StatementRefused
    <2>1. ASSUME runner.file = File003, "events.organizer" \notin objects PROVE failures > 0
        <3> SUFFICES ASSUME failures = 0 PROVE FALSE
            BY <1>0
        <3>1. runner.at = "applying" /\ 3 \notin recorded /\ 1 \in recorded
            BY <1>1, <2>1, AtStatement DEF StatementRefused, NothingLost, File003
        <3>2. "events" \in objects
            BY <3>1, Places, Init001Makes DEF MadeSoFar
        <3>3. PICK n \in 0..Len(Files) : recorded = 1..n
            BY DEF MigrationTypes, MigrationIInv, Bounded
        <3> QED
            BY <2>1, <3>1, <3>2, <3>3, FilesAssumption DEF OrganizerGone
    <2>2. objects' = objects /\ failures' = failures /\ runner'.file = runner.file
        BY <1>0, <1>1 DEF StatementRefused, Ends
    <2> QED
        BY <1>1, <2>1, <2>2, OnlyForColumns DEF RefusedOnlyAt
<1>2. CASE RecordRefused
    BY <1>0, <1>2 DEF RecordRefused, NothingLost, RefusedOnlyAt
<1>3. CASE UNCHANGED migrationVars
    BY <1>3 DEF migrationVars, RefusedOnlyAt
<1>4. CASE RunStatement
    BY <1>4 DEF RunStatement, Following, RefusedOnlyAt
<1>5. CASE StartContainer \/ CreateLockTable \/ Skip \/ Record
    BY <1>0, <1>5 DEF StartContainer, CreateLockTable, Skip, Record, Ends, RefusedOnlyAt
<1>7. CASE Apply
    BY <1>0, <1>7 DEF Apply, RefusedOnlyAt
<1>6. CASE ConnectionLost \/ Done \/ Kill
    BY <1>0, <1>6 DEF ConnectionLost, Done, Kill, Ends, RefusedOnlyAt
<1> QED
    BY <1>1, <1>2, <1>3, <1>4, <1>5, <1>6, <1>7 DEF MigrationNext, ScriptStep

\* The invariant holds of every run of the 22 files.
LEMMA SchemaInvHolds ==
    ASSUME Files = SortedFiles PROVE MigrationSpec => [](MigrationTypes /\ SchemaInv)
<1>1. MigrationInit => MigrationTypes /\ SchemaInv
    <2>1. MigrationInit => SchemaInv
        BY DEF MigrationInit, SchemaInv, Coupled, MadeSoFar, OrganizerGone, NothingLost, Dropped,
           RebuiltThere, AllRecorded, RefusedOnlyAt, Moves, Takes
    <2> QED
        BY <2>1, MigrationInitIInv, MigrationInitTypes DEF MigrationTypes
<1>2. MigrationTypes /\ SchemaInv /\ [MigrationNext]_migrationVars => (MigrationTypes /\ SchemaInv)'
    <2>1. MigrationTypes /\ [MigrationNext]_migrationVars => MigrationTypes'
        BY MigrationNextIInv, MigrationNextTypes DEF MigrationTypes
    <2>2. ASSUME MigrationTypes, SchemaInv, [MigrationNext]_migrationVars PROVE SchemaInv'
        <3>1. Coupled' /\ MadeSoFar' /\ OrganizerGone' /\ NothingLost'
            BY <2>2, CoupledNext, MadeSoFarNext, OrganizerGoneNext, NothingLostNext DEF SchemaInv
        <3>2. Dropped' /\ RebuiltThere' /\ AllRecorded' /\ RefusedOnlyAt'
            BY <2>2, DroppedNext, RebuiltThereNext, AllRecordedNext, RefusedOnlyAtNext DEF SchemaInv
        <3> QED
            BY <3>1, <3>2 DEF SchemaInv
    <2> QED
        BY <2>1, <2>2
<1> QED
    BY <1>1, <1>2, PTL DEF MigrationSpec

\* With every query answered no file but 015 is ever refused, whatever runs are killed;
\* a lost query adds 003, or takes the lock table.
THEOREM RefusedOnlyAtHolds == ASSUME Files = SortedFiles PROVE MigrationSpec => []RefusedOnlyAt
<1>1. SchemaInv => RefusedOnlyAt
    BY DEF SchemaInv
<1> QED
    BY <1>1, SchemaInvHolds, PTL

\* Each of the columns in Gone is dropped by a file after the last that makes one.
DroppedBy(file, o) == \E j \in 1..Len(file) : o \in file[j].drops

LEMMA FilesDrop == \A o \in Gone : \E g \in 7..22 : DroppedBy(SortedFiles[g], o)
<1>1. \A o \in {"events.location_coordinates", "attendances.scan_location",
              "attendances.attended_at"} : DroppedBy(PointFields014, o)
    BY MoveIs DEF PointFields014, Has, DroppedBy
<1>2. \A o \in {"regional_offices.contacts", "local_headquarters.contacts"} :
          DroppedBy(Contacts015, o)
    BY DropIs DEF Contacts015, Has, DroppedBy
<1>3. \A o \in {"registrations.qr_code_data"} : DroppedBy(QrData016, o)
    BY DropIs DEF QrData016, Has, DroppedBy
<1>4. \A o \in {"notifications.json", "user_notifications.data"} :
          DroppedBy(JsonNotifications017, o)
    BY MoveIs DEF JsonNotifications017, Has, DroppedBy
<1>5. \A o \in {"users.account_status"} : DroppedBy(AccountStatus018, o)
    BY MoveIs DEF AccountStatus018, Has, DroppedBy
<1>6. \A o \in {"events.organizer", "notifications.target"} : DroppedBy(Organizers019, o)
    BY MoveIs DEF Organizers019, Has, DroppedBy
<1>7. \A o \in {"files.owner"} : DroppedBy(Files020, o)
    BY MoveIs DEF Files020, Has, DroppedBy
<1>8. /\ SortedFiles[13] = PointFields014 /\ SortedFiles[14] = Contacts015
      /\ SortedFiles[15] = QrData016 /\ SortedFiles[16] = JsonNotifications017
      /\ SortedFiles[17] = AccountStatus018 /\ SortedFiles[18] = Organizers019
      /\ SortedFiles[19] = Files020
    BY DEF SortedFiles
<1> QED
    BY <1>1, <1>2, <1>3, <1>4, <1>5, <1>6, <1>7, <1>8 DEF Gone

\* What the files leave is made for good, or is one of the three things created anew.
LEMMA EverythingLasts ==
    ASSUME NEW o \in Everything, o \notin Rebuilt, o # LockTable
    PROVE  \E f \in 1..Len(SortedFiles) : o \in MadeBy(SortedFiles[f])
<1>0. PICK f \in 1..Len(SortedFiles) : \E i \in 1..Len(SortedFiles[f]) :
        o \in SortedFiles[f][i].makes /\ NoneDropsAfter(o, SortedFiles, f, i)
    BY DEF Everything, LeftBy
<1>1. PICK i \in 1..Len(SortedFiles[f]) : o \in SortedFiles[f][i].makes /\ NoneDropsAfter(o, SortedFiles, f, i)
    BY <1>0
<1>2. o \notin Gone
    <2> SUFFICES ASSUME o \in Gone PROVE FALSE
        OBVIOUS
    <2>1. Placed(SortedFiles[f][i], f)
        BY FilesFit DEF Fits, SoundAt
    <2>2. Len(SortedFiles) = 22
        BY DEF SortedFiles
    <2>3. f \in 1..6
        BY <1>1, <2>1, <2>2 DEF Placed
    <2>4. PICK g \in 7..22 : \E j \in 1..Len(SortedFiles[g]) : o \in SortedFiles[g][j].drops
        BY FilesDrop DEF DroppedBy
    <2>5. g \in f..Len(SortedFiles) /\ g # f
        BY <2>2, <2>3
    <2>6. PICK j \in 1..Len(SortedFiles[g]) : o \in SortedFiles[g][j].drops
        BY <2>4
    <2> QED
        BY <1>1, <2>5, <2>6 DEF NoneDropsAfter
<1> QED
    BY <1>1, <1>2 DEF MadeBy, Lasting

\* A run that ends well leaves all that the files make, whatever was killed before it;
\* lost queries can cost the trigger of 004 and the indexes of 021 and nothing else.
THEOREM SchemaCompleteHolds == ASSUME Files = SortedFiles PROVE MigrationSpec => []SchemaComplete
<1>1. ASSUME Files = SortedFiles, MigrationTypes, SchemaInv PROVE SchemaComplete
    <2> SUFFICES ASSUME runner.at = "done"
                 PROVE  Everything \ objects \subseteq IF failures = 0 THEN {} ELSE Rebuilt
        BY DEF SchemaComplete
    <2>1. /\ recorded = 1..Len(SortedFiles) /\ Len(SortedFiles) = 22
        BY <1>1 DEF SchemaInv, AllRecorded, SortedFiles
    <2>2. \A f \in 1..Len(SortedFiles) : MadeBy(SortedFiles[f]) \subseteq objects
        BY <1>1, <2>1 DEF SchemaInv, MadeSoFar
    <2>3. LockTable \in objects
        <3>1. LockTable \in MadeBy(Notifications006) /\ SortedFiles[6] = Notifications006
            BY AddIs DEF Notifications006, SortedFiles, Has, MadeBy, Lasting, Gone, Rebuilt, LockTable
        <3> QED
            BY <2>1, <2>2, <3>1
    <2>4. Everything \ objects \subseteq Rebuilt
        BY <2>2, <2>3, EverythingLasts
    <2>5. failures = 0 => Rebuilt \subseteq objects
        BY <1>1, <2>1 DEF SchemaInv, RebuiltThere, Rebuilt
    <2> QED
        BY <2>4, <2>5
<1> QED
    BY <1>1, SchemaInvHolds, PTL

\* Once the data were copied their column is gone, and its table, which is there, keeps
\* every statement from making it again.
Once(m) ==
    /\ m.old \in objects => m.table \in objects
    /\ \A w \in written : w[1] = m.data => m.old \notin objects /\ m.table \in objects
    /\ \A v, w \in written : v[1] = m.data /\ w[1] = m.data => v = w

\* One statement that keeps a column in this way copies its data at most once.
LEMMA StatementOnce ==
    ASSUME NEW s, NEW m, Keeps(s, m), Once(m),
           objects' = After(s, objects), written' = written \cup (Written(s, objects) \X {runs})
    PROVE  Once(m)'
<1>1. CASE Idle(s, objects)
    <2>1. objects' = objects /\ written' = written
        BY <1>1 DEF After, Written
    <2> QED
        BY <2>1 DEF Once
<1>2. CASE ~ Idle(s, objects)
    <2>1. /\ objects' = (objects \ s.drops) \cup s.makes
          /\ written' = written \cup (s.writes \X {runs})
        BY <1>2 DEF After, Written
    <2>2. s.guard \subseteq objects /\ (s.unless # {} => ~ s.unless \subseteq objects)
        BY <1>2 DEF Idle
    <2>3. m.table \in objects => m.table \in objects' /\ m.old \notin s.makes
        BY <2>1, <2>2 DEF Keeps
    <2>4. m.old \in objects' => m.table \in objects'
        BY <2>1, <2>3 DEF Keeps, Once
    <2>5. CASE m.data \in s.writes
        <3>1. m.old \in objects /\ m.old \notin objects' /\ m.table \in objects'
            BY <2>1, <2>2, <2>3, <2>5 DEF Keeps, Once
        <3>2. \A w \in written' : w[1] = m.data => w = <<m.data, runs>>
            BY <2>1, <3>1 DEF Once
        <3> QED
            BY <2>4, <3>1, <3>2 DEF Once
    <2>6. CASE m.data \notin s.writes
        <3>1. \A w \in written' : w[1] = m.data => w \in written
            BY <2>1, <2>6
        <3>2. \A w \in written : w[1] = m.data => m.old \notin objects' /\ m.table \in objects'
            BY <2>1, <2>3 DEF Once
        <3> QED
            BY <2>4, <3>1, <3>2 DEF Once
    <2> QED
        BY <2>5, <2>6
<1> QED
    BY <1>1, <1>2

\* So it is for all of them.
AllOnce == \A m \in Moves : Once(m)

\* No step writes such data anew.
LEMMA NextOnce ==
    ASSUME Files = SortedFiles, MigrationTypes, AllOnce, [MigrationNext]_migrationVars
    PROVE  AllOnce'
<1> SUFFICES ASSUME NEW m \in Moves PROVE Once(m)'
    BY DEF AllOnce
<1>0. Once(m)
    BY DEF AllOnce
<1>1. CASE RunStatement
    <2>1. Sound(Current)
        BY <1>1, AtStatement DEF RunStatement
    <2>2. Keeps(Current, m)
        BY <2>1 DEF Sound
    <2> QED
        BY <1>0, <1>1, <2>2, StatementOnce DEF RunStatement, Current
<1>2. CASE CreateLockTable
    <2>1. m.old # LockTable
        BY DEF Moves, Takes, LockTable
    <2> QED
        BY <1>0, <1>2, <2>1 DEF CreateLockTable, Once
<1>3. CASE UNCHANGED <<objects, written>>
    BY <1>0, <1>3 DEF Once
<1> QED
    BY <1>1, <1>2, <1>3 DEF MigrationNext, ScriptStep, StartContainer, Skip, Apply,
       StatementRefused, Record, RecordRefused, ConnectionLost, Done, Kill, migrationVars

\* The data that MovedOnce names come out of these columns.
LEMMA MovedHaveColumns ==
    ASSUME NEW d \in Moved PROVE \E m \in Moves : m.data = d
    BY DEF Moved, Moves, Takes

\* However often the 22 files are started, killed and applied again, no data are moved
\* twice out of the columns that the files take apart.
THEOREM MovedOnceHolds == ASSUME Files = SortedFiles PROVE MigrationSpec => []MovedOnce
<1>1. MigrationInit => MigrationTypes /\ AllOnce
    <2>1. MigrationInit => AllOnce
        BY DEF MigrationInit, AllOnce, Once
    <2> QED
        BY <2>1, MigrationInitIInv, MigrationInitTypes DEF MigrationTypes
<1>2. MigrationTypes /\ AllOnce /\ [MigrationNext]_migrationVars => (MigrationTypes /\ AllOnce)'
    <2>1. MigrationTypes /\ [MigrationNext]_migrationVars => MigrationTypes'
        BY MigrationNextIInv, MigrationNextTypes DEF MigrationTypes
    <2> QED
        BY <2>1, NextOnce
<1>3. AllOnce => MovedOnce
    <2> SUFFICES ASSUME AllOnce, NEW d \in Moved PROVE WrittenOnce(d)
        BY DEF MovedOnce
    <2>1. \A v, w \in {x \in written : x[1] = d} : v = w
        BY MovedHaveColumns DEF AllOnce, Once
    <2>2. CASE {x \in written : x[1] = d} = {}
        <3>1. Cardinality({}) = 0
            BY FS_EmptySet
        <3> QED
            BY <2>2, <3>1 DEF WrittenOnce
    <2>3. ASSUME NEW w \in {x \in written : x[1] = d} PROVE WrittenOnce(d)
        <3>1. {x \in written : x[1] = d} = {w}
            BY <2>1, <2>3
        <3>2. Cardinality({w}) = 1
            BY FS_Singleton
        <3> QED
            BY <3>1, <3>2 DEF WrittenOnce
    <2> QED
        BY <2>2, <2>3
<1> QED
    BY <1>1, <1>2, <1>3, PTL DEF MigrationSpec

-----------------------------------------------------------------------------
Calls == [by : Callers, result : Int, subtracted : 0 .. N]

(* The loops.  A call counts the working days it has gone back over, from   *)
(* the day its result stands at; Slack is the days of the week-end it may   *)
(* have gone back over since the last of them.                              *)
Slack(d) == IF d % 7 = 6 THEN 1 ELSE IF d % 7 = 5 THEN 2 ELSE 0

LoopInv ==
  /\ now \in Nat /\ date \in Nat
  /\ call \in {NoCall} \cup Calls
  /\ call # NoCall =>
       /\ call.result <= date
       /\ call.subtracted = Cardinality(WorkdaysFrom(call.result))
       /\ call.subtracted = N => Workday(call.result)
       /\ call.result >= date - 3 * call.subtracted - Slack(call.result)

(* What the assumptions on the constants give.                              *)
LEMMA Constants ==
  /\ N \in Nat /\ N > 0
  /\ Dates \subseteq Nat /\ Instants \subseteq Nat
<1>1. ASSUME NEW d \in 0 .. LastDay, NEW h \in Hours PROVE 24 * d + h \in Nat
  BY DeadlinesAssumption
<1> QED
  BY <1>1, DeadlinesAssumption DEF Instants

(* The working days before an event can be counted.                         *)
LEMMA WorkdaysFinite ==
  ASSUME date \in Nat, NEW d \in Int
  PROVE  /\ IsFiniteSet(WorkdaysFrom(d)) /\ Cardinality(WorkdaysFrom(d)) \in Nat
         /\ WorkdaysFrom(d) \subseteq Int
<1>1. IsFiniteSet(d .. date - 1)
  BY FS_Interval
<1>2. WorkdaysFrom(d) \subseteq d .. date - 1
  BY DEF WorkdaysFrom
<1> QED
  BY <1>1, <1>2, FS_Subset, FS_CardinalityType

(* A day earlier there is one more, if it is a working day.                 *)
LEMMA DayBefore ==
  ASSUME date \in Nat, NEW d \in Int, d <= date
  PROVE  Cardinality(WorkdaysFrom(d - 1)) =
           IF Workday(d - 1) THEN Cardinality(WorkdaysFrom(d)) + 1 ELSE Cardinality(WorkdaysFrom(d))
<1>1. WorkdaysFrom(d - 1) = IF Workday(d - 1) THEN WorkdaysFrom(d) \cup {d - 1} ELSE WorkdaysFrom(d)
  BY DEF WorkdaysFrom
<1>2. d - 1 \notin WorkdaysFrom(d)
  BY DEF WorkdaysFrom
<1> QED
  BY <1>1, <1>2, WorkdaysFinite, FS_AddElement

(* A loop begins with none.                                                 *)
LEMMA AtTheEvent ==
  ASSUME date \in Nat
  PROVE  Cardinality(WorkdaysFrom(date)) = 0
<1>1. WorkdaysFrom(date) = {}
  BY DEF WorkdaysFrom
<1> QED
  BY <1>1, FS_EmptySet

(* Going back over a day leaves no more than three days per working day.    *)
LEMMA SlackStep ==
  ASSUME NEW d \in Int, NEW s \in Nat, NEW m \in Nat, d >= m - 3 * s - Slack(d)
  PROVE  IF Workday(d - 1) THEN d - 1 >= m - 3 * (s + 1) - Slack(d - 1)
                           ELSE d - 1 >= m - 3 * s - Slack(d - 1)
  BY DEF Slack, Workday

(* The clock goes on to a later instant.                                    *)
LEMMA NextInstant ==
  ASSUME Tick
  PROVE  now' \in Nat /\ now' > now
<1> DEFINE later == {i \in Instants : i > now}
<1>1. later \subseteq Nat /\ later # {} /\ now' = Min(later)
  BY Constants DEF Tick
<1> HIDE DEF later
<1>2. PICK x \in later : \A y \in later : ~(<<y, x>> \in OpToRel(<, Nat))
  BY <1>1, NatLessThanWellFounded, WFMin
<1>3. ASSUME NEW y \in later PROVE x <= y
  <2>1. x \in Nat /\ y \in Nat
    BY <1>1
  <2>2. ASSUME y < x PROVE FALSE
    <3>1. <<y, x>> \in OpToRel(<, Nat)
      BY <2>1, <2>2 DEF OpToRel
    <3> QED
      BY <1>2, <3>1
  <2> QED
    BY <2>1, <2>2
<1>4. Min(later) \in later
  BY <1>3 DEF Min
<1> QED
  BY <1>1, <1>4 DEF later

(* The largest of a set of whole numbers is the one no other exceeds.       *)
LEMMA MaxIs ==
  ASSUME NEW S, S \subseteq Int, NEW m \in S, \A y \in S : y <= m
  PROVE  Max(S) = m
<1>1. m \in S /\ \A y \in S : m >= y
  OBVIOUS
<1>2. Max(S) \in S /\ \A y \in S : Max(S) >= y
  BY <1>1, Zenon DEF Max
<1>3. m \in Int /\ Max(S) \in Int /\ m >= Max(S) /\ Max(S) >= m
  BY <1>1, <1>2
<1> QED
  BY <1>3

(* No loop runs at first.                                                   *)
LEMMA LoopInit ==
  ASSUME Init
  PROVE  LoopInv
  BY Constants DEF Init, LoopInv

(* An iteration of any of the three copies keeps the count.                 *)
LEMMA LoopStep ==
  ASSUME LoopInv, Loop
  PROVE  LoopInv'
<1> DEFINE d == call.result
           s == call.subtracted
<1>1. /\ call.by \in Callers /\ call.subtracted < N
      /\ call' = [call EXCEPT !.result = d - 1, !.subtracted = IF Workday(d - 1) THEN s + 1 ELSE s]
  BY DEF Loop, SubtractWorkdays, RegistrationDeadline, EmailSubWorkdays, Running, Back, Callers
<1>2. call \in Calls /\ call # NoCall
  <2>1. NoCall.by \notin Callers
    BY DEF NoCall, Callers
  <2> QED
    BY <1>1, <2>1 DEF LoopInv
<1>3. /\ date' = date /\ now' = now /\ date \in Nat /\ now \in Nat
  BY DEF Loop, LoopInv
<1>4. /\ d \in Int /\ s \in 0 .. N /\ s < N /\ N \in Nat
      /\ call'.by \in Callers /\ call'.result = d - 1
      /\ call'.subtracted = IF Workday(d - 1) THEN s + 1 ELSE s
  BY <1>1, <1>2, Constants DEF Calls
<1>5. call' \in Calls
  <2>1. d - 1 \in Int /\ (IF Workday(d - 1) THEN s + 1 ELSE s) \in 0 .. N
    BY <1>4
  <2> QED
    BY <1>1, <1>2, <2>1 DEF Calls
<1>6. /\ d <= date /\ s = Cardinality(WorkdaysFrom(d)) /\ d >= date - 3 * s - Slack(d)
  BY <1>2 DEF LoopInv
<1> HIDE DEF d, s
<1>7. call'.subtracted = Cardinality(WorkdaysFrom(d - 1))
  BY <1>3, <1>4, <1>6, DayBefore
<1>8. WorkdaysFrom(call.result)' = WorkdaysFrom(d - 1)
  BY <1>3, <1>4 DEF WorkdaysFrom
<1>9. call'.subtracted = N => Workday(d - 1)
  BY <1>4
<1>10. d - 1 >= date - 3 * call'.subtracted - Slack(d - 1)
  <2>1. s \in Nat /\ d \in Int /\ d >= date - 3 * s - Slack(d)
    BY <1>4, <1>6
  <2>2. IF Workday(d - 1) THEN d - 1 >= date - 3 * (s + 1) - Slack(d - 1)
                          ELSE d - 1 >= date - 3 * s - Slack(d - 1)
    BY <1>3, <2>1, SlackStep
  <2> QED
    BY <1>4, <2>2
<1>11. d - 1 <= date
  BY <1>3, <1>4, <1>6
<1> QED
  BY <1>3, <1>4, <1>5, <1>7, <1>8, <1>9, <1>10, <1>11 DEF LoopInv

(* A call begins with a count that is right.                                *)
LEMMA BeginInv ==
  ASSUME LoopInv, NEW c \in Callers, Begin(c), UNCHANGED <<now, date>>
  PROVE  LoopInv'
<1>1. call' = [by |-> c, result |-> date, subtracted |-> 0] /\ date \in Nat /\ now \in Nat
  BY DEF Begin, LoopInv
<1>2. call' \in Calls /\ call'.result = date /\ call'.subtracted = 0
  BY <1>1, Constants DEF Calls
<1>3. Cardinality(WorkdaysFrom(call.result)') = 0
  <2>1. WorkdaysFrom(call.result)' = WorkdaysFrom(date)
    BY <1>2 DEF WorkdaysFrom
  <2> QED
    BY <1>1, <2>1, AtTheEvent
<1>4. date >= date - 3 * 0 - Slack(date)
  BY <1>1 DEF Slack
<1>5. date <= date /\ (0 = N => Workday(date))
  BY <1>1, Constants
<1> QED
  BY <1>1, <1>2, <1>3, <1>4, <1>5 DEF LoopInv

(* So every step keeps it.                                                  *)
LEMMA LoopNext ==
  ASSUME LoopInv, [Next]_vars
  PROVE  LoopInv'
<1>1. CASE UNCHANGED <<now, date, call>>
  BY <1>1 DEF LoopInv, WorkdaysFrom
<1>2. ASSUME call' = NoCall, date' = date, now' \in Nat PROVE LoopInv'
  BY <1>2 DEF LoopInv
<1>3. CASE Loop
  BY <1>3, LoopStep
<1>4. ASSUME NEW c \in Callers, Ask(c) PROVE LoopInv'
  BY <1>4, BeginInv DEF Ask
<1>5. CASE Start
  <2>1. CASE Begin("mail")
    BY <1>5, <2>1, BeginInv DEF Start, Callers
  <2>2. CASE call' = call
    BY <1>1, <1>5, <2>2 DEF Start
  <2> QED
    BY <1>5, <2>1, <2>2 DEF Start
<1>6. CASE Answered \/ Restored \/ Crash
  BY <1>2, <1>6 DEF Answered, Restored, Crash, LoopInv
<1>7. CASE Wake \/ Backfill \/ UNCHANGED vars
  BY <1>1, <1>7 DEF Wake, Backfill, vars
<1>8. CASE Tick
  <2>1. now' \in Nat
    BY <1>8, NextInstant
  <2> QED
    BY <1>2, <1>8, <2>1 DEF Tick
<1> QED
  BY <1>3, <1>4, <1>5, <1>6, <1>7, <1>8 DEF Next

(* A call that has returned stands at the closing day.                      *)
LEMMA ReturnsClosingDay ==
  ASSUME LoopInv, NEW c \in Callers, Returned(c)
  PROVE  /\ call.result \in Int /\ call.result < date /\ Workday(call.result)
         /\ Cardinality(WorkdaysFrom(call.result)) = N
         /\ ClosingDay = call.result
<1> DEFINE d == call.result
<1>1. call # NoCall /\ call \in Calls /\ call.subtracted = N
  BY DEF Returned, LoopInv, NoCall, Callers
<1>2. /\ d \in Int /\ d <= date /\ Workday(d) /\ Cardinality(WorkdaysFrom(d)) = N
      /\ d >= date - 3 * N - Slack(d) /\ date \in Nat
  BY <1>1 DEF LoopInv, Calls
<1>3. d < date
  BY <1>2, AtTheEvent, Constants
<1> DEFINE S == {x \in (date - 3 * N - 3) .. date : Cardinality(WorkdaysFrom(x)) = N}
<1>4. S \subseteq Int
  BY <1>2, Constants
<1>5. d \in S
  BY <1>2, Constants DEF Slack
<1>6. ASSUME NEW x \in S, x > d PROVE FALSE
  <2>1. x \in Int /\ Cardinality(WorkdaysFrom(x)) = N
    BY <1>4, <1>6
  <2>2. WorkdaysFrom(x) \subseteq WorkdaysFrom(d) /\ d \in WorkdaysFrom(d) /\ d \notin WorkdaysFrom(x)
    BY <1>2, <1>3, <1>6, <2>1 DEF WorkdaysFrom
  <2> QED
    BY <1>2, <2>1, <2>2, WorkdaysFinite, FS_Subset
<1>7. Max(S) = d
  <2>1. \A x \in S : x <= d
    BY <1>2, <1>4, <1>6
  <2> HIDE DEF S
  <2> QED
    BY <1>4, <1>5, <2>1, MaxIs
<1> QED
  BY <1>2, <1>3, <1>7 DEF ClosingDay

(* There is a closing day, whatever the day of the event and N are: for     *)
(* the least number without one, the day of its predecessor has a working   *)
(* day at most three days before it.                                        *)
DaysBack(n) ==
  {d \in Int : d <= date /\ Cardinality(WorkdaysFrom(d)) = n /\ d >= date - 3 * n - Slack(d)}

LEMMA DaysBackStep ==
  ASSUME date \in Nat, NEW n \in Nat, NEW d \in DaysBack(n)
  PROVE  IF Workday(d - 1) THEN d - 1 \in DaysBack(n + 1) ELSE d - 1 \in DaysBack(n)
<1>1. d \in Int /\ d - 1 \in Int /\ d <= date /\ d - 1 <= date
  BY DEF DaysBack
<1>2. Cardinality(WorkdaysFrom(d)) = n /\ d >= date - 3 * n - Slack(d)
  BY DEF DaysBack
<1>3. IF Workday(d - 1) THEN d - 1 >= date - 3 * (n + 1) - Slack(d - 1)
                        ELSE d - 1 >= date - 3 * n - Slack(d - 1)
  BY <1>1, <1>2, SlackStep
<1>4. Cardinality(WorkdaysFrom(d - 1)) = IF Workday(d - 1) THEN n + 1 ELSE n
  BY <1>1, <1>2, DayBefore
<1> QED
  BY <1>1, <1>3, <1>4 DEF DaysBack

LEMMA DaysBackExist ==
  ASSUME date \in Nat
  PROVE  DaysBack(N) # {}
<1> DEFINE Without == {n \in Nat : DaysBack(n) = {}}
<1> SUFFICES ASSUME Without # {} PROVE FALSE
  BY Constants
<1>1. PICK n \in Without : \A m \in Without : ~(<<m, n>> \in OpToRel(<, Nat))
  <2>1. Without \subseteq Nat
    OBVIOUS
  <2> HIDE DEF Without
  <2> QED
    BY <2>1, NatLessThanWellFounded, WFMin
<1>2. n # 0
  <2>1. date >= date - 3 * 0 - Slack(date)
    BY DEF Slack
  <2>2. date \in DaysBack(0)
    BY <2>1, AtTheEvent DEF DaysBack
  <2> QED
    BY <2>2
<1>3. n - 1 \in Nat /\ n - 1 < n /\ (n - 1) + 1 = n
  BY <1>2
<1>4. n - 1 \notin Without
  BY <1>1, <1>3 DEF OpToRel
<1>5. PICK d \in DaysBack(n - 1) : TRUE
  BY <1>3, <1>4
<1>6. d \in Int
  BY DEF DaysBack
<1>7. \A e \in DaysBack(n - 1) : ~Workday(e - 1) /\ e - 1 \in DaysBack(n - 1)
  BY <1>3, DaysBackStep
<1>8. /\ ~Workday(d - 1) /\ ~Workday(d - 2) /\ ~Workday(d - 3)
  BY <1>6, <1>7
<1> QED
  BY <1>6, <1>8 DEF Workday

(* What the set of closing days contains.                                   *)
LEMMA ClosingDayIs ==
  ASSUME date \in Nat
  PROVE  /\ ClosingDay \in Int /\ ClosingDay <= date
         /\ Cardinality(WorkdaysFrom(ClosingDay)) = N
         /\ \A d \in (date - 3 * N - 3) .. date :
              Cardinality(WorkdaysFrom(d)) = N => d <= ClosingDay
<1> DEFINE S == {x \in (date - 3 * N - 3) .. date : Cardinality(WorkdaysFrom(x)) = N}
<1>1. PICK d \in DaysBack(N) : TRUE
  BY DaysBackExist
<1>2. d \in S /\ S \subseteq Int
  BY Constants DEF DaysBack, Slack
<1>3. IsFiniteSet(S)
  <2>1. IsFiniteSet((date - 3 * N - 3) .. date)
    BY Constants, FS_Interval
  <2> QED
    BY <2>1, FS_Subset
<1> DEFINE above == {date - x : x \in S}
<1>4. above \subseteq Nat /\ above # {}
  BY <1>2
<1> HIDE DEF above
<1>5. PICK a \in above : \A b \in above : ~(<<b, a>> \in OpToRel(<, Nat))
  BY <1>4, NatLessThanWellFounded, WFMin
<1>6. PICK m \in S : a = date - m
  BY <1>5 DEF above
<1>7. ASSUME NEW y \in S PROVE y <= m
  <2>1. y \in Int /\ m \in Int /\ date - y \in above /\ date - y \in Nat /\ a \in Nat
    BY <1>2, <1>4, <1>5 DEF above
  <2>2. ~(date - y < a)
    BY <1>5, <2>1 DEF OpToRel
  <2> QED
    BY <1>6, <2>1, <2>2
<1>8. Max(S) = m
  <2>1. S \subseteq Int /\ m \in S /\ \A y \in S : y <= m
    BY <1>2, <1>6, <1>7
  <2> HIDE DEF S
  <2> QED
    BY <2>1, MaxIs
<1>9. m \in Int /\ m <= date /\ Cardinality(WorkdaysFrom(m)) = N
  BY <1>2, <1>6
<1>10. \A x \in (date - 3 * N - 3) .. date : Cardinality(WorkdaysFrom(x)) = N => x <= m
  BY <1>7
<1>11. ClosingDay = m
  BY <1>8 DEF ClosingDay
<1> QED
  BY <1>9, <1>10, <1>11

(* In particular it is a day.                                               *)
LEMMA ClosingDayExists ==
  ASSUME date \in Nat
  PROVE  ClosingDay \in Int
  BY ClosingDayIs

(* The clock is past the midnight of the closing day exactly when fewer     *)
(* than N full working days are ahead.                                      *)
LEMMA AheadIs ==
  ASSUME now \in Nat, date \in Nat, NEW d \in Int, d < date, Workday(d),
         Cardinality(WorkdaysFrom(d)) = N
  PROVE  NSK > Midnight(d) <=> Cardinality(WorkdaysAhead) < N
<1>1. NSK \in Nat /\ NSK = now + 7 /\ CurrentDate \in Nat /\ CurrentDate = now \div 24
  BY DEF NSK, Offset, CurrentDate
<1>2. WorkdaysAhead \subseteq CurrentDate .. date - 1
  BY DEF WorkdaysAhead
<1>3. IsFiniteSet(WorkdaysAhead) /\ Cardinality(WorkdaysAhead) \in Nat
  <2>1. IsFiniteSet(CurrentDate .. date - 1)
    BY <1>1, FS_Interval
  <2> QED
    BY <1>2, <2>1, FS_Subset, FS_CardinalityType
<1>4. ASSUME NSK > Midnight(d) PROVE Cardinality(WorkdaysAhead) < N
  <2>1. \A w \in WorkdaysAhead : w \in Int /\ w > d
    BY <1>1, <1>4 DEF WorkdaysAhead, Midnight
  <2>2. WorkdaysAhead \subseteq WorkdaysFrom(d) \ {d} /\ d \in WorkdaysFrom(d)
    BY <2>1 DEF WorkdaysAhead, WorkdaysFrom
  <2>3. IsFiniteSet(WorkdaysFrom(d) \ {d}) /\ Cardinality(WorkdaysFrom(d) \ {d}) = N - 1
    BY <2>2, WorkdaysFinite, FS_RemoveElement
  <2>4. Cardinality(WorkdaysAhead) <= Cardinality(WorkdaysFrom(d) \ {d})
    BY <2>2, <2>3, FS_Subset
  <2> QED
    BY <1>3, <2>3, <2>4, Constants
<1>5. ASSUME ~(NSK > Midnight(d)) PROVE Cardinality(WorkdaysAhead) >= N
  <2>1. \A w \in WorkdaysFrom(d) : w \in CurrentDate .. date - 1 /\ Workday(w) /\ Midnight(w) >= NSK
    <3>1. NSK <= 24 * d
      BY <1>1, <1>5 DEF Midnight
    <3>2. CurrentDate <= d
      BY <1>1, <3>1
    <3> QED
      BY <1>1, <3>1, <3>2 DEF WorkdaysFrom, Midnight
  <2>2. WorkdaysFrom(d) \subseteq WorkdaysAhead
    BY <2>1 DEF WorkdaysAhead
  <2> QED
    BY <1>3, <2>2, FS_Subset
<1> QED
  BY <1>3, <1>4, <1>5, Constants

(* The three loops mean what the calendar says, for any number of working   *)
(* days, any day of the event and any moment of the clock.                  *)
THEOREM VerdictIsTrueHolds == Spec => []VerdictIsTrue
<1>1. LoopInv => VerdictIsTrue
  <2> SUFFICES ASSUME LoopInv PROVE VerdictIsTrue
    OBVIOUS
  <2>1. now \in Nat /\ date \in Nat
    BY DEF LoopInv
  <2>2. ASSUME NEW c \in {"register", "list"}, Returned(c)
        PROVE  NSK > Midnight(call.result) <=> Cardinality(WorkdaysAhead) < N
    BY <2>1, <2>2, ReturnsClosingDay, AheadIs DEF Callers
  <2>3. ASSUME Returned("mail") PROVE LetterWaits <=> ~Closed
    <3>1. ClosingDay = call.result /\ call.result \in Int
      BY <2>3, ReturnsClosingDay DEF Callers
    <3> QED
      BY <2>1, <3>1 DEF LetterWaits, Closed, ClosedAt, NSK, Offset, Midnight
  <2> QED
    BY <2>2, <2>3 DEF VerdictIsTrue, RefusesRegistration, ListsAsClosed
<1> QED
  BY <1>1, LoopInit, LoopNext, PTL DEF Spec

-----------------------------------------------------------------------------
(* The letters.  Calls and goroutines belong to a process that runs, and    *)
(* the goroutine of the letter sleeps until the closing day.                *)
CallsWhileUp == call # NoCall => up

SleepsUntilClosing ==
  task # NoTask => up /\ task = Sleeping(ClosingDay)

(* With no goroutine left, registration has closed and the letter went, or  *)
(* the event was marked.                                                    *)
NothingLeftOpen ==
  (up /\ NotPast /\ task = NoTask /\ call.by # "mail")
    => Closed /\ (mailed \/ sent)

(* email_sent_at is set by the letter or by 023.                            *)
MarkedOrMailed == sent => marked \/ mailed

(* If the end of the registration went by with no letter and no goroutine,  *)
(* the process was down.                                                    *)
OverlookedWhileDown ==
  (NotPast /\ Closed /\ ~early /\ ~mailed) => missed \/ task # NoTask

Shapes ==
  /\ date \in Dates /\ fills \in 0 .. MaxFills
  /\ {sent, up, early, mailed, missed, marked, fresh} \subseteq BOOLEAN
  /\ task = NoTask \/ (task.pc = "sleep" /\ task.until \in Int /\ task = Sleeping(task.until))

IInv ==
  /\ LoopInv /\ Shapes /\ CallsWhileUp /\ SleepsUntilClosing
  /\ NothingLeftOpen /\ MarkedOrMailed /\ OverlookedWhileDown

(* The flags are Boolean, a form the provers need one by one.               *)
LEMMA Flags ==
  ASSUME Shapes
  PROVE  /\ sent \in BOOLEAN /\ up \in BOOLEAN /\ early \in BOOLEAN /\ mailed \in BOOLEAN
         /\ missed \in BOOLEAN /\ marked \in BOOLEAN /\ fresh \in BOOLEAN
  BY DEF Shapes

(* A sleeping goroutine is one, and knows its day.                          *)
LEMMA Tasks ==
  ASSUME NEW d
  PROVE  /\ Sleeping(d) # NoTask /\ Sleeping(d).until = d /\ Sleeping(d).pc = "sleep"
         /\ NoTask.pc = "none"
  BY DEF Sleeping, NoTask

(* A call that is for somebody is a call.                                   *)
LEMMA Calling ==
  ASSUME NEW c \in Callers, call.by = c
  PROVE  call # NoCall
  BY DEF NoCall, Callers

(* A day that is not over is not over for PostgreSQL either.                *)
LEMMA NotPastIsUpcoming ==
  ASSUME now \in Nat, date \in Nat, NotPast
  PROVE  Upcoming
<1>1. now + 7 < 24 * (date + 1)
  BY DEF NotPast, NSK, Offset, Midnight
<1>2. now \div 24 <= date
  BY <1>1
<1>3. now \div 24 \in Int
  OBVIOUS
<1> QED
  BY <1>2, <1>3 DEF Upcoming, CurrentDate

(* While the clock stands the calendar does; when it goes on, what was      *)
(* closed or past stays so.                                                 *)
LEMMA SameDay ==
  ASSUME UNCHANGED <<now, date>>
  PROVE  /\ ClosingDay' = ClosingDay /\ (Closed' <=> Closed) /\ (NotPast' <=> NotPast)
         /\ NSK' = NSK
  BY DEF ClosingDay, WorkdaysFrom, Closed, ClosedAt, Midnight, NotPast, NSK

LEMMA LaterDay ==
  ASSUME Tick, now \in Nat, date \in Nat
  PROVE  /\ ClosingDay' = ClosingDay
         /\ (NotPast' => NotPast)
         /\ (Closed' <=> ClosedAt(now'))
         /\ (Closed => Closed')
<1>1. date' = date /\ now' \in Nat /\ now' > now
  BY NextInstant DEF Tick
<1>2. ClosingDay' = ClosingDay /\ ClosingDay \in Int
  BY <1>1, ClosingDayExists DEF ClosingDay, WorkdaysFrom
<1>3. ASSUME NEW a \in Nat, NEW b \in Nat, b > a, NEW m \in Int
      PROVE  /\ b + 7 < 24 * m => a + 7 < 24 * m
             /\ a + 7 >= 24 * m => b + 7 >= 24 * m
  BY <1>3
<1>4. date + 1 \in Int
  OBVIOUS
<1>5. NotPast' => NotPast
  <2>1. /\ NotPast <=> now + 7 < 24 * (date + 1)
        /\ NotPast' <=> now' + 7 < 24 * (date + 1)
    BY <1>1 DEF NotPast, NSK, Offset, Midnight
  <2> QED
    BY <1>1, <1>3, <1>4, <2>1
<1>6. Closed' <=> ClosedAt(now')
  BY <1>2 DEF Closed, ClosedAt, Midnight, Offset
<1>7. Closed => ClosedAt(now')
  <2>1. /\ Closed <=> now + 7 >= 24 * ClosingDay
        /\ ClosedAt(now') <=> now' + 7 >= 24 * ClosingDay
    BY DEF Closed, ClosedAt, Offset, Midnight
  <2> QED
    BY <1>1, <1>2, <1>3, <2>1
<1> QED
  BY <1>2, <1>5, <1>6, <1>7

(* At first nothing runs, and what closed before was either mailed early or *)
(* missed.                                                                  *)
LEMMA IInvInit ==
  ASSUME Init
  PROVE  IInv
<1>1. LoopInv /\ now \in Nat /\ date \in Nat
  BY LoopInit DEF LoopInv
<1>2. /\ date \in Dates /\ fills = 0 /\ call = NoCall /\ task = NoTask
      /\ sent = FALSE /\ up = FALSE /\ mailed = FALSE /\ marked = FALSE /\ fresh = FALSE
      /\ early \in {FALSE, Closed} /\ missed = (Closed /\ ~early)
  BY DEF Init
<1>3. Closed \in BOOLEAN
  BY <1>1, ClosingDayExists DEF Closed, ClosedAt, Midnight, Offset
<1>4. early \in BOOLEAN /\ missed \in BOOLEAN
  BY <1>2, <1>3, Zenon
<1>5. fills \in 0 .. MaxFills
  BY <1>2, DeadlinesAssumption
<1>6. Shapes
  BY <1>2, <1>4, <1>5, Zenon DEF Shapes
<1>7. OverlookedWhileDown
  BY <1>2, <1>4 DEF OverlookedWhileDown
<1> QED
  BY <1>1, <1>2, <1>6, <1>7
     DEF IInv, CallsWhileUp, SleepsUntilClosing, NothingLeftOpen, MarkedOrMailed

(* Steps keep the types.                                                    *)
LEMMA ShapesNext ==
  ASSUME IInv, [Next]_vars
  PROVE  Shapes'
<1>1. LoopInv /\ Shapes /\ now \in Nat /\ date \in Nat
  BY DEF IInv, LoopInv
<1>2. /\ sent \in BOOLEAN /\ up \in BOOLEAN /\ early \in BOOLEAN /\ mailed \in BOOLEAN
      /\ missed \in BOOLEAN /\ marked \in BOOLEAN /\ fresh \in BOOLEAN
      /\ date \in Dates /\ fills \in 0 .. MaxFills
  BY <1>1, Flags DEF Shapes
<1>3. ASSUME UNCHANGED <<date, sent, up, task, early, mailed, marked, fills, fresh>>,
             missed' \in BOOLEAN
      PROVE  Shapes'
  BY <1>1, <1>2, <1>3 DEF Shapes, Sleeping
<1>4. CASE Loop \/ Answered \/ UNCHANGED vars
  BY <1>2, <1>3, <1>4 DEF Loop, Answered, vars
<1>5. ASSUME NEW c \in Callers, Ask(c) PROVE Shapes'
  BY <1>2, <1>3, <1>5 DEF Ask
<1>6. CASE Tick
  <2>1. missed' \in BOOLEAN
    BY <1>6, Zenon DEF Tick
  <2> QED
    BY <1>3, <1>6, <2>1 DEF Tick
<1>7. CASE Start
  BY <1>1, <1>2, <1>7 DEF Start, Shapes, Sleeping
<1>8. CASE Restored
  <2>1. call.result \in Int
    BY <1>1, <1>8, ReturnsClosingDay DEF Restored, Callers
  <2>2. task' = NoTask \/ (task'.pc = "sleep" /\ task'.until \in Int /\ task' = Sleeping(task'.until))
    BY <1>1, <1>8, <2>1, Tasks DEF Restored, Shapes
  <2>3. mailed' \in BOOLEAN
    BY <1>8, Zenon DEF Restored
  <2>4. /\ UNCHANGED <<date, sent, up, early, missed, fills, marked, fresh>>
    BY <1>8 DEF Restored
  <2> QED
    BY <1>2, <2>2, <2>3, <2>4 DEF Shapes, Sleeping
<1>9. CASE Wake
  BY <1>2, <1>9 DEF Wake, Shapes, Sleeping
<1>10. CASE Crash
  <2>1. missed' \in BOOLEAN
    BY <1>10, Zenon DEF Crash
  <2> QED
    BY <1>2, <1>10, <2>1 DEF Crash, Shapes, Sleeping
<1>11. CASE Backfill
  <2>1. sent' \in BOOLEAN /\ marked' \in BOOLEAN
    BY <1>11, Zenon DEF Backfill
  <2>2. fresh' \in BOOLEAN
    <3>1. (NSK < Midnight(ClosingDay) + Offset) \in BOOLEAN
      BY <1>1, ClosingDayExists DEF NSK, Midnight, Offset
    <3> QED
      BY <1>2, <1>11, <3>1, Zenon DEF Backfill
  <2>3. fills' \in 0 .. MaxFills
    <3>1. MaxFills \in Nat /\ fills < MaxFills /\ fills' = fills + 1
      BY <1>11, DeadlinesAssumption DEF Backfill
    <3> QED
      BY <1>2, <3>1
  <2>4. UNCHANGED <<date, up, task, early, mailed, missed>>
    BY <1>11 DEF Backfill
  <2> QED
    BY <1>1, <1>2, <2>1, <2>2, <2>3, <2>4 DEF Shapes, Sleeping
<1> QED
  BY <1>4, <1>5, <1>6, <1>7, <1>8, <1>9, <1>10, <1>11 DEF Next

(* A call and a goroutine need the process, and the goroutine sleeps until  *)
(* the closing day.                                                         *)
LEMMA TasksNext ==
  ASSUME IInv, [Next]_vars
  PROVE  CallsWhileUp' /\ SleepsUntilClosing'
<1>1. LoopInv /\ CallsWhileUp /\ SleepsUntilClosing /\ now \in Nat /\ date \in Nat
  BY DEF IInv, LoopInv
<1>2. ClosingDay' = ClosingDay
  <2>1. date' = date
    BY DEF Next, Ask, Loop, Answered, Start, Restored, Wake, Crash, Backfill, Tick, vars
  <2> QED
    BY <2>1 DEF ClosingDay, WorkdaysFrom
<1>3. Sleeping(ClosingDay)' = Sleeping(ClosingDay)
  BY <1>2 DEF Sleeping
<1>4. ASSUME UNCHANGED <<up, task>>, call' # NoCall => up
      PROVE  CallsWhileUp' /\ SleepsUntilClosing'
  BY <1>1, <1>2, <1>3, <1>4 DEF CallsWhileUp, SleepsUntilClosing, NoTask, NoCall, Sleeping
<1>5. CASE Loop
  <2>1. call # NoCall
    BY <1>5, Calling DEF Loop, SubtractWorkdays, RegistrationDeadline, EmailSubWorkdays, Running, Callers
  <2> QED
    BY <1>1, <1>4, <1>5, <2>1 DEF Loop, CallsWhileUp
<1>6. CASE Answered \/ Backfill \/ Tick \/ UNCHANGED vars
  BY <1>1, <1>4, <1>6 DEF Answered, Backfill, Tick, vars, CallsWhileUp
<1>7. ASSUME NEW c \in Callers, Ask(c) PROVE CallsWhileUp' /\ SleepsUntilClosing'
  BY <1>4, <1>7 DEF Ask
<1>8. CASE Start
  BY <1>1, <1>2, <1>3, <1>8 DEF Start, CallsWhileUp, SleepsUntilClosing, NoTask, NoCall, Sleeping
<1>9. CASE Restored
  <2>1. call # NoCall /\ ClosingDay = call.result
    BY <1>1, <1>9, Calling, ReturnsClosingDay DEF Restored, Returned, Callers
  <2>2. up /\ up' = up /\ call' = NoCall /\ (task' = Sleeping(ClosingDay) \/ task' = task)
    BY <1>1, <1>9, <2>1 DEF Restored, CallsWhileUp
  <2> QED
    BY <1>1, <1>2, <1>3, <2>2 DEF CallsWhileUp, SleepsUntilClosing, NoTask, NoCall, Sleeping
<1>10. CASE Wake
  BY <1>1, <1>10 DEF Wake, CallsWhileUp, SleepsUntilClosing, NoTask, NoCall
<1>11. CASE Crash
  BY <1>11 DEF Crash, CallsWhileUp, SleepsUntilClosing, NoTask, NoCall
<1> QED
  BY <1>5, <1>6, <1>7, <1>8, <1>9, <1>10, <1>11 DEF Next

(* The goroutine that is due sleeps until a day that has come.              *)
LEMMA DueIsClosed ==
  ASSUME IInv, task # NoTask
  PROVE  Due <=> Closed
<1>1. task = Sleeping(ClosingDay) /\ task.until = ClosingDay
  BY Tasks DEF IInv, SleepsUntilClosing
<1> QED
  BY <1>1 DEF Due, Closed, ClosedAt, NSK

(* The restore leaves a goroutine, or sends the late letter, or finds the   *)
(* event marked; a goroutine that ends has sent its letter.                 *)
LEMMA NothingLeftOpenNext ==
  ASSUME IInv, [Next]_vars
  PROVE  NothingLeftOpen'
<1>1. /\ LoopInv /\ Shapes /\ CallsWhileUp /\ SleepsUntilClosing /\ NothingLeftOpen
      /\ now \in Nat /\ date \in Nat
  BY DEF IInv, LoopInv
<1>2. mailed \in BOOLEAN /\ sent \in BOOLEAN
  BY <1>1, Flags
<1> SUFFICES ASSUME up', NotPast', task' = NoTask, call'.by # "mail"
             PROVE  Closed' /\ (mailed' \/ sent')
  BY DEF NothingLeftOpen
<1>3. ASSUME UNCHANGED <<now, date>>, NothingLeftOpen => Closed /\ (mailed' \/ sent')
      PROVE  Closed' /\ (mailed' \/ sent')
  BY <1>1, <1>3, SameDay
<1>4. ASSUME UNCHANGED <<now, date, up, task, mailed>>, call.by # "mail", sent => sent'
      PROVE  Closed' /\ (mailed' \/ sent')
  <2>1. up /\ NotPast /\ task = NoTask
    BY <1>4, SameDay
  <2>2. Closed /\ (mailed \/ sent)
    BY <1>1, <1>4, <2>1 DEF NothingLeftOpen
  <2> QED
    BY <1>3, <1>4, <2>2
<1>5. CASE Loop
  <2>1. call'.by = call.by
    BY <1>5, <1>1 DEF Loop, SubtractWorkdays, RegistrationDeadline, EmailSubWorkdays, Back, LoopInv, Calls,
                      Running, NoCall
  <2> QED
    BY <1>4, <1>5, <2>1 DEF Loop
<1>6. ASSUME NEW c \in Callers, Ask(c) PROVE Closed' /\ (mailed' \/ sent')
  BY <1>4, <1>6 DEF Ask, NoCall
<1>7. CASE Answered
  BY <1>4, <1>7 DEF Answered, Returned
<1>8. CASE UNCHANGED vars
  BY <1>4, <1>8 DEF vars
<1>9. CASE Backfill
  <2>1. sent => sent'
    BY <1>9 DEF Backfill
  <2> QED
    BY <1>4, <1>9, <2>1 DEF Backfill
<1>10. CASE Start
  <2>1. NotPast /\ Upcoming
    BY <1>1, <1>10, SameDay, NotPastIsUpcoming DEF Start
  <2>2. call'.by = "mail"
    BY <1>10, <2>1 DEF Start, Begin
  <2> QED
    BY <2>2
<1>11. CASE Restored
  <2>1. ClosingDay = call.result /\ ClosingDay \in Int
    BY <1>1, <1>11, ReturnsClosingDay DEF Restored, Callers
  <2>2. ~LetterWaits
    BY <1>11, Tasks DEF Restored
  <2>3. Closed
    BY <1>1, <2>1, <2>2 DEF LetterWaits, Closed, ClosedAt, NSK, Midnight, Offset
  <2>4. mailed' \/ sent'
    BY <1>2, <1>11, <2>2 DEF Restored
  <2> QED
    BY <1>3, <1>11, <2>3, <2>4 DEF Restored
<1>12. CASE Wake
  <2>1. Closed /\ mailed'
    BY <1>12, DueIsClosed DEF Wake, Due
  <2> QED
    BY <1>3, <1>12, <2>1 DEF Wake
<1>13. CASE Crash
  BY <1>13 DEF Crash
<1>14. CASE Tick
  <2>1. up /\ NotPast /\ task = NoTask /\ call = NoCall /\ UNCHANGED <<mailed, sent>>
    BY <1>1, <1>14, LaterDay DEF Tick
  <2>2. Closed /\ (mailed \/ sent)
    BY <1>1, <2>1 DEF NothingLeftOpen, NoCall
  <2> QED
    BY <1>1, <1>14, <2>1, <2>2, LaterDay
<1> QED
  BY <1>5, <1>6, <1>7, <1>8, <1>9, <1>10, <1>11, <1>12, <1>13, <1>14 DEF Next

(* Only the letter and 023 set email_sent_at.                               *)
LEMMA MarkedOrMailedNext ==
  ASSUME IInv, [Next]_vars
  PROVE  MarkedOrMailed'
<1>1. MarkedOrMailed
  BY DEF IInv
<1>2. CASE UNCHANGED <<sent, marked, mailed>>
  BY <1>1, <1>2 DEF MarkedOrMailed
<1>3. CASE Restored
  BY <1>1, <1>3 DEF Restored, MarkedOrMailed
<1>4. CASE Wake
  BY <1>4 DEF Wake, MarkedOrMailed
<1>5. CASE Backfill
  BY <1>1, <1>5 DEF Backfill, MarkedOrMailed
<1> QED
  BY <1>2, <1>3, <1>4, <1>5 DEF Next, Ask, Loop, Answered, Start, Crash, Tick, vars

(* Registration closes while a goroutine waits for it, or while the process *)
(* is down; the goroutine that a crash takes away was due.                  *)
LEMMA OverlookedNext ==
  ASSUME IInv, [Next]_vars
  PROVE  OverlookedWhileDown'
<1>1. /\ LoopInv /\ Shapes /\ OverlookedWhileDown /\ NothingLeftOpen /\ now \in Nat /\ date \in Nat
  BY DEF IInv, LoopInv
<1>2. /\ sent \in BOOLEAN /\ up \in BOOLEAN /\ early \in BOOLEAN /\ mailed \in BOOLEAN /\ missed \in BOOLEAN
  BY <1>1, Flags
<1> SUFFICES ASSUME NotPast', Closed', ~early', ~mailed'
             PROVE  missed' \/ task' # NoTask
  BY DEF OverlookedWhileDown
<1>3. ASSUME UNCHANGED <<now, date, early>>, mailed => mailed'
      PROVE  Closed /\ (missed \/ task # NoTask)
  <2>1. NotPast /\ Closed
    BY <1>3, SameDay
  <2> QED
    BY <1>1, <1>3, <2>1 DEF OverlookedWhileDown
<1>4. CASE UNCHANGED <<now, date, early, mailed, missed, task>>
  BY <1>3, <1>4
<1>5. CASE Restored
  <2>1. mailed => mailed'
    BY <1>5 DEF Restored
  <2>2. missed \/ task # NoTask
    BY <1>3, <1>5, <2>1 DEF Restored
  <2> QED
    BY <1>5, <2>2, Tasks DEF Restored
<1>6. CASE Wake
  BY <1>6 DEF Wake
<1>7. CASE Crash
  <2>1. Closed /\ (missed \/ task # NoTask)
    BY <1>3, <1>7 DEF Crash
  <2>2. missed \/ Due
    BY <2>1, DueIsClosed
  <2> QED
    BY <1>7, <2>2 DEF Crash
<1>8. CASE Tick
  <2>1. NotPast /\ ClosedAt(now') /\ UNCHANGED <<up, task, early, mailed>> /\ call = NoCall
    BY <1>1, <1>8, LaterDay DEF Tick
  <2>2. missed' = (missed \/ (~Closed /\ ClosedAt(now') /\ ~up))
    BY <1>8 DEF Tick
  <2>3. CASE Closed
    BY <1>1, <2>1, <2>2, <2>3 DEF OverlookedWhileDown
  <2>4. CASE ~Closed /\ ~up
    BY <2>1, <2>2, <2>4
  <2>5. CASE ~Closed /\ up
    BY <1>1, <2>1, <2>5 DEF NothingLeftOpen, NoCall
  <2> QED
    BY <2>3, <2>4, <2>5
<1> QED
  BY <1>4, <1>5, <1>6, <1>7, <1>8 DEF Next, Ask, Loop, Answered, Start, Backfill, vars

(* The invariant of the letters holds throughout.                           *)
LEMMA Invariant == Spec => []IInv
<1>1. ASSUME IInv, [Next]_vars PROVE IInv'
  <2>1. LoopInv'
    BY <1>1, LoopNext DEF IInv
  <2>2. Shapes' /\ CallsWhileUp' /\ SleepsUntilClosing'
    BY <1>1, ShapesNext, TasksNext
  <2>3. NothingLeftOpen' /\ MarkedOrMailed' /\ OverlookedWhileDown'
    BY <1>1, NothingLeftOpenNext, MarkedOrMailedNext, OverlookedNext
  <2> QED
    BY <2>1, <2>2, <2>3 DEF IInv
<1> QED
  BY <1>1, IInvInit, PTL DEF Spec

(* Every variable keeps its type.                                           *)
THEOREM TypeCorrect == Spec => []TypeOK
<1>1. IInv => TypeOK
  <2> SUFFICES ASSUME IInv PROVE TypeOK
    OBVIOUS
  <2>1. task \in {NoTask} \cup [pc : {"sleep"}, until : Int]
    BY DEF IInv, Shapes, Sleeping
  <2>2. call \in {NoCall} \cup [by : Callers, result : Int, subtracted : 0 .. N] /\ now \in Nat
    BY DEF IInv, LoopInv, Calls
  <2> QED
    BY <2>1, <2>2 DEF IInv, Shapes, TypeOK
<1> QED
  BY <1>1, Invariant, PTL

(* A letter is forgotten only if the process was down when registration     *)
(* closed and 023 had marked the event, whenever the restarts, the end of   *)
(* the registration and the repetitions of 023 come.                        *)
THEOREM ForgottenOnlyByBackfillHolds == Spec => []ForgottenOnlyByBackfill
<1>1. IInv => ForgottenOnlyByBackfill
  BY DEF IInv, NothingLeftOpen, MarkedOrMailed, OverlookedWhileDown, ForgottenOnlyByBackfill, NoCall
<1> QED
  BY <1>1, Invariant, PTL

(* Seven days hold five working days, and any k of them at least k - 2.     *)
LEMMA Week ==
  ASSUME date \in Nat
  PROVE  /\ Cardinality(WorkdaysFrom(date - 7)) = 5
         /\ \A k \in 0 .. 7 : Cardinality(WorkdaysFrom(date - k)) >= k - 2
<1> DEFINE w(k) == Cardinality(WorkdaysFrom(date - k))
           one(k) == IF Workday(date - k) THEN 1 ELSE 0
<1>1. ASSUME NEW k \in Nat, NEW j \in Nat, j = k + 1 PROVE w(j) = w(k) + one(j)
  <2>1. date - k \in Int /\ date - k <= date /\ (date - k) - 1 = date - j
    BY <1>1
  <2>2. w(k) \in Nat
    BY <2>1, WorkdaysFinite
  <2> QED
    BY <2>1, <2>2, DayBefore
<1>2. w(0) = 0
  BY AtTheEvent
<1> HIDE DEF w
<1>3. /\ w(1) = one(1) /\ w(2) = w(1) + one(2) /\ w(3) = w(2) + one(3) /\ w(4) = w(3) + one(4)
      /\ w(5) = w(4) + one(5) /\ w(6) = w(5) + one(6) /\ w(7) = w(6) + one(7)
  BY <1>1, <1>2
<1>4. PICK r \in 0 .. 6 : date % 7 = r
  OBVIOUS
<1>5. /\ w(7) = 5 /\ w(1) >= -1 /\ w(2) >= 0 /\ w(3) >= 1 /\ w(4) >= 2 /\ w(5) >= 3 /\ w(6) >= 4
  <2>1. \A k \in 0 .. 7 : (date - k) % 7 = (r + 7 - k) % 7
    BY <1>4
  <2>2. \A k \in 0 .. 7 : one(k) = IF (r + 7 - k) % 7 < 5 THEN 1 ELSE 0
    BY <2>1 DEF Workday
  <2> HIDE DEF one
  <2>3. /\ one(1) = IF (r + 6) % 7 < 5 THEN 1 ELSE 0
        /\ one(2) = IF (r + 5) % 7 < 5 THEN 1 ELSE 0
        /\ one(3) = IF (r + 4) % 7 < 5 THEN 1 ELSE 0
        /\ one(4) = IF (r + 3) % 7 < 5 THEN 1 ELSE 0
        /\ one(5) = IF (r + 2) % 7 < 5 THEN 1 ELSE 0
        /\ one(6) = IF (r + 1) % 7 < 5 THEN 1 ELSE 0
        /\ one(7) = IF r % 7 < 5 THEN 1 ELSE 0
    BY <2>2
  <2>4. r = 0 \/ r = 1 \/ r = 2 \/ r = 3 \/ r = 4 \/ r = 5 \/ r = 6
    OBVIOUS
  <2> QED
    BY <1>3, <2>3, <2>4
<1>6. ASSUME NEW k \in 0 .. 7 PROVE w(k) >= k - 2
  <2>1. k = 0 \/ k = 1 \/ k = 2 \/ k = 3 \/ k = 4 \/ k = 5 \/ k = 6 \/ k = 7
    OBVIOUS
  <2> QED
    BY <1>2, <1>5, <2>1
<1> QED
  BY <1>5, <1>6 DEF w

(* Up to five working days the closing day is N to N + 2 days before the    *)
(* event.                                                                   *)
LEMMA ClosingDayNear ==
  ASSUME date \in Nat, N <= 5
  PROVE  /\ ClosingDay \in Int
         /\ date - ClosingDay >= N /\ date - ClosingDay <= N + 2
<1> DEFINE d == ClosingDay
<1>1. /\ d \in Int /\ d <= date /\ Cardinality(WorkdaysFrom(d)) = N
  BY ClosingDayIs
<1> HIDE DEF d
<1>2. d >= date - 7
  <2> SUFFICES ASSUME d < date - 7 PROVE FALSE
    BY <1>1
  <2>1. WorkdaysFrom(date - 7) \subseteq WorkdaysFrom(d)
    BY <1>1 DEF WorkdaysFrom
  <2>2. 5 <= N
    BY <1>1, <2>1, Week, WorkdaysFinite, FS_Subset
  <2>3. N = 5 /\ date - 7 \in (date - 3 * N - 3) .. date
    BY <2>2, Constants
  <2>4. date - 7 <= ClosingDay
    BY <2>3, Week, ClosingDayIs
  <2> QED
    BY <1>1, <2>4 DEF d
<1>3. date - d \in 0 .. 7 /\ date - (date - d) = d
  BY <1>1, <1>2
<1>4. N >= (date - d) - 2
  BY <1>1, <1>3, Week
<1>5. N <= date - d
  <2>1. IsFiniteSet(d .. date - 1) /\ Cardinality(d .. date - 1) = date - d
    <3>1. d <= date - 1
      BY <1>1, AtTheEvent, Constants
    <3> QED
      BY <1>1, <3>1, FS_Interval
  <2>2. WorkdaysFrom(d) \subseteq d .. date - 1
    BY DEF WorkdaysFrom
  <2> QED
    BY <1>1, <2>1, <2>2, FS_Subset
<1> QED
  BY <1>1, <1>4, <1>5, Constants DEF d

(* The first 023 comes before the first process, and marks every letter     *)
(* that went early and whose event is not fresh.                            *)
FilledFirst == (up \/ mailed => fills > 0)

EarlyIsOver == early => Closed /\ task = NoTask

EarlyIsMarked == early /\ fills > 0 /\ ~fresh => sent

EarlyInv ==
  /\ FilledFirst /\ EarlyIsOver /\ EarlyIsMarked
  /\ early /\ mailed => fresh

(* Seven hours after the end of the registration the five days of 023 reach *)
(* the event.                                                               *)
LEMMA SilencedReaches ==
  ASSUME now \in Nat, date \in Nat, Margin \in Nat, N <= 5, N + 2 <= Margin,
         ~(NSK < Midnight(ClosingDay) + Offset)
  PROVE  sent \/ Silenced
<1>1. ClosingDay \in Int /\ date - ClosingDay <= Margin
  <2>1. ClosingDay \in Int /\ date - ClosingDay <= N + 2
    BY ClosingDayNear
  <2> QED
    BY <2>1, Constants
<1>2. now >= 24 * ClosingDay
  BY <1>1 DEF NSK, Offset, Midnight
<1>3. now \div 24 \in Int /\ now \div 24 >= ClosingDay
  BY <1>1, <1>2
<1>4. date <= now \div 24 + Margin
  BY <1>1, <1>3
<1> QED
  BY <1>4 DEF Silenced, CurrentDate

(* Steps keep what is known of a letter that went early.                    *)
LEMMA EarlyNext ==
  ASSUME IInv, EarlyInv, [Next]_vars, N <= 5, N + 2 <= Margin
  PROVE  EarlyInv'
<1>1. /\ LoopInv /\ Shapes /\ CallsWhileUp /\ SleepsUntilClosing /\ now \in Nat /\ date \in Nat
      /\ fills \in Nat
  BY DeadlinesAssumption DEF IInv, LoopInv, Shapes
<1>2. /\ sent \in BOOLEAN /\ up \in BOOLEAN /\ early \in BOOLEAN /\ mailed \in BOOLEAN
      /\ fresh \in BOOLEAN
  BY <1>1, Flags
<1>3. early' = early /\ (Closed => Closed')
  <2>1. CASE UNCHANGED <<now, date, early>>
    BY <2>1, SameDay
  <2>2. CASE Tick
    BY <1>1, <2>2, LaterDay DEF Tick
  <2> QED
    BY <2>1, <2>2 DEF Next, Ask, Loop, Answered, Start, Restored, Wake, Crash, Backfill, vars
<1>4. ASSUME UNCHANGED <<sent, mailed, fills, fresh, task>>, up' => up \/ fills > 0
      PROVE  EarlyInv'
  BY <1>3, <1>4 DEF EarlyInv, FilledFirst, EarlyIsOver, EarlyIsMarked, NoTask
<1>5. CASE Loop \/ Answered \/ Start \/ Tick \/ UNCHANGED vars
  BY <1>4, <1>5 DEF Loop, Answered, Start, Tick, vars
<1>6. ASSUME NEW c \in Callers, Ask(c) PROVE EarlyInv'
  BY <1>4, <1>6 DEF Ask
<1>7. CASE Restored
  <2>1. ClosingDay = call.result /\ up
    BY <1>1, <1>7, ReturnsClosingDay, Calling DEF Restored, Returned, Callers, CallsWhileUp
  <2>2. LetterWaits <=> ~Closed
    BY <1>1, <2>1, ReturnsClosingDay, ClosingDayExists
       DEF LetterWaits, Closed, ClosedAt, NSK, Offset, Midnight
  <2>3. UNCHANGED <<sent, up, fills, fresh>>
    BY <1>7 DEF Restored
  <2>4. early => Closed' /\ task' = NoTask
    BY <1>3, <1>7, <2>2 DEF Restored, EarlyInv, EarlyIsOver
  <2>5. EarlyIsOver'
    BY <1>3, <2>4 DEF EarlyIsOver, NoTask
  <2>6. fills > 0
    BY <2>1 DEF EarlyInv, FilledFirst
  <2>7. early /\ mailed' => fresh
    BY <1>7, <2>6 DEF Restored, EarlyInv, EarlyIsMarked
  <2> QED
    BY <1>3, <2>3, <2>5, <2>6, <2>7 DEF EarlyInv, FilledFirst, EarlyIsMarked
<1>8. CASE Wake
  <2>1. task # NoTask /\ ~early /\ up
    BY <1>1, <1>8 DEF Wake, Due, EarlyInv, EarlyIsOver, SleepsUntilClosing
  <2>2. fills > 0 /\ UNCHANGED <<fills, up>>
    BY <1>8, <2>1 DEF Wake, EarlyInv, FilledFirst
  <2> QED
    BY <1>3, <2>1, <2>2 DEF EarlyInv, FilledFirst, EarlyIsOver, EarlyIsMarked
<1>9. CASE Crash
  <2>1. UNCHANGED <<sent, mailed, fills, fresh>> /\ ~up' /\ task' = NoTask
    BY <1>9 DEF Crash
  <2> QED
    BY <1>3, <2>1 DEF EarlyInv, FilledFirst, EarlyIsOver, EarlyIsMarked, NoTask
<1>10. CASE Backfill
  <2>1. /\ fills' > 0 /\ UNCHANGED <<up, mailed, task>> /\ sent' = (sent \/ Silenced)
        /\ fresh' = IF fills = 0 THEN NSK < Midnight(ClosingDay) + Offset ELSE fresh
    BY <1>1, <1>10 DEF Backfill
  <2>2. FilledFirst' /\ EarlyIsOver'
    BY <1>3, <2>1 DEF EarlyInv, FilledFirst, EarlyIsOver, NoTask
  <2>3. CASE fills = 0
    <3>1. ~mailed /\ ~mailed'
      BY <2>1, <2>3 DEF EarlyInv, FilledFirst
    <3>2. Margin \in Nat
      BY DeadlinesAssumption
    <3>3. ~fresh' => sent \/ Silenced
      BY <1>1, <2>1, <2>3, <3>2, SilencedReaches
    <3> QED
      BY <2>1, <2>2, <3>1, <3>3 DEF EarlyInv, EarlyIsMarked
  <2>4. CASE fills # 0
    <3>1. fills > 0 /\ fresh' = fresh
      BY <1>1, <2>1, <2>4
    <3>2. sent => sent'
      BY <2>1, Zenon
    <3> QED
      BY <1>3, <2>1, <2>2, <3>1, <3>2 DEF EarlyInv, EarlyIsMarked
  <2> QED
    BY <2>3, <2>4
<1> QED
  BY <1>5, <1>6, <1>7, <1>8, <1>9, <1>10 DEF Next

(* No letter that went before the column existed goes again, except for an  *)
(* event whose registration closed less than seven hours before the file,   *)
(* as long as 023 reaches two days further than N: with five working days   *)
(* or fewer there is one week-end between the closing day and the event.    *)
THEOREM EarlyLetterIsFinalHolds ==
  ASSUME N <= 5, N + 2 <= Margin
  PROVE  Spec => []EarlyLetterIsFinal
<1>1. Init => EarlyInv
  <2> SUFFICES ASSUME Init PROVE EarlyInv
    OBVIOUS
  <2>1. early => Closed
    <3>1. early \in BOOLEAN /\ early \in {FALSE, Closed}
      BY IInvInit, Flags DEF Init, IInv
    <3> QED
      BY <3>1, Zenon
  <2>2. fills = 0 /\ task = NoTask /\ up = FALSE /\ mailed = FALSE
    BY DEF Init
  <2> QED
    BY <2>1, <2>2 DEF EarlyInv, FilledFirst, EarlyIsOver, EarlyIsMarked
<1>2. IInv /\ EarlyInv /\ [Next]_vars => EarlyInv'
  BY EarlyNext
<1>3. EarlyInv => EarlyLetterIsFinal
  BY DEF EarlyInv, EarlyLetterIsFinal
<1> QED
  BY <1>1, <1>2, <1>3, Invariant, PTL DEF Spec

(* And as long as it reaches no further, it marks no event whose            *)
(* registration is open for more than 41 hours.                             *)
THEOREM BackfillReachHolds ==
  ASSUME N <= 5, Margin <= N + 2
  PROVE  Spec => BackfillReach
<1>1. ASSUME IInv, [Next]_vars
      PROVE  [(fills' # fills /\ sent' # sent) => Midnight(ClosingDay) - NSK <= 48 - Offset]_vars
  <2> SUFFICES ASSUME fills' # fills, sent' # sent
               PROVE  Midnight(ClosingDay) - NSK <= 48 - Offset
    OBVIOUS
  <2>1. now \in Nat /\ date \in Nat /\ Margin \in Nat /\ sent \in BOOLEAN
    BY <1>1, Flags, DeadlinesAssumption DEF IInv, LoopInv
  <2>2. Backfill
    BY <1>1 DEF Next, Ask, Loop, Answered, Start, Restored, Wake, Crash, Tick, vars
  <2>3. sent' = (sent \/ Silenced) /\ ~(sent' <=> sent)
    <3>1. sent' = (sent \/ Silenced)
      BY <2>2 DEF Backfill
    <3>2. sent' \in BOOLEAN
      BY <3>1, Zenon
    <3> QED
      BY <2>1, <3>1, <3>2
  <2>4. date <= now \div 24 + Margin
    BY <2>3 DEF Silenced, CurrentDate
  <2>5. ClosingDay \in Int /\ date - ClosingDay >= Margin - 2
    <3>1. ClosingDay \in Int /\ date - ClosingDay >= N
      BY <2>1, ClosingDayNear
    <3> QED
      BY <2>1, <3>1, Constants
  <2>6. now \div 24 \in Int /\ 24 * (now \div 24) <= now
    BY <2>1
  <2>7. ClosingDay - 2 <= now \div 24
    BY <2>1, <2>4, <2>5, <2>6
  <2>8. 24 * ClosingDay - (now + 7) <= 41
    BY <2>1, <2>5, <2>6, <2>7
  <2> QED
    BY <2>8 DEF Midnight, NSK, Offset
<1> QED
  BY <1>1, Invariant, PTL DEF Spec, BackfillReach
=============================================================================
