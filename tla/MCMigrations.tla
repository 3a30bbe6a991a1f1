--------------------------- MODULE MCMigrations ---------------------------
(* The runner on the repository's own 22 files. *)
EXTENDS Migrations, MigrationFiles

\* No statement of the files after the i-th of file f drops the object.
NoneDropsAfter(o, files, f, i) ==
    \A g \in f..Len(files) : \A j \in 1..Len(files[g]) :
        o \in files[g][j].drops => g = f /\ j <= i

\* What some statement of the files makes and none after it drops.
LeftBy(files) == {LockTable} \cup
    {o \in UNION {UNION {files[f][i].makes : i \in 1..Len(files[f])} : f \in 1..Len(files)} :
        \E f \in 1..Len(files) : \E i \in 1..Len(files[f]) :
            o \in files[f][i].makes /\ NoneDropsAfter(o, files, f, i)}

Everything == LeftBy(SortedFiles)

\* The first f - 1 files, and of file f the first i statements.
UpTo(f, i) == Append(SubSeq(SortedFiles, 1, f - 1), SubSeq(SortedFiles[f], 1, i))

\* It is what the statements leave in an empty database, run once each in their order:
\* each of them takes what those before it left to what those up to it leave.
ASSUME EverythingIsLeft ==
    /\ LeftBy(<<>>) = {LockTable}
    /\ \A f \in 1..Len(SortedFiles) :
        /\ LeftBy(UpTo(f, 0)) = LeftBy(SubSeq(SortedFiles, 1, f - 1))
        /\ \A i \in 1..Len(SortedFiles[f]) :
            LeftBy(UpTo(f, i)) = After(SortedFiles[f][i], LeftBy(UpTo(f, i - 1)))

\* What a DO block moves under its IF EXISTS.
Moved == {"events.location_lat", "attendances.scan_lat", "notifications.action_url",
          "user_notifications.ref_id", "event_organizers", "notification_targets", "file_owners"}

WrittenOnce(d) == Cardinality({w \in written : w[1] = d}) <= 1

Rebuilt == {"trg_attendance_status", "idx_users_leaders", "idx_hq_staff_leaders"}

\* A run that ends well leaves the schema that the files make on an empty database,
\* however many runs were killed before it.  A lost query can cost what a file drops
\* and creates again in two statements, and nothing else: 004:46-48, 021:7-48.
SchemaComplete == runner.at = "done" =>
    Everything \ objects \subseteq IF failures = 0 THEN {} ELSE Rebuilt

\* Data that migrations 014, 017, 019 and 020 move between columns and tables are
\* moved once, whatever is killed or applied again: the copy, the IF EXISTS and the
\* DROP COLUMN are one DO block.
MovedOnce == \A d \in Moved : WrittenOnce(d)

\* With every query answered, the only file a killed run can leave such that the
\* next run is refused is 015, and only once it dropped a column it copies from; a
\* lost query adds 003, applied again after 019, and a missing lock table.
RefusedOnlyAt == runner.at = "refused" =>
    \/ /\ runner.file = File015
       /\ ~ {"regional_offices.contacts", "local_headquarters.contacts"} \subseteq objects
    \/ failures > 0 /\ (runner.file = File003 \/ LockTable \notin objects)
=============================================================================
