--------------------------- MODULE MigrationFiles ---------------------------
(***************************************************************************)
(* The 22 files of migrations/, each the sequence of its statements.      *)
(* Objects are named where a later statement needs, drops or asks for     *)
(* them; the columns nothing later touches come with their table.         *)
(***************************************************************************)
EXTENDS SqlStatements

\* 001_init.sql: the first schema and the reference rows.
Init001 == <<
    Add({}, {"pgcrypto", "system_roles", "unit_positions", "event_levels", "event_types",
             "event_statuses", "registration_statuses"}),
    Table("regional_offices", {}, {"regional_offices.contacts"}),
    Add({}, {"directions"}),
    Table("local_headquarters", {"regional_offices"}, {"local_headquarters.contacts"}),
    Add({"local_headquarters", "directions", "unit_positions"},
        {"units", "users", "user_position_history"}),
    Table("events", {"event_levels", "event_types", "event_statuses", "users"},
          {"events.location_coordinates", "events.organizer"}),
    Table("registrations", {"users", "events", "registration_statuses"},
          {"registrations.qr_code_data"}),
    Table("attendances", {"registrations", "users"},
          {"attendances.scan_location", "attendances.attended_at"}),
    Add({}, {"notification_types"}),
    Table("notifications", {"notification_types", "events", "users"},
          {"notifications.json", "notifications.target"}),
    Table("files", {"users", "events"}, {"files.owner"}),
    Add({"system_roles"}, {"system_roles_rows"}),
    Add({"system_roles_rows"}, {"unit_positions_rows", "event_levels_rows",
                                "registration_statuses_rows", "directions_rows"}) >>

\* 002_seed_org.sql: offices, headquarters and units.  None of the three tables has
\* a unique key its ON CONFLICT DO NOTHING could meet.
SeedOrg002 == <<
    Write({"regional_offices"}, {"regional_offices"}),
    Write({"local_headquarters"}, {"local_headquarters"}),
    Write({"units", "directions_rows"}, {"units"}) >>

\* 003_seed_events_users.sql: three events WHERE NOT EXISTS their title; four
\* accounts, ON CONFLICT (email) whose password and post are set again.
SeedEvents003 == <<
    Add({"events.organizer", "regional_offices"}, {"events_rows"}),
    Write({"users", "pgcrypto", "unit_positions_rows"}, {"demo_accounts"}) >>

\* 004_functions_triggers.sql
Functions004 == <<
    Add({"users", "units"}, {"revoked_tokens", "change_user_position",
                             "fn_update_registration_status"}),
    Drop({"trg_attendance_status"}),
    Create({"attendances", "fn_update_registration_status"}, {"trg_attendance_status"}),
    Add({"events", "registrations", "attendances"}, {"events_stats"}) >>

\* 005_hq_staff_member_card_quotas.sql
HQStaff005 == <<
    Add({"users"}, {"users.account_status", "users.member_card_number"}),
    Add({}, {"hq_positions", "hq_positions_rows"}),
    Add({"users", "local_headquarters", "hq_positions"}, {"hq_staff"}),
    Add({"events", "units", "registrations"},
        {"events.participation_mode", "event_unit_quotas", "registrations.participation_type"}),
    Add({"system_roles"}, {"system_roles_hq_staff"}),
    Add({"hq_staff", "users.member_card_number"}, {"v_hq_staff"}) >>

\* 006_notifications_and_lock.sql
Notifications006 == <<
    Add({}, {"schema_migrations"}),
    Add({"notification_types"}, {"notification_types_hq"}),
    Table("user_notifications", {"users"}, {"user_notifications.data"}),
    Add({"user_notifications"}, {"user_notif_idx"}) >>

\* 007_unique_positions.sql: one commander, commissioner and master of a unit, and of
\* a headquarters, by the ids 1, 2, 3.
UniquePositions007 == <<
    Add({"users"}, {"idx_users_leaders"}),
    Add({"hq_staff"}, {"idx_hq_staff_leaders"}) >>

\* 009_email_verification.sql
EmailVerification009 == << Add({"users"}, {"email_verifications", "password_resets"}) >>

\* 010_email_change_position_requests.sql
EmailChange010 == <<
    Add({"users"}, {"email_change_requests"}),
    Add({"users", "units", "unit_positions"}, {"position_change_requests"}),
    Add({"position_change_requests", "email_change_requests"}, {"idx_position_req_user_pending"}) >>

\* 011_brute_force_banner_block.sql
BruteForce011 == <<
    Add({}, {"login_attempts"}),
    Add({"events", "users"}, {"events.banner_base64", "users.block_reason"}) >>

\* 012_fcm_tokens.sql
FcmTokens012 == << Add({"users"}, {"user_fcm_tokens"}) >>

\* 013_cleanup_indexes.sql
CleanupIndexes013 == <<
    Add({"user_notifications", "login_attempts", "email_verifications", "password_resets",
         "email_change_requests"}, {"cleanup_indexes"}) >>

\* 014_fix_1nf_point_fields.sql: POINT columns become pairs of numbers.
PointFields014 == <<
    Add({"events"}, {"events.location_lat"}),
    Move({"events.location_coordinates"}, {"events.location_lat"}, {}, {"events.location_lat"}),
    Add({"attendances"}, {"attendances.scan_lat"}),
    Move({"attendances.scan_location"}, {"attendances.scan_lat"}, {}, {"attendances.scan_lat"}),
    Move({"attendances.attended_at"}, {}, {}, {}) >>

\* 015_fix_1nf_jsonb_contacts.sql: contacts JSONB becomes rows of two tables, five
\* INSERTs and two ALTER TABLEs with no DO block around them.
Contacts015 == <<
    Add({"regional_offices"}, {"regional_office_contacts"}),
    Add({"local_headquarters"}, {"hq_contacts"}),
    Write({"regional_office_contacts", "regional_offices.contacts"}, {"office_phone"}),
    Write({"regional_office_contacts", "regional_offices.contacts"}, {"office_email"}),
    Write({"regional_office_contacts", "regional_offices.contacts"}, {"office_website"}),
    Write({"hq_contacts", "local_headquarters.contacts"}, {"hq_phone"}),
    Write({"hq_contacts", "local_headquarters.contacts"}, {"hq_email"}),
    Drop({"regional_offices.contacts"}),
    Drop({"local_headquarters.contacts"}) >>

\* 016_fix_1nf_qr_data.sql
QrData016 == << Drop({"registrations.qr_code_data"}) >>

\* 017_fix_1nf_jsonb_notifications.sql
JsonNotifications017 == <<
    Move({"notifications.json"}, {"events"},
         {"notifications.action_url", "notification_filters"}, {"notifications.action_url"}),
    Move({"user_notifications.data"}, {}, {"user_notifications.ref_id"},
         {"user_notifications.ref_id"}),
    Add({"user_notifications.ref_id"}, {"idx_user_notif_ref"}) >>

\* 018_fix_3nf_account_status.sql
AccountStatus018 == <<
    Add({"users", "hq_staff"}, {"v_user_account_status"}),
    Move({"users.account_status"}, {}, {}, {}) >>

\* Mutant: copy and drop outside a DO block.
BareOrganizers019 == <<
    Add({"events"}, {"event_organizers"}),
    Write({"events", "event_organizers"}, {"event_organizers"}),
    Drop({"events.organizer"}),
    Move({"notifications.target"}, {"notifications"},
         {"notification_targets"}, {"notification_targets"}) >>

\* 019_fix_3nf_organizers_targets.sql
Organizers019 == <<
    Add({"events"}, {"event_organizers"}),
    Move({"events.organizer"}, {"event_organizers"}, {}, {"event_organizers"}),
    Move({"notifications.target"}, {"notifications"},
         {"notification_targets"}, {"notification_targets"}) >>

\* 020_fix_3nf_files.sql
Files020 == <<
    Move({"files.owner"}, {"files", "users", "events"},
         {"user_avatars", "event_banners", "file_reports"}, {"file_owners"}) >>

\* Mutant: one of the indexes of 007 is not dropped first.
OneDropped021 == <<
    Drop({"idx_users_leaders"}),
    CreateIf({"unit_positions_rows", "hq_positions_rows"}, {"users", "hq_staff"},
             {"idx_users_leaders", "idx_hq_staff_leaders"}) >>

\* 021_fix_007_hardcoded_ids.sql: the indexes of 007 again, by the ids the codes have.
HardcodedIds021 == <<
    Drop({"idx_users_leaders"}),
    Drop({"idx_hq_staff_leaders"}),
    CreateIf({"unit_positions_rows", "hq_positions_rows"}, {"users", "hq_staff"},
             {"idx_users_leaders", "idx_hq_staff_leaders"}) >>

\* 022_email_sent_at.sql
EmailSentAt022 == << Add({"events"}, {"events.email_sent_at"}) >>

\* 023_backfill_email_sent.sql: the events of the next five days count as mailed.
BackfillEmailSent023 == << Write({"events.email_sent_at"}, {"email_sent_at"}) >>

\* ls /migrations/*.sql | sort
SortedFiles == << Init001, SeedOrg002, SeedEvents003, Functions004, HQStaff005,
    Notifications006, UniquePositions007, EmailVerification009, EmailChange010, BruteForce011,
    FcmTokens012, CleanupIndexes013, PointFields014, Contacts015, QrData016,
    JsonNotifications017, AccountStatus018, Organizers019, Files020, HardcodedIds021,
    EmailSentAt022, BackfillEmailSent023 >>

\* Names for the places in SortedFiles the properties speak of.
File003 == 3
File015 == 14
=============================================================================
