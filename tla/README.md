# rso-events in TLA+

The repository is the event service of a student-brigade organisation: a Go API (`cmd/api`, `internal/`)
over PostgreSQL (`migrations/`), two service containers (`docker/`), and a Flutter client (`mobile_app/`).
Members register for events, managers scan their QR codes at the entrance, administrators review requests
for posts, the organisers get the list of participants by mail when registration closes.

These modules model the parts of it that carry state across steps: the server's handlers statement by
statement where they are not one transaction, its goroutines, the client's overlapping requests, and the
container that migrates the schema. TLC checks small instances; TLAPS proves the safety properties of every
component for every value of the constants. `PROJECT.json` has the list of runs, the lines each
definition models, the mutants that break each property, and the hazards.

To check: `tlc -config MCAttendance.cfg MCAttendance` and so on for every `.cfg`;
`tlapm` on AttendanceProofs, MailScheduleProofs, PositionsProofs (Positions and Inbox), SessionProofs,
CodesProofs, FeedProofs, AccessProofs and DeploymentProofs (Deadlines and Migrations).

## 1. The parts of the system

| part | state | operations | what is hard about it | module |
| --- | --- | --- | --- | --- |
| Event registration | `events`, `registrations` | create, update, cancel an event; register | lookup, deadline check and INSERT are three statements; the event may be moved or cancelled between them | Registration |
| Attendance | `attendances`, status of a registration, trigger | scan a code; delete an account | two scanners, lost commit answers, cascades, row locks | Attendance, AttendanceLog |
| Mail of participants | goroutines, `email_sent_at` | one goroutine per registration, RestoreSchedules, SMTP goroutine | process death, restore racing requests, letters per registration, accounts removed with their registrations | MailSchedule, MailOutbox |
| Posts and headquarters staff | `users` post, `user_hq_staff`, two request tables, history | sign up, request, review, change at once, notify | competing requests, reviews from old notifications, lost commits, a row read again after the commit | Positions, PostRegister |
| Inbox and push | `user_notifications`, phone's list, counter, timers | write, push, list, read, poll | overlapping polls, answers out of order, contexts that end with a handler | Inbox |
| Tokens and the session | JWT pairs, `revoked_tokens`, client memory and secure storage | login, logout, refresh, restart, cleanup | concurrent 401s, awaits between memory and storage, kills | Session |
| Mailed codes | three code tables, `users` address and password hash | send, enter, expire; change address or password | check and use are separate statements; letters arrive in any order | Codes |
| Feed of the client | list of events, filters, token, event screen | load, filter, mark, reset, logout, renewal | loads overlap, marks of the phone are merged with answers, a renewal ends after the account has changed | Feed |
| Access of accounts | `login_attempts`, `is_blocked`, role of the post, role in the tokens | login behind the limiter, register, refresh, block, unblock | count, comparison and record are three statements; the row is read before the tokens are issued; a refresh copies the role | LoginLimiter, Access |
| Deadlines | event date, clock, `email_sent_at` | three copies of one loop over working days; restore; migration 023 | two time zones, strict comparisons both ways, week-ends, a rule in SQL that approximates the loop | Deadlines |
| Schema migrations | schema, `schema_migrations`, API start | run the 22 files | statements commit one by one; applied and recorded by two calls | SqlStatements, MigrationFiles, Migrations |

How they interact. The client calls the API; every protected route passes `AuthRequired`. A registration
that is answered starts a mail goroutine; an approved review writes a notification, which a push message
and the polls bring to the phone, and which makes the phone reload its profile. A renewed token resets the
feed. Accounts that are deleted take registrations, marks and codes with them. `main` starts
`RestoreSchedules` beside the server, and docker-compose starts the API when the migrations have ended.

What makes each part correct:

- Registration and attendance: one mark per registration; the status `attended` if and only if the journal
  has a mark; a scanner is told the truth, even after a commit whose answer is lost; nobody waits for ever.
- Mail: no registration is forgotten, by a crash either; a list is not read before registration closes for the
  date its goroutine was given, so that only a postponed event is mailed early.
- Posts: one holder of a leading post; a review grants what its user asked for, and the history explains every
  place that was granted by one; nobody is told of an approval that is not in the database.
- Inbox: list, counter and local notifications agree; a row is shown locally at most once; the list converges
  when polling has started.
- Session: one refresh at a time, a revoked token buys nothing, storage follows memory.
- Codes: an address is one its owner has read a code at; a code that did its work and whose row was deleted is
  in no table again; a password is changed by who knows it or who reads the mail.
- Feed: what the load started last brought has the events of the filter; a registration that is shown is one of
  the account, or its mark has one of two known causes.
- Access: an address, as it is spelled, is guessed at a bounded number of times per window; who is blocked gets
  no new session; a role that was taken away survives only in the sessions that carry it.
- Deadlines: the three loops and the calendar agree to the minute; no letter is forgotten or repeated by the
  change from the program without `email_sent_at` to the one with it, except as stated.
- Migrations: files are recorded in order, a completed run leaves the whole schema, data are moved once.

Not modelled, and why:

- profile fields, avatars, banners, search of users: single UPDATEs or SELECTs that no other operation reads
  half-way;
- quotas: written and never read by a registration;
- the directory, statistics, portfolio: SELECTs; widgets, form validation, camera; layout of letters and answers;
- configuration: reading the environment. What `main` starts is in MailSchedule.

## 2. Modules, their state and their actions

A run's `MC` module only gives constants their values. A module's mutants are operators preceded by
`\* Mutant:`; no next-state relation uses them. Inbox and Migrations name their specifications `InboxSpec`
and `MigrationSpec` (and so their `Init`, `Next` and type invariant): PositionsProofs extends Inbox beside
Positions, DeploymentProofs extends MCMigrations, for the 22 files, beside Deadlines.

**Registration** (base module, no specification of its own). `registrations` is a function of user and
event. `registerToEvent` is `Lookup` (ListEvents, a copy of the row), `CheckDeadline` (time against the
copy's date) and `InsertCreated` or `InsertConflict` (the unique key). Between them `UpdateEvent` and
`CancelEvent` may run: the request goes on with its copy. The clock counts days; `DeadlineOf` maps a date
to the last moment of registration, an arbitrary function here.

**Attendance** extends it with the scan: `FindByQR` (role check and SELECT), then a transaction of
`CountAttendances`, `InsertAttendance`, `Commit`, `CommitUnheard` or `Rollback`. PostgreSQL at READ
COMMITTED is modelled as this code meets it: a count sees committed rows, an INSERT on the unique key waits
for the uncommitted one of another transaction (`InsertedByOther`), the trigger's status becomes visible
with the commit (`Publish`), `DeleteUser` cascades, waits for locked rows and is refused while somebody
else's attendance names the user as scanner. `Pinned` are users whom other tables hold.

**AttendanceLog** is what the journal promises, without requests, transactions or locks: users register,
one mark per place, a removal takes what is the user's own. Attendance implements it under
`members <- account, place <- status of the row, by <- attendance`.

**MailSchedule** extends Registration with goroutines. `Spawn` is the `go` at the end of the handler; it
keeps the copy's date. `Wake`, `Compose` (query of participants, start of the SMTP goroutine), `MarkSent`,
`Deliver` or `LetterLost`. `Crash` erases goroutines and requests, `Start` begins `RestoreSchedules` while
requests are served: `RestoreQuery` takes rows with the UTC `CURRENT_DATE`, a weaker filter than the
handler's check in Novosibirsk time, `RestoreRow` skips what is past, sends what is late, and otherwise
starts a goroutine. `lost` is a history variable: the events touched by a failure nobody retries. `DeleteUser`
is the DELETE of an account, which takes its registrations by cascade; here it is one step (the scans, marks
and locks it may meet are in Attendance), and `MaxRemovals` bounds the number of removals. A goroutine that
sleeps keeps nothing of the user: the list is read without who has left, a letter that was composed before
still names the user.

**MailOutbox** is what the mail promises, without requests, dates, goroutines or an SMTP server: a place and
the list owed for it come in one step, a list that is read names everybody who has a place, and it is carried
until it is delivered, unless a failure waives the event. MailSchedule implements it under `places <- users
with a row`, `owed <- events of which a goroutine sleeps or is about to read`, `carried <- lists delivered or
in an SMTP goroutine`, `waived <- lost`. `Leave` takes a user's places away: the lists that are owed are read
without the user, those that were read stay. Several goroutines owe the list of one event, so reading one list
settles a debt and may leave others (`Settle`). A crash waives every event, since it takes what was owed and
what was on its way; what holds after it is RestoredAreCovered, which the outbox does not repeat.

**Positions** has the review of either kind as one step, since the code runs it in one transaction. A review
is begun from a list or a notification (`Open`), whose content may have changed when it reaches the server.
`SignUp` stores any post and unit the request names, a leading one too. A signed-in user has two ways to a post,
and the server chooses between them by the `position_code` of the request (service_patch.go:196) while it stores
another field, `position_id`: so in the model either kind of post goes either way, `AskReview` or `MoveAtOnce`;
only the unique index refuses (`LeadRefused`). A request for a review rewrites the pending row of
the user. After the commit the service reads the row again (`Reread`) and writes the notification from what it
found (`Tell`), two steps between which and before which the row may be rewritten. `unrecorded` is history: who
has moved at once since the history last got a row about the user. `SignUpPlaces` and `MaxAsks` bound the
instances. Removal of an account is not in this module; it takes the rows of one user from every table at once.

**PostRegister** is what Positions promises, without requests that have a status, reviews, notifications or
failures: a leading post and a unique headquarters post have one holder; a user may `Join` with, or `Move` to,
anything that is not taken, and the record does not say so; what is recorded is what was granted (`Grant`,
`TakeSeat`), to a user the very place or seat that user asked for, in the order of the grants; a seat can be
lost at any time. A wish is what a row of `position_change_requests` says now, whatever its status, because the
review does not ask for it: this is the weakest register the code keeps. Positions maps its rows of requests
to the wishes by `Asked`, its headquarters rows, whose status may also be "rejected", to the seats by
`Seating`, and the history, without the column of old places, to the record.

**Inbox** has two slots for client requests (`Tasks`), each with the points where the Dart code awaits: the
answer, the profile, the local notification of one row. `Show` is the assignment of a list; the polls assign
the list they received before they waited. `SendFcm` and `LoseFcm` stand for the goroutine that sends a push
with the context of a request which may already have ended. `phase` is how far `startPolling` came: it sets up
the local notifications and listens to push messages (`Listen`), asks for the phone's token, makes the first
load (`StartPolling`), whose failure is caught, and creates the timer. The platform may throw in the first two
(`InitThrows`): nothing catches that, and the phone then has no timer, with ("pushOnly") or without ("deaf")
the polls that a push message starts. What the system displays of a push message by itself is not a step of the
provider and is not counted in `pushes`.

**Session** splits each client call at its awaits: request, 401, exchange, two storage writes, repeat.
`refreshing` is `_isRefreshing`. Storage calls take effect in the order they were made, which
flutter_secure_storage gives on one key-value store. A kill empties the memory between any two steps.
Every `revoked_tokens` row stays longer than the token lives, because `Cleanup` compares expiry.

**Codes** has one slot per request that is between two of its statements. Fresh codes never collide (six
random digits; the models say what the code promises except with that probability), an expired row is a
missing row, a letter can be read at any later time or never. `SendVerificationCode` is the public resend: it
takes the user and the address from the body and compares neither with the account. The DELETE of a change code
drops its error (`DeleteChange`: the request goes on as "deleted" or "kept"); `spent` are the codes that did
their work and whose row was deleted.
`verified` is written and never read; `CreateUser` sets it, so it is TRUE of every account.

**LoginLimiter** (base module) is the table of failed attempts by origin, a pair of the address as it was
typed and the caller, and by age: a set of rows of origin, age and a number that keeps equal ones apart, so
that the limiter's COUNT is a cardinality. A tick makes every attempt older, and what has left the window is dropped,
because only `attempted_at > NOW() - 15 minutes` is ever asked. The count that fails is read as "not limited"
(`Admitted`) and an INSERT that fails is not noticed (`RecordLoginAttempt`), as in the handler. The caller is
the X-Real-IP header or, without one, the remote address with its port (handlers.go:182-183). It identifies no
machine, so a request of the model may bring any caller, and no property says anything per caller. `Storable`
are the origins that fit the two columns; for others the INSERT always fails, and no attempt counts.

**Access** extends it with the requests that get tokens. `Admit` is the limiter's question, `ReadUser` the
SELECT with `is_blocked = false` and the comparison with the hash it read, `Issue` the tokens made from the
row read before; `Refuse` records the attempt. `Refresh` takes the role of the old token. `pairs` holds the
refreshable pairs by user and role; a user has at most one row of each here, since pairs with the same role
do the same. `ChangeRole` stands for everything Positions does to a post. An administrator is anybody with a
pair that has an administrator's role, or one of `StandingRoles`.

**Deadlines** follows one event with one registration. The three loops run step by step, from the day of the
event; their callers compare the result with the clock as the code does, `After` for the registration and the
list, `Before` for the letter. `Upcoming` and `Silenced` use the date of PostgreSQL, which runs in UTC,
`NotPast` and the loops the offset of Novosibirsk. `Backfill` is 023; `Start`, `Restored`, `Wake` and `Crash`
are the restore and the goroutine, here without the failures that MailSchedule has. `ClosingDay` and
`WorkdaysAhead` are the calendar the loops are compared with: counted from a set, not by a loop.

**Feed** is EventsProvider and the event screen. A load takes the filter when it starts, the events when
it is served and the list to merge with when it is received, so that loads overlap at all three points.
`GET /events` is outside the authenticated group, so an answer carries no status; statuses are the phone's
own (`Mark`). `newest`, `fresh`, `unbacked` are history.

Logins, logouts and renewals are here as far as they change the token and the listeners' view of it. `user` is
AuthProvider's: unknown, asked for after a login, known, or being logged out; "late" is a profile that was asked
for before the logout and may still come. `refreshing` is the account whose refresh token an exchange under way
has sent, begun by a 401 of a tap (`Expire`) or of anything else (`AskRenewal`). `Renew` assigns the pair when it
comes, whoever is signed in by then, as `doRefresh` does (api_client.dart:114-121); a tap that waited is sent
again with the token of that moment (`SendAgain`). The provider hears of a token later: `Notify`, `Profile` and
`Clear` are the notifications of AuthProvider, and each calls `UpdateToken`, which resets the list if the token
is another one. A tap is `stray` if the token it is sent with is of another account than the list, or if another
account's token is taken into memory while the screen waits for the answer. `Earlier` are registrations made
before the run or on another phone: they are what a 409 with a row behind it comes from.

**SqlStatements, MigrationFiles, Migrations**. A file is a sequence of statements; each creates or drops
named objects, may need objects, and is idle or refused when its IF [NOT] EXISTS or its needs say so.
Neighbouring statements that can be repeated at will are one step. `Everything`, in MCMigrations, is what some
statement makes and no later one drops; the assumption `EverythingIsLeft`, which TLC evaluates, says that this is
the schema of an empty database after each statement has run once, in order. The script asks, applies, records; a
failed query counts as "not applied". `Kill` stops it anywhere.

## 3. Runs

| run | instance | shows |
| --- | --- | --- |
| attendance | participant and two managers, 1 event, 1 registration, 2 scans, failing statements | MarkedOnce, StatusFollowsJournal, AnswersAreTrue; every found scan is answered (ScanAnswered); ImplementsLog |
| mail_crash | 2 users, 2 requests, 1 event of two dates, clock to 2, 1 crash anywhere, 1 removal, failing statements and letters | RestoredAreCovered: after the restore, every registration of an upcoming unmarked event no failure touched is in a letter or awaits one; ListedEarlyOnlyIfPostponed; ImplementsOutbox |
| mail_live | the same without crash and failures, clock to 1 | EventuallyMailed, of users who keep the account; SomeLetterIsComplete: some letter named all who still have a place |
| mail_twice (violation) | 1 user, 2 crashes while all goroutines sleep | a late letter of a restore is sent again by the next one |
| positions | 2 users, a fighter and the commander of 1 unit, 1 unique headquarters post, 2 requests, 2 reviews, 3 acts of users, failing statements | OneHolder, HistoryExplainsPlaces, ToldOnlyCommitted; ImplementsRegister |
| inbox | 2 rows, one an approval, 2 task slots, 1 tap, 1 failure, push initialisation that may throw | CountMatchesList, ShownLocallyOnce, ListedIsKnown; ListSettles, if the first load was started |
| session | 2 accounts, 2 pairs, a profile poll and the user, 1 failure, 1 kill | OneRefresh, StorageFollowsMemory, RevokedBuysNothing; RefreshingEnds |
| codes | 2 users, 3 addresses, 2 passwords, 2 codes, 2 requests, failing statements | AddressProven, SpentIsGone, PasswordByMail |
| feed | 2 accounts, 3 tokens (two of one account), 1 event that one account has registered for before, 2 filters, 2 loads, 1 tap, 1 failure | FreshFollowsFilter, ShownIsMine, StatusIsKept |
| access | 1 member's address and an unknown one by one caller, the member's by a caller that cannot be stored, 2 requests, limit 3, window of 2 ticks, 1 failing statement, 2 roles | GuessesBounded, BlockedStaysOut, LostRoleStaysLost |
| deadlines | an event on each day of a week, two weeks, 6 hours of the day, 023 at most twice, any number of restarts | VerdictIsTrue, EarlyLetterIsFinal, ForgottenOnlyByBackfill, BackfillReach |
| migrations | the 22 files, started twice, killed anywhere, 1 psql call without connection | RecordedInOrder, SchemaComplete, MovedOnce, RefusedOnlyAt |

Every module states a type invariant. The attendance run checks it; the other runs spend their properties on
what could be wrong. The theorems `TypeCorrect`, `InboxTypeCorrect` and `MigrationTypeCorrect` prove it for
every component.

**Why these bounds.** The hazards are between two actors of a kind, or between one actor and an
administrator, so there are two of each: two scanners, two polls, two loads, two requests. A third would be
interchangeable with one of them. One tap suffices because `Earlier` gives the account that taps a registration
to conflict with; the theorems are about any number. One removal of two accounts leaves one whose mail must not
suffer. Three acts of users are two requests and one more that rewrites a row or moves somebody at once before
a review ends. One event suffices where events share no state (their rows, goroutines
and letters are per event). The clock passes an event's first date and deadline and reaches its second
(in mail_live both deadlines and the first date).
One crash is followed by a restart and the whole restore; the second crash only matters to mail_twice.
One failure can strike at any statement or request, and every path of error handling is entered by one.
Two pairs of tokens are a pair and its successor, or the pairs of two accounts; after the last one an
exchange fails as it does when the server is unreachable. Two starts of the migrations are the interrupted
one and the one that meets its remains. Two origins of one caller are an address that is tried and another
that shares its caller, which is how a count by address and the limiter's count come to differ; the limit of 3
is more than the two requests in flight, so that the bound `Limit - 1 + requests + failed statements` is reached and not exceeded. Attempts have ages, so the
clock of Access needs no bound and its behaviours do not end. A week of event dates meets every week-end; the
clock of Deadlines stops at both midnights (0 and 17 UTC) and an hour before and after each. A second 023
is the repeated one; a third finds nothing left to mark that the second did not decide. Users, requests, codes' addresses and load slots are used
symmetrically by the modules and reduced by SYMMETRY in runs without liveness. Deadlock is not checked
where the bounds or the code let a system come to its end; a phone whose push initialisation threw is such an
end of Inbox.

**Fairness.** Attendance: weak fairness of the next step of a scan that the server has begun; a handler's
goroutine runs on, and PostgreSQL ends a wait when the other transaction ends. MailSchedule: the clock,
each goroutine's own next step, its SMTP goroutine. Inbox: a request's next step (every request has a
timeout of 30 s) and the timer, once it was created; not the steps of `startPolling` before its first load,
which wait for the platform and for the user's answer about a permission. Session: the next step of a call under way, for the
same reason. None for what users, administrators or failures do. Positions, Codes, Feed, Access,
Deadlines and Migrations state safety only and assume no fairness.

## 4. What disagrees with the repository's own words

- **mail_twice**: `RestoreSchedules` sends a late letter and does not set `email_sent_at`
  (handlers.go:765), although 022_email_sent_at.sql says the column is there so that restarts do not
  duplicate letters.
Met while modelling and not run as violations; the models have them all so:

- The comment at handlers.go:438 says that the letter goes only after registration closed ("Письмо отправляется
  ТОЛЬКО после закрытия регистрации"). The goroutine sleeps until the deadline of the date its request listed
  (handlers.go:439), and an event that is postponed later is mailed then, while registration for the new date is
  open. ListedEarlyOnlyIfPostponed states that this is the only way.
- The comment at handlers.go:181 promises at most 5 failed attempts in 15 minutes ("max 5 неудачных попыток за 15
  минут"). The limiter counts before the attempt is recorded (handlers.go:184-190), so attempts made at once pass
  together. GuessesBounded states what holds of one address as it was typed, with the two terms this costs:
  requests in flight and failed statements. Beyond it are attempts too long for the columns, whose INSERT always
  fails; other spellings of an address, which `Login` lower-cases and trims (service.go:58) and the limiter does
  not; and callers, since X-Real-IP or a remote address with its port names no machine, so that nothing bounds
  the attempts per caller.
- `GET /events` is registered as public (handlers.go:46), so `listEvents` has no user and answers no status;
  the client's comment expects the status to come at most late (events_provider.dart:54). After a token
  renewal or a filter the event looks free again. ShownIsMine states the other direction: a false
  "registered" comes from a 409 without a row (a closed registration or any failed INSERT), or from an answer
  that a change of the account overtook.
- events_provider.dart:38-39 says the list is reset so that statuses of the previous user do not stay on the
  screen. A refresh of the previous account that ends after the next login puts its token back
  (api_client.dart:114-121), and an answer awaited meanwhile marks an event in the list of the one account for a
  row of the other. ShownIsMine admits exactly such marks (`stray`).
- notifications_provider.dart:109-110 and 141-142 say that a notification FCM has displayed is not shown again.
  The poll a push message starts shows nothing, but a poll of the timer that finds the row before the message
  comes shows it locally, and the system displays the message as well. ShownLocallyOnce is about the local ones.
- An exception of the platform in the push initialisation leaves `startPolling` (notifications_provider.dart:102)
  before the first load and the timer; such a phone hears of notifications by push messages only, or, if it was
  the first part that threw, by a reload only. ListSettles is therefore conditional.
- A message about a headquarters post may name a post that was asked for after the review
  (the row is read again at service_patch.go:42); one about a post in a unit may not, as ToldOnlyCommitted states.
- `position_code` decides whether a request waits for a review (service_patch.go:196) and `position_id` is what
  is stored (service_patch.go:216); nothing compares them. A leading post can be taken at once, and is then not
  in the history, which knows what reviews granted, neither sign-ups nor moves at once.
- The DELETE of an address-change code drops its error (repo.go:822); such a code works again until it
  expires. SpentIsGone counts as spent the codes whose row was deleted.
- 002_seed_org.sql has no unique key to conflict with, so a run killed before it is recorded seeds twice;
  run-migrations.sh:3 says every file is applied exactly once. MovedOnce states what is done once.
- 023_backfill_email_sent.sql says it marks the events "whose deadline has passed". BackfillReach shows that
  it reaches events whose registration is open for up to 41 hours more, and ForgottenOnlyByBackfill what comes
  of it: such an event gets no letter if the process is down at its deadline. EarlyLetterIsFinal shows the
  other edge: an event whose registration closed less than seven hours before the file was applied may be
  mailed twice. A process that is up at the deadline sends the letter whatever the mark says. The proofs say
  why: the first needs a margin of at most N + 2 days, the second one of at least N + 2, for N working days up
  to five. With N = 3 the five days of 023 are the only margin that has both.
- `email_verified` is TRUE from the INSERT of the account (repo.go:26-28), while 009_email_verification.sql
  has codes "to confirm an address at registration". Nothing reads the column.
- A block ends no session (service.go:71): BlockedStaysOut states what it does. The profile of a blocked
  account says "active" once a headquarters request of the user was decided (service_patch.go:27-32).
- The history row of an approved change is selected after the UPDATE (repo.go:967) and repeats the new place
  in both columns.
- A request with the access token of a finished logout is served until it expires, since `AuthRequired` does not
  ask `revoked_tokens`.
- RefusedOnlyAt shows that a run killed after the DROP in 015_fix_1nf_jsonb_contacts.sql can never be repeated,
  and SchemaComplete that a lost query may cost the trigger of 004 and the two leader indexes of 021.

## 5. Theorems

Each theorem is of the form `Spec => []Property` or `Spec => Property`, for every value of the constants that
the assumptions named in the modules allow: bounds are naturals, the dates have deadlines, managers and pinned
users are users, names such as `NoScanner` are none of what they stand beside, the sets that are counted are
finite. Every invariant below was checked on its run's instance before it was proved, and is inductive:
the initial states have it, and every step keeps it. A module's proof has one lemma per action or per part of
the invariant and then one theorem per property. What has to be added to the property, and why:

**AttendanceProofs** (TypeCorrect, MarkedOnce, StatusFollowsJournal, AnswersAreTrue, MarkIsFinal,
ImplementsLog).

- `InsertOwnsRow`: a transaction between INSERT and commit has an unmarked registration of a living
  account, and no other transaction is at that point for the same key. Without it, the commit step could
  mark what another scan has marked, and none of the three properties would be preserved;
- `RowsHaveAccounts`: a removal cascades to rows of the user only, so a row's account exists;
- `AnsweredWhenDone`: a scan has no answer before its end, so nothing has to be true of it.

`JournalImplemented` is `Spec => Log!Spec`: each step maps to `Register`, `Mark`, `Erase` or a stutter
(`NextLogs`).

**MailScheduleProofs** (TypeCorrect, RestoredAreCovered, SomeLetterIsComplete,
ListedEarlyOnlyIfPostponed, ImplementsOutbox).

- `Restoring` is RestoredAreCovered while the restore is still going on: a registration it has not passed over
  has a goroutine or a letter, or a row the restore has yet to come to. The property is about the end of the
  restore only and is not inductive;
- `EventsExist`, because an INSERT uses the copy of a lookup made earlier; `StartsOnce`, because a worker whose
  letter is on its way would lose it if it read a second list; `RestoreIsTrue`, because the rows of the restore
  were read before the requests that run beside it; `ReadInTime`, what a goroutine that woke knows of the clock;
- `Pending`: until the first crash everybody who has a place is in one list that was mailed or is on its way, or
  the list has yet to be read. A removal only makes this easier, which is why the list need not be equal to the
  places but contain them.

SomeLetterIsComplete is proved under `crashes = 0`. mail_live, which checks it, has no crash; with one it is
false, since a process that is down has neither goroutines nor letters, and the letter with the whole list may
have died with it. RestoredAreCovered is what holds then.

`OutboxImplemented` is `Spec => Outbox!Spec`: each step maps to `Join`, `Leave`, `Owe`, `Read`, `ReadFails`,
`Lose`, `Die` or a stutter (`OutboxStep`). It needs `StartsOnce` twice: a goroutine that starts takes the place of
none that still owes a list, and a list that is read overwrites no letter. The INSERT of a handler that was
told of an error is the `Join` that waives its event (`NewPlace`). `WholeListIsCarried` is then proved of the
outbox alone, four variables and seven actions, and follows for MailSchedule: an event that owes nothing and
was not waived has a list, delivered or on its way, with everybody who has a place.
Beyond SomeLetterIsComplete it covers the time while letters are on their way; like it, it says nothing once the process has died.

**PositionsProofs** (TypeCorrect, OneHolder, HistoryExplainsPlaces, ToldOnlyCommitted, ImplementsRegister).
OneHolder counts holders; `OneLeader` and `OneInSeat` say the same of two holders, which is what a step keeps.
`GrantedAsAsked` says that a request the history knows is not pending any more, so that no new request rewrites
its row and the row goes on asking for what was granted; `CommittedBeforeTold` that the history has the row of an
approval whose user is to be told, and that the post to be named is the one in the request's row. Together they
give the notification, which is made from a row read later, a committed grant to be about. `Askers` keeps
requests with users who have signed up, `ReviewsMade` reviews with requests that were made. `RegisterImplemented`
maps every step to `Join`, `Move`, `Ask`, `Grant`, `AskSeat`, `TakeSeat`, `LoseSeats` or a stutter; the guards of
the two indexes imply those of the register.

The second part is about Inbox (InboxTypeCorrect, CountMatchesList, ShownLocallyOnce,
ListedIsKnown).
`GoneByIsKnown` says what a poll that waits inside its loop has noted already: the rows above the one it shows,
and all of them when it has left the loop. Without it, a poll that assigns the list it received long ago could
show a row nobody knows. `ShownIsNoted` turns "at most once" into "at most once, and never before it is noted",
which is what keeps a second poll out.

**SessionProofs** (TypeCorrect, OneRefresh, StorageFollowsMemory, RevokedBuysNothing).

- `OneRefresh` is inductive only with `Roles`: which kinds of call run in which slot, and that a cold start
  runs beside no poll, so that its direct exchange does not meet the one behind the flag;
- `Following`: the storage has the pair of the memory or a call is saving it; `Emptying`: a logout's writes end
  before the writes of whoever logs in after it; `Queue`: each call waits at most once for the storage;
- `InOrder`, `HeldIsIssued`, `AllPrepared`: pairs are numbered as they are issued, so a new one is known to
  nobody; `RevokedUntilDead`: the cleanup removes only what has expired, so that a spent refresh token is
  refused for one reason or the other for ever.

**CodesProofs** (TypeCorrect, AddressProven, SpentIsGone, PasswordByMail). The argument follows a code from the
letter to its use: `TablesAreSent` (each row of the three tables went out in a letter of its kind), `AllRead`
(a request that passed its check has read such a letter), `SpentWasSent`. `Numbered` makes a fresh code one that is in no
letter, `Fits` and `KeyedByAccounts` say what requests and rows are about. SpentIsGone needs all of them: a
spent code is in no table because the row was removed and a new row has a new code. `DeletedIsGone` says it of
the change table already between the DELETE and the UPDATE of the address, for the requests whose DELETE had
its effect.

**FeedProofs** (TypeCorrect, FreshFollowsFilter, ShownIsMine, StatusIsKept). `NewestFollows`: the load started
last asks for the filter that is set, so its answer may be called fresh; `NoStatusSent`: an answer carries no
status, so that a merge can only keep the phone's own; `Promised`, `Awaited` and `Mine`: a registration the
screen waits for and that has not gone astray was sent for the account of every token about, the one in memory
and the one the provider heard of last. A renewal that brings another account's token makes it stray
(`OvertakenIs`), a logout does not: its token is nobody's.
`DueIsHeard` bounds the delayed loads by the requests that ended.

**AccessProofs** (TypeCorrect, GuessesBounded, BlockedStaysOut, LostRoleStaysLost). The last two follow from one
lemma about steps, `NextHolds`: a pair that was not held before is the login of an active account with the role
of its row, or a registration. GuessesBounded counts per address as it was
typed, whatever the callers, and the attempts that fit the table. `Counted` says that every row of
the table was answered 401, that each answer without a row cost one failed statement, and that answers and
admitted requests together are at most `Limit - 1 + requests + failures`: a request is counted when it is
admitted, since `IsRateLimited` looks at the rows of then.

**DeploymentProofs**, Deadlines (TypeCorrect, VerdictIsTrue, ForgottenOnlyByBackfill, EarlyLetterIsFinal,
BackfillReach). `LoopInv` says of a loop under way that the working days it has gone back over are those
between its result and the event. `ClosingDayIs` (the closing day is the latest day with N working days
between it and the event) gives the calendar's side; that such a day exists (`DaysBackExist`) is shown by a least
counterexample, not by induction on an operator. The letter needs `SleepsUntilClosing` (the goroutine sleeps until the closing
day), `NothingLeftOpen` (no goroutine means that registration has closed and the letter went or the event was
marked), `OverlookedWhileDown`, `MarkedOrMailed`, `CallsWhileUp`. EarlyLetterIsFinal assumes `N <= 5` and
`N + 2 <= Margin`, BackfillReach `N <= 5` and `Margin <= N + 2`: with up to five working days at most one
week-end lies in between (`ClosingDayNear`). The code's N is 3 and its margin 5.

**DeploymentProofs**, Migrations (MigrationTypeCorrect, RecordedInOrder), for any list of files that
have at least one statement. The recorded files are
`1..n` for some `n`, the script's file is at most `n + 1`, and the API has been started only with `n` the whole
list. The middle part is needed: a failed query makes the script apply a recorded file again, and only
because its place is inside or just after the prefix does recording keep the prefix without a gap.

SchemaComplete, RefusedOnlyAt and MovedOnce are proved with `Files = SortedFiles`, the 22 files, for any number
of starts, kills and failures. What the proof needs of the files is stated per file (`Init001Fits` to
`BackfillEmailSent023Fits`): at its place in the order, each of its statements is

- `Sound`: it takes away nothing that is made for good, and if IF NOT EXISTS or the question of a DO block leaves
  it without effect, then what it would have made is there, or its column has been replaced already. It `Keeps`
  each column that is moved: it copies the data only if it asks for the old column and drops it, it makes that
  column only together with its table and IF NOT EXISTS, and it keeps the table;
- `Placed`: only 019 drops the column that 003 needs, only 003 and 015 need a column that some file drops, only
  004 and 021 create without IF NOT EXISTS, and only there are those objects dropped;
- `Supplied`: everything else it needs, and the table of the column it asks for, was made for good by an earlier
  statement of the file or by an earlier file.

The inductive invariant `SchemaInv` follows the schema along the runner. `MadeSoFar` is its core: recorded files,
and the statements behind the script, have made what lasts. It is not inductive alone, because a DO block that
finds its column gone makes nothing; `Coupled` says that a table which has lost such a column has what replaced
it. `Dropped` and `RebuiltThere` are about the trigger of 004 and the indexes of 021, the only objects that a file
drops and creates by separate statements: gone when the script comes to the CREATE, so that it is not refused, and,
until a query is lost, there when the file is through. `NothingLost` says that until then the lock table exists
and no recorded file is applied again, `OrganizerGone` that the column 003 needs is there until 17 files are
recorded, so that 003 can be refused only when it is applied out of its turn. `AllRecorded` ends the argument: a
run that ends well has recorded 22 files, hence made all that lasts, and `EverythingLasts` shows from the list
that this is Everything but for what `RebuiltThere` is about.

MovedOnce rests on `Keeps` alone. `Once` is what follows: after the copy the column is gone, and the table is
there, so nothing makes the column again. That holds in whatever order statements run; the proof does not need
RecordedInOrder.

## 6. What is only model-checked

- Liveness (ScanAnswered, EventuallyMailed, ListSettles, RefreshingEnds) is beyond the prover.
- `EverythingIsLeft`, that the closed form of Everything is what running the statements in order leaves:
  a recurrence over the statements of the 22 files, each instance of which TLC evaluates.
- SomeLetterIsComplete after a crash is false; see section 5.

Abstractions to keep in mind: a single API process; PostgreSQL as described under Attendance; a failed
statement has no effect, a commit may have one unheard; no message is duplicated by the network, but any
may be lost or late; passwords, codes, addresses, tokens are names. And limits of what the properties see:

- the removal of an account is one step that holds no lock of its own between statements, so that ScanAnswered
  shows that a waiting INSERT is woken, and says nothing of a removal and a scan that wait for each other;
- the phone's secure storage delays its calls in Session, and refuses none;
- with the two starts of the migrations run, the exception of SchemaComplete for objects that a restart rebuilds is
  not reached by TLC; the theorem covers any number of starts. What a lost query costs is excepted there,
  and a column that a repeated file brings back is not among what it claims;
- the bare INSERTs of 015 may repeat contacts and are not among the data MovedOnce is about; refusals that depend
  on rows, as of the unique indexes of 021, are not among those of RefusedOnlyAt;
- FreshFollowsFilter says nothing of a list that an overtaken, older load brought last: then `fresh` is FALSE.

## 7. Plan

Order in which the modules are and will be written, the most important behaviour first:

1. Registration, Attendance, AttendanceLog and proofs; MailSchedule, Positions, Inbox, Session, Codes,
   Migrations and proofs, Feed; PostRegister, LoginLimiter, Access, Deadlines (all done).
2. MailOutbox (done). Still worth stating as an abstract specification: a single-session store for Session.
3. Compositions still open: Session with Inbox for polls that outlive a logout; the profile that is assigned
   after a logout (auth_provider.dart:104) is in Feed ("late") for what it means to the list, and not yet in
   Session.
4. Proofs still open: the abstract specification of point 2 once it is stated. Everything else a run
   checks is proved, up to what section 6 lists.
