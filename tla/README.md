# Kuutti in TLA+

Kuutti is a dating app whose every account is a real adult, verified through a Finnish
bank login. This directory holds TLA+ models of its backend (`apps/api`), of the parts of
the app and the moderation panel that keep state between a tap and an answer, and of the
commands people run beside them; TLC configurations that check the models on small
instances; and TLAPS proofs of results that hold for instances of every size. The modules
are written from the source. Where a document or a comment promises something the code
does not do, a run shows it or section 3 says so.

## 1. The system

One API process (two while a deploy overlaps) serves a mobile app and a moderation panel
over PostgreSQL and an object store. Nothing is shared between requests but rows and
objects. Three facts shape every model here:

* **A handler is not atomic.** Routes run their statements one after another on a
  connection pool, each a READ COMMITTED transaction of its own
  (`packages/db/src/pool.ts`), unless the code calls `transaction`. Between two
  statements anything else may happen. What a handler has read is a local variable that
  may be stale.
* **A statement is not always atomic either.** `INSERT ... SELECT ... WHERE EXISTS`
  reads a snapshot, then writes; if the row it references is locked by an uncommitted
  transaction the write waits, and the check is not repeated.
* **An answer may be late, lost, or overtaken.** A screen that asks goes on: the person
  taps again, leaves, signs out; what the answer means then is decided by the screen.

### Inventory

| Component (source) | State | Operations | Talks to | Hard part | What makes it correct |
|---|---|---|---|---|---|
| Requests (`app.ts`, `lib/errors.ts`, every `routes.ts`) | a request on its way | limiter, body cap, guards, validation, handler, envelope | every slice | guards are on path patterns, apart from the routes; the session may end behind its guard | no body is read before its guard; every answer is in the contract |
| Rate limiter (`lib/rate-limit.ts`) | a map in memory | count, sweep | every route | window boundaries, the word of a proxy | two windows' worth a minute at most; the wait it tells is enough |
| Bank login and registration (`identity/login.ts`, `registration.ts`, `codes.ts`) | `identity`, `account`, `auth_request` rows | `/auth/start`, `/auth/callback`, `/auth/exchange` | broker (HTTPS), sessions, erasure (rows) | two devices of one person; an erasure between two reads; a late bank answer; a code spent twice | one live account per identity; the rule refuses sanctions and cooldowns; one session per attempt, for the right person |
| Bank adapter (`identity/oidc-broker.ts`, `discovery.ts`) | the library's held keys | start, complete | the bank, login | keys that rotate; two dialects; crossed callbacks | a login is the person's who named themselves in it, and our stale copy fails nobody |
| Identity codes (`identity/hetu.ts`, `db/lib/hetu-format.ts`) | none | parse, age, draw | login, seeds | the month is kept, the day decides | nobody is older than they are |
| Erasure and export (`identity/erasure.ts`) | all per-account rows, `identity.deletion_count`, `reregister_after`; objects | `POST /account/delete`, export | every slice, in one transaction; then the object store | requests in flight that outlive it; two deletions at once; a crash before the objects | nothing is left of the account; every deletion is counted once |
| Device sessions (`identity/sessions.ts`, `lib/auth-middleware.ts`) | `session` rows | issue, refresh, logout, logout everywhere, the guard, the sweep | login, erasure, mobile client | concurrent refreshes, lost answers, reuse detection in two statements | the tokens of a session form one chain; reuse ends the session; nothing else does |
| Staff sessions (`identity/admin-session.ts`, `db/cli/moderator.ts`) | `admin_session`, `moderator_roles` | staff callback, exchange, logout, guard, sweep; grant, revoke | login | the role changes during a session; revoke is two statements | one session per staff login; none survives a revocation but one in flight |
| Onboarding and consents (`identity/onboarding.ts`) | `consent`, `account.state`, `account.gender` | declare, consent, withdraw, read (activates) | pond gate, preferences, research | two reads that activate; withdrawals racing opt-ins | one active consent per kind; activation once, never undone by a read |
| Research (`research/`) | `research_subject`, `events` partitions | enrol, remove, track, prune | consents, erasure | an event tracked while consent ends | no event after the consent; retention |
| Pond gate (`jobs/pond-gate.ts`, `pond/gate.ts`) | `gate` rows | nightly count, first ask, move, empty | preferences, gender, pond, erasure | a count that reads while people move and declare | nobody is let in on a declaration they took back, nor on an admission that is not written |
| Hard preferences (`matching/preferences.ts`) | `preferences` rows | save, read | pond gate | save racing a count | written together, under the account's lock |
| Waitlist counter (`jobs/waitlist-snapshot.ts`) | `waitlist_snapshot` | nightly count, first count | profile, preferences | two processes at once | one count a day, figures move in steps |
| Photos (`media/photos.ts`, `repo.ts`, `store.ts`) | `photo` rows, objects by content | upload, delete, reorder, fetch | moderation, erasure, object store | rows and objects cannot change together; content is shared between accounts | a row's objects exist; an object without a row goes; at most `max_photos` |
| Moderation (`media/moderation.ts`, `admin-routes.ts`, `safety/audit.ts`) | `photo.state`, `photo_review`, `audit_log` | check, sweep, staff decision | photos | machine and moderator race | a person's decision is never overwritten by the machine |
| Exposure budget (`media/budget.ts`, `media/repo.ts`) | `photo_access`, `card_shown` | count and record under an advisory lock | photos, cards | a burst at the limit or at midnight | no more than the day's budget |
| Profile and card (`profile/`, `useProfile.ts`) | `profile` rows; the draft on the phone | upsert, completeness, form | photos, preferences | save racing an erasure, an answer racing keystrokes | none written for a tombstone; keystrokes are kept |
| Process life (`index.ts`, `lib/config.ts`, `db/migrate.ts`, `jobs/nightly.ts`) | migrations applied, a timer | boot, run the night's jobs, re-arm | all sweeps and counts | two containers at once; a job that fails; 23- and 25-hour days | each migration once; every day is counted |
| Mobile session client (`mobile/src/lib/session.ts`, `api.ts`) | tokens in memory and in secure storage, one refresh in flight | refresh, sign in, sign out | the API | answers that arrive after a sign-out; lost answers; app killed | a retired token is presented only after a lost answer; signed out stays signed out |
| Album, questions, home cards (`mobile/src/features`) | lists, answers, status in components | taps, loads, answers | the API | answers out of order, another account on the same phone | what is shown is what is stored |
| Settings (`mobile/src/lib/locale.tsx`, `ThemeProvider.tsx`) | language in the store, theme and contrast in memory | choose, read, write | the phone | a read that comes after the choice | what was chosen is shown, and only what is released |
| Panel and queue (`apps/admin`) | the session in the tab's storage, the list and its rows | bank login, decide | the API | effects that run twice, other moderators | a code is sent once; a row's verdict is this moderator's |
| Demo (`scripts/demo`, `demo-population.ts`, `db/seed`) | personas, synthetic people, their objects | reset, populate | API, object store | runs beside a live server | people go whole, with their objects; nobody who logged in is taken |
| Translation tooling (`i18n/scripts`) | texts, approvals, sheets, batches | translate, review, import | people, a model | answers a day late | what stands as reviewed was approved; nothing newer is overwritten |
| Development environment (`scripts/dev-env.ts`) | ports, processes | up, down, Ctrl+C | the machine | two runs, foreign processes | who holds a port is killed only as ours, and above it only what is named like ours |

The image pipeline, URL signing and the S3 adapter are pure functions or input and output,
and are not modelled. `chat`, `notifications` and `rewards` are empty placeholders in this
commit.

## 2. What is modelled

| Module | Models | Checked by |
|---|---|---|
| `Registration` | `decideRegistration` and `recordDeletion` as pure operators | `MCLogin` |
| `Login` | start, callback, exchange, account deletion, both nightly sweeps | `MCLogin` |
| `LoginProofs` | the inductive invariant of `Login` and its theorems | TLAPS |
| `TokenFamily` | what rotating refresh tokens promise (abstract) | `MCSessions` |
| `Sessions` | issue, refresh, guarded logouts and deletion, sweep; implements `TokenFamily` | `MCSessions` |
| `SessionsProofs` | invariant, refinement and theorems | TLAPS |
| `Admission` | the pond gate's rules as pure operators | `MCPondGate` |
| `PondGate` | nightly count, first ask, `gateOf`, moves, declarations, preferences, erasure | `MCPondGate` |
| `PondGateProofs` | the inductive invariant of `PondGate` and its theorems | TLAPS |
| `Photos`, `PhotosProofs` | uploads, deletions, reorders and erasures over rows and objects; theorems | `Photos`, TLAPS |
| `Moderation` | the check, its sweep and a moderator's decision | `Moderation`, TLAPS |
| `Service`, `ServiceProofs`, `ToolsProofs` | `Consents` and the ten parts below marked with a star, side by side; theorems | `MCService`, TLAPS |
| `Processes`, `ProcessesProofs` | the three programs marked with a plus, side by side; theorems about them and about `Moderation` | `MCService`, TLAPS |
| `Screens`, `ScreensProofs` | the seven screens marked with an s, side by side; theorems | `MCService`, TLAPS |
| `Consents` * | research consent, mapping and events of one account | `MCService`, TLAPS |
| `Onboarding` * | the read that activates, beside everything that writes what it reads | `MCService`, TLAPS |
| `Staff` * | staff callback, exchange, guard, sign-out, sweep, grant and revoke | `MCService`, TLAPS |
| `Budget` * | a viewer's fetches and cards of a day | `MCService`, TLAPS |
| `Waitlist` * | the day's count of one pond and what is said of it | `MCService`, TLAPS |
| `Boot` +, `Nightly` + | a process from its configuration to its port; its nights | `MCService`, TLAPS |
| `Bank` *, `Ages` | the OpenID adapter; identity codes and adulthood | `MCService`, TLAPS for `Bank` |
| `Requests`, `Limiter` * | a request's way through `app.ts` and every route; the rate limiter | `MCService`, TLAPS for `Limiter` |
| `Device` s, `Settings` s | the phone's session; its language, theme and contrast | `MCService`, TLAPS |
| `Album` s, `Profile` s, `Questions` s, `Home` * | the app's screens with the API behind them | `MCService`, TLAPS |
| `Panel` s, `Desk` s | the admin panel's session and its review queue | `MCService`, TLAPS |
| `Personas` *, `Population` * | `demo:reset`; the synthetic population | `MCService`, TLAPS |
| `DevEnv` +, `Translations` * | the local environment; the life of a translated text | `MCService`, TLAPS |

`MCLogin`, `MCSessions` and `MCPondGate` extend one module each and give symmetries and starts;
`Photos` has its symmetry with it, and `Moderation` needs none. `Service` puts eleven parts side by side that share
no row and no lock, `Processes` three programs, `Screens` seven screens, and `MCService` these and
`Ages` and `Requests`: a behaviour belongs to one part, chosen at its start. `Consents` keeps its own
variables; the other parts are instances whose variables are the slots of their module (`v1`, `v2`,
... of `Service`, `w1`, ... of `Processes`, `x1`, ... of `Screens`) in the order of their `vars`, and
what a part does not use stays empty. The state graph is the sum of the parts' graphs and not their
product, so each part has the bounds it needs. A property of the run is the conjunction of what some
parts promise; each promise is stated in its part's module. The theorems about the
parts of `Service`, `Processes` and `Screens` are for any of their constants (`ServiceAssumption`,
`ProcessesAssumption`, `ScreensAssumption`); `MCService` gives the constants their values.

### Login

State. `identity`, `account`, `attempt` (`auth_request`) and `session` are the rows, as
functions from a finite set of identifiers; a row that does not exist yet is "absent" or
"unused", one that was deleted is "gone". `lock` says which handler holds an account `FOR
UPDATE`. `mailed` is history: for each one-time code, the attempt and the person of the
callback that sent it. `call` holds, for each handler in flight, its program counter, the
clock it read at its start, and what it has read.

Actions. One per statement that matters, named for the code:

| Route | Steps |
|---|---|
| `/auth/start` | `StartLogin` |
| `/auth/callback` | `BeginCallback`, `FindAttempt`; `BankDenies` / `BankFails` / `BankIdentifies`; `resolveAccount` = `ReadIdentity`, `ReadAccount` (with the decision), then `CountRefused`, `InsertIdentity`, `InsertAccount` or `AccountTaken`; `attachCode` = `CheckAttach`, `AttachCode`, or `AttachRefused`, which resolves once more |
| `/auth/exchange` | `BeginExchange`, `FindCode`, `ConsumeCode`; `insertSession` = `CheckIssue`, `InsertSession` |
| `POST /account/delete` | `BeginErase` (the guard), `LockAccount`, `CommitErase` |
| nightly | `SweepSessions`, `SweepAttempts` |
| the rest | `Crash` (a handler dies, its transaction rolls back), `Sanction` (staff; external), `Tick` |

`attachCode` and `insertSession` take two steps because their `WHERE EXISTS` is evaluated
on the statement's snapshot, and the write then waits for the `KEY SHARE` lock its foreign
key needs. The erasure is one step after the lock, since its transaction commits at once
and everything it deletes is invisible to the others until then.

Left out: `updateBrokerReference` (columns nobody decides by) and lock waits on `auth_request`
rows. The staff branch of the callback is `Staff`'s, the broker's protocol `Bank`'s.

### Sessions

A pair of tokens is one `Token`, presented in either of its roles; `drawn`, `handed` and
`spent` are history: for which session a pair was drawn, whether a device received it,
whether a rotation retired it. `BeginRefresh`, `Rotate` / `RotateRefused`, `FindRetired`,
`RevokeReused` and `AnswerRefused` are `refreshSession`; `Lookup` and `Admit` are the guard
with its late reading of the clock; `EndSession`, `EndAllSessions` and `EraseAccount` are
the routes behind it. A lost answer is `Crash` at the step `answer`. Anyone who holds a
pair may present it at any time, however long ago it was retired.

The account's erasure is one step here (its transaction is `Login`'s subject), and the
insert's wait behind it is nondeterminism: `InsertSession` may come after the account is
gone, as in `Login`.

`TokenFamily` is the abstract specification: a family opens with a token, its live token is
spent for the next one, it ends and stays ended. The refinement mapping sends a session row
to its family, `revoked`, swept and erased rows to "ended". `RefreshIsAChain ==
Family!Spec` is checked by TLC and proved.

### Admission and PondGate

`Admission` is the pure half of `pond/gate.ts` with `matching/pool.ts`. A population is a
function from people to their group, their place in the order of registration and whether
they are let in. The loop of `admit`, which takes one head of a queue after another, is a
recursive function over rounds (`Inside`); a round in which nobody may enter changes
nothing, so as many rounds as people are enough.

`PondGate` is the counting over the rows. State: `account` (the row and its hard
preferences), `gate`, the advisory lock `gateLock`, and for each handler its program
counter, the accounts it has locked (`locked`), the ponds left to count (`todo`), the rows
it has computed (`computed`) and those its transaction has written (`draft`).

| Code | Steps |
|---|---|
| `countGates` | `BeginNight` (advisory lock), `LockAccounts`, `Repair` (the two repairing statements and the list of ponds), then for each pond `ReadPond` and `InsertRows`, `Commit` |
| `gateOf` | `Ask`, `AskFacts`, `AskRow`, and `Reread` after a count |
| `countFirst` | `TryLock`, `LockAsker`, `AskAgain`, then `ReadPond`, `InsertRows`, `Commit` |
| `setPondOfAccount` | `BeginMove` (the statement's snapshot), `Move` (it has the account's row) |
| `savePreferences`, `declareGender`, `eraseAccount` | one step each |
| what else makes a person complete or not | `Profile` |

How PostgreSQL is modelled:

* **Snapshots.** A statement of a count reads committed rows and its own transaction's
  (`SeenGate`); others see its rows at `Commit`.
* **Locks.** A count shares the accounts in `locked` until its commit; a writer needs the
  row to itself (`Free`). The writers of a declaration take the account's lock in their
  first statement, read after it and commit, so that nobody can see them between two
  statements: they are one step, enabled when the row is free. Two writers never wait for
  each other in the model for the same reason.
* **`setPondOfAccount` is two steps**, since it is one statement: its snapshot is taken
  before it waits for the account. `sees` remembers whether the snapshot held a gate row to
  empty. A row that was there is looked at again as it is after the wait; one that a count
  inserts meanwhile is missed.
* **`Repair`** joins three statements: the accounts that can have a row are locked, so what
  they read cannot change between them. An account that chooses its first pond meanwhile
  has no row, and is not among those the count may write.
* `InsertRows` asks for the account once more, as the statement's join does.

Abstractions. Dates are left out (`admitted`, `opened`, `counted` say whether the column is
set; a place of 0 is null). The consents, photos and fields that make a person complete are
one fact, `finished`, which may change at any time without a lock. `group` and `stay` of a
gate row, `stays` and `told` are history. Left out: a transaction that is rolled back (it
leaves no row and lets go of its locks), `shadow_banned` and the identity's standing, which
nothing in the repository sets, and a change of the configured step, share or `gate_k`.

### Photos

State: `photo` (rows in the order of `created_at`), `objects` (pairs of content and variant
in the store), `live`, a call of each handler, `late` (puts still on their way when their
upload failed). `BeginUpload`, one put per variant, `CheckInsert`, `InsertRow` and the
failure path are `uploadPhoto`; `DeleteRow`, `RankRows`, `WritePositions` and the orphan check
with its deletion are `deletePhoto`; `BeginReorder` is `reorderPhotos`, which writes by
`WritePositions` too; the erasure deletes rows, then looks for orphans. The check for other
rows and the deletion of objects are two steps, as they are two calls.

History excuses what the code accepts, and nothing else: `spoilt` (contents of which a store
call failed or whose process died), `raced` (contents two requests had to do with at once),
`mingled` (accounts two writers of positions worked on at once), `together` (accounts with
two inserts on one snapshot).

### Moderation

State: `photo` (its state), `review`, `audit`, `old` (past the ten minutes), `card` (the photos
with a preview to inspect), `call`. `CheckStep` walks inspection and `Record` (the transaction
of review and move) for an upload's own check and for a sweep's batch; `InspectFails`,
`RecordFails` (the foreign key of a photo that is gone ends the sweep) and `Crash` are its
failures; `BeginDecision` and `Decide` are a moderator's, with the audit entry in the same
transaction. A photo without a card occupies its place in every batch, as in the code.

### Accounts: Onboarding, Consents, Staff, Bank, Ages

* **`Onboarding`**: `BeginStatus`, `ReadPart` (one per table), `FinishStatus`, `ReadStored` are
  `onboardingStatus`; `Declare`, `GiveConsent`, `NewWording` and `Erase` go on meanwhile.
* **`Consents`**: `BeginConsent` (route and clock), `RecordConsent` or `NoAccount` (the locked
  transaction with enrolment), `BeginEvent` and `WriteEvent` (`snapshotRows`'s share lock, then
  the insert), `Withdraw`, `Erase`, `NewWording`, `Tick`. A writer of consents holds the
  account's row from its first statement, so its transaction is one step.
* **`Staff`**: the callback's staff branch (`AllowStaff`, `BankDenies`, `attachAdminCode`), the
  exchange (`FindCode`, `consumeCode`, `RereadRole`, `insertAdminSession`), `requireAdmin` and
  `Act`, `endAdminSession`, `sweepAdminSessions`, the operator's `grant`, `revoke` and
  `RevokeSessions`, which may die in between. `escaped` holds the sessions a revocation missed
  in one of those two ways.
* **`Bank`**: `startLogin`, `Identify` (the bank answers, rightly or with one of `Mistakes`),
  `completeLogin`; `Publish` and `SignWith` are the bank's keys, which the library holds for five
  minutes and fetches again when it lacks one and its copy is a minute old. `hasty` says that a
  key was used within a minute of its publication.
* **`Ages`**: `checkCharacter`, `parseHetu`, `ageFromYearMonth`, `deriveIdentity`, `bornFor`,
  `generateHetu` and the personas' births as operators; a behaviour is a person and days.

### Requests and Limiter

`Requests` has a table of routes as each contract declares them and one of what each handler
answers. `Arrive`, `Protect` (limiter and body cap), `CheckGuard`, `Validate`, `Handle`, `End`
are `app.ts` in its order; `LoseSession` and `LoseRole` may come between any two. `Limiter`'s
`rateLimit` is the middleware with its window, its sweep and the address it counts under.
Left out: the 500 of an unhandled error, CORS and security headers.

### Numbers of a day: Budget, Waitlist, Boot, Nightly

* **`Budget`**: `BeginFetch` / `BeginCard` (photo and clock), `CountFetches` / `CountCards` (the
  advisory lock and the statement's snapshot), `WriteFetch` / `WriteCard`; photos are approved
  and deleted, `Midnight` comes. `charged` is history: whom a card was counted for.
* **`Waitlist`**: `BeginCount` (the clock), `ReadPond` (the lock), `WriteFigures`; people move and
  answer, `Configure` changes k. `said` is the last figure that was told, `overtaken` a count that
  waited over midnight for another.
* **`Boot`**: the steps of `index.ts` before it listens: the parsed configuration (all groups of
  keys present, absent or wrong, `MaxFaults` of them wrong), discovery, a preview's database,
  migrations under their lock, the seed, media. `Die` is anywhere. `APP_ENV` "test" behaves as
  development and is left out; partitions, the first count and the audit warning are too.
* **`Nightly`**: `Boot`, `Stop`, `NightComes`, the jobs in their order with `JobFails`, `Arm`; time
  goes by the hour through both clock changes.

### The phone and the panel

Each screen is its component's state, its requests under way, and the API's step that serves
one. An answer may be served and lost; a request may be dropped when its screen is gone.

* **`Device`**: memory, secure store with its writes in flight, one refresh, sign-in by a link,
  three ways to sign out, `Restart`. `excused`: a pair was lost before it was stored, or a
  sign-in or sign-out met a refresh under way.
* **`Settings`**: `ReadStore`, `ShowStored`, choices and their unordered writes, the contrast read
  and its events, an update to another channel's build.
* **`Album`**: the list on the screen, the optimistic order, reload after refusal. `behind`: an
  answer that changed something was lost, the change came from elsewhere, or a list read before a
  change came after it.
* **`Profile`**: the row with its two writers, the draft, `save`, `Saved`, `NotSaved`, `Loaded`.
* **`Questions`**: the home screen's gate and the questions with their steps, in every order of
  answers, for two accounts on one phone.
* **`Home`**: the research switch and the gate's card with two reads under way.
* **`Panel`**: `signIn`, `ComesBack`, the effect (twice in development), exchange, whoami, logout.
* **`Desk`**: lists by their number, of the oldest photos up to a limit beside the count of all
  (`Serve`), decisions by row, the queue of the API meanwhile. Photos are numbered in the order of
  `created_at`; two of the same moment, which the query orders as it likes, are left out.

### Commands

* **`Personas`**: `Begin` to `Finish` are `demo:reset`, statement by statement in its one
  transaction, with the objects deleted inside it; personas log in, upload, leave and are made
  staff meanwhile. `torn`, `behind`, `forced` say how rows and objects came apart.
* **`Population`**: the command line, the refusal of a deployed server, the plan with its
  apportionment (where rounding ties either outcome is allowed), the replacing transaction, the
  recount, and the API's own count crossing it.
* **`DevEnv`**: `Up`, `EnsureDatabase`, `FindFree`, `KillStale`, `MigrateAndStart`, `IsReady`, and
  `Down`, for two runs, with servers that ignore a signal and ports taken by others. `Tree` is what
  `freePort` kills: the holder of a port, which is ours by directory and name, and the parents
  `processTree` climbs to by their names. Who is above a run or a stale copy is any of `Chains`; a
  server whose run is over has nobody above it. `--no-seed` and the creation of role and database
  are left out.
* **`Translations`**: `Approve`, `Reflag`, `Export`, `Import`, `Submit`, `Translator` (a sync run's
  chunk or a batch collected later), edits by hand. English and texts are numbered versions and a
  hash is its pair; which pairs break the rules is a constant relation. A chunk is any part of what
  was asked. Two rows of one key in a sheet are left out.

## 3. Runs

`CHECK_DEADLOCK FALSE` for every run but those of the pond gate: rows, codes, clocks and the
trouble an instance allows are finite, so it comes to rest. The pond gate never does, since a
night can always be counted again: TLC checks it for deadlock. Model values are permuted
(`Symmetry`) in safety runs only.

| Run | Properties | Instance |
|---|---|---|
| `MCLoginRaces` | `TypeOK`, `OneLiveAccount`, `DeletionsCounted`, `CancelledStaysCancelled`, `OneSessionPerAttempt`, `SessionOfTheLogin`, `OnlyStaleReadsSlipThrough` | 2 people, 2 attempts, 2 accounts, 2 codes, 2 sessions, 2 handlers, clock 0..1 with all deadlines 1: logins, erasures, cancellations and sanctions interleave, and two callbacks of one attempt overwrite each other's code while exchanges run |
| `MCLoginSettles` | `CallsSettle`, `TombstonesLoseTheirSessions` (liveness) | 1 person, 2 attempts, 2 accounts, 2 handlers: every handler ends though an erasure may hold the account, and the sweep removes what an exchange wrote behind an erasure |
| `MCLoginCooldown` | `NoAccountInsideCooldown` (violated) | see below |
| `MCSessionsLife` | `TypeOK`, `AnswersWithinLife`, `RefreshIsAChain`, `ReuseNoticed` | 1 session, 3 pairs (two rotations), 2 handlers, clock 0..3 with lives of 2: every order of refreshes, logout, expiry, sweep |
| `MCSessionsDevices` | `EndedForAReason` | 2 devices of one account |
| `MCPondGateRaces` | `LineNotJumped`, `ToldOpenIsOpen`, `SaidAtNight`, `NobodyIsLetOut` | a man and a woman, 2 ponds, 2 handlers, 2 changes: every interleaving of nights, asks, moves, declarations and erasures |
| `MCPondGateLine` | `TypeOK`, `CountingTwiceChangesNothing`, `AskRestsOnWhatIsWritten` | 2 men and a woman in one pond, 1 handler, 1 change, from each of 27 starts (complete, unfinished, seeking both): somebody waits, and rows of every kind are counted again |
| `MCPondGateDecided` | `EverybodyIsDecided` (liveness) | 2 accounts, 2 ponds, 2 handlers, 1 change: the nights decide for everybody in the end |
| `MCPondGateStay` | `AdmissionStaysWithThePond` (violated) | see below |
| `Photos` | `TypeOK`, `NothingKeptWithoutARow`, `RowsKeepTheirObjects`, `AlbumInOrder` | 2 accounts, 1 content of 2 variants, 2 handlers, at most 2 photos of an account and 3 rows: uploads of one picture by two people, deletions, reorders, erasures, lost puts and crashes |
| `Moderation` | `TypeOK`, `RecordsAgree`, `PersonDecides`, `EveryPhotoIsChecked` (liveness) | 2 photos, 2 members of staff, 2 handlers, batches of 2, 2 failures of the inspection |
| `MCService` | `TypesOK`, `MappingFollowsConsent`, `WhoIsLetIn`, `ScreensKeepTheirWord`, `WithinBudgets`, `ProcessesHold`, `RoutesAndFigures`, `NoEventAfterConsent`, `ToldCarefully`, `WorkIsSpared` | twenty-three parts, below |

The parts of `MCService`, with what each shows and its bounds (a star for the
parts of `Service`, a plus for those of `Processes`, an s for those of `Screens`):
`TypesOK` is of the parts of `Service` but `Waitlist`; `WhoIsLetIn` of `Onboarding`, `Staff` and
`Bank`; `WithinBudgets` of `Budget`, `Limiter` and the cap of `Consents`; `ToldCarefully` of
`Waitlist` and `Home`; `WorkIsSpared` of `Translations`, `Personas` and `Population`;
`ProcessesHold` of `Nightly`, `Boot` and `DevEnv` and their types; `RoutesAndFigures` of `Ages`,
`Requests` and their types, the types of `Waitlist` and the plan of `Population`;
`ScreensKeepTheirWord` of the seven screens and their types.

| Part | Promises | Instance |
|---|---|---|
| `Consents` * | the mapping is there as long as the consent; no event after it; a day's cap | 2 handlers, 2 pseudonyms, 2 wordings, days of 2 units up to 2, 2 events |
| `Onboarding` * | `ActiveOnlyOnboarded`, `CompleteIsActive` | 2 status reads at once, 2 wordings |
| `Staff` * | `OneStaffSessionPerLogin`, `RevocationEndsSessions` | 1 person, 1 attempt, 2 codes, 2 sessions, lives of 1, 1 grant after the first |
| `Bank` * | `LoginsAreTheirs`, `NoLoginFailsForUs` | 2 logins, 2 keys, 4 minutes, 1 mistake of the bank |
| `Ages` | `NeverOlder`, `DrawnToTheAge`, `PersonasAreOfAge`, `TyposAreRefused` | births on and beside the leap day, at a year's and a century's turn; 5 starts of 8 days |
| `Requests` | `GuardedFirst`, `AnswersAreInContract`, `KeptIsNobodysOwn` | every route, on a deployment that was given everything or nothing |
| `Limiter` * | `AdmitsTheLimit`, `WaitIsEnough`, `CountedAsThemselves` | 1 request in a window of 4 units, seconds of 2, a sweep beyond 1 bucket, 2 clients |
| `Budget` * | `WithinBudgets` | a limit of 1 of each kind, 4 photos of two subjects and the viewer's own, 2 days |
| `Waitlist` * | `SaidInStep`, `CountsANewDay` | 3 people, k up to 3 with a floor of 2, 2 days, 2 processes |
| `Boot` + | `MigratedOnce`, `ServesWhole`, `PreviewKeepsToItself` | 2 processes, images with 1 and 2 migrations, 1 fault of a configuration, 2 boots |
| `Nightly` + | `EveryDayIsCounted`, `EventsHaveAPartition`, `EventsAreDropped`, `WindowIsTheDay` | 105 hours with spring at 25 and autumn at 73, months of 2 days, retention of 3, starts at hours 2 and 22, 2 processes, 1 failure |
| `Device` s | `StaysSignedIn`, `StaysSignedOut` | 2 sessions of 3 pairs, 2 writes in flight, 1 trouble |
| `Settings` s | `OnlyServedIsShown`, `ChoiceStands`, `FollowsThePhone` | 3 catalogues of which 2 are released, 2 lists a phone may prefer, 2 moves |
| `Album` s | `ScreenIsTrue`, `OneTapOnePhoto` | 2 photos of an account, 3 uploads, 2 requests, 2 troubles |
| `Profile` s | `KeystrokesAreKept`, `SavedIsStored`, `NoProfileOfTombstone` | 1 prompt, 3 edits, 1 trouble |
| `Questions` s | `NothingBeforeConsent`, `GateIsTheirs`, `LastPondStands` | 2 accounts, one of them finished, 2 ponds, 1 trouble |
| `Home` * | `SwitchIsTrue`, `NeverGoesBack` | 2 accounts, 2 nights, 2 reads of the card |
| `Panel` s | `CodesAreSentOnce`, `ShownIsStored`, `RefusalStaysShown` | 2 logins, 3 troubles, development and production |
| `Desk` s | `DecidedIsMine`, `CountIsWaiting` | 3 photos of which a list holds 2; 1 or all wait at the start; 2 loads, 1 trouble |
| `Personas` * | `RowsGoWithTheirObjects`, `StaffSeenOrGone`, `PhotosAreWhole` | 2 personas of which one is banned afterwards, 1 picture, 1 move of another |
| `Population` * | `NeverOnDeployed`, `ShowsTheThresholds`, `CountedAnew`, `PeopleAreSpared` | 2 commands, 6 command lines from 24 to 300 people |
| `DevEnv` + | `ForeignIsSpared`, `UpIsMine`, `NothingIsLeft` | 2 runs, 2 services of which none or both are skipped, 3 machines, 3 holders of a port, 2 chains of parents (up to an editor, and longer than six), 1 trouble |
| `Translations` * | `ReviewedWasApproved`, `OverwritesNothingNewer`, `ApprovalsShow` | 1 key, 2 English, 2 texts, one pair of them unruly, 3 edits |

Why the bounds suffice. The hazards of `PROJECT.json` are races of two actors over one row
or one screen, with at most one more actor's completed work before it: two slots run any
number of handlers one after another. Two rotations are the fewest that overwrite a retired
hash; a clock of one or two units passes every deadline of the instance. At the pond gate a
line needs three people (at a share of six in ten the first man is let in, the second only
once a woman is), a declaration taken back or a move there and back is two changes. Two
accounts with one picture are the fewest that share content, three rows let one go while two
are reordered. A limit of one is passed by two requests at once; a batch of two starves
nobody but lets one photo's failure end the other's check. Two reads under way are the fewest
that come in the wrong order; two accounts on a phone the fewest that may be taken for each
other. Months of two days and retention of three make partitions come and go within the four
days that hold both clock changes. `Step` and `GateK` are 1 in the instances where the product
has ten and more: with two or three people a step of ten would say 0 of every pool and open no
gate. The names beginning with `Max`, and `Provisions`, `Phones`, `Machines`, `Typed`, `Born`
and `Starts`, are the only bounds that are not the code's. A callback or an exchange begins
only while a fresh row is left for it (`RoomForCallback`, `RoomForExchange`), so that no handler
is stuck for want of model values. The proofs do not depend on any of these numbers.

### What the documents say and the code does not do

Two disagreements have a run:

* **A login can pass the cooldown.** `resolveAccount` reads the identity and the live
  account in two statements. An erasure between them leaves the handler with an identity
  without a cooldown and no live account, and a fresh account is created at once.
  `OnlyStaleReadsSlipThrough` (checked, proved) is the bound on the damage: only a login
  that had read the identity before the erasure can do it.
* **An admission can be carried along** by moving to another pond and back. A move whose
  statement begins before a count inserts the person's first row does not empty that row;
  the way back finds the row's pond to be the one chosen and does not empty it either.
  `NobodyIsLetOut` and `LineNotJumped` (checked, proved) hold all the same: nobody else is
  harmed and no line of another group is passed. The instance has one account.

The others are exceptions the properties name, each with what does hold.

*Sessions and accounts.*

* An exchange whose `EXISTS` preceded an erasure's commit writes a session row behind it
  (`features/identity/erasure.feature:39` says none is written); it answers nobody, and
  `TombstonesLoseTheirSessions` shows that the sweep removes it. A login that loses the insert of
  a new identity may meet the unique index (`AccountTaken`), which surfaces as an error and not,
  as the comment at `login.ts:133` has it, as a resume.
* The loser of a refresh race need not end the session (`sessions.ts:94`): once the winner's
  device has refreshed again, the retired hash the loser looks for is overwritten.
* A staff session whose exchange had read the role before a revocation, or that a revocation
  that died left over, is live again when the role is granted again (`moderator.ts:113`).
* On the phone a sign-in or sign-out that meets a refresh under way may be undone by its answer.
* On 28 February the people drawn for a leap February are a year off the age that was drawn
  (`population.ts:198`), and the persona who "turns 18 this month" is let in on the 28th of a leap
  February. `deriveIdentity` hashes the code as it came, though `parseHetu` trims it.
* `oidc-broker.ts:24` says our keys are "ignored for the mock"; with the encryption key configured
  the mock's clear token is refused, and with the signing key the request to it is signed. Nothing
  refuses a non-Telia issuer in production.

*Rows, objects and counts.*

* A failed put leaves the other puts of its upload in flight past the clean-up; `insertPhoto`'s and
  `insertPhotoAccess`'s `EXISTS` may precede an erasure's commit and leave a tombstone's row; two
  compactions at once leave gaps until the next writer that is alone.
* The moderation sweep starves behind a batch of photos whose card is missing.
* A card's budget is given back when its subject deletes photos. `recordCardServed` does not look
  whether the subject lives; no route calls `buildCard` for another person yet.
* Events outlive their retention by the hours to the next night. The night of the autumn change
  runs its jobs twice (03:00 and 04:00), that of spring at 05:00 (`nightly.ts:4`). A day is counted
  twice when a count waits over midnight for another.
* Two containers that seed one new preview database: the loser fails on the unique account.

*Requests.* The photo routes without storage answer 503, which three of them do not name; two reads of
an account erased behind the guard answer an unnamed 404; a bank that sends no state gets 400 JSON in
the browser (`routes.ts:240` says refusals land in the app). A refusal by the body cap is not counted by
the limiter.

*Screens.* After a refused order a reload that fails leaves no way to retry. The form drops unanswered
prompts after a save and says "saved" over newer keystrokes. Pond chips are not disabled while busy. The
panel shows a stored session before whoami answered, and a late answer may undo a sign-out on the
screen. In the queue a refresh crossing a decision takes one off the count twice, and a lost answer leaves
a row "saving". The panel asks for 20 photos (`PhotoQueue.tsx:39`) and the API counts all
(`admin-routes.ts:107-111`): with more waiting the list is the 20 oldest, and once those are decided no row
is open while the count goes on to say how many wait, until a refresh. The research switch shows the
previous account's state until the next account's is read.
A late stored language replaces one chosen meanwhile, two quick choices are written in no order, and a
late first reading of the contrast replaces a newer event.

*Commands.* `demo:reset` without a working store, or crossed by an upload or a first login, leaves an
object, or a row without one. A killed population command leaves the counter on those who were there.
"Nothing foreign is ever killed" (`dev-env.ts:14`) does not hold: a sibling directory whose name begins
like the repository's is taken for it, and of a port's holder that is ours up to six parents are killed
too, wherever they live, as long as each has a name like ours or is `sh -c` (`dev-env.ts:182-195`,
`216-229`): an agent or an editor host that runs on node and started a run goes with it. `ForeignIsSpared`
says what is left of the sentence. A second `up` ends
the first run's servers, and a server that ignores SIGTERM beneath its shell outlives a stop. A sync
translation run does not compare the English it asked with, a retranslating batch overwrites a correction
imported meanwhile that nobody had approved, and `approve` takes the text as it stands.

## 4. Fairness

`Spec` of `Login` assumes, and only the liveness run uses it:

* weak fairness of each handler's next statement: Node runs callbacks, PostgreSQL answers;
  a process that dies is `Crash`, which also ends the handler;
* strong fairness of the three statements that wait for an account's row lock
  (`LockAccount`, `AttachCode`, `InsertSession`): the lock is held again and again by
  different erasures, so the wait is enabled again and again but not continuously;
  PostgreSQL grants row locks in the order of the queue;
* weak fairness of `SweepSessions`: the nightly timer re-arms itself after every run and
  `runNightly` swallows a job's failure.

`FairSpec` of `PondGate`, used by `MCPondGateDecided` only, assumes

* weak fairness of each handler's next statement, a move's included: a move waits for a
  count that shares its account, and only counts hold what others wait for;
* strong fairness of `BeginNight`: the timer re-arms itself, and a night waits in the queue
  of the advisory lock, which first asks take and leave again and again (they only try it).

Nobody need ask, declare or move: without strong fairness of the night a stream of first
asks could hold the advisory lock whenever it looks.

`FairSpec` of `Moderation` assumes weak fairness of each handler's
`CheckStep` and `Decide` (the next statement of what is under way), of a sweep's start by some
handler (the night comes), and of `GrowOld` (ten minutes pass). It does not assume that the
inspection succeeds: `MaxFailures` caps how often it fails, so the property is about a service
that answers in the end; nor that a photo's owner or a moderator does anything.

Nothing is assumed of people, of the bank, of the clock or of crashes. `Sessions`, `Photos` and
the parts of `MCService` have no fairness: their properties are safety.

## 5. Proofs

The proof modules take the constants as they are declared, under the assumptions named in
the modules: `CooldownAssumption` (a positive natural), `LoginAssumption` (the lifetimes
and bounds are naturals, `Account` is finite, `None` is none of the values),
`SessionsAssumption`, `AdmissionAssumption`, `PondGateAssumption`, `PhotosAssumption`,
`ConsentsAssumption`, `ModerationAssumption` (likewise), `ServiceAssumption`,
`ProcessesAssumption` and `ScreensAssumption`. `Account` is
finite in `Login` because `DeletionsCounted` counts. `ServiceAssumption` gathers what the parts of
`Service` need: `StaffAssumption`, `BankAssumption` (there is a key at the start, the level asked for
is one, `None` is no value), `BudgetAssumption`, `LimiterAssumption`, `WaitlistAssumption` (naturals,
a window and a second that are positive), `TranslationsAssumption` (there is an English and a text),
`PersonasAssumption` (finitely many pictures, a history ends in "live", "banned" or "gone") and
`PopulationAssumption` (what follows `--env` is a name, and `None` is none of the values), and
`HomeAssumption`. They are definitions that `Service` assumes of its instances. Likewise
`ProcessesAssumption` gathers `BootAssumption` (images are numbered from 1),
`NightlyAssumption` (the clocks change at 01:00 UTC, events are kept for a month at least, and fewer
jobs fail than a month has nights) and `DevEnvAssumption` (the services are a sequence of names, `None` is no
run, and holders and parents are told apart by directory and name), and
`ScreensAssumption` those of the screens: of `Settings` that the languages and the released ones are
sequences, none of them empty, and the released are among them; of `Desk` that the photos are finitely
many, since it counts them, and numbered, and that a list has room for one; of `Questions`
that there is a pond and a wording; of the others that the bounds are naturals and `None`, `Left` and the "system" language are none of the values.
Each theorem holds for any number of handlers, rows and values.

**`LoginProofs`.** None of the safety properties is inductive alone. The invariant is a
conjunction of named parts, each with its own preservation lemma per action:

* `Typed` - types, and what each program counter implies of a handler's record (a handler
  past the bank has a person, one that attaches or erases has an account);
* `OneLiveAccount` - needs only the unique index in `InsertAccount`, but every other part
  leans on it;
* `Spent` - an attempt with a session, or with an exchange past `consumeCode`, is used, and
  only one such exchange exists per attempt: gives `OneSessionPerAttempt`;
* `Owned` and `Known` - a handler's account, an attempt's account and a session's account
  belong to the person the bank identified in the callback that mailed the code, and that
  person's identity row exists: gives `SessionOfTheLogin`;
* `Counting` - the deletion count a handler holds is the identity's current one for as long
  as it holds the account's lock, because the count only changes in `CommitErase`, which
  needs the lock of the one live account; a lock is held exactly by the handler that is
  erasing that account: gives `DeletionsCounted`;
* `Cancelled` - a cancelled attempt's deadline has passed; a callback that starts after the
  cancellation read a clock at or past that deadline, and no callback still in flight from
  before it read a later one: gives `CancelledStaysCancelled`;
* `Decided` - a handler on its way to `InsertAccount` holds an identity that permitted an
  account at the clock it read: gives `OnlyStaleReadsSlipThrough` as an action property.

Theorems: `LoginTypeOK`, `LoginOneLiveAccount`, `LoginOneSessionPerAttempt`,
`LoginSessionOfTheLogin`, `LoginDeletionsCounted`, `LoginCancelledStaysCancelled`,
`LoginOnlyStaleReadsSlipThrough`.

**`SessionsProofs`.** The invariant is `Kept /\ Calls`: `Kept` relates a row to the history
(a live pair was drawn for this session and is not spent, a retired one was and is; a pair
that was never drawn is on no row; a row's life is its creation plus `RefreshTTL`), `Calls`
relates a handler to the rows it has read (its token was handed out, its session's account
is the one it will act on, its deadline is within the session's life). The lemmas
`EndingKeeps`, `InsertKeeps` and `RotateKeeps` carry it over the three ways a table
changes. The refinement sends `InsertSession` to `Open`, `Rotate` to `Spend`, every
revocation, erasure and sweep to `End` of a set of families, everything else to a stutter.
Theorems: `SessionsTypeOK`, `SessionsAnswersWithinLife`, `SessionsRefreshIsAChain`,
`SessionsReuseNoticed`, `SessionsEndedForAReason`.

**`PondGateProofs`.** Under `AdmissionAssumption` and `PondGateAssumption` (accounts are
finite and registered in a total order, the preferences seek somebody, the numbers are
naturals, `None` is none of the values, at the start every account lives). The invariant is
`TypeOK`, `ToldOpenIsOpen` and

* `RowsFit` - who is let in has declared a gender and whom they seek, and waits with no
  group but the one they were let in with; an open row is an admitted one; a row belongs to
  a living account with a pond: gives `LineNotJumped`;
* `Counts(c)` - a handler holds the advisory lock exactly in the steps of a count, and what
  its record says is so (`Held`): what it locked lives, the row of an asker is absent, and
  every row it has computed or drafted (`Writes`) is of an account it has locked, of the
  pond that account lives in, fits the account, and keeps what is in force (`Keeps`).

The argument: a row is computed from declarations that are true of a locked account
(`ReadPondKeeps`), no writer touches a locked account (`UntouchedWrites`, `WriterCounts`),
and so the row is still true when it is committed (`CommitKeeps`). Which people `admit`
lets in plays no part in this: the lemmas `NightRowComputed` and `FirstRowComputed` need only that
an admitted person is not in the line. `PondGateNobodyIsLetOut` and `PondGateSaidAtNight`
follow as action properties from `CommitLetsNobodyOut` and `WhoWritesRows`.

Two more theorems are about what `admit` computes. Its loop is a recursive function of the
round, which `Iterated` shows to exist (induction over the rounds is `Induction`, from the
well-foundedness of the naturals for a set of numbers, since the library's induction theorem
takes an operator). `NobodyMoreComesIn`: a round that lets somebody in makes those inside more,
so after as many rounds as there are people the last let nobody in, and those inside contain
the recorded. `InsideStands`: once they are all recorded, who comes in next is asked of the
same groups and places, and is nobody; a pool said twice is said the same (`SaidAgain`: what
was said is a multiple of the step, and so is not rounded again). So a second count writes each
row as it is (`RecountAgain`, from `TypeOK` alone: whatever rows asks, moves and declarations
have left). For a first ask, `Singles` says that it has written nothing until it has counted
the asker's pond, and `FirstRowRests` that whoever it lets in is let in among the recorded
alone, and first of their line.

Theorems: `PondGateTypeOK`, `PondGateLineNotJumped`, `PondGateToldOpenIsOpen`,
`PondGateNobodyIsLetOut`, `PondGateSaidAtNight`, `PondGateCountingTwiceChangesNothing`,
`PondGateAskRestsOnWhatIsWritten`.

**`ServiceProofs`.** A step of `Service` is a step of the one part the behaviour is of
(`StepOfPart`), so its invariant, `ServiceInv`, is that of each part while it is the one. The
parts' invariants, in the order of `Service`:

* consents: `TypeOK`, `MappingFollowsConsent` and `EventsHoldTheRow`: an event's transaction that
  has taken its share lock holds a mapping row that is still the current one, since every writer of
  the mapping waits for it: gives `NoEventAfterConsent` as an action property. `Capped` has an
  argument of its own: a consent is recorded under the instant its request read, which may lie
  before that of rows written while it waited, so the cap is kept for every window of a day and
  not only for the last one;
* onboarding: `StatusKnown`, that what a status read has found is still so when it decides, because
  declarations go by an erasure only and agreements never do;
* staff sessions and the exposure budget, below;
* the bank: `HeldKnown` and `Settled`, that the library has every key published before it asked, and
  that what a login was signed with was published a minute before or at the start, so that asking
  again finds it; `LoginKnown`, that a token's nonce and person are its own login's;
* the limiter: `Fits`, address by address: a live bucket has counted its window and the window
  before it was within the limit; without a live one the last minute was. It holds whatever the
  sweep throws away (`AdmitsTheLimit` is twice the limit over any minute, which is what fixed
  windows give), and the wait that was told is an end of a window (`RoundedUp`);
* the waitlist: `Near`, that the figures are no further from the people than people have moved since;
  `Follows` and `OneCounts`, that the lock's holder replaces them only a step later; `SaidStands`,
  for the figures that were said last; `LastDay`, as long as no count was overtaken;
* the card of the gate: reads are told apart by number (`Numbered`), none answers a night to come
  (`SaidBefore`), and the one that may speak while a card stands knows no older night
  (`SpeaksOfNoOlder`);
* the switch of the research consent: `SwitchKnown`, that what an answer under way says, and what the
  switch shows once none is, is what the API stores for the person signed in, or `behind` says why not.
  A read of somebody who has left is dropped, a change is not, so what matters is whose answer is on
  its way (`OnItsWay`); and a sign-in clears `behind` only when no change is out;
* translations: `HashKnown`, that a review's hash is of a pair that was approved and keeps to the
  rules, whatever has become of the text since;
* personas: `ObjectsKnown`, `PeopleKnown` and `StoresKnown`: while a reset runs and nobody is new,
  everybody is locked, so nobody leaves, registers or becomes staff, and whoever is to go and has an
  account is erased or yet to be; the objects are of rows that the reset still sees or is just about
  to delete (`Seen` is what it sees: its own deletions are gone before they are anybody else's), and
  told of another store than the API's it has refused or found nothing to delete;
* the population: `ToldOfNone`, that no command goes on that was told of a deployed environment by
  either of its two sources; `GatesFollow` and `CounterFollows`, that the gates and the counter are
  of the people who are there, or somebody who is past the write is about to count them.

`Typings` adds the types of the parts, and the switch, to `TypesOK`: most types are inductive with
what the invariant of the part knows, and are carried apart from it (`TypingsKeep`). The waitlist's
are not among them, since its people are counted by a fold over ponds and states, whose bounds need
induction over data. The lemmas of the three tools (translations, personas, population) are in
`ToolsProofs`, which `ServiceProofs` extends.

Staff sessions:

* `Typed` and `Known` - what a handler has read of an attempt and what a session says of its
  login is still so: the attempt is there, its code was drawn for that person, and past
  `consumeCode` the attempt is used. None of it is ever taken back (`AttemptsAdvance`), so the
  facts stay while `attachAdminCode` overwrites the attempt;
* `OneEach` - an attempt has one session or one exchange past `consumeCode`, never two: gives
  `OneStaffSessionPerLogin`;
* `RevocationEndsSessions` itself, which is inductive once the types are known: between the
  revocation's two statements the person's sessions are excepted, the second statement ends
  all of them, and whoever inserts with a stale reading is recorded in `escaped`.

The exposure budget: what a request counts is true when it counts; the invariant says why it is still
so when it writes:

* `OneHolder` and `RoomForFetches` - nobody else adds rows under the same lock, so the count the
  holder made is below the limit until it writes;
* `RoomForCards` - likewise for cards, or the subject is on one already, or a photo of the card is
  gone and the insert will fail. The middle case is the delicate one, since the owner may delete
  the very photo that showed them: `Chained` says that of two cards of one subject the earlier
  listing is within the later but for photos that are gone, and `ShownTogether` that a photo which
  a card lacks was shown together with those it has, so one of these still shows the subject;
* `ChargedAreShown` - whoever was charged to a day is on a card of that day or later, so the day's
  charges are no more than what the statement counts;
* `Dated` and `Budgeted` - nothing bears a coming day's date, so a new day starts empty, and the
  bounds hold of every day.

Theorems: `ConsentsTypeOK`, `ConsentsMappingFollowsConsent`, `ConsentsNoEventAfterConsent`,
`ConsentsChurnIsCapped`, of any behaviour of `Consents`; and of any of `Service` `ServiceTypes`,
`ServiceWhoIsLetIn`, `ServiceWithinBudgets`, `ServiceToldCarefully` and `ServiceWorkIsSpared`, the last
two of which are or contain action properties. Two definitions that differ by the instance they came
through (`B!Cardinality` and `Cardinality`) are equated by expanding both.

**`ProcessesProofs`.** A step of `Processes` is one of the program the behaviour is of, and each
program has its invariant:

* the boot: `BootStage`, what the stage a process has reached has left behind: its configuration is the
  deployment's and parses, a deployed one has its bank, a connected one's database is there, whoever
  holds the migrations' lock is in one of the three steps that hold it and has read the journal as it
  is, whoever has migrated finds its own migrations, and photos are behind the distribution if the
  configuration says so. `MigratedOnce` is its own part: a migration is applied as often as the
  journal is past it;
* the nights: `NightRun`, that a timer is never behind the clock and no more than a day ahead, and fires
  between three and five by the wall clock (`NightArms`, from the hour's offset being two or three);
  that a night's later jobs run with the earlier ones done, or with a failure of the last day on record;
  and `NightSince`, that an armed timer stands for a night that was run, a fresh boot or such a failure.
  `NightLate` is why events have a partition though jobs fail: without the next month's the timer is
  before the end of the month by a day for each failure left, of which there are fewer than nights.
  That midnight as an instant is guessed right (`NightMidnight`) is shown for every day and any two
  changes of the clock;
* a developer's environment: `EnvRun`, what one run has started by when, and what it may leave behind
  when it is stopped; `EnvApart`, that as long as no two runs crossed and nothing outside interfered,
  the ports a run has found free stay free until it takes them, and its servers are the only ones on
  them; and `EnvSpared`, of who was killed, which rests on what is climbed to having no gap (`EnvTree`)
  and on a run that is over staying so (`EnvOver`).

`ProcessesInv` is that of each program while it is the one. Theorem: `ProcessesHoldAlways`.

**`ScreensProofs`.** Again a step of `Screens` is a step of the one screen the behaviour is of
(`StepOfScreen`), and `ScreensInv` is each screen's invariant while it is the one. What the screens
promise compares what is shown with what the API or the store keeps, and is excused while an answer is
on its way; so none of it is inductive, and each invariant says what the answers under way will do:

* the phone's session: what matters of the store is what it holds once its writes are through
  (`DeviceKept`), because the app works with the pair it has handed over to be stored
  (`DeviceReads`). There is one refresh under way at most, asked with the very pair the app works with,
  and unless something excuses it (a pair lost before it was stored, a sign-in or sign-out that met a
  refresh) the pair of a session
  that goes on is the API's live one, or the answer on its way brings the live one
  (`DeviceUnexcused`);
* the album: an answer not outlived by the list is the list, or says what is in it (`AlbumCall`); at
  most one of the screen's own requests changes the list, and none while it is idle or picking
  (`AlbumOne`); and a ready screen that knows of every change and waits for no list shows the photos
  there are, but for the one that the answer on its way adds or takes away (`AlbumShown`). That a
  removal taken twice is a removal taken once rests on `Without`, a list without one photo, whose
  places are ranks of a finite set (`AlbumRanks`);
* the profile form: a load meets no typed draft, a draft that was not touched since its save is what
  the save sent (`ProfileTyped`), and a stored save is the row unless something changed behind the
  screen (`ProfileStored`);
* the onboarding's questions: what a status said of an account was true when it was read, and consents
  and the activation are never taken back, so it is true when it arrives (`QuestionsHonest`); whoever
  declares anything gave both consents (`QuestionsAgreed`); an answer is only heard by whom it is about
  (`QuestionsTheirs`); every pond on its way is the last one tapped, while that tap counts
  (`QuestionsTapped`);
* the settings: a choice is on the screen, and in the store or the only write in flight, unless a late
  read, an unordered or a failed write is on record; a fresh start reads what the last run left there
  (`SettingsChosen`);
* the panel: a code is on its way only from a panel with nothing stored that it would show, and alone
  (`PanelOut`); unless a sign-out crossed it, the one check under way is of the session that is shown
  and stored (`PanelIn`);
* the queue: a decision under way belongs to one mount of its row, which is then "saving"
  (`DeskMounts`); what is shown as decided was decided here (`DeskVerdictsStand`); and as long as
  nothing is off, the count is of the queue and of those taken but not heard of yet, and the rows not
  shown as decided are the oldest of both, all of them where the list is not full (`DeskCounts`,
  `DeskListed`); that the first of a queue are older than its rest is `DeskOldest`.

Each screen has one lemma for its start and one for its steps (`DeviceInitInv` and `DeviceNextInv`
and so on), with one step per action, and one that its promises and its types follow
(`DevicePromises`). Theorem: `ScreensKeepTheirWordAlways`.

`ProcessesProofs` has the theorems about `Moderation` too. The invariant is `TypeOK`, `RowsAgree`,
`DecisionsAreAudited` and `DecisionsStand` (a person decides "approved" or "rejected", and a photo with
an audit entry is gone or has a review that names a person). The argument goes photo by photo: `Agree`
says of one photo what the invariant says of all, each step changes the rows of at most one photo, and
a step on another one leaves `Agree` alone. The machine's step is harmless because `Overwritable` and
`Movable` look at the rows they write, under their locks. Theorems: `ModerationTypeOK`,
`ModerationRecordsAgree`, `ModerationPersonDecides`.

**`PhotosProofs`.** Under `PhotosAssumption` (the cap and the bound are naturals, there are finitely
many handlers and at least one, `None` is no account, photo or key). Each property has an invariant
of its own, all of them over `Typed`:

* `Attended` - an object put late is of a spoilt key, and `NothingKeptWithoutARow`: whoever stops
  attending to a key has found a row, has deleted the objects, or has spoilt it;
* `Whole` - two handlers hold a key only if it is raced (`HeldOnce`), and for the others an upload
  past its puts has put everything and whoever is about to delete found no row (`ObjectsFit`). The
  window between the check and the deletion is closed by nothing but that nobody else came in;
* `Counted` - an account's rows and those who found room for one more are together below the cap
  and the handlers; without two at once, whoever found room finds it still;
* `Numbered` - on an account that is not mingled at most one handler is at work; until it renumbers
  the rows stand at 0 to n - 1, the place an insert has read is n, and the numbers about to be
  written are a numbering of the rows there are. That `row_number()` yields one (`RankIsDense`) and
  that a permutation does (`OrderIsDense`) rests on an injection of a finite set into one of its
  size being onto; that `max(position) + 1` is n (`NextIsNumber`) on there being a greatest number.

Theorems: `PhotosTypeOK`, `PhotosNothingKeptWithoutARow`, `PhotosRowsKeepTheirObjects`,
`PhotosAlbumInOrder`.

**Only model-checked.** `CallsSettle`, `TombstonesLoseTheirSessions`, `EverybodyIsDecided` and
`EveryPhotoIsChecked`: liveness is beyond the installed provers. `RoutesAndFigures`: tables and sums of the code's own literals, which TLC evaluates whole, so that a proof would repeat the evaluation; and
the waitlist's types, whose sums a proof could only bound by induction over data. The two violated
properties are counterexamples, not theorems.

## 6. Not modelled, and the plan

Not modelled, and why:

* the image pipeline, URL signing, S3 and SSM calls: pure functions or input and output. Of
  them the models keep what may fail: a put, a deletion, an inspection, a parameter;
* the limit of uploads processed at once (`media_busy`): a semaphore around the pipeline that
  nothing else reads; the ten minutes a started login is remembered on the phone;
* the bytes of tokens, signatures and encryption, which belong to the OpenID library;
* the rules of ICU messages, the contrast of colours (floating point), layout and wording;
* generated schema and message files, the doctor and check scripts, Terraform, CI and the mock
  identity provider; a preview's clean-up that drops a database under a boot;
* row locks on `auth_request`: each statement on such a row is one step. An erasure deletes only
  the rows that carry its account, which no statement that waits for that account holds, so none
  wait for each other; `shadow_banned` and a change of the gate's configured
  numbers, which nothing in the repository sets while a server runs.

Next, in this order:

1. **`Device` as a user of `TokenFamily`**: the phone's chain as a refinement of the family the
   sessions implement, so that both sides rest on one abstract specification.
2. **An abstract gate** (let in, open, left) that `PondGate` implements, and a count that is rolled
   back.

Proof modules stay free of recursive operators, folds included where a function will do.
