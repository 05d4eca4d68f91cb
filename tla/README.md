# TLA+ models of the bhapi platform

bhapi is a family-safety platform: a FastAPI backend (`src/src`), a browser extension, mobile
apps, a web portal and a DNS proxy. The backend holds all durable state in PostgreSQL and runs
in three ways: request handlers, a cron that runs jobs, and `POST /jobs/run`, which runs the
same jobs on demand beside the cron. This directory models the packages where several people
and processes write the same rows, and the clients' queues of what they have yet to send; it
checks the models with TLC on small instances, and proves the properties that matter most with
TLAPS for every instance.

Paths below are relative to the repository.

## 1. How the code executes, and how that becomes actions

`src/src/database.py:73` (`get_db`, `get_db_context`) gives every handler one SQLAlchemy
session. From it follows the shape of every backend module:

| In the code | In the modules |
|---|---|
| One transaction per request, READ COMMITTED, no `with_for_update`, no version columns | A handler is a sequence of read actions and one commit action; other sessions' commits may fall between any two |
| `autoflush=False`, commit after the handler returns | Nothing a handler writes is seen by others before its last action |
| An exception rolls back | `Rollback` or `Abandon`, possible at any point of an open session; also a crash of the process |
| An ORM update writes only the columns whose value differs from the one that was loaded | A commit writes those columns (`EXCEPT` on fields), not the row; a row may end up mixing two writers (`Changed` in TimeBudget, `DecidedQueue` in Moderation, `Resent` in Alerts, `Written` in Sharing) |
| `scalar_one_or_none()` raises if two rows match | The read action has no successor for that row, or ends the session where the caller swallows the error |
| Unique constraints | A guard on the commit (`Insertable`, `UniqueIndex`, "unique index") |
| `src/src/jobs/runner.py:336` `run_job` catches everything | A job run is a session like any other; its failure is an early end |
| `jobs/__main__.py` runs the jobs that are due one after the other in *one* session, and commits where a job does, or at the end | `DataRights` has the two jobs of the hourly cron in one session and `Retention` the two of the daily one, with what a failed flush does to the jobs behind it; the jobs of TimeBudget, Alerts and AutoBlocks have a session of their own, as the five-minute cron gives each |

`txn[w]` is what session `w` has read and not yet written. The number of workers is the number
of sessions that may overlap. A handler that reads and writes without anything in between that
another session could disturb is one action.

*Overlapping or not.* The four core modules are checked with one worker (the sequential
program) and with two. The services of `Sessions` have both in one run: the variable `overlap`
is chosen at the start, and where it is FALSE a session begins only when no other is open. A
property that starts with `~overlap` is one the code keeps only as long as no two sessions
overlap; most of its checks are of the kind "read, decide, insert" without a lock, so the
other half of such a property says what survives a race.

## 2. Inventory

Components with protocol: state shared by several actors, or kept across several calls.

| Component | State | Operations | Hard part | Correct if | Modelled |
|---|---|---|---|---|---|
| contacts | `contacts`, `contact_approvals` | send, respond, approve/deny (batch), block | three people decide about one row | a child is connected only with the parent's approval; blocks and decisions stand | Contacts |
| moderation, with social posts, comments and messages | queue, decisions, appeals, assignments; a copied status in the content | submit, decide (bulk), take down, appeal, rule, assign, post-publish review | copied status, two moderators, appeals that reopen | unmoderated child content is never listed; every outcome is on record | Moderation (reports not) |
| blocking: time budgets | budgets, usage per date, block rules, unblock requests | set, record, enforce (job), request, approve, deny, revoke | job against requests, overlapping job runs, midnight | exceeded is blocked, within is freed, minutes are right | TimeBudget |
| alerts | `alerts` | create with mail, acknowledge, digest (job), re-notify (job) | mails leave before the commit; two jobs and a user share a row | an unacknowledged urgent alert is repeated, an acknowledged one is quiet | Alerts (channels not) |
| screen_time | rules, extension requests | create, request, answer, expire | daily limit counted before the insert | the limit holds | ScreenTime |
| location | positions, kill switch, geofences, school consent, check-ins | report, switch, fence, consent, check in and out, erase | switch and consent read before the insert | no position after the switch, no check-in without consent | Location |
| capture, risk pipeline, agreement | consents, agreements, events | consent, withdraw, replace, sign, ingest, process | consent read before the insert; failed pipeline | no event without consent and agreement | Capture |
| compliance: requests | members, rows, requests for erasure or export | file, delete (job), export (job) | failure half way in a session of two jobs | erased is gone, requests are served | DataRights |
| compliance: retention | policies, records and what refers to them | view, update, clean up (two jobs), summarize, appeal | one failing DELETE, foreign keys | old rows are deleted | Retention |
| blocking: automatic rules, bedtime | rules, blocks | create, change, delete, evaluate (job), revoke | one rule, many blocks | no rule stops the evaluation | AutoBlocks |
| blocking: VPN bypass | attempts, blocks | report, block, expire | count before the insert | three attempts block, once | Bypass |
| groups: membership | members, invitations, codes, approvals | invite, accept, redeem, approve, provision, roster | cap counted before the insert, passes used twice | cap and single use hold | Joining |
| auth, api_platform, devices | sessions, reset and setup codes, OAuth codes and tokens | log in, reset, pair, register, exchange, refresh, revoke | check, then mark as used, in Redis, memory or Postgres | single use; a reset ends the logins | Credentials |
| billing: subscriptions | rows, Stripe's subscriptions | subscribe, check out, webhooks | webhooks repeated, out of order | a row follows its subscription | Subscriptions |
| billing: partners | links, partner's accounts | activate, revoke | a crash between partner and commit | cancelled means closed; an account has its link | IdentityProtection |
| COPPA register | consent items | update, refuse, check | columns of two sessions mix | a refusal stands | Sharing |
| cyberbullying cases | steps in a JSON column | advance, close | lost updates | an answered step is kept | Cases |
| literacy, rewards | assessments, progress, rewards | submit, award (job) | upsert without a constraint, two clocks | progress counts, rewards are earned | Learning |
| billing: spend | accounts, spend records, budget, fired alerts | connect, disconnect, sync (job), check (job) | a window per account, days where hours are meant, failures of a provider | no hour is passed over or counted twice; a level fires once a month | Spend |
| group settings | one JSON column | save, replace, mark the review, remind (job) | four writers, changes in place | what was saved stands; one reminder per day of the trial | GroupSettings |
| application shell: rate limit | a sorted set in Redis, lists in memory | request | Redis fails before, between or after its commands; a clock read before they run | the window holds, and nobody is refused for nothing | RateLimit |
| device agent | usage, daily summaries | record, sync | two notions of a day, and its last second | the summary follows the records | DeviceUsage |
| realtime | connections, rooms | connect, join, leave, drop, fail to send | handlers of one user interleave at awaits | nothing leaks, one socket per user | Realtime |
| apps: realtime client | sockets, timers, attempts | connect, disconnect, reconnect | callbacks of an old socket, listeners that connect | one connection, none after disconnect | SocketClient |
| extension, apps | queues of unsent events | capture, flush, cache, sync, enqueue, replay | lost answers, restarts, a queue changed while it is sent | what was captured arrives or is known to be lost | Uplink |

Components without a protocol of their own (single-row writes, views, computations over stored data,
calls to other services) are listed one by one in `PROJECT.json`, with the reason each is left out:
analytics, reporting, the rest of the portal back end, intelligence, governance, FERPA, legal,
creative, media, email, SMS, headers and configuration, and the pages of the web portal and the
apps.

Interactions: contacts and moderation take the age tier from `age_tier`; creating a post,
comment or message calls `submit_for_moderation` in the same session; a captured event runs the
risk pipeline in the session of its insert; the jobs run beside the requests that change the
same rows, and those of one cron share a session; the clients' queues feed the capture API.
Where a component needs of another only that a row exists or not (a member, a group, a user),
its module has that as a variable or constant of its own.

The hazards, each at the line where it bites, are in `PROJECT.json`. Other disagreements met
while reading and not worth a property are in section 7.

## 3. Modules

### Contacts (`contacts/service.py`, `router.py`, `models.py`)

`contacts` and `approvals` are the two tables (equal decisions collapsed). `send_request` is
`SendStart`, `SendCheckExisting`, `SendCheckLimit`, `SendInsert`, one per query;
`respond_to_request` is `RespondRead`/`RespondWrite`; `batch_approve_as_parent`, and
`approve_as_parent` as a batch of one, is `DecideStart`, one `DecideRead` per request,
`DecideCommit`; `block_contact` is `BlockRead` and `BlockUpdate` or `BlockInsert`. The
dependency `enforce_age_tier` is `CanAddContacts`. Age tier, parent and the tier's limit are
constants: assigning them is another component's work.

`ParentalConsent` is the abstract specification, a promise to the parent with three variables
and no sessions: who filed a request, which consents are on record, and which requests connect
two people. A request of a child connects only after a consent, a consent is never withdrawn
from the record, and nobody else's request needs one. `Contacts!PC` maps the tables to it and
`KeepsPromise` is its specification.

### Moderation (`moderation/service.py`, `dashboard_service.py`, with `social` and `messaging`)

`shown[c]` is the status copied into the post, comment or message; `queue`, `decisions`,
`appeals` and `assignments` are tables. `submit_for_moderation` reads no table and is part of
`Create` and `Resubmit`; `Outcome` is its decision, with any answer of the keyword filter and
the social risk check. `process_queue_entry` and `bulk_action` are `DecideStart`, `DecideRead`
per entry, `DecideCommit`; then takedowns, appeals, rulings, assignments and
`run_post_publish_moderation` (`ReviewRead`/`ReviewWrite`), which exists only if the constant
`Background` says that something calls it. Nothing in `src/src` does,
so no property says that a published entry is ever reviewed; with TRUE the run checks what reviews
would do to the decisions of others. `Resubmit` is
`POST /moderation/submit`, which takes content and age tier from its caller: any content, also
one that has no row, and any tier.

### TimeBudget (`blocking/time_budget.py`, `approval.py`, `service.py` `revoke_block`)

`today` is the date in the member's time zone and `Midnight` advances it; budgets, usage,
`rules` (the rows of `block_rules` that the enforcement made) and `approvals` are tables, and
`reported` is a history variable for what devices were told was counted. `EnforceStart` reads
the enabled budgets, `EnforceMember` one member's usage and block, `EnforceCommit` writes.
A rule that is inactive and that nothing refers to is indistinguishable from no row, so its key
is used again (`FreeRule`): this keeps a run over blocks and liftings without end finite.

### Alerts (`alerts/service.py`, `delivery.py`, `digest.py`, `scheduler.py`)

A row has severity, status, the channel column, whether it was acknowledged, the counter and
three values of `re_notify_at` (null, ahead, passed); `recent` says whether the next digest
window still reaches it. `CreateMail`/`CreateCommit`, `AcknowledgeRead`/`AcknowledgeWrite`,
`DigestRead`/`DigestCommit`, and the job as `RenotifyRead`, one `GiveUp`, `Resend` or
`ResendFails` per alert, `RenotifyCommit`. `notices` counts the mails that were re-sent, also
those of a run that is rolled back. `Scheduled` says whether something calls
`schedule_renotification`. In `src/src` nothing does, so no property says that an urgent
alert is ever repeated; with TRUE the run checks what the job would do to acknowledgements.

### Sessions, and the services built on it

`Sessions` has what the smaller modules share: `txn`, `overlap`, `Begin`, `Continue`, `End`,
`Abandon`, and the insertion of a row under a free key (any one: uuids are alike, so `Inserted`
takes one by `CHOOSE` and the tables fill up in one order). Each module below adds its tables,
`<Module>Step(w)` (one disjunct per operation), a `Next` with what nobody decides (ageing,
expiry, restarts) and its own specification.

| Module | Operation of the code | Actions |
|---|---|---|
| `ScreenTime` | create and delete a rule; `create_extension_request`; `respond_to_extension`; midnight and the 15 minutes | `CreateRule`, `DeleteRule`; `RequestCount`/`RequestInsert`; `RespondExtension`/`RespondExtensionWrite`; `RequestDayEnds`, `RequestAges` |
| `Location` | kill switch; position reports; erasure; geofences; consent of a school; check-in and -out | `SwitchRead`, `ActivateWrite`, `DeactivateWrite`; `ReportRead`/`ReportInsert`; `EraseHistory`; `FenceCount`/`FenceInsert`/`FenceDelete`; `GrantRead`/`GrantWrite`, `RevokeRead`/`RevokeWrite`; `CheckInRead`/`CheckInInsert`, `CheckOutRead`/`CheckOutWrite` |
| `Capture` | consents; agreements and signatures; `ingest_event` with the pipeline; `create_content_capture` | `ConsentRecorded`, `WithdrawRead`/`WithdrawWrite`; `AgreementRead`/`AgreementWrite`, `SignRead`/`SignWrite`; `IngestRead`/`IngestWrite`; `ContentRead`/`ContentWrite` |
| `DataRights` | a row that refers to a member is stored, a member removed, a request filed; the hourly cron's one or two jobs in one session | `RowStored`, `MemberRemoved`, `RequestFiled`; `CronRead(w, jobs)`, `CronWrite` |
| `Retention` | captures with their risk events and excerpts, and the summaries, human reviews and appeals that refer to them; each row ages by itself; policies made when they are first viewed, and updated; the two daily jobs in one session | `RecordMade`, `Summarized`, `Appealed`, `RowAges`; `PoliciesViewed`, `PolicyUpdated`; `RetentionJob`, `ExcerptJob`, `DailyRun`; `Refers` has the foreign keys, `Succeeds` when no DELETE fails |
| `AutoBlocks` | rules and bedtime; a parent revokes a block; `evaluate_auto_block_rules` | `RuleCreated`, `RuleUpdated`, `RuleDeleted`, `BedtimeDeleted`, `BlockRevoked`; `EvaluateRead`/`EvaluateWrite` |
| `Bypass` | `record_bypass_attempt` with `maybe_auto_block`; the poll; revocation; the hour passes | `AttemptRead`/`AttemptWrite`; `Polled`; `BypassRevoked`; `AttemptsAge`, `BypassExpires` |
| `Joining` | register and delete a group; leave; make a pass; add, accept, redeem, approve, provision, roster | `GroupRegistered`, `GroupDeleted`, `MembershipEnded`, `PassMade`; a read per way in (`ApproveMark` is the write to Redis); `JoinWrite` |
| `Credentials` | log in and out; `reset_password`; setup codes; `register_device`, which takes any code and marks none; OAuth exchange, refresh, revocation | `LoginRead`/`LoginWrite`, `Logout`; `ResetRead`/`ResetMark`/`ResetWrite`; `SetupMade`, `PairRead`/`PairWrite`, `DeviceRegistered`; `ExchangePop`/`ExchangeWrite`, `RefreshRead`/`RefreshWrite`, `TokenRevoked`; `ProcessRestarts` |
| `Subscriptions` | subscribe, check out, webhooks of what Stripe has reported, in any order and again | `SubscribeRead`/`SubscribeWrite`, `Checkout`; `CreatedRead`, `CreatedFirst`, `StatusRead`, `WebhookWrite`; `StripeReports` |
| `IdentityProtection` | activate with a partner, revoke; the call to the partner and the commit are two steps | `ActivateRead`, `AccountOpened`, `LinkInserted`; `RevocationRead`, `AccountClosed`, `LinkCancelled`; `SessionLost` |
| `Sharing` | consent items for third parties: first view creates them, update, refuse all, the provider check | `UpdateRead`/`UpdateWrite`; `RefuseRead`/`RefuseWrite`; `Allowed` is the check |
| `Cases` | advance and close a cyberbullying case | `AdvanceRead`, `CloseRead`, `CaseWrite` |
| `Learning` | submit an assessment, count it into the progress; the weekly award | `SubmitRead`/`SubmitWrite`; `AwardRead`/`AwardWrite`; `DayPasses` |
| `DeviceUsage` | a record by itself; the agent's sync, with its recount of the days | `Recorded`; `SyncRead`/`SyncWrite`; `On` is what the query for a day finds, which is all but the records of `LastSecond` |
| `Realtime` | accept, register, join, leave, publish to a dead socket, disconnect | `Accepted`, `Replaces`, `Registers`, `Joins`, `Leaves`, `SendFails`, `Drops`, `ServingEnds`, `AcceptFails`; `muddled` is a history variable for users whose new socket an old handler unregistered |
| `GroupSettings` | the settings page; the group resource; the annual review; the reminders of the trial's end | `SettingsSaved`; `SettingsReplaced`; `ReviewMarked`; `RemindMail`/`RemindWrite`, `RemindLost`; `Flushed` is what a session writes of a column changed in place |
| `Spend` | connect and disconnect an account; the hourly sync, with what each provider is asked for (`Windows`: a range of times, whole days, or one day) and every answer it may give (`Answers`: all, nothing after an error, the first pages); a budget and its alerts, by the month in which a window began | `ConnectRead`/`ConnectWrite`, `Disconnected`; `SyncAccountsRead`/`SyncAccountsWrite`; `ThresholdCreated`, `CheckRead`/`CheckWrite`; `HourPasses` |
| `RateLimit` | a request, in Redis or in memory; a worker is a request. It reads the clock, then Redis runs the pipeline (or fails, or its answer is lost), then a refused one is removed; the set expires | `RequestAsks`, `RequestCounted`, `RedisFails`, `AnswerLost`, `RequestRefused`, `RemovalFails`, `RequestInMemory`; `InstantPasses` |
| `SocketClient` | connect, disconnect, the callbacks of a socket, the timer | `Connects`, `Disconnects`, `Opens`, `Closes`, `ClosesAndConnects` (a listener of `close` that connects), `TimerFires`; no sessions: each callback is one step |
| `Uplink` | the extension's queue, the Chromebook cache, the apps' queue | a worker is one call of an async function: `CaptureBegins`/`CaptureSent`, `FlushBegins`/`FlushSent`; `AddCounts`/`AddEvicts`/`AddPuts`, `SyncBegins`/`SyncSends`; `Enqueued`, `ReplayBegins`/`ReplaySent`, `RequestRemoved`; `Restarts` |

Histories are named as such in the modules and constrain nothing.

`Services` composes them. No two share a table (each keeps what it needs of users, members and
groups), so interleaving the steps of two services reaches no state of either that one alone
does not reach: `active` says, from the start, which one runs, and `OthersUnchanged` keeps the
rest. The parts with a database share the sessions. The properties `RecordsAddUp`,
`WithdrawalsStand` and `JobsTakeEffect` join those of several services that state one promise.

`MC_*.tla` give the constants values; every operator named in a comment as a seeded fault is a
plausible bug that the mutant list swaps in to show that the property would catch it.

## 4. Runs

| Run | Instance | Distinct states | Shows |
|---|---|---|---|
| `contacts_concurrent` | child and teen, one parent, 2 rows, 2 sessions | 16,142 | `ConsentBeforeContact`, `DecisionOnRecord`, `DecisionNeverReopened` and the refinement `KeepsPromise` under every interleaving |
| `contacts_sequential` | child, teen, adult, 3 rows, 1 session | 89,002 | `PairsAreConsistent` (one live row per pair; a block leaves no other), `DecisionFinal` |
| `contacts_block_stands` | 1 session | violated | a denial turns a block into a rejection |
| `moderation_concurrent` | a child's post, 1 entry, 1 appeal, 2 sessions | 153,327 | `ListedWasClean`, `AppealOfRejection` |
| `moderation_sequential` | a teen's message, 1 entry, 2 appeals, 2 assignments, 1 session, reviews | 2,011,346 | `OutcomeOnRecord`, `OneOfEach` (appeal per user, open assignment), `SettledStays` |
| `moderation_takedown` | 1 session | violated | content that was taken down stays listed |
| `budget_sequential` | 1 member, Friday and Saturday, 3 budgets, 1 session | 326,613 | `OneOfEach` (budget block, pending request per rule), `MinutesCounted`, `BlockFollowsBudget` |
| `budget_concurrent` | the same, 2 sessions | 960,594 | `NeverOvercharged`, `ApprovedIsLifted` |
| `alerts_concurrent` | 1 alert, 2 sessions, scheduled | 19,385 | `AcknowledgedIsQuiet`, `AcknowledgementStands` |
| `services_safety` | each of the 21 services, 2 sessions (interchangeable: symmetry), overlapping and not, 1 member | 543,116 | every safety property of the services |
| `services_live` | the four that jobs and alarms drive, 1 session, 2 members, 1 capture, 2 rows or events | 21,854 | `JobsTakeEffect`: requests for erasure and export are served, old rows deleted, rules take effect, unless an obstacle that the property names; `QueueDrains` |
| `retention_deletes` | as `services_live` | violated | once a parent has looked at the policies no old row is ever deleted |

*Why these bounds.* Every safety property speaks of one row, or of the rows of one pair, entry,
member, alert, code or queue, and sessions interact only through rows; so one row set is the place
where they meet. Two sessions make every race of a read with a foreign commit; a third would add a
second foreign commit, which the first may make itself by running again (a worker is reused). A
second row is there where the code looks for one: two request keys and a limit of one (the limit,
and one beyond it), three memberships and a cap of two, two tokens of one code, two Stripe
subscriptions of one group, three sockets of one user (the old one, its successor and a further
connection), three reports and a queue of two (the first eviction), two pupils for a rule for
everyone. Two dates are the least for a midnight; with three usage records, one of which has a
different day in UTC and on the device, every case of the day of a sync occurs. An account with a key from before the encryption and one connected after it, a provider that is asked for times and one that is asked for days, two hours with a midnight and a new month between them, and a first window of one, give every order of syncs and errors, days that are asked for again (by a second sync at the end of the second hour), and a window that lies across two months (after a sync at hour zero); two reminders the first and the second list; a limit of one in a window of two, over four instants, a window that fills, refuses and empties, and a request that comes after a later one; three sockets and timers an old one, its successor and a stray. Three
rows are the least at which a pair has contacts both ways beside a second contact. Where a theorem
exists (section 6) the bound does not matter.

*Bounds by name.* `MaxRequests`, `WindowLength`, `MaxReconnectAttempts`, `MaxQueue`, `MaxRetries`,
`MaxGeofences`, `Cap`, `BypassThreshold` and `ExtensionLimit` are limits of the code with smaller
values; `MaxBlocks` and `MaxBypassBlocks` bound the active blocks of one member, and the sets of
primary keys the rows of a table. `LastHour` and `LastInstant` end the clocks; no sync begins once
an hour was recorded `MaxRecorded` times; the mails of one reminder are counted up to two, and
sockets with timers up to the number of `WebSocketId`.

*Sequential-only properties.* `PairsAreConsistent`, `DecisionFinal`, `OneOfEach`,
`OutcomeOnRecord`, `SettledStays` and `MinutesCounted` hold with one session at a time; TLC refutes
each with two, because the code checks and then writes without a lock. So do, in the services, the
conjuncts behind `~overlap`. What survives any interleaving is what the concurrent runs and the
conjuncts without it check.

*Deadlock* is not checked where every row can be settled for good, the tables are full, or every
event was captured: the system may stop there. It is checked in the time budget and alert runs,
which never stop.

## 5. Fairness

- `WF(Rollback)`, `WF(CronEnds)`, `WF(EvaluateEnds)`: a session ends. `get_db` closes each one,
  whether its handler finished or failed.
- Jobs: `SF` of each step of the job, per worker: time budgets and automatic rules (every five
  minutes), `DataRights` (hourly), `Retention` (daily). The cron of `render.yaml`
  starts them whatever happened before (`run_job` swallows errors), and a run that is interrupted is
  followed by another. Strong fairness is needed because requests use the same workers; it says that
  not every run is cut short.

- Moderation and alerts: none. What would have to happen there (a background review, another
  mail) is started by nothing in `src/src`, so no liveness is claimed.
- Uplink: `WF(FlushBegins)` (the extension's alarm rings every minute), `WF(SendEnds)` (a fetch is
  answered or fails) and `SF(FlushSent(w, TRUE, TRUE))`: a server that is asked again and again
  answers a flush. Nothing is assumed of captures, restarts or the cache and app, whose queues
  nothing in the repository empties by itself.
- Nothing is assumed of midnight, expiry, devices, parents, children, moderators or Stripe.

In `services_live` a fairness condition concerns a step of the service that runs (`Runs`).

## 6. Proofs

All leaves are checked by SMT, Zenon or LS4. Every safety invariant and every action property
that a passing run checks is stated by a theorem: TLC shows it on the instance of section 4, the
theorem for every value of the constants. The pattern is the same throughout. A property of the
tables is not inductive, because a session writes later what it decided on what it read; the
inductive invariant adds, for every open session, what is still true of what it read. Two kinds of
such facts recur: those that nobody else can undo (a row that was read stays; `...Backed`), and
those that only a session that runs alone can rely on (the count, the flag or the status is still
what was read; `...Current`, behind `~overlap` or `OneSession`). A step that reads changes no table
and one session; a step that commits ends one; one lemma for each, and one per action.

**Contacts_proofs** (every set of users, rows and sessions): `TypeCorrect`, `Consent`,
`Record`, `NeverReopened`. `ConsentBeforeContact` is not inductive: a session about to write
"accepted" must have a right to. `IInv` adds what open sessions have established:
`ResponseBacked` (a response that will accept a child's request has an approval on record, and
approvals are never removed), `DecisionBacked` (a decision in flight concerns rows of the
caller's own children), `BlockBacked`, and `UnaskedIsBlocked` (a child's row that asked no
parent came from `block_contact`, and no response can reach it).

The same module proves the refinement, `Promise`: Contacts implements ParentalConsent. Two facts
beyond `IInv`: only a child's row asks a parent, and decisions are recorded for existing rows only,
so that a new row inherits no consent. Each commit is then one abstract step: an insert files, a
batch of approvals consents to all its requests at once, an acceptance connects, and refusals,
denials and blocks disconnect; reads stutter.

Last, one session at a time: `OneStoryPerPair` (`PairsAreConsistent`) and `DecisionIsFinal`.
The hypothesis `OneSession` (no two workers) is that of the sequential runs, and TLC refutes both
without it. `SeqInv` says that the other rows of a pair with a live one are rejected, and that a
session has read what the pair and the request still are; `send_request` inserts only beside
rejected rows, and a block deletes or converts what is left.

**Moderation_proofs** (every number of contents, entries, appeals and concurrent sessions):
`TypeCorrect`, `OnlyCleanIsListed`, `AppealsAreOfRejections`. `IInv` says that what a session has
read is there (`Backed`; rows and decisions are never removed), that the session of an appeal has
found a recorded rejection, and, for that, that every rejection is on record
(`RejectionsOnRecord`), a ruling's included: it restores one that the appeal was against. With
`OneSession`: `OutcomesHaveAuthors` (`OutcomeOnRecord`), `NoSecondRow` (`OneOfEach`) and
`SettledStaysSettled`. `SeqInv` adds that approvals and takedowns are on record, too, that two
open assignments of one entry or two appeals of one user are one row (as equality of rows, from
which the cardinality follows), and that what a session is about to settle is still open.

**TimeBudget_proofs** (every set of members, dates, budgets, rules and requests, and any number
of sessions and overlapping runs of the job): `TypeCorrect`, `OnlyReportedIsCharged`,
`ApprovalLifts`. A report writes what it has read plus its own minutes, so `Backed` says that what
it has read was reported; lost updates lose minutes and never make any. The rule of a request is a
row with a request, which is no `FreeRule`, so no block takes its key, and all other writes to it
deactivate it. With `OneSession`: `EveryMinuteCounts` (`MinutesCounted`: no report is lost, also
when midnight falls between its read and its write) and `NoSecondRow` (`OneOfEach`).

**Alerts_proofs** (every number of alerts and overlapping sessions): `TypeCorrect` (with
the bound on the stored counter), `Quiet`, `Acknowledgement`. `IInv` says of each row that a
mailed alert waits for no digest, that only mailed alerts are scheduled and that the
acknowledgement of a mailed alert shows; and of each session that a digest read unmailed alerts
and a run of the job open, mailed ones.

**Sessions_proofs** has the lemmas the services share: what `Begin`, `Continue` and `End` do to
`txn`, that without overlap a session that opens, or acts in one step, is alone (`OneOpen`), what
`Inserted` changes, and when a set has at most one element.

**Household_proofs** (any members, rows, providers, days and sessions):
- Location: `LocationTypeCorrect`, `TrackedWithLeave`. Alone, the switch, fence and consent that a
  session has read are what they are when it inserts.
- Capture: `CaptureTypeCorrect`, `OneAgreement`, `EventsConsented`. The active agreement that a
  session replaces is all there is; the consent and signature that an ingest found are in force.
- Bypass: `BypassTypeCorrect`, `ThirdAttemptBlocks`. Attempts age and blocks expire between the
  count and the insert, but ageing only takes an attempt below the threshold, and an expired block
  counts as one.
- Sharing: `RefusalHolds`. Sessions that overlap may mix their columns in a provider's row, yet
  whatever the mixture, a provider's only row says yes only where the last decision committed was
  to consent (`YesWasGiven`); alone, it also says yes wherever that was so (`GivenIsYes`).
- Learning: `LearningAddsUp`. Two rewards are more than a week apart, so that an assessment counts
  for one; a session has counted no more courses than will be assessed when it writes.
- DeviceUsage: `SummariesFollow`; Cases: `StepsKept`; GroupSettings: `SettingsAreKept`. In each
  the session's copy is part of what there will be, and alone is all of it.

**Accounts_proofs**:
- Joining: `JoinedWithLeave`. Whoever is about to add a member has read that there is a seat, and
  its pass is unused; alone, that is so at the commit, so the members of capped passes stay within
  the cap. That a pass was used exactly if it was redeemed needs no `~overlap`.
- Credentials: `CredentialsTypeCorrect`, `OneGrant`. For setup codes the unique index decides
  (`PairedOnce`, under any interleaving, registrations that name the code included); an exchange
  marks its code in the commit that inserts the device; a code still to be exchanged has no token, a
  token in hand is unrevoked at the commit, and a login's password is the present one.
- Subscriptions: `StripeIsFollowed`. Alone, a webhook that found no row of the group inserts the
  only one, and the status it writes is one that Stripe reported.
- IdentityProtection: `LinkedAccounts`. An account is closed before its link is cancelled, under any
  interleaving; alone, a session between the partner and the database knows the one account its user
  has open.
- Spend: `EveryHourOnce`. An hour is *dealt with* when it is in the records or among those whose
  error was taken for no use; what a session has read of an account is dealt with up to where its
  own window begins, so that its window leaves no gap. That needs of a provider only that it is
  asked for the whole window or more, which is so of every one but OpenAI; that no hour is there
  twice needs that it is asked for no more, and is stated of those that take a range of times. The
  first hour of the month or day of an hour is found as the least element of a set, by well-founded
  induction.

**Services_proofs** first proves the services that are left:
- ScreenTime: `ScreenTimeTypeCorrect`, `ExtensionLimitKept`. `RoomHeld`: as long as the session
  that counted is open the member has fewer requests than the limit. The step is a fact about
  cardinalities: an insert adds one row to today's requests, answering and midnight add none.
- DataRights: `DataRightsTypeCorrect`, and `Erased`, which holds with overlap, too: a row refers to
  a present member (`RowsNeedMember`, the foreign key), and the users a run will erase are among
  the members it removes (`AskedLeaves`).
- Realtime: `SocketsTracked`. A socket that has closed the one it replaces must still find no other
  up at its turn, as long as it is the only one of its user to connect.
- SocketClient: `SocketClientTypeCorrect`, `ClientStaysDisconnected`. Unless `connect` was called
  too early, at most one socket or timer is left, and the one that may still open is the one the
  object knows.
- RateLimit: `WindowIsKept`. Redis has evicted nothing that is in the window of the latest time it
  was told (`newest`), and a request that is refused takes only itself out of the set, so for a
  request that is not told late everything that passed in its window is counted with it; conversely
  whatever is in the set passed, is a stray, or is about to be refused. Requests overlap freely:
  only the last part of the theorem, on needless refusals, is behind `~overlap`.
- Uplink: `QueuesAreFaithful`, with an invariant for each queue (`UplinkInv`). *Extension*: unless
  disturbed, at most one flush is on its way and has in hand the event at the head of the queue, so
  what it takes away after the answer is what was sent. *Cache*: the room argument. A call that has
  made room or found it will add one event, so the events stored and the calls adding together
  stay within the limit and `Slack`, the number of other calls that may overlap; a call that counted
  `count` events evicts `count - MaxQueue + 1`, which is enough because since its count the store
  has grown only by calls it overlaps with. *Apps*: during a replay the queue to be is what is
  still to send and what was kept, disjoint, without repetition and with nothing confirmed in it
  (`ReplayStands`); the queue itself will be overwritten and matters only afterwards.
- Retention and AutoBlocks: their types, on which their liveness rests.

Then it proves of `Services`, the specification of the runs: `ServicesTypeCorrect`,
`WithdrawnStaysWithdrawn`, `EveryRecordAddsUp`, `EachKeepsItsOwn`, `NoStepWithoutLeave`.
`ServicesInv` says that the service that runs keeps its own invariant and that the tables of all
others are as at first; each service has a lemma that a step of any of them keeps its part
(`<Module>Serves`), so the theorem of one carries over to the composition, and what nobody has
touched satisfies the property of its own accord.

*Assumptions used.* Types of the constants (`TierAssumption`, `ParentAssumption`,
`MaxAssumption`, `DayAssumption`, `SettingsAssumption`, `LengthAssumption`,
`ExtensionLimitAssumption`, `MaxGeofencesAssumption`, `CapAssumption`, `BypassAssumption`,
`MaxBlocksAssumption` and the like: a limit is a number, where the code divides or compares with
one a positive one); that keys such as `NoRow` and `NoUser` are no rows, users or agreements
(`RowAssumption`, `AgreementAssumption`, `LocationAssumption`, `PassAssumption`,
`AccountAssumption`, `SocketAssumption` and the like: a null is no value); and that what is
counted is finite (`Usage`, `Course`, `WebSocketId`, and `Worker` in Uplink: the calls that await
at one time). TLC evaluates them in the runs. `OneSession` is a hypothesis of the seven theorems
named above and of nothing else.

*Model-checked only.* Liveness and everything that speaks of fairness is out of the prover's
reach: `BlockFollowsBudget`, `JobsTakeEffect`, `QueueDrains`. No safety property of a passing run is left to TLC alone.

## 7. Disagreements between the code and what it says

Found by a run (`PROJECT.json`, "findings"): a denial lifts a block
(`contacts_block_stands`); a takedown does not unlist (`moderation_takedown`); nothing is
deleted any more once a parent has looked at the retention policies (`retention_deletes`).

Met while reading, without a run of their own; many are why a property says `~overlap` or names
an exception.

*Contacts, moderation, conversations*
- Two rows of one pair (one rejected, one new in the other direction) make `block_contact` raise.
- `max_contacts` is counted when a request is sent, not when it is accepted
  (`contacts/service.py:96`); any number may be accepted.
- A teen's "published" post is never listed, as the listings ask for "approved".
- A second submission of one content gives two entries, and its takedown then raises. Two appeals
  or assignments made at once make later ones, or bulk actions, raise.
- `run_post_publish_moderation` has no caller, though `moderation/service.py:337` says that the
  review of a teen's published content "runs afterward"; nor has `process_backlog` (`risk/worker.py`).
- `list_conversations` shows the latest message as a preview whatever its status
  (`messaging/service.py:168`), while `list_messages` shows approved messages only (`:421`). A new
  message is published before the commit and whatever moderation will decide, though the pipeline's
  design says that the gate holds delivery until then: `_publish_to_realtime` names no room and is
  dropped by the bridge, but `_publish_message_event` (`:515`) names the conversation's.

*Blocking and alerts*
- Two reports of usage at once lose the minutes of one; two saves of a budget mix. A budget that is
  disabled while its block is active leaves the block for good. A budget of 0 minutes is no limit to
  the enforcement, though `check_time_budget` reports it exceeded.
- Two overlapping runs of the enforcement block a member twice; `jobs/runner.py:5` says that a lock
  in the database prevents it, and none is taken.
- An automatic window over midnight never applies (`blocking/service.py:374`), and its time zone is
  ignored. The cron reads `active`, the settings write `enabled`; rules of the newer form carry only
  `trigger_config`, which the evaluation never reads. A rule that has fired cannot be deleted.
- An expired bypass block counts until the extension polls.
- Nothing calls `schedule_renotification` (`alerts/scheduler.py:90`), "Called after an alert is first
  sent", so no alert is ever re-sent. The job takes 50 due alerts in no order; a digest can overwrite the
  acknowledgement of an alert that was never mailed; snoozing holds nothing back; overlapping runs
  mail more than three times.

*Screen time, location, capture, compliance*
- Approved extensions are never used by `evaluate_usage`, nor are schedules.
- `purge_expired_locations` and `check_geofence` have no caller. Activating an active kill switch
  writes nothing, so a concurrent deactivation wins. A geofence takes its attendance records along.
- `create_content_capture` checks no consent, though its comment asks for "enhanced_monitoring",
  and an encrypted capture never reaches the pipeline.
- `create_data_request` writes an audit entry for a group that does not exist, against a foreign
  key: on PostgreSQL no request is ever filed (`AuditGroupChecked`; the runs take the tests'
  database, where it is). An export that fails stays "processing" for ever.
- A refusal of third-party sharing does not reach a consent row inserted after it looked; two first
  views make two rows, on which later updates raise.
- Workflow steps of a case complete in any order, also when it is closed. A device record of the
  last second of a day is in no day's sum (`device_agent/service.py:244`), although the summary is
  said to be of "all AppUsageRecord entries" of the date; `On` leaves it out.
- No run of the retention deletes a risk event with a human review or an appeal, nor a capture with
  a summary, even if excerpts have no policy: the DELETE meets the foreign key.

*Groups, authentication, billing*
- An expired invitation stays "pending": the status is written, then the error rolls it back.
- Codes, approvals and the roster ignore the member cap; invitations and codes admit a person who
  is a member already, after which `get_group` raises; a soft-deleted group still admits people; a
  directory sync duplicates a member without account every day until the cap.
- An approval token is spent in Redis even if the parent has no group (`auth/service.py:802`).
- `register_device` takes any setup code, also one that nobody made, and marks none as used: the
  code is then spent for its exchange, which meets the unique index.
- `_auth_codes` lives in the memory of one process and is lost at its restart.
- A group whose subscription is past due or canceled gets a second row, on which
  `get_subscription` and the webhooks raise; two checkouts before the first webhook orphan a
  Stripe subscription; a redelivered update revives a canceled row.
- Spend synchronisation passes encrypted credentials to the providers (`billing/scheduler.py:151`),
  so an account connected by `connect_llm_account` is refused and goes to "error";
  `get_llm_account_credential`, which its comment says the sync uses, has no caller there. The
  providers log an HTTP error and answer with no entries, Anthropic after some pages with those, and
  `last_synced` moves past it. An entry counts for the month in which its window began.
- `sync_account` "Fetches usage since last sync" (`billing/scheduler.py:137`). Anthropic and
  Microsoft are asked for whole days (`anthropic_client.py:53`, `microsoft_client.py:53`), so every
  hourly sync records the day so far again; OpenAI's old endpoint for one day
  (`openai_client.py:199`), so what follows a window's first midnight is never asked for.
  `SpendAddsUp` says of each provider what is left of the claim.
- `update_group_settings` updates preferences in the dictionary it has read, and SQLAlchemy sees no
  difference: saved by themselves they are lost once there are any. So is the second reminder in
  `trial_reminders.py`, and the mail that the trial has expired, the last of three, is sent again
  every day, though `:4` says "to avoid duplicates". `update_group` replaces the whole column, and
  with it the reminders sent and the COPPA review.
- After an identity-protection link was cancelled, every activation opens a partner's account and
  then fails on the unique index.
- `redeem_reward` has no caller; nor have, in `api_platform`, `record_usage`, `check_quota`,
  `check_rate_limit`, `deliver_event_to_subscribers` and `validate_access_token`, so nothing is
  metered or delivered, and a client that is deactivated keeps its tokens.
- A contribution to the intelligence network has a sample of one, and readers ask for five.

*Application shell*
- The key of the rate limit is the first 32 characters of the Authorization header, which all JSON
  web tokens of one kind share: those users have one bucket. A request that reaches Redis after a
  later one, or after the set has expired, is counted without what that has evicted. While Redis is
  away each process has a budget of its own; a member whose removal fails still counts.
- A panic report whose alert fails to flush is lost at the commit: the error is caught, the
  transaction is not rolled back.

*Clients*
- Extension: two flushes at once, or an eviction during one, drop an event nobody sent; one that the
  server refuses blocks those behind it; the queue is lost with the service worker. Apps: a
  request enqueued during a replay is overwritten. The cache and the replay have no caller yet.
- Realtime client: `connect` right after `disconnect` leaves two connections, as the old socket's
  `onclose` schedules one more; its timer cannot be cleared, and fires after a `disconnect`, too. A
  listener of `close` that connects has the same effect.
- The DNS proxy keeps the answer to the block check for a minute and lets through what it cannot
  check.

## 8. What is left out of the modelled parts

Texts, scores, classifiers and their thresholds (inputs are any combination of answers); content
reports and service-level metrics in moderation; alert channels other than email; digest windows
(one flag) and the 50-row limit of the job; a change of a budget's time zone; coordinates; roles and
names of members; plans and the dates of a trial; what an hour of use costs; the deletion of alerts
and of the audit log, which no foreign key stops, and the lengths of retention periods; whether
Anthropic's end date is a part of its answer (it is taken to be); how a partner or Stripe works,
beyond that a call may be lost on either way; what is said over a socket. Times are flags: a row is
fresh or not, old or not, of today or not.

The modules cover about a ninth of the implementation. The rest is, for the most part, not
protocol: request and response schemas and routers that pass their arguments on, reports and
views computed from stored rows, registers in which one request writes one row, scoring, template
texts and generated documents. A model of those would restate them.

## 9. Where the project could go on

In order of value: an abstract specification of one queue that the three clients refine; what the
services keep at the seam between two of them, whose tables the models hold apart (a group that
is deleted under an open invitation, say); messages from insert to socket; several processes that
share one rate limit.
