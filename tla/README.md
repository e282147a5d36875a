# Verification of optcg-price-tracker

TLA+ models of optcg-price-tracker: its concurrent core, the jobs and requests
around it, and the pure functions that decide what people are told. TLC checks
them on small instances and over bounded inputs; TLAPS checks theorems about the
concurrent parts for every instance, and about half of the calculations for every input.

The program tracks prices of trading cards. A Next.js front end (`apps/web`, a
thin proxy) talks to a FastAPI program (`services/api/app`); a Celery worker and
its beat scheduler (`services/worker/worker`) refresh prices and produce signals,
snapshots, reports and Telegram messages. The two Python programs share one
Postgres database (isolation READ COMMITTED, sessions with `autoflush=False`)
and one Redis (Celery's broker, and the api's response cache). They share no code:
the worker has its own copy of every service it needs, and the copies differ. All
coordination is by rows: leases in `job_locks`, statuses that one transaction
reads and a later one writes, unique constraints.

That is what is hard here. Almost every operation is *read, decide, write by
primary key*, over several transactions and often in two programs; requests give
up on tasks that go on; processes stop between a message and the row that records
it. A unit test runs one such operation at a time. The models interleave them.
The other hard part is arithmetic that exists twice or more: scores, signals,
values and checks that two programs, or two pages, compute in copies that are
meant to agree. A test fixes one input of one copy; the models compare the copies
over all inputs of a bounded kind.

## 1. Inventory

Paths are relative to `src/`; `api/` stands for `services/api/app/`, `worker/` for
`services/worker/worker/`.

| Component | State | Operations | Hard behaviour | What makes it correct |
|---|---|---|---|---|
| **Job locks** `api/services/job_locks.py`, `worker/job_locks.py`, `api/api/admin_job_locks.py` | one row per lock name: owner, status, `expires_at` | acquire (UPDATE guarded by status or expiry, else INSERT), release by owner, force-release, cleanup of expired rows | races of two programs over one row; holders that die, hang or outlive their TTL; admin actions that select, then update by key | an unlapsed, unrevoked lease has one holder; a late release harms nobody; a dead holder blocks for its TTL only |
| **File jobs** `api/services/file_jobs.py`, `file_job_storage.py`, `api/api/file_jobs.py` | `file_jobs` rows, uploaded and generated files, the deferred task | create, run (start, checkpoints, batches, complete or fail), cancel, cleanup | cancel against start and complete; cleanup against download; restart of the process that holds every task | success means the work is done; cancelling works; every job ends |
| **Market signal events** `api/services/market_signal_events.py` and its worker copy, `api/api/market.py` | `market_signal_events` by `dedupe_key`: status, timestamps | snapshot (read, upsert, resolve the missing), dismiss / watch / resolve / PATCH, retention | two snapshots of two programs; a user between a snapshot's read and its write | a dismissal is final for snapshots; events follow the market |
| **Response cache** `api/services/cache.py`, `api/api/admin_cache.py` | Redis or a dict per process; the development fallback | get-or-load, delete by prefix, clear | a load that overlaps a write; Redis going away and coming back; one memory per process | bounded staleness; an answered write is visible |
| **Telegram digest** `api/services/telegram_market_digest.py`, `worker/market_report_digest.py` | one send row per report and destination | look up, send, upsert | no transaction spans the message and its row; the worker's copy takes no lock | `sent` is true; one message a report; it arrives |
| **Market workflow and price refresh** `worker/jobs/run_market_workflow.py`, `refresh_prices.py`, `worker/celery_app.py`, `api/services/*_trigger.py`, `api/api/admin_actions.py` | `price_refresh_runs`, `market_workflow_runs`, task results, two locks, cached responses | scheduled, requested and nested refreshes; workflow; full refresh | nested locks in two processes; requests that time out; steps that fail one by one | sections exclude each other; success is complete; a refused job did nothing; all ends |
| **Alerts** `worker/jobs/check_alerts.py`, `api/api/alerts.py` | `alert_rules`, `alert_events` | evaluate rules, deduplicate in a 24 h window, send, one commit | crash after the sends; a failed send counts as a duplicate; no lock | each cause is told once, and told in the end |
| **SNKRDUNK candidates** `worker/jobs/discover_snkrdunk.py`, `import_snkrdunk_candidates.py`, `ingest_snkrdunk_candidate_prices.py`, `worker/matching/`, `api/services/card_matching.py`, `api/api/snkrdunk_candidates.py`, `admin_snkrdunk_matching.py` | `snkrdunk_candidates`, `source_card_mappings`, `price_observations` | discover, auto-match, rematch, approve / match, reject, ingest | two review APIs that find a mapping by different keys; automatic against human decisions | human decisions are kept; a matched candidate has its mapping; one observation a candidate |
| **Source mappings** `api/services/source_mapping_confidence.py`, `api/api/source_mappings.py`, `admin_source_mapping_quality.py` | `source_card_mappings` | approve, reject, bulk actions, replace card, recheck | legal sequences that leave status, active flag and verification inconsistent | rejected mappings are inactive |
| **Card merge** `api/services/card_identity_merge.py`, `api/api/admin_card_merge.py` | `cards` and all tables that name a card | preview, execute | two merges at once (opposite directions, chains); rows inserted meanwhile | the graph of merges is acyclic and ends in active cards; what a merge moves is on no retired card |
| **Data retention** `api/services/data_retention.py`, `worker/data_retention.py` | every table with a policy | select candidates, delete by id | thinning rules at boundaries; select against concurrent writers | the last price of a series survives; one row a day or week is kept |
| **Backup and restore** `api/services/backup.py`, `api/api/admin_backup.py` | all user tables | dump, validate, restore (merge or replace), reset sequences | deferred self references; writers that know nothing of the restore lock | a restore is all or nothing and leaves no dangling reference |
| **Rate limit** `api/core/rate_limit.py` | one counter per group and client | check, log once | fixed windows at their boundary | at most the limit in each window |
| **Saved views** `api/services/saved_views.py` | `saved_views` | CRUD, set default | two defaults set at once | one default per page |
| **Catalog import and validation** `api/services/card_catalog_import.py`, `import_validation.py` | `cards` | parse, forecast, dry run, upsert rows | two implementations of the same rules; rows that meet in one file | what was forecast happens; a repeat changes nothing |
| **Collection, wishlist, grading** `api/api/collection.py`, `wishlist.py`, `api/services/*_csv.py`, `wishlist.py`, `grading.py` | user tables | CRUD, purchase, CSV files | requests that look before they write, with no constraint behind them | one wanted entry per card, condition and source |
| **Analytics, search, dashboard, valuation** `api/services/market_signals.py`, `market_report.py`, `opportunity_scoring.py`, `portfolio_risk.py`, `*_analytics.py`, `*_optimizer.py` and the worker's copies | none of their own | compute | copies of one formula; values that are missing; sums beside their parts | copies agree; lists add up; advice follows the data |
| **Card audit and system check** `api/services/card_audit.py`, `system_check.py` | none | report | issues that one report shows and another hides | what is wrong is shown, and goes away once it is put right |
| **Startup and environment** `api/core/env_validation.py`, both `settings.py` | the environment | sweep, parse, start | a sweep in two copies beside the parser it forecasts | what passes the sweep starts |
| **Logging, activity** | append-only rows | append, read | | |
| **Collectors** `worker/adapters/` | none | HTTP, HTML parsing | the outside world | |
| **Web front end** `apps/web` | none that outlives a page | proxy | | |

How they interact: the workflow takes `market_workflow` and, inside it, the
refresh takes `price_refresh`; the refresh writes prices, signal events, portfolio
snapshots and a report; the workflow then sends the digest of the latest report;
beat's tasks check alerts after a refresh. The api's request queues a task, waits
for its result up to 25 seconds (45 for a workflow) and drops the cached responses that the task
has made stale. Full-market-refresh holds `market_workflow` in the api while the
worker does its refresh. Retention and restore write tables that all others use.
Reviews of candidates write the mappings from which refreshes take their prices;
merges, retention and restores rewrite the rows that all the reports read.
`PROJECT.json` lists the hazards with their lines.

## 2. Modules

| Module | Models | Run | Proved in |
|---|---|---|---|
| `ExclusiveLease` | the abstract lock that everything above relies on | (as property) | |
| `JobLock`, `MCJobLock` | the lock table statement by statement | `job_lock` | `JobLockProofs` |
| `FileJobs` | background jobs of the api | `file_jobs` | `FileJobsProofs` |
| `SignalEvents` | signal events and their four kinds of writers | `signal_events`, `signal_events_copies` | `CalculationsProofs` |
| `Cache`, `MCCache` | the response cache over two backends | `cache` | `CacheProofs` |
| `DigestSend` | both programs' digest | `digest_send` | `OperationsProofs` |
| `MarketWorkflow`, `MCMarketWorkflow` | both jobs, their requests and locks | `market_workflow` | `MarketWorkflowProofs` |
| `Candidates` | candidates and mappings under runs, rematches and people | `candidates`, `candidates_mappings` | `CandidatesProofs` |
| `CardMerge` | merges of cards statement by statement | `editing` | `EditingProofs` |
| `SavedViews`, `Wishlist` | what people edit in overlapping requests | `editing` | `EditingProofs` |
| `BackupTables`, `Backup` | the tables and foreign keys; backups and their restores | `editing` | `EditingProofs` |
| `Editing`, `MCEditing` | these four side by side | `editing` | `EditingProofs` |
| `Alerts`, `Ingestion`, `Retention`, `RateLimit` | jobs and guards that run for years | `operations` | `OperationsProofs` |
| `Operations`, `MCOperations` | these four side by side | `operations` | `OperationsProofs` |
| `ItemImports`, `CardImports` | files of items and of cards | `calculations` | |
| `CardIdentity`, `Matching` | scores of duplicates and of matches, quality of mappings | `calculations` | |
| `Market`, `WorkerMarket` | signals, scores, valuation and report: the api's, and the worker's copies | `calculations` | |
| `Decisions`, `Analytics`, `PortfolioRisk` | advice, pages, risk report and digest | `calculations` | |
| `Coverage`, `CardAudit` | health of sources, gaps, audit and system check | `calculations` | |
| `Environment` | the sweep in both copies, the settings and who starts | `calculations` | |
| `Calculations`, `MCCalculations` | all of these side by side | `calculations` | `CalculationsProofs` |

`MarketWorkflow` composes: it uses the lock at the level of `ExclusiveLease`
(a holder per lock that may lapse once its owner is dead), which is what
`JobLockProofs` shows the table to implement, and it is shown in turn to be an
exclusive lease for each of its two nested sections. `Editing`, `Operations` and
`Calculations` only put independent parts side by side: `part` or `kind` chooses
one at the start and the variables of the others keep the value `Unused`.
`Editing` EXTENDS `CardMerge` and instantiates the others; `Operations` and
`Calculations` instantiate all of theirs. They are specifications for any constants, about which theorems are proved;
`MCEditing`, `MCOperations` and `MCCalculations` give the constants that TLC needs definitions for. In
these runs the type invariant of a part is a conjunct of one of its properties and of
the theorem about it; elsewhere it is the theorem `TypeCorrect`
(`EventsTypeCorrect` for `SignalEvents`). `SignalEvents`, `FileJobs`,
`DigestSend` and `Candidates` are run as they are, with the constants of their `.cfg`.

Conventions. A step ends where a session commits or where it has read what another
session may change before it writes. The ORM writes only the columns that a step
assigns, by primary key; that is why a stale read is a value kept in a variable of
the reader (`seen`, `read`, `stale`, `doomed`, `loaded`, `had`). A history variable (`revoked`,
`quiet`, `excused`, `late`, `missed`, `decision`, `human`, `raced`, `told`, `overlapped`) is
never read by an action's guard. Operators
named `X_Something` and marked *Mutant* are broken versions of `X`, used to
confirm that a property fails when the code does; no specification uses them.

### JobLock

State: `row[l]` is the row of lock `l` (status, owner, time left); `pc[r]` is where
a run is in `with_job_lock`; `age[r]` how long ago its call read `now`;
`lease[r]` what it believes it has left; `forcing` and `stale` what an admin's
request or a cleanup has selected; `revoked` the runs whose row was taken away.
Time is relative, so the state space is finite without a horizon: `expires_at <= now`
with a `now` read up to `Lag` ticks ago is `left + age <= 0`.

Actions: `AcquireStart`, `AcquireSwap` (the guarded UPDATE), `AcquireSelect` (the
SELECT after it matched nothing), `AcquireInsert`, `Release`, `LeaveHeld` (death, or a
release whose statement fails), `ForceSelect` / `ForceUpdate`, `CleanupSelect` /
`CleanupMark`, `Tick`.

* `job_lock`: three runs, two locks with TTLs 3 and 2, `Lag` 1, an admin, a cleaner.
  `NoTwoEntitled`: mutual exclusion of the runs that are within their lease and not
  revoked. `ImplementsLease`: refinement of `ExclusiveLease`. `EveryAskerWorks`: a run
  that keeps asking gets the lock.

Bounds: two runs of one lock suffice for a takeover, a third is the run of another
lock. TTL 3 with Lag 1 has states where a lease is fresh, ageing, lapsed, and lapsed
for a caller whose `now` is old. Fairness: `WF` of `Tick` (time passes) and of `Acquire(r)` (a call goes
on with its statements, and a refused job is run again: beat's schedule and
users do). No fairness on `Release`: a job may hang for ever.

### FileJobs

State: the row, the task of each job (`proc`: `waiting`, `loaded`, `started`,
`working`, `chunk`, `tail`, `written`, `recorded`, `cancelling`), uploads, outputs
(`partial`, `whole`), committed imports, each cancel request with the row it read, the
cleanup with what it selected. A task ends by returning (`off`), with its process
(`lost`), or by an exception that no handler records (`broken`: the reads and the start
before the inner try, and the handlers' own statements), which leaves the row as it is.
A job's data are abstracted to whether its one batch, or its file, is there.

* `file_jobs`: `SuccessIsBacked` (success only with the rows committed, and never
  with a partial file), `CancelledIsNotTakenUp` (a task that has yet to read its
  cancelled job does not work on it; a task that read it before the cancellation
  starts it all the same, the one exception), `RequestHonoured` (a recorded
  request that is there at a checkpoint ends the job), `EveryJobEnds`.

Bounds: one import and one export, as both ways of working differ (a backup is an
export without a checkpoint in its loop; the proofs cover it); one canceller, which
asks any number of times; restarts at any moment, any number of them. The rows of
an export are the loop `chunk`-`tail`, unbounded. Fairness: `WF(Work(j))`, since a
task once scheduled is run by the process, and `SF(CloseOutput(j))`, since an export
has finitely many rows. `Restart` and `Break` are unfair, and the liveness properties
except the jobs they have ended (`proc = "lost"`, `"broken"`): their rows stay queued
or running, and nothing in the code picks them up again.

### SignalEvents

State: the event of each key (status, two timestamps, old enough for retention),
the signals the market gives rise to, each snapshot with what it has read and
decided, each request with the row it read, the rows a prune has selected. A snapshot
flushes its writes before it looks for vanished signals, so it holds row locks from
there to its commit: `Writable`, `WritableBy`. An INSERT of a key that exists by now, or
an UPDATE of a row that is gone, rolls the snapshot back.

* `signal_events`: `DismissalKept`: a dismissal made while no snapshot is under way
  outlasts all later ones, whatever the market does. `EventFollowsSignal`,
  `EventEndsWithSignal`: events follow the market in both directions.
* `signal_events_copies` (disagreement): `EventStaysWithSignal`. The worker computes
  every kind of signal but one, so each of its snapshots resolves the events of that
  kind that the api has opened.

Bounds: one key, since neither a snapshot's writes nor a request relate two keys
(snapshots that lock rows in different orders end in an abort that
`Abort` covers); one snapshot, of the worker, which takes no lock; one user, whose
PATCH dismisses. Overlapping snapshots of both programs are covered by the theorem,
which is about any number of them. Fairness: `WF(Start)` for the schedule, `SF` of the
other steps: a snapshot may fail any number of times but not for ever.

### Cache

State: the content of Redis and of each process's memory (`store`), whether Redis
answers, which processes have fallen back to their memory (development), the
database's `version` and the newest one whose write was answered (`acked`), how long
ago each version was superseded (`since`), each read between its look-up and its
store. One key stands for one prefix with its responses.

* `cache`: `StalenessBounded`: an entry's content was superseded no longer ago than
  the entry has lived plus the time of one load. `AnsweredWriteIsSeen`: after an
  answered write no backend holds an older response, except for the two causes it
  names (a load that was under way, a failure of Redis).

Bounds: two versions, two processes, two readers, one of them in the process without
a writer, `TTL` 2, `Lag` 1. Two versions suffice to be stale; a second process is needed
for the fallback. No fairness: only safety is claimed.

### DigestSend

State: the latest report, the status of each report's row, each execution
(`looking`, `sending`, `writing`, with the row it saw), how often a report was
delivered, and `excused`, the reports for which something happened that the code
cannot compensate: a forced send, an overlap with the worker's unguarded execution, a
lost answer of Telegram, a crash between message and row.

* `digest_send`: `SentWasDelivered`, `OnceUnlessExcused`, `LatestArrives`.

Bounds: two executions of the api and one of the worker, one report, since reports are
independent but for `latest`; the proofs are for any number. Fairness: executions
begin again and again (`WF(Begin)`), and Telegram does not refuse for ever
(`SF(Look)`, `SF(Deliver)`, `WF(Write)`).

### MarketWorkflow

State: each task (`step`, dry run, products made, its result), the two run tables, the
api's request that waits for the task, the holder of each lock, and the cached
responses that predate a task's commits (`unseen`). Actions follow the two jobs:
`Begin`, `OpenWorkflow`, `Enter` (the lock of the refresh), `OpenRefresh`, `Fetch`,
`CloseRefresh`, `Produce` (signals, portfolio, report; each may fail alone), `Leave`,
`Digest`, `Finish`, `Exit`. A failed `Fetch` may have committed its prices, if what raised
is an adapter's close (`refresh_prices.py:283-291`). `RefreshRaises` and `Break` (the task or its process fails);
and the requests: `Request`, `RequestFull`, `Timeout`, `Refused`, `Answer`, `Follow`,
`FollowDigest`, `Respond`, `RequestDies`. `Pool` bounds how many tasks the worker runs.

* `market_workflow`: `RefreshesExclude`, `WorkflowsExclude` (the sections implement
  `ExclusiveLease` and hold one job at most), `SuccessIsComplete`, `ConflictDidNothing`,
  `NoStrandedRun`, `AnsweredRunIsSeen`, `EveryTaskEnds`, `EveryRequestEnds`.

Bounds: a workflow and a full refresh: they use both locks in both programs, nest
them, and each runs once. Half a million states, two to three minutes; the theorems are
for any jobs, bare refreshes too. `CHECK_DEADLOCK FALSE`, as every job runs once and
the system then stops. Fairness: tasks, replies and timeouts go on.

### Candidates

State: the candidates (status, matched card), the mappings (card, listing, active,
verified, review status), and every session with the rows it has loaded (`loaded`,
`had`), what it wants them to be (`want`, `put`), and new rows it has flushed or not.
A commit writes the columns that differ from what was loaded, whatever the table says
by then; that is how a stale read overwrites. Sessions are discovery and import runs
(`Row`, `NextPage`: a flush, one commit at the end), rematches (`Rematch`, `Ranked`),
and requests: `ApproveMatch` and `Match` (the two review APIs, which look for a mapping
by different keys), `Reject`, `Review` and `BulkReview` of mappings. `Commit` / `Abort`.
History: `decision` and `human`, what a person last left, dropped (`Raced`) when another
session had the row in its hands.

* `candidates`: `DecisionKept`: what a person decided of a candidate stands, whatever
  runs and rematches do afterwards. `UnreviewedIsFlagged`: a mapping is as a person left
  it or says that it needs review.
* `candidates_mappings` (disagreement): `OneMappingPerCard`. Two listings approved for
  one card leave two mappings, and every later look-up by card raises.

Bounds: two candidates, one card, one run, one rematch, one user, two mappings, two open
sessions (about 890,000 states). Two candidates of one card are what makes look-ups by
card and by listing differ; two sessions are a race, and the theorems are for any number.

### CardMerge, SavedViews, Wishlist, Backup (`Editing`)

* `CardMerge`: requests `Begin` (load both cards), `MoveTable` (one UPDATE per table, in
  the order of the code), `MoveTags` (which leaves a tag that the target has where it is),
  `Commit` (which also gives the target aliases), `Abort`; the rest of the system adds and
  removes rows. `MovedTables` are the tables with an UPDATE: source mappings, collection
  and wishlist items, notes, signal, alert and activity events. `LeftTables` are the others that
  name a card and that no step touches: price observations, aliases, SNKRDUNK candidates.
  `RowsFollow`: a row of a retired card came late, two merges met there, or it is in one of
  `LeftTables`; without that exception, which contradicts the docstring (section 4), TLC
  finds it violated. `MergesEnd`: no cycle without a race. Bounds: 3 cards, 2 merges, one moved
  table and one left with a row each, two rows of tags.
* `SavedViews`: choices of a default (load, clear the others, commit), creation, deletion.
  `DefaultIsChosen`: a page has the default chosen last and no other, unless choices
  overlapped. Bounds: 3 views, 2 pages, 2 requests.
* `Wishlist`: create, update, whole files in both modes (look, then commit), purchase,
  delete. `OneEntry`: one wanted entry per card, condition and source, but for the three
  exceptions it names. A merge of cards moves wishlist items without looking for
  a conflict (`card_identity_merge.py:754-756`): that way to a second entry is outside of
  this module. Bounds: 3 entries, 2 keys, 2 requests, files of up to two rows.
* `Backup`: the real graph of foreign keys (`BackupTables`) with its deferred references,
  cascades and order of tables; export with any selection, validation, restore in both
  modes. A restore is one step, as it is one transaction: table by table `Accepted` asks
  what is there before it is written. `ClosedBackupRestores`, `LossIsWarned`. Bounds: a
  table has no row or one; databases with one row or one optional reference and what it
  needs, an empty and a full one; five selections; the file or the database changes once
  between export and restore. The theorems are for any database and selection.

The run has 2.2 million states. It takes no liveness: nothing retries here.

### Alerts, Ingestion, Retention, RateLimit (`Operations`)

* `Alerts`: the seven types of rules over one card; a check examines the rules, sends
  message after message and commits all events at the end. Sends fail, are delivered, or
  both; checks overlap and die; prices and rules change. `NoRepeat`: no second message of
  one cause within the window, and of a failed refresh none ever, unless a check died or
  overlapped. Bounds: two markets, every rule alone and two together, 2 processes, two
  checks or changes in all, window 1, time 2.
* `Ingestion`: candidates as loaded against candidates as they are; one commit.
  `ObservedOnce`. Bounds: 2 candidates, 2 jobs, one edit.
* `Retention`: the four shapes of a policy. A price observation may bear any earlier time,
  as an ingestion stamps the candidate's, and may be written anew after it was pruned. A
  prune takes its time and the protected rows, chooses, and deletes, each in a step of its
  own; two may overlap (the lock's lease lapses, and there is a way to skip it).
  `LatestSurvives`: the latest price stays, unless it came, late by more than the fresh
  window, between the two readings of a prune (`raced`; TLC finds the case if it is not
  excepted). `HistoryStays`: what is fresh stays, and a day or week keeps a row while
  all of its rows are within the retention; one that the end of the retention divides may
  lose them all. Bounds: one row a tick, a day of 2 ticks, a week of 3, fresh 1, retention 3
  of prices, 4 of snapshots, 2 of logs (3 of important ones), 1 of raw snapshots, time up to
  5, two prunes: late rows fall into days that are fresh, being thinned, thinned already and
  past the retention.
* `RateLimit`: groups, windows, the log entry of a window, restarts. `WindowsHold`. Bounds:
  2 clients, 3 routes, limits 1 and 2, time up to 3, five requests.

Two million states.

### The calculations (`Calculations`)

Pure functions. A state of the run is an input of one of 18 kinds, so the run
enumerates the inputs and each property is a comparison of operators on one. Numbers
are in hundredths and rounded as the code rounds; texts are what a comparison of them
finds. Where a property looks at a large value often it names it with a quantifier over a
set of one (`\A report \in {Report(...)}`), not with `LET`: TLC evaluates it once, and its
coverage statistics, which expand every use of a `LET`, stay small.

* `ImportsAsForecast`: what the validation and a dry run say of a file is what the
  import does; a repeat changes nothing; no two rows of one key; what an import brings in
  is seen by the audit. (`ItemImports`, `CardImports`, `CardAudit`)
* `SureMeansSame`: what is matched, listed, merged or left without a person's decision is
  the same card in all that the texts tell; a merge loses no metadata. (`CardIdentity`,
  `Matching`)
* `AnswersAgree`: what two parts of the code, or one before and after a change, say of
  related data. The worker's copies of signals and scores give what the api's give (but
  for wishes, which it omits); the two sweeps over the environment find the same, and what
  passes them starts; advice is monotone in the floor; coverage and signals call the same
  prices fresh, the lists of gaps are the numbers of the summary, what is counted as
  covered has no gap, and a refresh that succeeds makes its source no worse and leaves the
  other one as it was; the system check
  shows what the audit and the sources' health find, also after a recheck and after a
  merge. (`WorkerMarket`, `Environment`, `Decisions`, `Coverage`, `CardAudit`)
* `ReportsHold`: no event twice in a snapshot, the best of every category in the report,
  every item counted once, the worker's report and valuation like the api's; advice follows
  signals; lists that add up to their sums, a risk flag with its reason; collection,
  wishlist, grading, risk and digest agree where they say the same thing. (`Market`,
  `WorkerMarket`, `Decisions`, `Coverage`, `Analytics`, `PortfolioRisk`)

Bounds (267,000 states): files of one and two rows with one kind of cell varied beside a
sound row; all pairs of cards and listings as a comparison sees them; environments, a
sound production one with any two variables changed, and all combinations of the
digest's; decisions, all holdings with one wish and a few holdings with all wishes, each
at two floors; worlds, two cards with up to four mappings, six refreshes and a discovery;
users, two cards with up to two holdings and a wish, or nine cards, one of which differs
(more than the five whose share a risk report weighs); catalogs, two cards that differ in
any way, or three with up to two mappings. Prices and ages are chosen around the
thresholds of the code.

## 3. Proofs

All theorems hold for every value of the constants that satisfies the assumptions of
their module (`JobLockAssumption`: a TTL is a positive number of ticks and longer than one
call; `FileJobsAssumption`, `SignalEventsAssumption`, `CacheAssumption`,
`DigestSendAssumption`, `MarketWorkflowAssumption`, `CandidatesAssumption`,
`CardMergeAssumption`, and those of the parts, gathered in `EditingAssumption` and
`OperationsAssumption`: types, and that the special values are not members of the sets;
that the kinds of file jobs are disjoint;
that ages, limits and windows are numbers, windows positive, and a retention no
shorter than the fresh period; that a database is found as its foreign keys allow;
`CalculationsAssumption`: inputs are typed, i.e. prices and ages are natural numbers in
series of any length, metrics integers or absent, every variable of an environment has one
of its values, mappings and duplicates name cards that exist,
of which there are finitely many). TLC evaluates each assumption. A theorem about a part of
`Operations`, or about wishes, names the assumption in its ASSUME.

* `JobLockProofs`. `TypeCorrect`. `LeaseHeld`: `LeaseInv` is inductive together with
  the types: a takeover needs `left + age <= 0`, so the lease of the row's owner has
  lapsed; a release touches only the row of its own owner; who takes a row away marks
  its owner revoked. `MutualExclusion` follows, as two entitled runs would be the owner
  the same row names. `LeaseImplemented`: refinement of `ExclusiveLease`; each action is
  a `Grant`, `Finish`, `Die`, `Lose` or a stutter. Any number of runs, locks, admins
  and cleaners.
* `FileJobsProofs`. `TypeCorrect`. `SuccessBacked`: the property is strengthened by
  what holds before the row says success (`Backed`: at `written` the result is there,
  a job in the export loop is no import, and a row with status success has no task at
  work on it). `CancelHolds` is an action property: the one action that takes a waiting
  job further looks at the row first, and every action that writes over a cancelled row
  belongs to a step after that reading.
* `CalculationsProofs`, of `SignalEvents`. `EventsTypeCorrect`. `DismissalLasts` by `QuietInv`: an event that was
  dismissed while no snapshot was under way is remembered by no later snapshot as
  anything but dismissed, nor is it among those it resolves as gone. The property alone
  is not inductive, as a snapshot decides from what it has read.
* `CacheProofs`. `TypeCorrect`. `StalenessIsBounded` by `StaleInv`, which relates the
  age of a read to the time since its version was superseded, for reads under way and
  for entries. `AnsweredWritesAreSeen` by `SeenInv`, which carries the causes through
  every interleaving of look-up, load, write, deletion and outage.
* `OperationsProofs`, of `DigestSend`. `TypeCorrect`, including that at most one guarded execution is
  under way. `SentDelivered` by `SentInv`: an execution about to write `sent` has
  delivered. `SentOnce` by `OnceInv`: a report without an excuse is `Orderly`, i.e. at
  most one execution is at work on it, and it has been delivered at most once and, if
  so, its row says so or that execution is about to.
* `MarketWorkflowProofs`. `RunInv` says what each place of a task implies for its two
  rows and its products; the types hold only together with it (that a dry refresh has
  committed nothing depends on where its task is). `SuccessHasItAll`,
  `ConflictsDoNothing` and `NoRunIsStranded` follow. `LockInv`, who is inside the section
  of a lock holds it, is kept because every step takes a free lock, gives up a section or
  loses a lock whose section is empty (`LockStep`); `RefreshesAreExclusive` and
  `WorkflowsAreExclusive` then show the refinement of `ExclusiveLease`, and that a section
  never has two jobs, for any number of jobs and workers.
  `AnsweredRunsAreSeen` by a second invariant, `SeenInv`: before it starts and when it
  is dry a task has nothing to be seen, and after its request has its result, nothing
  more happens that could be. The second half is what makes it inductive: a task whose
  result is there is over.
* `CandidatesProofs`. `TypeCorrect`. `DecisionsLast` by `DecisionsStand`: while a decision
  stands, every automatic session holds the decided row, in which case it wants it as it
  is, or does not hold it; only requests of people want something else.
  `ReviewsLast` by `FlagsStand`: every copy a run has of a mapping is flagged already and
  was of an unverified row. Both need to speak of what the open sessions hold, since a
  commit writes from there; `CommitEffect` and `RowEffect` say once what a commit and a
  listing do.
* `EditingProofs`, of `CardMerge`. `TypeCorrect`. `RowsAlwaysFollow` and
  `MergesAlwaysEnd` by `IInv`, which adds what an open merge may rely on: two merges with a
  card in common have raced for it (`Met`), its cards are as it loaded them unless they
  have (`Loaded`), the rows its UPDATEs have passed are its own or came late (`Taken`), and
  no row is moved by two (`Apart`). Any number of cards, tables, rows and overlapping
  merges. `RowsAlwaysFollow` is about the tables that a merge updates; the others are its
  named exception.
* `EditingProofs`, of `SavedViews`. `DefaultAlwaysChosen` by `ViewsInv`, without an
  assumption: of a request that nobody races with for its page, the flag it has loaded is
  the one its view still has, if the view is still there, and the views it has unset are
  all other defaults of the page (`Informed`). Without that the property is not inductive:
  a commit writes the flag only if it was not loaded as set. A choice, or an edit that
  unsets one, while a request for the page is open is where the exception comes from;
  deletions are none, as a request of a view that is gone writes nothing.
* `EditingProofs`, of `Wishlist`. `OneEntryAlways` by `WishesInv`: if no other commit has
  come since a request looked, then what would be stored if it committed now has one
  entry for each key (`OneEach` of `Written`). It is proved for upserts of files of any
  length, too, for which `Targets` states which entry each row takes.
* `EditingProofs`, of `Backup`. `BackupsAlwaysRestore` and `LossAlwaysWarned` by
  `BackupInv`: the database never has a reference that leads nowhere (`Consistent`), and
  once there is a backup it has every table that is not optional. The lemmas about the
  tables carry the proof: every reference between known tables leads to a table written
  before, but for that of cards to cards (`ReferencesGoBack`, from the order table by
  table); two steps along the references reach all that a deletion takes
  (`CascadesEnd`); the tables of which no warning speaks lose no row to a cascade
  (`RootsStay`).
* `OperationsProofs`, of `Alerts`. `NothingRepeated` by `AlertsInv`: what was delivered is
  on record, in the table or among the rows of an open check, or its check died
  (`ToldIsRecorded`); a check that takes itself to be alone is (`AloneIsAlone`), and what it
  still has to tell of failed refreshes is on no record (`FailuresAreNews`).
* `OperationsProofs`, of `Ingestion`. `ObservedOnceAlways` by `IngestInv`: what is stored
  together with what an open ingestion has added repeats nothing, but for candidates that
  two ingestions had loaded at once (`JobsRepeatNothing`, `OverlapsAreKnown`).
* `OperationsProofs`, of `Retention`. `LatestAlwaysSurvives` and `HistoryAlwaysStays`, for
  rows of any earlier time and any number of overlapping prunes, by one `PruneInv`: no
  prune has chosen the latest row, and one that is still reading protects it or finds it
  fresh, unless it has raced (`LatestStays`); what is gone or chosen is old enough
  (`OldGoes`, `Staying`); and the first row ever of a day or week within its retention is
  there and not chosen (`FirstStays`). The first row is what all prunes agree on,
  however many rows come before or after they choose. It needs that every prune cuts time
  into the same groups, which holds as `Group` does not depend on the time
  (`GroupIsFixed`); the mutant that cuts by age breaks it.
* `OperationsProofs`, of `RateLimit`. `WindowsAlwaysHold` by `LimitsInv`: for each key the
  counter of the current window says how many of its requests were let through and, above
  the limit, that as many as the limit were (`CounterCounts`); other windows are full if
  they have turned anyone away (`IsFull`); and a window of which a request was logged is
  the last one in the log (`LogIsKnown`). The status request may drop a counter only of a
  window that is over. The lemmas `DivBounds`, `DivGrows` and `DivSpans` say what the
  solver does not know of the division by a window of unknown length.

* `CalculationsProofs`, of `Calculations`. A behaviour picks one input, so the invariant is
  only that (`Picked`); the work is in one lemma for each clause.
  `SureAlwaysMeansSame`: a score is at most the sum of its bonuses and each cap that
  applies, so a case for each field in which two texts differ bounds it; the best of any number
  of candidates exists by well-foundedness.
  `AnswersAlwaysAgree`: copies are compared operator by operator, for series of any length:
  of the observations around a day, both programs choose the same (`FirstOfLeast`,
  `Closest`), and what both compute from it is equal as soon as both have found it.
  The sweeps are compared variable by variable, each over its values. That gaps add up
  is cardinality: stale, missing and recent mappings are disjoint, and the sources divide
  them. Advice is monotone as each term of a score is, and percentages are (`QuotientsGrow`);
  the rounding of shares is bounded once (`ShareReaches`). A refresh is the latest run of its source
  and of no other, adds one to what was attempted and to what succeeded, and so does not
  lower the rate (`RatesGrow`). Merges and rechecks are followed issue by issue through the
  audit. In both programs `None` is -1000000, which no price, age or amount is, as these are
  natural numbers; a metric of that size would read as absent.

Only model-checked:

* All liveness properties and `RequestHonoured` (fairness and ENABLED are beyond the
  prover), and the disagreements.
* `ImportsAsForecast` and `ReportsHold`. Files are imported row by row, and pages and reports
  fold, filter and sort sequences: these are recursive definitions, and what they compute for
  an input of any length needs induction with an operator as parameter, which the
  installed provers cannot instantiate.

## 4. Disagreements between code and documentation

Two runs marked *disagreement* each find a trace that contradicts a comment or docstring;
`PROJECT.json` quotes it. Others that were met while modelling:

Locks, files, events and workflow:

* A cleanup that selected an expired row marks it expired after a new owner has taken it
  over, and a third run gets in (`job_locks.py:354-361`; the docstring at 342-344 calls it
  safe on a schedule).
* `start_file_job` (`file_jobs.py:134`) overwrites a cancellation that came after it
  read the row; a request to cancel writes back the summary it read earlier over the result
  (258-261). A job that fails or is cancelled after its output was opened leaves a file that no
  row names (386, 528); one left `running` by a restart stays so.
* A dismissal committed after a snapshot has read the event is overwritten
  (`market_signal_events.py:124`, 193-195, against 111-113). Retention deletes an event that
  was reopened or put on watch after it was selected (`data_retention.py:476`,
  `docs/operations.md:1225`). A PATCH to `dismissed` leaves `resolved_at`
  set, which the POST clears (`api/api/market.py:282`).
* The request of a bare price refresh leaves the cached list of reports in place
  (`refresh_trigger.py:34-51`, `docs/operations.md:1065-1067`). The workflow's digest is that
  of the latest report, which may be one of a later refresh (`run_market_workflow.py:195`, help
  text at 332). A request that timed out never drops cached responses. The handler of a
  failing refresh commits without a rollback (`refresh_prices.py:133-138`). A worker that dies
  leaves its rows `running` for ever.

Candidates, mappings and cards:

* An automatic session that loaded a row before a person decided overwrites the decision
  (`admin_snkrdunk_matching.py:47-49`: "never overwritten here"); a discovery that raises on
  two mappings commits its candidate as matched without one. `refresh_prices.py:178` goes by
  `is_active` only, and `activate` makes a rejected mapping active. An observation made under
  a wrong match stays with the wrong card.
* A tie of two prints with one code is `suggested` by the order of the database; the cap for
  a wrong variant equals the suggestion's threshold. Buckets miss pairs that the
  docstring of the duplicates' search says they cannot, two cards of different
  codes may score 80, and a mapping with a numeric listing id scores next to nothing and is
  critical for good.
* A merge leaves price observations, aliases and matched candidates at the source although
  the docstring (`card_identity_merge.py:14-17`) has "every other table's card_id foreign
  keys" reassigned, "so price/collection/... history all stay intact and queryable
  through the surviving card"; `RowsFollow` excepts them by name. After A into B and B into C, A points at
  a retired card; two merges in opposite directions at once retire both.
* `card_catalog_import.py:32-35` relies on the audit to find the placeholder rarity, for
  which the audit has no check; a follow-up row with a rarity makes a second card.
  A confidence of 1 of 100 reads as 100 %; after a merge the retired card's prices are a
  critical issue; the operations page ignores some critical issues of the audit.

What people edit, jobs and limits:

* Two requests that set a default at once leave two defaults, a stale one leaves none.
  A purchase, or a file in append mode, makes a second wanted entry of one card.
  `validate_backup` says that references resolve within the backup, checks only
  the required ones, and a restore then fails.
* A skipped or failed alert renews the window of 24 hours; any event for a failed run
  silences it for good; overlapping checks repeat messages. Ingestion with a limit takes the
  same first candidates for ever, and a changed price is never observed.
  `docs/operations.md` says that `app_log_events` is not pruned; a policy prunes it.
* A prune reads which observations are protected (`data_retention.py:254`) before it
  reads those it will delete: one that is ingested in between with an old time, the first
  of its series, is deleted, although a card "keeps its last known price forever".
* The validation of imports forecasts codes that the importer reads otherwise, checks only
  active cards, and not all numbers (docstring `import_validation.py:21-27`: the two "can never
  desync"); a dry run reports `create` for both of two equal rows.

Calculations:

* The worker omits `wishlist_target_hit`, wishes and grades, although its copies "mirror" the
  api's formulas and "a report looks identical regardless of which side generated it". A
  baseline of seven days may be any earlier observation; a graded value counts once, whatever
  the quantity.
* A blank `MARKET_WORKFLOW_LIMIT` passes the sweep (`env_validation.py:318`,
  `docs/deployment.md:157`) and the worker's settings fail to parse it; the same holds for
  other blank numbers.
* Refreshes of all sources are stored with the filter `all`, the health of a source counts
  NULL only (`price_source_health.py:371-385`), so they never affect it; a run stuck as `running`
  hides a failure; dry runs count.
* The score to sell counts opportunities to buy; a card can be recommended above the maximum
  price; "latest" submission means the greatest id on some pages and the last update on others;
  what is both bought and owned counts twice on one page and not on another. Risk and
  collection value an item by its floor alone, so one that the page of sales values is
  flagged as without a price. The return of grading subtracts a cost once per submission. The
  digest's line that nothing is urgent ignores stale prices.

Where such a thing is certain, the properties state the exact exception instead of
leaving the case out of the model.

## 5. Not modelled, and why

Within the modelled components: dry runs that write nothing (digest, file jobs),
wording, progress counters, log rows and their deduplication; in the workflow also the
alerts that follow beat's refreshes, the analytics digest, the requests of
`admin_actions` that run one step, and a broker that is down (the job is then never
queued, which is a job that is not scheduled). Fetching and parsing are one
nondeterministic outcome. In the cache: `CACHE_BACKEND=memory` and `none`,
serialization failures and statistics. In saved views `usage_count`, which overlapping
requests lose updates of. In a backup collisions of unique columns, sequences, and an export
that reads while others write. In the system check: database, orphans, row
counts, locks. Templates and the validation of the two mapping files. Requests that write
one row of the collection, of grading, tags and groups.

Whole components: search, dashboard and price history read and format; logging is
append-only; collectors are input; the web front end is a proxy.

## 6. Plan

Done, in this order: `ExclusiveLease` and `JobLock` (everything else relies on them),
`FileJobs`, `SignalEvents`, `Cache`, `DigestSend`, `MarketWorkflow`; `Candidates`,
`CardMerge` and what else people edit; the operations; the calculations; proofs for eight
modules.

Left, most important first:

1. Composition of `MarketWorkflow` with `DigestSend` (whose report is sent) and of
   `Cache` with the requests that invalidate it.
2. Proofs of the parts of `ImportsAsForecast` and `ReportsHold` that can do without what a
   fold computes.
3. The race of retention with a user who reopens an event, as an exception that the
   property names.
4. The mapping files, collection and grading requests.
