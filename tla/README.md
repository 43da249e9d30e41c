# Watch-Assistant in TLA+

Watch-Assistant is a single FastAPI process (Python, asyncio, SQLAlchemy on one
SQLite file in WAL mode) with a web front end. It searches for media, pushes
resources to a 115 cloud drive, indexes the drive, plans how files should be
named and placed, and moves them. This directory holds the specifications of
its stateful components and of its pure decisions, the TLC instances that check
them and the proofs of the theorems about them. Paths in this document are
relative to the repository; `watch_assistant/` stands for
`src/watch_assistant/`.

How to run it, from this directory:

    tlc -config MCOrganizationOperations.cfg MCOrganizationOperations.tla
    tlapm OrganizationOperationsProofs.tla

`PROJECT.json` lists every run with its configuration and its properties, for
every property a mutation of the modelled code that breaks it, for every
definition the source lines it stands for, and for every hazard the properties
that cover it.

## 1. Inventory

### What all components share

* **One event loop.** The services, the workers and the request handlers are
  coroutines of one process. They interleave at `await`, which in this code
  means at every database call and every awaited network call. A remote call of
  the organization worker is *not* such a point: `p115_c03_timeout_executor`
  calls the client synchronously.
* **One SQLite file, a session per call.** A `SELECT` outside of a transaction
  sees what is committed; the write lock is taken by the first `INSERT`,
  `UPDATE` or `DELETE`. Code that reads, awaits and then writes therefore reads
  and writes in two steps, and what it read can be stale. Three styles of
  writing exist: *conditional* `UPDATE ... WHERE revision = :read` (operations,
  plans), *ORM* writes by primary key of the columns whose value differs from
  the value the session loaded (tasks, workflows, subscriptions, plan
  invalidation), and `INSERT` guarded by a UNIQUE constraint.
* **Restarts.** `docker-compose.yml` restarts the service; a cancelled or killed
  coroutine leaves its rows as they are.

### Components

| Component | State | Operations | Hard behaviour | What makes it correct |
|---|---|---|---|---|
| Organization operations (`services/organization_operations.py`, `organization_outbox.py`) | operation rows (status, revision, lease, attempts), outbox rows | create, claim, claim_next, renew_lease, finish, finish_after_lease_loss, complete_organized, cancel, retry | reads and writes of several clients interleave; leases expire under their holder | one writer at a time, final outcomes stay final, one operation per plan and key, outbox equals outcomes |
| Execution and isolation contracts (`organization_execution_contract.py`, `organization_companion_contract.py`, `organization_isolation_contract.py`) | none | checks before, after and after the timeout of a write | mixed and missing observations | a write, a skip or a success only on exact evidence |
| Organization executor and worker (`organization_executor.py`, `organization_worker.py`, `adapters/p115_organization_transport.py`, `p115_c03_live_transport.py`) | the coroutine's locals; the remote drive | claim, load, revalidate, read, move, rename, verify, finish; start, cancel, kill | calls that time out and take effect later, budgets, lost leases, database failures, replays | outcomes true of the drive, no second write, no overwriting, groups stay together |
| Organization plans (`organization_plan.py`) | plan rows (status, revision, payload, expiry) | create, confirm, ignore, alias, refresh, invalidation, load of the steps | conditional and unconditional writes to one row; a payload that is checked when it is made and again when it is carried out | an invalidated plan is never executed; what is loaded is safe to carry out |
| Push tasks and worker (`services/tasks.py`, `worker.py`) | `push_tasks` rows, the worker's locals | create with 24 h reuse, retry, claim, submit, recover_expired | the submission is awaited; lease, retry and workflow change meanwhile | no automatic second submission; the linked stage ends with the task |
| Workflows (`services/workflows.py`) | workflows, stages, links | create, patch_stage, decide_approval, cancel, link_child, sync_child_stage | derived status under concurrent sessions | the status equals what the stages say |
| Library index (`library_index.py`, the 115 library gateway) | scan runs with checkpoints, entries, ledger, events | scan, resume, complete, fail, diff | resume after a crash; two scans with one key; a directory that changes | a complete run is what the directory held |
| Inventory and push guard (`library_inventory.py`, `inventory_push_guard.py`) | none (reads runs) | check_inventory, duplicate groups, guard | stale or replaced runs, ranges of episodes | a push is let through only if a fresh, complete inventory lacks the thing |
| Magnet inspection (`inspection.py`, clean-up of `db.py`) | batches, items, cache | create, claim, run, finalise, recover, expire | late results against cached ones; restarts | a batch ends as its items do; what is verified stays known |
| qBittorrent client (`adapters/qbittorrent.py`) | the torrents, tags and categories of qBittorrent | inspect | cancelled calls, lost answers, late requests, kills, torrents of the user | own torrents go, foreign ones stay |
| Subscriptions and scheduler | subscriptions, observations | create, check, pause, resume, cancel; the loop | the status is read, a search awaited, the status written | found once, reported once; a paused one is not searched |
| Webhooks | endpoints, deliveries | enqueue, publish_due, retry_dead, patch, rotate, delete | two publishers; attempts counted around a request; unreadable secrets | delivered means accepted; every delivery ends |
| Credentials and the 115 runtime (`credentials.py`, `p115_settings.py`, `app.py`) | settings row, cookie in memory, worker | update, reset, start | validation without the lock, uncancellable commit; a restart with another key | the process uses the cookie that is stored, if it can read it |
| Search and cache warming (`search.py`, `cache_warm.py`) | snapshots, resources, watches; search jobs in memory and as rows | search, answer, merge, clean up; start and poll a job | partial answers merged with old reads; two objects for one job | a partial answer loses nothing; a polled job ends |
| Agent tokens (`agent_tokens.py`) | tokens, audit rows | create, pause, resume, revoke, rotate | rows loaded before another request commits; records that get their time before the commit | what was revoked stays so; the audit trail tells the state |
| Records that people edit (`api/library.py`, `quality_profiles.py`, `notifications.py`) | library scope, identities, profiles, preferences, with revisions | verify, confirm, update | revision compared in memory, written by primary key | what counts as verified was listed |
| Event log (`settings.py`) | log files | append, rotate, forget, page | crashes in an append or a rotation, cursors over moving files | a client that pages sees every record once |
| Backups (`backups.py`) | copies and manifests in a directory | create, retention, list, preview | failure and kill between two file operations | as many whole backups remain as promised |
| Matching, classification, naming (`media_matcher.py`, `media_classification.py`) | none | match, plan_media, plan_batch | near ties, remakes, specials, colliding targets | an automatic match is the only fit; colliding files stay |
| Reports (`episode_completeness.py`, `library_health.py`, `storage_governance.py`, `api/seasons.py`) | none | matrix, issues, repairs, cleanup candidates | stale and incomplete scans | absence and deletion only on proof |
| 115 adapters (`p115.py`, `p115_library.py`, `p115_c03_fixture_probe.py`) | HTTP; the fixture on the drive | submit, save a share, status; read a directory; probe | contradictory page facts, late writes, call limits | a whole listing or a failure; the probe leaves nothing and touches nothing else |
| Schema and migrations (`migrations.py`, `db.py`) | the schema | create_all, migrate | a kill between two statements | an upgraded database with every row, or the old one |
| Parsing, coverage, subtitles, content policy | none | regular expressions and tables | ambiguous names | — |
| Security, sessions, rate limits | process memory, sessions | log in, verify | expiry | — |
| Maintenance, manual import, PWA devices, diagnostics, MCP server, CLI, other adapters | files, rows | short transactions, translation | — | — |

### How they interact

    search jobs ──> resources ──> inspection ──> qBittorrent
         │              │
    subscriptions   push guard ──> push task ──> push worker ──> 115
         │              │              │             │
     webhooks     library scans   workflow stages   115 runtime <── credentials
                        │
                  115 directory reads ──> matcher, classifier ──> organization plan
                                                                    │ confirm
                                                           organization operation
                                                                    │ claim, lease
                                                     organization worker ──> 115
                                                                    │ organized
                                                              dirty outbox

The organization worker shares rows with the request handlers (create, cancel,
retry, ignore, confirm, alias) and the drive with every other client of the 115
account. The push worker shares the task rows with create and retry, and its
lifetime with the credentials. The scans are read by the guard while they run.
Inspection, the warming and the nightly clean-up meet in the resource rows.

The hazards of all these components, each at its line, are the `hazards` of
`PROJECT.json`.

## 2. The modules

| Module | Models | Uses |
|---|---|---|
| `OperationRecord` | one row of `organization_operations`: the guards of the conditional UPDATEs and the rows they write | — |
| `OrganizationOperations` | `OrganizationOperationService` with its concurrent clients, the plan row it checks and the outbox it fills | `OperationRecord`, `LeasedJob` |
| `LeasedJob` | abstract: a job queue with leases, without tokens, revisions or clocks; `OrganizationOperations` and `OrganizationExecutor` end with their refinement mappings to it | — |
| `OrganizationContract`, `IsolationContract` | the checks around a remote write, for files, groups and isolated objects | the second extends the first |
| `OrganizationExecutor` | the worker's coroutine, the rows it leases, and the drive | `OperationRecord`, `OrganizationContract`, `LeasedJob` |
| `OrganizationPlanReview` | the life of the rows of `organization_plans` | — |
| `PlanPayload` | how a payload is built, stored, refreshed, and loaded as steps | `Nullable` |
| `WorkflowStages` | `WorkflowService`: workflows, stages, derived status, sessions with loaded values | — |
| `PushTasks` | `TaskService` and `TaskWorker`, and the PUSH stages they drive | `WorkflowStages` |
| `LibraryScan` | scans of one directory, runs, ledger, events, and the guard as a caller that reads them | — |
| `InventoryDecisions`, `LibraryReports` | identities, duplicate groups, the guard's verdict; episode matrix, health, repairs, storage | `Nullable`; the second extends the first |
| `WebhookDeliveries` | endpoints, deliveries, the publishers, restarts with another key | — |
| `Subscriptions` | subscriptions of a scope, checks, the scheduler | — |
| `ResourceSearch`, `SearchJobs` | snapshots of a title under searches, warming and clean-up; jobs with their objects and rows | — |
| `Inspection` | batches, items, cache, worker, nightly clean-up | — |
| `MetadataFetch` | concurrent `inspect` calls on one qBittorrent | — |
| `CredentialRuntime` | the settings row, the 115 cookie, the worker's lifetime | — |
| `SharedRecords` | library scope, identities, profiles and preferences under several editors | — |
| `AgentTokens`, `EventLog`, `Backups` | tokens and their audit; the log files; the backup directory | — |
| `MediaMatch`, `NamingPlans` | evidence, score and decision; class, region, target and collisions | `Nullable`; the second extends the first |
| `DirectoryRead`, `P115Submission` | the paged read of a directory; submissions, shares and task pages | `Nullable` |
| `FixtureProbe` | the live probe with its fixture, its limits, late writes and the user | — |
| `SchemaUpgrade` | databases of earlier releases, `create_all` and the migrations | `Nullable` |
| `MCServices`, `MCQueues` | twelve and seven components side by side, for TLC | the above |
| `MCDecisions`, `MCLibraryQuestions`, `MCReviewBlocks` | the questions that are put to the pure decisions | the above |
| `MCOrganizationOperations`, `MCOrganizationExecutor` | instances for TLC | the above |
| `...Proofs` | the theorems | their modules |

`MCServices` and `MCQueues` are sums of components: the first state chooses the
component that moves, in `part`, and the others keep their first state. This
checks each component over all of its interleavings; it is sound because none
of them writes what another one reads except through what its own module models
(the guard and the scans are one module, and so are the tasks and the workflows,
the inspection and the clean-up, the snapshots, the warming and the clean-up).
Six components (push, plan review, tokens, scans, webhooks, backups) are extended,
the others are instances. The parameters of the instances are constants of
`MCServices` and `MCQueues` that the configurations give; what their theorems need
of them is `PartsAssumption` and `ProbeAssumption` (a placeholder is nobody's name, a
bound is a natural number, a delivery is attempted at least once, a page has at
least one record, a listing takes at most four pages).
A property of such a run is an implication from `part`, or a formula that the
other components cannot violate because they do not move.

### OrganizationOperations

`op[o]` is a row, `plan[p]` the columns of the plan that the service looks at,
`scope[o]` the two columns with UNIQUE constraints, `dirty` the outbox, `call[c]`
what client `c` has read and not yet written, `held[c]` the lease its caller
holds. Methods that consist of one `UPDATE` are one action; `create`, `claim`
and the invalidation inside them read in one action and write in another
(`CreateRead`/`CreateInsert`, `ClaimRead`/`ClaimWrite`, `InvalidateWrite`).
`renew_lease` can commit and lose its answer when its caller is cancelled.
`Crash` is a client that disappears. The clock `now` is in units of the lease
duration's resolution; the lease is held through `now < expires`, as the code's
strict comparison has it. Tokens are numbers that are never issued twice
(`uuid4`).

`finish_after_lease_loss` differs from `finish` in one thing: it does not ask for
a live lease, so the holder of an expired lease may still put its row to
UNCERTAIN as long as nobody took it over. `Owns` and `OwnsLive` keep the two
apart.

### OrganizationContract

The three checks are operators over observations; an observation is a state of
an object (identifier, parent, name) or `Unobserved`. Text validation of
identifiers and names is left out; the aggregation over a group keeps the order
of the code's tests because the order decides between CONFLICT and UNCERTAIN.

### OrganizationExecutor

`w` is the coroutine: its program counter, the operation, the revision it was
claimed with and the revision it renewed last, the step, the phase within the
step, the remaining calls and what it has observed. `drive` is the 115 account,
`late` the writes that were sent without an answer and may still happen,
`touched` the objects somebody else has moved since. Every remote call is one
action with its answer, with the choice over what `p115_c03_live_transport` can
return: the answer, an error without effect, a timeout with or without effect,
now or later. Two renewals around a call are one new revision. The worker's
budget is `max_transport_calls`. `LocalFailure` is a database call that raises,
`CancelWorker` is `asyncio.Task.cancel` and `KillWorker` the end of the process;
`StartWorker` starts it again.

Left out, because the application cannot reach it: the cooperative
`cancel_event` (nothing sets it), groups that do not form a companion group and
steps that share an object (`load_executable_steps` and `run_once` refuse them
before the first call; `StepsAssumption` states it). The protocol's
`WriteStatus.FAILED` is kept: the live transport does not produce it, the
executor handles it.

### OrganizationPlanReview

`call[c]` is a request that has read a plan and not yet written. `confirm`,
`ignore` and `request_alias_confirmation` write under the condition that the
revision is the one they read; the invalidation by `_ensure_planned_and_current`
writes by primary key, with the revision it read plus one. `create_plan` and
`refresh_plan` have no caller in the application, only tests. `create_plan` is
modelled, because rows must come from somewhere. `refresh_plan` is left out, and
the theorems do not hold with it: it invalidates by primary key too, but after
reading any plan that was not ignored; an alias between its read and its write
lets it write back a revision that a reviewer has read.

### WorkflowStages and PushTasks

`status[w]` and `stage[w]` are the rows of a workflow. `session[s]` is a request
that has loaded the workflow and some of its stages and has not flushed a change
yet: `PatchRead`/`PatchWrite`, `DecideRead`/`ApproveWrite` or `RejectWrite`,
`CancelRead`/`CancelWrite`. Workflow and stage are two `SELECT`s in front of the
same flush; they are one read here. What a method loads after its first flush it
loads under the write lock, and reads the current rows. `Written` is the ORM's
rule: a column is written if the assigned value differs from the loaded one.
`link_child` and `sync_child_stage` run in a session that has already changed a
task, so they hold the lock from their first read on: `RecordStage`.

`task[t]` are the rows of the tasks of one resource, in the order of creation.
`create()` holds an `asyncio.Lock`, so there is one `creator`; `retrier[r]` is a
`retry()` between its read and its write; `worker` is the coroutine of
`TaskWorker` with what it has loaded, `leftover` what `recover_expired` has
loaded. Ghosts: `requested` and `sent` count the calls that were committed and the
submissions that left, `adopted` the tasks that got their workflow after their
creation. A lease is `live` until it runs out; there is no clock, and the window
of 24 hours is the choice of which tasks are too old to be reused (`yesterday`).
The worker is cancelled and replaced by `apply_p115_runtime` when the credentials
of 115 come and go, and lost with the process; a submission that is cancelled may
have left or not. `Submit` is the adapter: any of its four statuses, the exception
included (`uncertain`), and only an accepted task gets a reference. Share links
are left out: `push_capabilities` is always `False` for them.

### LibraryScan

`run[k]` is the run of an idempotency key with its checkpoint, entries and
totals, `scanner[s]` a `scan()` with what it has read, `remote` the directory,
of which objects come, go and change between two pages. Reads and writes are
separate steps because SQLite takes its write lock at the first change. Two
scanners with one key share the run: the one that fails puts the completed run
back. `guard[g]` reads the last run and then its entries. The gateway lists one
object per page.

### WebhookDeliveries and Subscriptions

A publisher lists what is due, then takes the rows one by one: it reads the row,
posts, and writes the answer by primary key. `accepted` is a history variable:
what an endpoint has answered with 2xx. A start with another master key makes
secrets unreadable, and `publish_due` raises at such a row.

A subscription check is a sequence of sessions; a column that is assigned its
loaded value is not written (`Differs`). `reported` counts how many checks have
returned a resource as new.

### ResourceSearch, SearchJobs, Inspection, MetadataFetch

The searches of a title hold its lock from the read of the snapshot to the
answer, the clean-up does not. A search job exists as objects in memory and as a
row; a job that is loaded from its row is another object with the same id.
An inspection batch has one worker that inspects its items at the same time,
each in transactions of its own; a restart takes up what was RUNNING. In
`MetadataFetch` a request may be carried out, carried out late or never arrive,
when its answer is lost; a call is cancelled at any await and the process is
killed. The user owns torrents there too, and is assumed to leave those of a
call alone.

### CredentialRuntime, SharedRecords, AgentTokens

A change of the cookie checks the revision, asks 115 without the settings lock,
checks again and commits; from the commit on a cancelled request is carried to
its end. The records with revisions load a row, compare, and write by primary
key the columns that differ. `readable` says whether the running process has the
key of the stored cookie: a restart may come with another one, and then counts
the cookie as none (`Decrypted`) until somebody stores one anew.

A request about a token has three steps in `AgentTokens`: the database reads the
row (`LoadToken`), the request goes on with it and takes the time of its audit
record (`StampChange`), and the columns that differ are written together with
the record (`CommitChange`). `audit` has the records in the order of their
commits, each with its time; `list_audit` orders by the time, and so does
`ListedAsPaused`. The times of two records differ: two in one microsecond, which
are listed by their random ids, and a clock that is set back are left out.

`AuditTellsTheState` says what a person can rely on. That a token was revoked is
recorded exactly when it is so, in any order. Whether it is paused is told by the
list only if pauses and resumptions were committed in the order of their times
(`InOrder`), and the code does not see to that: one request loads a token and
records a pause, another pauses the token, a third resumes it, and then the first
commits. The token is paused and the last record says that it was resumed. TLC
finds this trace when the condition is dropped; it is a finding.

### EventLog and Backups

The log is a sequence of files; a crash leaves half a line, or a rotated file and
no current one. A client follows its cursor while files move. Backups are
numbered in the order in which they are begun; every file operation may fail and
the process may be killed between two of them.

### The decisions

A pure function is an operator with the parameters of its source. `MCDecisions`
asks it every question of a small domain, and the invariant compares the answer
with a definition of what a right answer is: the only fit (`MediaMatch`), the
reference listing (`DirectoryRead`), the set of files of a share
(`P115Submission`), the proof of an absence (`LibraryReports`). Regular
expressions over names are inputs: a file comes with what the parser makes of
its name.

`PlanPayload` keeps of a conversion what its readers can tell. A plan is stored
as JSON, which makes a list of the tuple of reasons in its basis (`Stored`), and
`refresh_plan` compares a fresh basis, with the tuple, with the stored one. They
always differ: a refresh with items invalidates every plan, one without leaves
it unless it is outdated. This is a finding. Plans are made, refreshed and
loaded only while their own scan is the latest, and the rows are those of that
scan; but another scan with the same key may have added rows, so the rows at the
refresh and at the loading are those of the making with or without more.

`FixtureProbe` is stateful: `position` is the probe's place in its manifest, the
counters are its limits, `late` the writes that 115 still carries out.

`SchemaUpgrade` maps a database to tables, columns and rows; `Steps` is what one
start does, statement by statement where the rebuild of the audit table drops
it. The databases are those that the tests of the migrations build.

## 3. The runs

Passing runs:

| Run | Shows | Bounds | Size |
|---|---|---|---|
| `operations` (`MCOrganizationOperations`) | one writer, exact outbox, one operation per scope under every interleaving; and that all of it implements `LeasedJob` | 2 clients, 2 operations of 1 plan, 2 keys, 3 ticks with a lease of 1, 5 revisions: a claim, its expiry, a takeover, a stale renewal and finish, a retry and a second claim | minutes |
| `executor` (`MCOrganizationExecutor`) | outcomes are true of the drive, nothing is written twice, groups stay together, and the worker implements `LeasedJob` | 1 operation with a group of two files and a second step into the name that the first one left; budgets that end before, inside and after the writes; 2 starts, 2 attempts, 1 move by a stranger, 2 ticks | minutes |
| `services` (`MCServices`) | twelve components, each with concurrent callers and a process that is killed: what they store and tell stays true | see below | 2.8 million states, 2 minutes |
| `queues` (`MCQueues`) | seven components that work through a queue or run to an end: what is queued is taken, what was begun ends; no operation writes over another | see below | 0.24 million states, 1 minute |
| `decisions` (`MCDecisions`) | the pure decisions against reference definitions, and the upgrade of earlier databases | see below | 1.1 million states, 20 seconds |

Bounds of `services`, by component: push 1 task and 1 workflow, 2 retries at a
time, 1 workflow request, 2 requests in all and 1 interruption (`MaxRequests` 2,
`MaxStops` 1); plan review 2 callers, 2 contents, 4 revisions; tokens 3 requests,
2 tokens, 3 records with a time (`MaxStamps` 3); scan 2 keys, 2 scanners, 1 guard, 2 objects, 1 edit, 1 fault, 2 scans;
webhooks 2 endpoints, 2 publishers, 2 attempts, 1 event, 1 retry, 1 change, 1
restart with or without a new key; search 3 searches of 2 resources besides the
warmer and the clean-up; inspection 2 magnets, 2 batches, 1 stop; credentials 2
administrators, 2 changes, 1 stop; records 2 editors, 3 kinds, 3 edits, 1 stop;
log 4 records, 1 crash, pages of 1 and 2; metadata 2 calls for one infohash, 1
kill; backups 5, retention 2, 1 kill. Two actors are enough for every hazard
listed, because each is a race of one read with one write; a third actor or a
second crash adds states in which two such races happen independently. The
exceptions have three: three requests about a token (one to change the row, one
to change it back, one that has loaded it before).

Bounds of `queues`: organization 2 operations that want one place, without
interruptions; push 2 tasks; webhooks 2 endpoints, 2 attempts; subscriptions 2
rows, 1 caller, 2 searches; jobs 2, 3 objects, 1 stop; inspection 1 magnet, 2
batches, 1 stop; the probe with its real limits.

Questions of `decisions`: matches of one query with two candidates that deviate
in up to two respects; batches of two files; plans of two files, a companion and
two directories beside the root, a file or a directory that another scan adds, and
a refresh with or without the items; listings of up to three entries
on pages of one or two, with every subset of the facts a page may tell and one
fault; shares of up to one file more than the adapter reads (`MaxShareItems` 3); up
to one task more than there are pages read (`MaxTaskPages` 3); groups
of two files with every observation; libraries of two files; cleanups; repairs;
isolations; the databases of earlier releases, killed after any step.

Runs that show a disagreement between the code and what its documents or
comments say; each is a finding in `PROJECT.json` with the quoted line:

| Run | Disagreement |
|---|---|
| `executor_crash` | an operation that was running at a crash is never taken up: `claim_next` looks only at PLANNED rows |
| `push_linked` | a task that is linked to a workflow when it is accepted, or while it is submitted, leaves the PUSH stage running for ever |
| `workflow_status` | of two requests that change one workflow, the one that loaded it first may leave the other's status standing |
| `subscription_paused` | a pause that arrives while a check searches is overwritten by the result of the check |
| `cleanup_blocked` | an expired resource that an ended inspection refers to makes the nightly clean-up fail before it reaches that inspection, every night |
| `review_blocks` | a magnet whose name alone suggests a duplicate is held back |
| `identity_overwritten` | two confirmations of an identity at one revision are both answered with success |

Findings without a run: the fallback of `run_once` writes at a stale revision; an
operation whose plan was withdrawn blocks the queue behind it; an unreadable
webhook secret holds up the deliveries behind it; the seven-day fallback of a
search is deleted when it expires; a terminal search answer may be given before
it is stored; the audit trail of a token may end with a resumption while the token
is paused; a refresh of a plan with its own items invalidates it; the upgraded stage table of an early release lacks columns that
the models read and keeps one that they do not write.

`MaxNow`, `MaxRevision`, `MaxAttempts` and the other `Max...` constants bound
counters that the code lets grow; they are guards of the actions that count.
`CHECK_DEADLOCK FALSE` stands in every configuration because a system whose
counters are used up, or whose queue is empty, really stops. **Symmetry** is used
for clients in `operations` only, where the properties are invariants and action
properties.

**Fairness.** Every assumption is weak fairness of what the code repeats by
itself. Users, ticks, late writes and kills owe nothing.

* Organization: `StartWorker` (the container is restarted) and `WorkerStep`
  (`run_forever` catches every exception of a poll, and every remote call has a
  timeout). Leases do not run out there (`MaxNow` 1): one that is lost in front of
  the first write leaves the row ORGANIZING, the defect of `executor_crash`.
* Push: `StartWorker`, the worker's steps and leases running out: the loop polls
  every second, calls have timeouts, the process is restarted, and credentials
  that were withdrawn come back. `run_forever` of this worker does not catch
  exceptions; a failing database call is not modelled.
* Webhooks: the background publisher and `next_attempt_at` passing. No key
  changes there, because an unreadable secret does block (see the findings).
* Subscriptions: the scheduler's loop. `MaxSearches` ends the obligation.
* Search jobs: the coroutine of a job runs, and one client keeps asking. Without
  a client a job that was lost with the process is not taken up.
* Inspection: the worker's loop and the nightly clean-up; a database error would
  end the worker, and nothing restarts it.
* Probe: it is one coroutine with a timeout around every call.

## 4. The proofs

The modules with theorems are `OrganizationOperationsProofs` (the service),
`OrganizationContractProofs` and `OrganizationExecutorProofs` (the checks, the worker
and the drive), `ListsProofs` (sequences, scans, the log, webhooks), `ResourcesProofs`
(search, inspection, metadata calls, push tasks), `ServicesProofs` (plan review,
tokens, backups, credentials, records that people edit, and all twelve components
of `MCServices` together), `QueuesProofs` (subscriptions and the live probe, alone and
within `MCQueues`) and `DecisionsProofs` (the pure decisions).

| Theorem | States |
|---|---|
| `OrganizationOperationsProofs!TypeCorrect` | types of every variable |
| `LeaseColumnsFollowStatus` | token and expiry are set exactly while ORGANIZING |
| `SingleWriter` | no two clients hold leases the service would both accept |
| `ScopesAreUnique` | one operation per plan and per key |
| `OutboxMatchesOperations` | the outbox holds the events of exactly the ORGANIZED operations |
| `QueuedPlansAreConfirmed` | nothing is queued for a plan that was never confirmed |
| `TerminalRowsAreFinal`, `TakeoverNeedsExpiry`, `ChangesAreRevisions` | action properties of the rows |
| `ServiceImplementsLeasedJob` | the service implements `LeasedJob` |
| `ReadyImpliesSafe`, `AppliedImpliesExact`, `TimeoutLeavesOpen` | the contract's answers, for groups of any size |
| `OrganizationExecutorProofs!TypeCorrect`, `InvariantHolds` | types, and the inductive invariant of worker, rows, drive and late writes |
| `NothingIsPending` | an operation that may be retried, or is done, has no write left that could still happen |
| `GroupsStayWhole` | a video and its companions are apart only while their operation runs or is UNCERTAIN |
| `OrganizedReports`, `OrganizedIsSo` | ORGANIZED means: every file at its target, every directory reported |
| `NothingIsWrittenTwice`, `NothingIsLost` | what a write finds: its file where the plan has it, its place empty |
| `WorkerImplementsLeasedJob` | the worker implements `LeasedJob` |
| `ReviewersStayStale`, `InvalidatedIsFinal` | plan review without `refresh_plan` |
| `ResourcesProofs!TypeCorrect` | types of the push tasks and their workflows |
| `SettledTasksAreUnleased` | a task with an outcome has no lease |
| `NothingIsSentUnasked` | submissions never outnumber the calls that asked for them |
| `StagesFollowTheirTasks` | a PUSH stage runs, succeeds and ends with the task it names, while no client patches the stage |
| `RejectionsSpareTheRunning` | a rejection leaves a stage alone that began in the meantime |
| `AuditTrailIsTrue` | a token is revoked exactly when a record says so; its list of records tells whether it is paused if they were committed in the order of their times |
| `DeliveredIsAccepted` | what is shown as delivered was accepted by its endpoint |
| `ListsProofs!ScansAreTyped`, `InvariantHolds` | types, and the inductive invariant of runs, scans and checks |
| `SnapshotsAreFaithful` | a complete run holds what the directory holds |
| `GuardFailsClosed` | what the check lets through is not in the library |
| `RetentionIsExact`, `BackupsRemain` | as many whole backups remain as retention promises |
| `RuntimeUsesTheStore` | when no change is under way, the process uses the stored cookie, or none if it has not the key |
| `ChangesSawTheSettings` | a cookie is committed onto the settings that its author saw |
| `VerifiedRootsWereListed` | a library root that counts as verified was listed by 115 |
| `PartialAnswersAddOnly` | a partial answer costs no resource of a usable snapshot |
| `BatchesFollowTheirItems`, `VerifiedStays` | an ended batch says what its items say; what was verified stays known |
| `CallsLeaveNothing`, `TorrentsOfUsersStay` | a metadata call takes away its own torrent and tag, and no other |
| `NewIsNewOnce` | a resource is reported as new by one check of a subscription |
| `ProbeStaysTidy` | the live probe leaves nothing behind, takes nothing of the user with it and ends at no limit |
| `PartsRun`, `QueuesRun` | each component runs by its own specification among the others |
| `ServicesAreTyped` | types of every variable of the twelve components |
| `PagesStayWhole` | following the cursors of the log shows every record, once, newest first |
| `PartialAnswersCostNothing`, `BatchesStayTrue`, `SettingsStayTrue`, `ForeignTorrentsAreSpared` | the properties of search, inspection, credentials, records and metadata calls that the services run checks |
| `QueuesReportOnce`, `QueuesProbeTidily` | those of subscriptions and the probe that the queues run checks |
| `NothingIsGuessed`, `OnlyFitsAreAccepted` | an automatic match is the only fit |
| `CollisionsStay` | of files that belong in one place none is moved |
| `WritesAreChecked` | the checks around a write, also of an isolation |
| `GroupsAreSeen`, `MatrixIsTheGuard`, `GuardAgrees` | the check in front of a push agrees with the report of duplicates and with the episode matrix |
| `AnEarlierEndHidesTheEpisode` | where it does not (see below) |
| `ListingsAreRead` | what a listing of any length, complete by its own word, is sure to hold, and which are read |
| `ConclusionsRestOnScans` | absence, repair and deletion only on proof |
| `StoredMovesAreSafe`, `PlannedPlansLoad` | what loads of a stored plan, refreshed or not, is safe to carry out, and what is stored or left as planned does load |

They hold for any sets of clients, operations, plans, keys, workflows, stages,
requests, tasks, tokens, endpoints, publishers, searches, magnets, calls, objects and
files, for plans and groups of any size, and for any bounds, under the `ASSUME`s of the modules (a
placeholder is not a member of the set it stands beside, durations and bounds
are natural numbers, a retention keeps at least one backup, the margin of the
matcher is wider than 5 points; the application uses 7 and 8). The theorems about a
component that is an instance name what they need of a placeholder as a
hypothesis; the theorems about a run have it from `PartsAssumption` and
`ProbeAssumption`.

*From a component to its run.* A run is a disjunction of steps, and in a step the
variables of eleven components stand still. `OneMoves` says so: `part` stays, and in
every step each component takes a step of its own or stutters. So `ServicesSpec`
implies the specification of each component (`PartsRun`), the theorems of the
component apply, and the formula that TLC checks, which joins the properties of
several components, follows from theirs.

*Sequences.* The queue of due deliveries, the lines of the log and the pages of a
listing have no bound, and what a step does to them is an induction over their
length. It is done by the least counterexample: a set of natural numbers that is not empty has a least
element (`LeastIsThere`, from the well-foundedness of `<`), so the set of lengths at
which a fact fails is empty if no member of it can be the least. That gives the
recursive function behind `FlattenSeq` (`FlatteningExists`, `FlattenAppend`,
`FlattenConcat`) and a strictly increasing map from a selection into what it was
selected from (the lemmas about `Chosen`). `SelectSeq` is opaque to the provers, which is why
the models select with `Chosen`.

*Operations.* The invariants are inductive only together. `OneWriter` compares
what two clients hold with one row: it needs that tokens are fenced
(`TokensAreFenced`: every token in a row, in a lease or in a pending claim was
issued, and no two places that are not the same claim carry the same one), and
fencing needs that a claim that was read has not been written yet
(`CallsAreInThePast`). `OneOperationPerScope` needs that absent rows have an
empty scope (`AbsentIsEmpty`) and that existing ones have a full one (`Scoped`).
`QueuedPlanWasConfirmed` needs that a pending INSERT carries a revision at which
the plan was confirmed (`CreatingIsConfirmed`). Each lemma has one step per
action; the action properties follow from the same invariants.

*The refinements.* `LeasedJob` has jobs, holders and no tokens. `holderMap` makes the
holder of an operation the client whose token and revision are those of the row.
`TokensAreFenced` makes that client unique (`HolderIsUnique`), so that the `CHOOSE` of
the mapping is any of them, and `ClaimersHoldNothing` says that who acquires a
job has none. Every action of the service is then an action of `LeasedJob` or a
stutter; a takeover is an `Acquire` of a job that still had a holder, a renewal
whose answer is lost an `Orphan`. For the worker the mapping has one client, and
the fact that carries it is `RowIsKept`.

*Executor.* What the five properties rest on is `ExecutorInv`, which was found by
TLC's counterexamples to induction and is checked here for plans of any shape:

* `RowIsKept`: the row of the worker's operation stays ORGANIZING until the worker
  ends or forgets it, because nobody else claims it (`claim_next` takes PLANNED rows
  only) and cancel and retry want other statuses.
* `LateWritesAreGivenUp`: a write that is still under way belongs to an operation
  that is UNCERTAIN or can only become it. Without that, an operation that ends as
  FAILED could be retried on top of its own late write.
* `ClaimIsFresh`: a claim has seen nothing yet. Together with the first part this
  makes every later observation one of this attempt.
* `ObservationsHold`: what this attempt has seen of an object is still so, unless
  the object is shared with another operation or a stranger moved it. A read and
  the write that depends on it are separate steps, and between them only late
  writes could move the object, which `LateWritesAreGivenUp` excludes.
* `TargetsAreFree`: the same of places that were read empty; this gives
  `NothingIsOverwritten`, for the first write of a step.
* `MembersAreWritten`: while a group is written, the members in front of the
  worker's are at their target and those behind it at their source, with the one
  half-moved name in between. This is `NoSecondWrite`.
* `StepsAreWhole`: only the step that is being written may be apart. When an error
  ends the operation in the middle of it, the answer is UNCERTAIN, not FAILED.

Every part has a lemma that goes through the actions; what a coroutine does not
touch is `KeptByOthers`. The properties themselves are then two or three lines.

*Plan review.* The question is why an unconditional write is harmless. The
invariant `NoReviewerIsRevived` says that a reviewer that is already stale stays
stale: no pending invalidation may write a revision that a stale reviewer has
read. It is inductive with `InvalidatorsCameLater`, which says that an
invalidation that is pending read the plan while it was PLANNED, that is, later
than any reviewer that can still confirm it.

*Push tasks.* `sent[t] <= requested[t]` is not inductive: a task that is queued, and
a task that the worker has claimed or loaded, are each about to be sent once
more. `SubmissionsAreOwed` adds both debts to `sent`. Two racing retries are two
requests and at most one new debt; recovery never queues, so it adds none; a
claim turns the one debt into the other; a cancelled submission that left pays
it. `AbsentIsUntouched` (a row that does not exist was not requested, and no
retry has read it) gives a new task its clean account. Nothing is said of how
often one request is *accepted*: a second retry that overtakes the first one's
outcome is a second request, and may submit an accepted task again, although
REQ-009 says that a retry does not.

`StageFollowsTask` fails in one step from a state in which a writer records its
outcome with the wrong workflow, so it needs `WritersKnow`: whoever will write an
outcome (a retry, the worker, the recovery) has loaded the workflow of the task.
The load is not repeated at the write; it stays right because a row keeps its
workflow unless it is linked later (`StaysKnown`), and tasks that were linked
later are exempt. `ChildIsKnown` says the same of the task that a stage names, so
a write for one workflow cannot move the task of another one's stage.
`PatchesSparePush` carries the theorem's assumption that "push" is not among the
patched stages: `patch_stage` sets any stage to any status, and would refute it.

`RejectionKeepsRunning` is an action property of the step in which a rejection
ends. Its difficulty is to know which step that is: `OnlyItsOwnCommit` goes through
the actions to show that a session ends by its own commit or by a kill, which
writes nothing.

*Agent tokens.* The list of the records is not what an induction can follow, because
a record enters it anywhere. `CommitsTellTheState` says of the records in the order of
their commits what the columns are, without any condition on times, and
`ListedAsCommitted` says that the two orders tell the same of a pause when they agree on
pauses and resumptions. Even `CommitsTellTheState` alone is not inductive: a commit writes
what differs from the row that was *loaded*, its audit record what the change means.
The two agree when the loaded row allowed the change (`LoadedAllows`), so that a
pause or a resumption always differs, and when a revocation that was loaded has
not been taken back (`RevocationsStay`), so that the unwritten column of a
repeated revocation holds what the record says. `ChangeHasItsEffect` is that
argument, and `RecordTellsTheChange` the same for the record that is added.

*Webhooks.* The write after a request is unconditional, so a failed attempt may
write onto a row that another publisher has made DELIVERED. It is harmless because
a failure writes the status it finds, and a success is written only by a
publisher that holds an answer (`AnswersAreTrue`). `Shapes` says that rows and
publishers are records with their fields, which is all the typing that the proof
needs.

Their types need more than shapes. A delivery that is due has been enqueued
(`RowsHaveHappened`), so that a new event adds rows that are not yet in the queue. One
that is pending has an attempt left (`AttemptsAreLeft`): a publisher counts from the
pending row that it read, so the attempt that it carries is within the limit, and
it leaves the row pending only below the limit, whoever has counted on that row
meanwhile.

*The log.* That a client who follows the cursors misses nothing needs that the
numbers of the readable lines rise along all the files, oldest file first, and
stay below the next number (`LinesAreNumbered`): across a rotation, across a file
that retention deletes, and across a restart that forgets the counter and finds
it again as the largest readable number plus one. A torn last line is no
exception, because the next record is joined to it and both become unreadable.
`ReaderFollows` says what the client has: what it was shown falls and ends at the
cursor, and what it expects and was not shown is a matching line in front of the
cursor. A page takes the newest of those; retention only removes lines that then
nobody expects any more.

*Scans.* Two scans of one key write into one run, each from a checkpoint that it
read some time ago, and yet a complete run is what the directory held.
`RunIsTrue` says of a run what it must be while the directory does not change:
its entries are those of the directory, its count of entries is their number,
and all pages up to its checkpoint are held. `ScannerIsTrue` says what a scan may
carry: it has a page to write only if the pages in front of it are held, whoever
wrote them (`PagesHeld`), and it writes them with the count that the run has, or
adds nothing. The count reaches the total that 115 tells only when every page is
held, because both count the same finite set (`CountedIsWhole`); so a run is
completed only with the whole directory, also by the scan that came second.
`GuardOk` is the same for a check between its two reads. `Steady` limits all of
this to runs whose directory did not change since their creation, which is what
the properties say as well.

*Backups.* Retention counts manifests, and a manifest may have lost its copy, so
"the newest `Retention` backups are whole" is false. `GoodOnesRemain` counts: of the
manifests that retention spares (`Newest`), those with their copy (`Good`) and the
creates that were spoilt make up for all. It is kept because a removal takes only
what is beyond the newest (`OldIsBeyond`), where taking it changes neither set
(`RemoveBeyond`), and because a new manifest is the newest of all and pushes one
old one out (`Numbered`, `AddNewest`). `Tally` keeps a create from being counted twice.

*Credentials.* Only the request with the settings lock is past the lock
(`LockIsHeld`), and what is stored is what the process uses except between that
request's commit and its next step, where its own value is the stored one
(`CookieFollows`). The commit asks for the revision that the request saw before it
waited; `SeenIsPast` says that settings with the revision of now are those of now,
which also covers the other settings, that change without the lock.

*Records.* Between the list of the root and the commit the library may be declared
again by somebody else. A person who lists holds the root that the library still
has (`ListersSeeTheRoot`), because every declaration is for the configured target
(`DeclarersMeanTheTarget`), and that is fixed while the process runs; a restart with
another one leaves nobody between two steps.

*Searches.* A search keeps the lock of its title from its read to its answer
(`LockIsTaken`), so what it read as usable still covers the snapshot when it writes,
except for what the clean-up has removed since (`CachedIsKnown`).

*Inspections.* The worker writes the status of a batch from its items in another
step than the last of them. `TakenIsRunning` and `ItemsAreAwaited` say that an item
moves only while the worker waits for it, and that its batch is then running or
was removed with its items; no ended status rests on an item that still moves.

*Metadata calls.* A removal names an infohash, not an owner, and one that was given
up may be carried out at any time. `RemovalsHitTheirOwn` says that it then finds the
torrent of the call, because a torrent of a call is removed by nobody else and
stays under its infohash until then (`OwnersAreKnown`). A call that has a torrent
does not come to its tag unless the answer to its add was lost (`TidyAtTheEnd`).

*Subscriptions.* A resource was reported as often as it has an observation row
(`ReportedIsObserved`): once or never, because the key of the row is unique and a
check that finds it taken reports nothing.

*Probe.* `ProbeInv` counts the calls of a run from its place (`CallsAreCounted`: the
nine listings of the writes, one of the base, four of the directories and one after
the recycling make 15, each of at most four pages), so that no limit is met. That
nothing appears after the end needs to know where the directories are: `Awaits` says
that the write of the present step and of those behind it have not happened, `IsTree`
that every object lies in a directory that is there. A listing that shows what the
write should have made then proves that the write has settled
(`NotThereYet`), so nothing is under way when the cleanup begins (`WritesAreSettled`).
`GuestsAreSpared` follows the cleanup through the four directories: each holds none
of the guests that were there at its start, and after the last one there are none.
The hypothesis (`ProbeAssumption` within `MCQueues`) is that guests have names of
their own and that a listing takes at most four pages.

*Decisions.* `MCDecisions` asks a fixed set of questions. `AnySpec` in
`DecisionsProofs` is the same step from any question of the right shape
(`IsAsked`), and every question that TLC asks has that shape.

* `NothingIsGuessed`: two candidates that both fit differ by at most 5 points
  (`FitsAreClose`), the difference between a title and an alias; the margin is
  wider, so with two of them nothing is accepted.
* `CollisionsStay` goes through `plan_batch` with any overrides and rules.
* `GroupsAreSeen` and `MatrixIsTheGuard` compare three pieces of code that read the
  episodes of a file in three ways. They need conditions on the files, and the
  conditions are the finding of the proof: `build_identity` completes the first
  episode that a person has bound with the last one that the *name* tells. A file
  named "E01-E02" that is bound to episode 3 covers 3..2, that is, nothing. The
  season report calls episode 3 owned and the check in front of a push does not
  find it, so the push is let through (`AnEarlierEndHidesTheEpisode`). With a later
  end in the name the check finds too much. `InOrder` and `EndsAgree` exclude
  these names, and TLC's libraries do not contain them.
* `ConclusionsAreProven` is split into one theorem per report (`OwnersAreCounted`,
  `MissingNeedsAFreshScan`, `RepairsNeedEvidence`, `CleanupsSpareTheProtected`).
* `ListingsAreRead`: for directories with any number of entries, on pages of any size
  that tell any of the facts a page may tell, with any of the faults at any page. The
  walk is a recursive function over its rounds, and what holds after a round is found
  by the least round at which it fails (`ReadingKeeps`). While a directory is read
  (`Open`), what was collected is the union of the lists of the pages so far, nothing
  twice, and each of those pages agrees with what the read holds of the page count
  and of the total (`Fits`); a read that is complete has ended at a page that says it
  is the last, with as many entries as the total (`CompleteIsClosed`). No page that
  failed fits (`BrokenNeverFits`), only the last page of a directory says so if the
  facts are true (`OnlyTheLastEnds`), all pages have all entries
  (`AllPagesAllEntries`), and with a total that is told a page that lies about the end,
  lost an entry or repeats one is noticed because entries that repeat nothing are all
  there exactly if they are as many (`CountsFill`). The converse is that an honest
  directory that tells its end is read in as many rounds as it has pages
  (`HonestListingsAreRead`). A share is walked by offset: up to the offset every file
  was taken, the offset grows, and the adapter remembers that more was announced
  (`WalkIs`, `ShareRounds`). An empty answer in the middle of a share that tells
  nothing of its length is the one fault that cannot be seen, and the property says so.
  The pages of tasks are searched for the first that ends the search (`TasksAreFound`).
  The theorem rests on `LimitsAssumption` (the limits are natural numbers, a share may
  have one file) and `NoneAssumption` (None is no list, page, code or failure).
* Plans: `LoadedMovesAreSafe` shows that `load_executable_steps` with the rows of now
  gives steps that name no file twice, have no target twice and move files that
  are where the plan saw them; two moves with one target are excluded by
  `create_plan` already, and the proof needs that the directory of a target is
  found again from its row (`TargetMatches`). `StoredMovesAreSafe` says it of the plan
  that `create_plan` stores and of what any refresh leaves of it: storing changes
  only the basis (`StoredPlan`), a refresh only the status (`RefreshedPlan`), and an
  invalidated plan loads nothing. `PlannedPlansLoad` is the converse, that the second
  set of checks asks for nothing that the first has not: rows are only added
  (`MovesStayValid`), and two moves that name one file, which `create_plan` does not
  look for, are the exception (`NamedOnce`, `PlannedIsParsed`).

*Only theorems:* `LeaseColumns`, `TerminalIsFinal`, `EveryChangeIsARevision`,
`NoReviewerIsRevived`, `SettledHasNoLease`, `AnEarlierEndHidesTheEpisode` and the
inductive invariants have no run of their own. `ExecutorInv`, `ScanInv`,
`RetentionInv` and the invariants of the push tasks also hold in every state of
the instances of section 3.

*Only model-checked.* Out of the prover's reach: `QueuedIsTaken` and `BegunEnds`
(liveness under fairness). Not proved: the second half of `StoredIsReadRight`, over the
statements of a migration, whose databases and statements are a fixed list that TLC
goes through in full, with a kill after every one of them.

## 5. What is not modelled, and the plan

Not modelled, by component:

* **Organization plans:** that `refresh_plan`, which has no caller in the
  application, races with the reviewers.
* **Credentials:** the TMDB key, which takes the path of the cookie with another
  validator; 115 disabled, where a reset leaves the managed cookie in memory.
* **Search:** ranking, normalisation and the HTTP clients. The choice of titles by
  the warming. The cache of season metadata, one entry in process memory, whose
  cached answers drop the warning that another language was used.
* **Security:** web sessions and rate limits (single statements, or process
  memory without an await); the counter of calls of a token, which can lose one.
* **Settings:** redaction and wording of log records; a clock that is set back at
  a rotation, which breaks the order of pages.
* **Backups:** a cancelled request releases the lock before its thread is done.
* **Schemas:** request schemas and configuration are declarations.
* **Parsing, coverage, subtitles, content policy:** regular expressions over names.
* **Maintenance, manual import, PWA devices, diagnostics, MCP server, CLI, the
  TgtoDrive client, the one-off log-in, the web front end:** no concurrent state
  of their own.
* **Validators of manifests** (`p115_library_write_contract.py`,
  `p115_playback_contract.py`): no caller in the application.

What was noticed and is left as it is in the models: retention of backups removes
the new backup after old ones when a removal fails, and a kill inside the undo
leaves a manifest without a copy, which takes a place of the retention; the
leftover of a killed metadata call is later read as a torrent of the user; the
`limit` branch of the probe cannot be reached (`LimitsSuffice`); a share server
that tells only the next offset cannot be read beyond one page; the
large files of a storage report know nothing of each other, so a plan may name
every copy of one content; paging by offset over a changing directory can skip
an object while the total stays the same.

The plan from here, most important first:

1. A proof of what only TLC has checked: the second half of `StoredIsReadRight`.
2. The TMDB key beside the cookie in `CredentialRuntime`, and the early release of
   the backup lock.
3. `refresh_plan` against the reviewers, once it has a caller.
