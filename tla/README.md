# TLA+ models of the IT asset inventory

The repository is an asset-inventory server for an organisation's computers
(FastAPI and PostgreSQL, `src/server`), a Next.js portal for its
administrators (`src/portal`), and a second service, DeepAgent
(`src/deepagent`), that investigates a machine with a language model and
Velociraptor when the server dispatches an investigation to it. Agents on the
machines enrol with a token, send heartbeats and inventories, and renew their
certificates.

This directory holds TLA+ models of the parts whose correctness depends on
interleavings, failures and ordering, the TLC configurations that check them on
small instances, and TLAPS proofs of the main results for all instances.

## Inventory

### Execution model

One asyncio process serves the API and runs one monitor task
(`monitor_loop`), started in the lifespan of the application. Handlers
interleave at every `await`. Each handler has one database session,
PostgreSQL runs at READ COMMITTED, and `expire_on_commit=False`: an object keeps
what was read until it is read again. A flush writes only the attributes whose
value changed with respect to that copy, without any version check, so a handler
that read a row, awaited, and then commits overwrites what others committed
meanwhile, column by column. `SELECT ... FOR UPDATE` locks are released by the
first commit of the session. `main.py` speaks of several Uvicorn workers;
`docker-compose.yml` starts one. Every process would run its own monitor.

### Components

"Modelled" means that every operation which changes state is an action of a
module; what is left out of the others is in `PROJECT.json` and under "Not
modelled".

| Component | State | Hard behaviour | Module |
|---|---|---|---|
| DeepAgent dispatch queue (`services/dfir_investigation.py`, `llm_dfir.py`) | `dfir_investigations`: `status`, `hermes_status`, `hermes_response`, `external_job_id`, idempotency key, `started_at` | locks released half way through the tick, ambiguous POST outcomes, late and repeated callbacks, restarts | `InvestigationQueue`, `DfirPipeline` |
| DeepAgent job service (`deepagent/api.py`, `runner.py`, `callback.py`) | in-memory `_jobs`, `_tasks`, `_semaphore` | everything is lost by a restart; the callback gives up | `DeepAgentJobs` |
| DeepAgent analysis graph (`graph.py`, `analysis_model.py`) | state of one run | whatever the model answers; the recursion limit; identifiers of evidence | `AnalysisGraph` |
| Local and Hermes investigations (`dfir_investigation.py`, `llm_dfir_external.py`) | the same rows under another orchestrator | copies of five rows, each committed after remote calls; claims repeated after five minutes | `CollectWorker` |
| Velociraptor links (`velociraptor_sync.py`) | `velociraptor_links` | clients read over the network before the machines, one awaited upsert after another; unique keys; synchronisations that overlap | `VelociraptorLinks` |
| Velociraptor artifacts (`velociraptor_artifacts.py`, the seed) | rows with `last_push_status`, the server's own store | a plain read, the push, and a commit of some columns; a server that is rebuilt | `VelociraptorArtifacts` |
| DFIR requests, schedules, hunts, alerts (`dfir_requests.py`, `velociraptor.py`, `monitor.py`) | requests, schedules, hunts, alerts | two reviewers, remote calls before the commit, overlapping scans | `DfirDesk` |
| Machine registry (`heartbeat.py`, `machines.py`, `services/monitor.py`) | `machines.status`, `lifecycle`, `last_seen_at` | stale writes of sweeps and heartbeats over administrator decisions | `MachineRows`, `Fleet` |
| Enrolment, tokens, offline import (`enroll.py`, `tokens.py`, `enroll_attempts.py`, `offline_import.py`) | `enroll_tokens`, `enroll_attempts`, `machines` | two handlers using one token, the CA call in the middle | `EnrollTokens`, `Fleet` |
| Certificate renewal and rescans (`renew.py`, `ca_client`, `heartbeat.py`) | certificates of the CA, a key in Redis | sign and revoke, an answer that is lost; GET and DELETE of the key | `AgentCare` |
| Drifts, tags, assignment (`drifts.py`, `enroll.py`, `services/tags.py`, `machines.py`) | `fingerprint_drifts`, `machine_tags`, `assigned_user_id` | look-up and insert, delete and insert, by several requests | `MachineDesk` |
| Inventory (`inventory.py`, `inventory_sync.py`, `offline_import.py`) | `machine_specs`, `machine_current`, `machine_software` | two reports at once, a default time computed at import | `Inventory` |
| Audit log (`core/audit.py`) | rows linked by `prev_hash` | appends of concurrent transactions | `AuditChain` |
| Sessions (`auth.py`) | refresh tokens and their families | rotation without a row lock | `Sessions` |
| Portal's sessions (`portal/lib/backend.ts`) | cookies, `refreshInFlight`, `refreshCache` | many requests of one page with one expired token | `PortalSession` |
| Accounts (`users.py`, `auth.py`) | roles, `is_active`, `must_change_password` | guards and counts read before the commit, by requests that overlap | `Accounts` |
| Alert engine (`alert_engine.py`, `alerts.py`) | rules, templates, events, notifications, deliveries | commits inside a caller's transaction, a unique key | `Alerts` |
| Notifications (`notifications.py`) | notifications, idempotency keys | look-up and insert, repeated calls | `Notifications` |
| Telegram bot (`telegram_bot_admin.py`, `notifications.py`) | link tokens in memory, configuration and its snapshot | repeated callbacks, a snapshot stored too late | `TelegramBot` |
| System profiles (`system_profiles.py`, `it_contacts.py`) | the dossier of an information system, its requirements, the catalog | guards on old copies, two commits in one request | `SystemProfiles` |
| Agent settings; organisations, contacts, officers, device types, API keys; announcements, compliance, reports, statistics; diagrams; Velociraptor client and configuration; live feed; portal pages | single rows, listings, outcomes of calls | none to speak of | not modelled |

Components meet in shared rows and calls. The dispatch queue and the job service
exchange a POST, a GET and callbacks; a finished investigation and the offline
sweep call the alert engine, which commits in their transactions and calls the
Telegram bot; an enrolment writes the machine, its token, its drift and its tags;
the portal calls `refresh` for the browser; every handler of an administrator
appends to the audit log. The monitor loop runs the sweeps, the cleanup of tokens
and the tick of the investigations one after another.

### What makes each part correct

* Queue: never more than the configured number of active jobs; first created,
  first dispatched; a result is taken once; every investigation ends; nothing a
  worker or callback does resurrects a finished investigation.
* Job service: bounded concurrency, and a job always reports an end.
* Analysis: no answer of the model exceeds the recursion limit or makes two steps
  share an identifier.
* Hermes: one result counts, however often a job is claimed and posted.
* Velociraptor: a row says "pushed" of what was pushed; a completed request was
  approved; what stops a synchronisation of the links has a known reason.
* Registry: a declined machine stays declined; a silent machine goes offline and
  a live one comes back online.
* Enrolment: one token enrols one machine; a refused machine is recorded once.
* Agents: an agent always has a valid certificate; a wish for a scan reaches it.
* Desk: one pending drift, one classification.
* Inventory: what is shown is one report, and a report is skipped only when it is
  the one shown.
* Audit log: the chain verifies.
* Sessions: a family of tokens forks only when one token is refreshed twice at once;
  the portal does not sign out a user by refreshing twice; only requests that overlap
  can take the last super administrator away.
* Alerts: one event a day for a rule and machine, dismissed for the day, and no
  alert stops its caller. Notifications: once for each key.
* System profiles: an approved profile is not changed, compliance is not lost.

## Modules

```
  pipeline                         fleet
  --------                         -----
  InvestigationIds                 FleetIds
    |         \                     |      \
  InvestigationQueue DeepAgentJobs  MachineRows  EnrollTokens
    |         /                        \      /
  DfirPipeline ---implements--> SlotPool  Fleet --- MCFleet, FleetProofs
    |
  MCPipeline, DfirPipelineProofs --- DfirPipelineSafety

  investigations                            administration
  --------------                            --------------
  CollectWorker      VelociraptorLinks      AuditChain (AuditChainProofs)
  DfirDesk           VelociraptorArtifacts  SystemProfiles    Inventory
  AnalysisGraph                             Sessions --- PortalSession
                                            Accounts  Notifications  TelegramBot
                                            Alerts    AgentCare      MachineDesk

  MCForensics: DfirPipeline and the five above side by side
  MCAlerts, MCInventory: Alerts and Inventory with their constants
  MCAdministration: AuditChain and the ten above side by side

  CollectProofs: CollectWorker, DfirDesk, VelociraptorArtifacts, VelociraptorLinks,
                 AnalysisGraph, and the types of MCForensics (with DfirPipelineProofs)
  MachineProofs: AgentCare, MachineDesk
  AccountProofs: Sessions, PortalSession, Accounts, Notifications, TelegramBot, Alerts
  RecordProofs:  SystemProfiles, Inventory, and the types of MCAdministration
                 (with AuditChainProofs, MachineProofs, AccountProofs)
```

`MCForensics` and `MCAdministration` are hosts. Their components share no state,
so a behaviour chooses one of them (`part`) and only that one takes steps: a
property of one component is checked on its own state space, not on the product.

### The investigation pipeline

`InvestigationQueue` is the server's side. Its row variables are columns of
`dfir_investigations`: `status`, `hermes` (`hermes_status`), `prog` (the phase
kept in `hermes_response`), `bound` (`external_job_id` is set), `keyed` (the
idempotency key is set) and `aged` (`started_at` is older than the
reconciliation bound). `accepted` counts the results a row took; it is a history
variable. A worker is one `run_pending_investigations` tick:

| Step of the tick | Actions | What may run in between |
|---|---|---|
| SELECT the active rows FOR UPDATE SKIP LOCKED | `TickStart` | |
| one row: GET, then commit or not | `ReconcileTimeout`, `GetJob` (`ReconcileFound`, `ReconcileMissing`, `ReconcileKeep`, `ReconcileTerminal`), `ReconcileGone` | everything the remaining locks let through; the first commit releases them all |
| count, SELECT pending FOR UPDATE SKIP LOCKED, commit | `claim_deepagent_dispatches`, `ClaimNothing` | |
| one row: commit `analyzing`, POST, commit the outcome | `SendPost`, then `PostAnswered`, `PostAmbiguous`, `PostRefused` or `PostGone`; `DispatchRefused` before the POST | callbacks, requests and restarts, with no lock held |
| the rest of the batch, close the session | `DispatchEnd`, `TickEnd` | |

The loops that handle one row after another are split per row, because they
await between rows. `locks[w]` is the set of rows the session still holds; the
callbacks and the administrator's writes wait for it (`Unlocked`). Stop and
delete read the row, await the audit append, then write: `StopRead` and
`StopCommit`, `DeleteRead` and `DeleteCommit`. `Abort` is a tick that raises
(`StaleDataError` on a deleted row) or whose process stops.

`DeepAgentJobs` is the in-memory registry of DeepAgent: job states, the
semaphore, progress callbacks, the final callback with its retries, the fallback
callback, and a restart that loses all of it. `DfirPipeline` composes both with
the network: dispatch requests that may be lost, refused, answered late or
arrive after the sender stopped waiting, and callbacks that may be lost, delayed
past the timeout and reordered. `Faults` says what the environment may do in a
run. `SlotPool` is the abstract specification of the capacity queue: a pool of
slots that are taken one at a time, only when one is free. `SlotPoolSpec` maps
its set of holders to the rows that are `analyzing`.

### The fleet

`MachineRows` keeps the columns of `machines` that decide whether a machine is
shown and trusted: `status`, `lifecycle = 'decommissioned'` (`retired`) and the
age of `last_seen_at` (`seen`: recent, past OFFLINE_THRESHOLD, past
`lost_after_days`). `EnrollTokens` keeps the tokens, the enrolments each was used
for, the pending attempts per machine and reason, and which tokens and machines
the attempts name: attempts are never deleted and their foreign keys have no
ON DELETE clause, so those rows cannot be deleted any more.

`Fleet` composes them as requests of one server. `req[h]` holds what request `h`
has read and means to write; a request begins with its read action and ends with
its commit, a failure or a restart:

| Code | Read | Commit |
|---|---|---|
| `heartbeat` | `heartbeat` | `RowCommit` |
| `approve_machine`, `reject_machine`, `update_lifecycle` | of the same names | `RowCommit` |
| `import_offline` | `import_offline` | `RowCommit` |
| `perform_enroll`, admitted | `enroll`, before the CA call | `EnrollCommit` |
| `perform_enroll`, refused | `deny` | `DenyCommit` |
| `revoke_token`, dashboard overview | `revoke_token`, `overview` | `RevokeCommit`, `OverviewCommit` |
| `_sweep_offline`, `_sweep_lost` | `SweepOfflineRead`, `SweepLostRead` | `SweepWrite`, `SweepGone` |
| `_cleanup_tokens`, `create_token`, `reissue_token`, `delete_token`, `delete_machine`, attempt approval and rejection | one step each | |

`Flush` is the session's rule: a column is written if and only if the value to
write differs from the value that was read. It is what lets a heartbeat leave a
status alone that an administrator has changed, and a stale one overwrite it.

### The collection worker

`CollectWorker` is the tick for the investigations that DeepAgent does not run,
with Hermes and administrators around it. `case` is the `status` column,
`orchestrator` the `external_orchestrator`, `polled` the age of
`external_polled_at`, `claims` how often Hermes was handed the row, and `copies`
the objects of the tick's session.

| Code | Action |
|---|---|
| `run_pending_investigations`: SELECT at most `Limit` rows FOR UPDATE | `run_pending_investigations` |
| `_state_start`: commit `running`, call Velociraptor, commit | `_state_start`, `start_flows` |
| `_state_poll_collect`, `_state_analyze`: poll, hand over, give up | the disjuncts of `CollectTick` |
| `list_pending_for_external` with the five minutes between two claims | `list_pending_for_external`, `FiveMinutesPass` |
| the two endpoints of `llm_dfir_external.py` | `update_hermes_status`, `submit_hermes_result` |
| stop and delete | `AdminReads`, `AdminWrites` |

The first commit of the tick empties `held`, so that stop, delete and Hermes' posts
can run between two rows; `Writes` puts the copy's outcome into the row whatever it
has become, and ends the tick when the row is gone. A local investigation is
created but never selected, as in SQL, where `NULL <> 'deepagent'` is not true.

### Velociraptor

`VelociraptorLinks` is `sync_velociraptor_links`, as several calls at once: the monitor,
`POST /sync` and a change of the configuration each start one.

| Code | Action |
|---|---|
| the clients, over the network, or a `VelociraptorError` | `read_clients` (`by_hostname`) |
| the machines, sorted out by hardware, with the client of each | `read_machines` (`dedup`) |
| one awaited upsert, which may break the foreign key or the unique `client_id` | `upsert_link` (`Breaks`) |
| the end of the transaction | `commit_links`, `deadlock_detected` |
| its result in the configuration | `_record_sync_result` |

Machines report, change their name and are deleted, and clients report, between any two
of these. `done` are the rows a transaction has upserted; `Seen` is the table as it sees
it. An upsert waits (`WaitsFor`) for another transaction that has written the same
row or the same client; the loop goes through the rows in no particular order, so two
may wait for each other (`Deadlocked`). `rowsBefore` and `clientsBefore` keep what was
last seen before what, which is all that `last_seen_at` is used for here.

`VelociraptorArtifacts` keeps the row (`stored`, `pushState`), the server's definition
(`served`) and the handlers between them. Every handler reads the row by a plain SELECT
into its `copy`; what it commits is the columns that are to differ from that copy
(`Commit`, `Column`), over whatever the row has become. Only an upload (and PUT) flushes
its change before the push, in `flush_upload`, and holds the row from then on
(`Blocked`); the seed and a re-push hold nothing. `push_artifact` is the call with its
outcomes, `existing_check` the look of the seed that may leave the push out.
`pull_server_artifacts`, `read_pulled_row` and then `sync_artifacts_from_server` (or
`_trigger_auto_sync_after_config`, which leaves the status alone when the definition is
the same) are the two ways back; `ServerRebuilt` and `Upgrade` are the server's lost
datastore and the release with another bundle.

`DfirDesk` has requests (`approve_request` and the like read, `commit_review`
writes), one schedule, hunts with the call of Velociraptor between
`create_velociraptor_hunt` or `run_dfir_schedule_now` and `commit_hunt`, and scans
that read the flows without an alert (`_scan_sensitive_flows`) and insert
(`commit_scan`). `dayOld` and `recentHunts` carry the default of
`DfirHunt.created_at`, which is computed when the process imports the module.

`AnalysisGraph` has one action per node of the graph and `nodesRun`, which
LangGraph compares with its limit. A plan is a sequence of tools; `DistinctOf` gives
the plans that the checks can leave of an answer of the model, whatever it is. An item of evidence is its
identifier, its tool and whether it is a detail of the event log.

### Records

`SystemProfiles`: `get_profile(a)` is the load of administrator `a` and keeps what the
guards will look at in `loaded[a]`; every other action is a commit that tests
`loaded[a]` and writes. Creation and a change of level leave `a` in `unsynced` until
`sync_profile_requirements`, the second transaction, or `CrashBeforeSync`. The
catalog and the deletion of referenced machines, contacts and officers are the
steps of other requests. `dossier` gives the texts of each kind of part.

`Inventory`: `specs` is the history with the time that its default gave it, `current`
and `software` the present row and applications. A request is `submit_inventory` or
`import_offline`, then `config_unchanged` or `config_changed`, `load_current` and
`commit_inventory`; the commit writes the columns that differ from what was loaded.
A commit that must fail (a new name twice in one report, a row that is gone) is
`commit_refused`.

`AgentCare`: a renewal is `renew_request`, `renew_cert` (the CA), `revoke` and the
arrival or loss of the answer; a heartbeat is GET, DELETE and answer.

`MachineDesk`: a drift is read in an enrolment and inserted by its commit; `_resolve`
and `resolve_commits` are the two halves of a decision. `set_machine_tags` reads and
deletes, `tags_commit` inserts under the two keys of the table.

### People

`Sessions` splits `refresh` into `refresh_read` and `rotate`, for several requests that
may have read the same token (`refreshing`); `reading` is what is read as live in
between. `PortalSession` extends it with the browser and the portal's
server: a request is `fetchUpstream`, then possibly `refreshCached` or
`refreshTokens`, which joins the refresh under way, and `deliver`, which sets the
cookies. `BackendReads`, `BackendRefuses` and `BackendRotates` are the steps of
`Sessions` seen from there.

`Accounts` splits the request of an administrator in three: `require_super_admin` reads
who asks, `create_user`, `update_user`, `reset_password` or `delete_user` reads the
account and applies the guards, and `commit_changes` or `commit_deletion` writes, after
the audit log was awaited, the columns that were to change. `Notifications` splits the
external call at its look-up. `TelegramBot` has the link tokens in memory, which a
callback takes out (`telegram_callback`) before it writes the user
(`callback_commits`), and the snapshot of the configuration: `get_bot_config` reads,
`store_snapshot` stores, `update_bot_config` commits and `invalidate_bot_cache`
clears.

`Alerts`: a caller is the offline sweep or the end of an investigation, with the
machines it goes through. `trigger_alert` loads the rules for one machine,
`create_notification` or `create_notification_fails` is what one rule leads to,
`_maybe_deliver_telegram` the call and its record, `trigger_ends` the commit. A machine
can be deleted while the sweep is at another (`machine_deleted`): the flush of its row
then raises, and the sweep ends (`sweep_row_gone`). A rule stands with the caller that
triggers its template, so `update_rule` may change the template too. The account of a
user who is being notified is assumed to stay.

### The audit log

`AuditChain` models `append_audit` inside concurrent transactions: the read of
the last visible hash, the insert with an id of the sequence, and the commit or
rollback of the caller. `verify_chain` is the code's check.

## Runs

Passing runs check properties that hold; violation runs show a disagreement
between the code and what the repository says of it. All names below are defined,
with a comment, in the module of their component.

| Run | Question | Result |
|---|---|---|
| `ends` | One investigation under lost, refused and unanswered dispatches, failing look-ups, lost callbacks, restarts of both processes, stop and delete: is one result taken, does its phase never go back, and does it end unless DeepAgent has used up every attempt to report? | holds |
| `forensics` | Two investigations compete for one slot with late dispatches, lost answers and administrators: is the capacity kept, the order FIFO, the contract of `SlotPool` implemented, who can undo an outcome? Beside them the other components of an investigation under their own faults: is one Hermes result taken, is a completed request approved, is what a row says pushed (two handlers), what stops one of two synchronisations that overlap, and do all answers of the model fit the recursion limit and keep steps apart? | holds |
| `administration` | Each component of administration under overlapping requests, failures and restarts: audit log, profiles, sessions, portal, accounts, alerts (the sweep by itself over two machines, and both callers about one), notifications, bot, inventory, certificates, rescans, drifts, tags. The requirements of a profile and its content are two behaviours, each with the approval workflow: they share no other step, and the theorems are about both together | holds |
| `fleet` | Two overlapping requests on one machine and one token, with sweeps, deletions and restarts: types, who undoes a decline, whether a closed token admits anybody | holds |
| `serial` | Requests that do not overlap, two tokens and two possible rows: one enrolment per token, one row per machine, one attempt per refused machine. Of the handlers that only change the status of a row it has the approval and the rejection; the others run in `fleet` | holds |
| `live` | Silent machines go offline, live ones are shown again, expired tokens that no attempt names are removed | holds |
| `lost_result` | Does a 404 only requeue a row that has no result? | violated |
| `stuck` | Does every investigation end when callbacks may be lost? | violated |
| `never_cleaned` | Are expired tokens always removed? | violated |
| `audit_forks` | Does `verify_chain` accept the log of two overlapping transactions? | violated |
| `alert_blocks_sweep` | Does a sweep reach every machine it found, whatever its alerts do? | violated |
| `inventory_skipped` | Is a report called unchanged only when it is what the portal shows? | violated |

Deadlock is checked where the system never stops: the queue can always start a
tick, the fleet can always begin or roll back something, and the audit log can
always read. In the two hosts and the runs of `Alerts` and `Inventory` it is not:
an analysis ends, a renewal stops at `MaxCertificates`, a deleted machine has no
inventory any more, and with one machine and no rule nothing is left to happen.

### Properties

`ends`:

| Property | Says |
|---|---|
| `AcceptedOnce` | one result of an investigation is taken, whatever is retried, delayed, restarted or stopped (for one row; see "Limits") |
| `PhaseNeverRegresses` | reordered progress callbacks do not move an investigation back |
| `EndsUnlessGivenUp` | every investigation ends or is deleted, unless the last attempt of the fallback callback has failed too |

`forensics`:

| Property | Says |
|---|---|
| `CapacityBound` | at most `Capacity` rows are analyzing, the slots claimed and not yet used included |
| `FifoDispatch` | no row is dispatched while an older one is pending, requeued rows included |
| `SlotPoolSpec` | the queue implements the abstract pool of slots `SlotPool` |
| `OneResultEach` | one of Hermes' posts is taken as the result of a case |
| `CompletedLostOnlyIfStale` | only a handler with an old copy and no lock overwrites a completed investigation |
| `OutcomeStays` | the collection tick never takes a completed case back, and revives a stopped one only from a copy made before the stop |
| `CompletedWasApproved` | two reviewers at once may undo one another's decisions but not skip the approval |
| `FalselyPushedOnlyIfStale` | a row comes to say "pushed" of what the server never had only by the seed that leaves its push out, or by a commit that left a column to one that came after its read: never by a refused push or a lost answer alone |
| `ConflictsExplained` | after duplicates are sorted out, only a machine deleted meanwhile, two machines of one name, a client held by another row's committed link, or a deadlock with another synchronisation fail one |
| `WithinRecursionLimit` | the longest run fits `runner.py`'s limit |
| `IdsClashOnlyWithDetails` | two items share an identifier only if one is a detail of the event log |

`administration`:

| Property | Says |
|---|---|
| `NoDanglingLink`, `BrokenForEver` | the chain names committed rows; a break is never mended |
| `DecisionStands`, `ComplianceKept` | a decided profile and its compliance are undone only by deletion, a change of level or a request that had read it before |
| `ForksOnlyOnTwoReads` | a family of refresh tokens comes to have two tokens live or being refreshed only when two requests had read the same one |
| `StaysSignedIn` | requests that find the access token expired together do not end the session |
| `SuperLostOnlyToOverlap` | the last super administrator who can sign in is lost only to a request whose own administrator was demoted, locked or deleted while it was under way |
| `OneReport` | the present row and the applications are those of one report of the history |
| `KeepsACertificate`, `RescanNotForgotten` | an agent is not left without a certificate; a wish for a scan is not forgotten |
| `SnapshotIsCurrent` | after an update senders use the new configuration |
| `OnePendingDrift` | a second pending drift needs two enrolments that looked at once |
| `ExactlyOneClassification` | the keys keep requests that overlap from giving a machine two classifications |
| `DismissedStaysGone` | a dismissed alert does not come back on the same day |
| `SweepCutShortOnly` | a sweep that ends, other than with its process, before every machine it found is marked was ended by an alert with several recipients, a rule or a machine deleted meanwhile or a notification dismissed while it was sent |

A property that says "only if" or "unless" names exactly who may do it: it is the
strongest form that the code satisfies, and what it excepts is a real behaviour
(see "Limits").

### Bounds

| Bound | Meaning | Why it is enough |
|---|---|---|
| `N` | investigations, numbered in `created_at` order | two compete for a slot in `forensics`; one in `ends`, whose properties are about one row. With two rows and every fault the state space is out of reach; `lost_result` has the two rows that its interleaving needs, and the theorems hold for all |
| `Workers` | server processes running the monitor | one, as in `docker-compose.yml`; see "Proofs" for two |
| `Capacity`, `MaxJobs` | limits of the two services | 1 for two rows, so that it is reached; 2 in `lost_result` |
| `MaxAdmin`, `MaxStops` | stop and delete requests under way | 1 each: an administrator's request overlaps the worker, the callbacks and, in the collection tick, Hermes |
| `MaxAccepts`, `MaxUses`, `MaxAttempts` of `Fleet` | counters, capped at 1 or 2 | the properties distinguish 0, 1 and more; attempts are counted to 2 in `serial`, whose `AttemptOnce` is about them, and to 1 elsewhere |
| `MaxAttempts` of `DeepAgentJobs` | attempts of a callback (3 in the code) | 1 in `ends` and `forensics`, where the fallback is the second sending of a result; 3 in `stuck` |
| `NumPhases` | progress callbacks of a job | 2 for reordering, 0 where phases do not matter |
| `MaxNet` | callbacks under way at once | 2 where reordering matters |
| `MaxCases`, `Limit`, `MaxClaims` | cases, the LIMIT of the tick, claims of one case | two copies in one tick; a second claim while the first still posts. After the last claim the five minutes are not told apart |
| `LinkRows`, `HwOf`, `Hosts`, `Clients`, `Syncs` | rows, their machines, names, clients, synchronisations at once | three rows of two machines and one name: duplicates and conflicts; two synchronisations that list different clients of the name wait for each other |
| `Artifacts`, `Bundled`, `MaxDefinition`, `Handlers` of the artifacts | | artifacts do not interact; two definitions, two handlers |
| `DfirRequests`, `Reviewers`, `Hunts`, `Scans` | | two reviewers of one request, two scans of one flow |
| `MaxSteps` | steps of the first plan | 3 as in the code |
| `Hardware`, `Copies`, `Tokens` | machines, rows a machine may get, tokens | rows of different machines interact only through tokens and the sweep; 2 rows or tokens where duplicates matter |
| `Handlers` of `Fleet` | requests under way at once | 2: each race is one stale writer against one other; 1 for what only holds serially |
| `MaxAge` | greatest age of `last_seen_at` | 2 is every threshold; less where sweeps are not the question |
| `Writers`, `MaxId` | transactions, audit rows ever inserted | 4 rows of 3 transactions: a fork, a late commit and a lost id |
| `Admins`, `Requirements`, `Levels`, `MaxParts` | of the profiles | two requests at once, a change of level, a part that is added and removed |
| `MaxRefresh`, `Requests` | tokens ever issued, requests of one page | two rotations after a login; two requests share a refresh |
| `Refreshers` | refreshes of the backend at once | two of one token |
| `Users`, `AdminRequests` | accounts, requests of administrators at once | two of each: two super administrators who demote or delete each other |
| `Machines`, `Rules`, `Callers`, `Orgs` | of the alerts | two behaviours of `administration`: the sweep over two machines, one of which may be deleted or come after a failed alert (`SweepNext`), and both callers about one machine (`OneMachineNext`); rules act one after the other. One organisation; `alert_blocks_sweep` has two, with all callers and machines. `RuleRows` has one row for the rules that are off, whose scope is not read. A delivery is `done` whatever its outcome, which nothing reads |
| `Recipients`, `Keys`, `Senders`; `LinkUsers`, `MaxLinkTokens`, `BotReaders`, `MaxVersion` | | two of each: repeated calls, an old reader |
| `Reports`, `InventoryRequests`, `ExportTimes`, `MaxStarts` | | two requests and three configurations, one of which names an application twice; one restart for the import-time default; files exported at the time of the second process, so that they are the newest before the restart and tie with its reports after it |
| `Beats`, `MaxCertificates`, `MaxWishes` | | two heartbeats at once, two renewals after the first certificate, a wish after a wish |
| `Prints`, `MaxDrifts`, `Enrols`, `Resolvers`, `Taggers`, `Purposes`, `People` | | two requests of each kind; three drifts, so that a third follows two |

Symmetry over handlers and tokens is used in `fleet` and `serial`, which
check safety only; investigations are not symmetric because the queue orders
them.

### Fairness

Pipeline (`ends`, `stuck`): `monitor_loop` ticks for ever and a tick goes on
(weak fairness of `Tick`); time passes (`Age`); the tasks of DeepAgent's event
loop run and its semaphore is first come first served (strong fairness of
`JobStep`, since a free slot comes and goes); a dispatch or callback that is
under way long enough is handled although row locks come and go (strong
fairness, PostgreSQL grants a row lock in the order of requests); an attempt of
a callback that is not answered times out (weak fairness of `AttemptTimeout`); both
processes do not restart for ever. A restart of the server between two ticks, or one
that does exactly what the end of a tick does, is the same step as that end, so it
may happen again and again. Nothing else is assumed of faults: the loss of a callback is a
separate action, and `ends` and `stuck` include it.

Fleet (`live`, `never_cleaned`): a request ends; a sweep that has begun ends;
`monitor_loop` comes to its offline sweep again and again (strong fairness,
because another sweep or a heartbeat may disable it for a while) and to the
cleanup (weak fairness: in the model it is enabled exactly when the DELETE would
remove something and not be refused); the server does not restart for
ever, but for a restart that only ends what would end by itself.
`LiveMachineShown` assumes `LiveAgents` as well: the agents keep sending
heartbeats and not all of them fail.

## Proofs

TLAPS checks the following for all values of the constants. Constants are only
assumed to be of their kind (`Nat`, `MaxAttempts > 0`) and to satisfy the named
assumptions of their modules: a first super administrator, reports and fingerprints
that an agent can send, idempotency keys that differ from the absence of one, finitely
many recipients and scans where the model counts them. Sets of workers, faults,
handlers, machines, requests and users are arbitrary. The theorems about capacity,
order, jobs and results have the hypothesis that there is one worker. Every
safety property that a run checks is the conclusion of a theorem.

`DfirPipelineProofs` proves `TypeCorrect`: `TypeOK` is inductive.

`DfirPipelineSafety` proves, from `TypeOK`:

* `CompletedProtected` (`CompletedLostOnlyIfStale`), for any number of workers.
  The strengthening is `LocksHeld`: the rows a worker holds locks on are
  `analyzing`, because every other writer waits for the lock, and it holds none
  once it has claimed. So a step that takes `completed` away belongs to a writer
  whose lock is gone.
* `CapacityHolds` (`CapacityBound`). `CapacityBound` alone is not inductive: the
  slots that a claim hands out are still `pending` rows. The strengthening
  `ReservedInv` counts `Analyzing` together with the claimed rows; a claim adds
  at most the free slots, and each dispatch moves one row from one part to the
  other.
* `ImplementsSlotPool` (`SlotPoolSpec`): from `ReservedInv` each step maps to one
  `Acquire`, one `Release`, or a stutter. That no step takes two slots is a fact
  of the code's loop, one commit per dispatch.
* `JobNamed` (`JobNamedWhileAnalyzing`): `ClaimInv` says that claimed and analyzing
  rows are bound. Only a reconciliation unbinds a row, in the same
  commit that requeues it, and a tick reconciles before it claims.
* `DispatchIsFifo` (`FifoDispatch`): `ClaimInv` also says that every pending row
  that is not claimed is younger than the claimed ones, which holds because only
  the tick requeues and new rows are the youngest; the claimed rows are dispatched
  oldest first.

* `PhasesAdvance` (`PhaseNeverRegresses`), for any number of workers: only the progress
  callback and the worker write the phase, and the callback compares it with the one
  that its lock keeps.
* `ResultTakenOnce` (`AcceptedOnce`), for one worker. A row that took its result is over
  (`ResultInv`), so only what takes a row back to `pending` or `analyzing` could let it
  take a second: a claim never has it, and a reconciliation that requeues it must
  find no job. But a row that has taken a result, or has one in the network, has a job
  (`JobsKnown`), as long as DeepAgent does not restart. If it does, the tick still
  holds the lock of the row when there is one row (`LockedWhileReconciled`),
  and the result has to wait. Hence the hypothesis: no restart of DeepAgent, or one
  row. With two rows and a restart the property is false: that is `lost_result`.

The single worker is necessary: with `Workers = {w1, w2}` in `forensics.cfg`
TLC finds `CapacityBound` violated. The claim releases its locks and leaves its rows
`pending` until the dispatch commits, so a second process counts the slots as
free and claims the same rows. How far several processes can go together is the
subject of two theorems without that hypothesis, for finitely many workers:

* `CapacityOfAllWorkers`: at most `Capacity` rows per worker are analyzing. The invariant
  `WideReservedInv` counts the analyzing rows together with the *pairs* of a worker and
  a row it has claimed, since two workers may hold one row; a dispatch spends one pair
  (`DispatchSpends`), and a claim finds at most `Capacity` pairs of each other worker
  (`PairsBounded`) and fills only what is free beside the analyzing rows
  (`ClaimKeepsWide`). TLC reaches the bound with two workers, so it is exact there.
* `ImplementsWiderPool`: the queue then implements `SlotPool` with that many slots.

`AuditChainProofs` proves `LinksHold` (`NoDanglingLink`) and `BreakIsPermanent`
(`BrokenForEver`) for any number of transactions. The invariants are that ids are
used once and in order (`Used`) and that the rows of a transaction, and the hash
it has read, name the genesis hash, a committed row or one of its own earlier
rows (`PrevLinked`), so that a commit leaves no link behind. `SerialChainVerifies`
adds that with one transaction at a time `verify_chain` always accepts, which is
what `audit_forks` refutes for two.

`FleetProofs` proves, for any sets of hardware, tokens and requests:

* `FleetTypes` (`FleetTypeOK`).
* `RevokedEnrolsNoMore` (`RevokedNeverEnrols`): from the types, because a commit
  finds no row to mark as used.
* `DeclineHolds` (`DeclineLostOnlyIfStale`): what a request will write depends on
  what it read, which is no longer in the row. `DeclineInv` keeps it: a request
  that has read a declined row means to leave it declined, or, for an enrolment,
  to make it `pending`. A request that changes the column to anything else has
  therefore read another status.
* `ClosedDrains` (`ClosedTokenDrains`): a token is `expired` only after its time has
  passed (`LateInv`, which also covers the requests that are about to mark it), so
  the gate refuses every closed token and the enrolments under way only become
  fewer. The theorem assumes that finitely many requests are under way, so that
  they can be counted.
* `UsesBounded`, `RowsBounded`, `AttemptsBounded`: how wrong each of the three checks
  can be that are made before an insert. The enrolments a token was used for together
  with those under way (`UseInv`), the rows of one hardware with the inserts under
  way (`RowsInv`) and the pending attempts of a machine with those being filed
  (`AttemptsInv`) are never more than the requests that can overlap: a check
  passes only as long as nothing is stored, so whatever is stored later had passed
  it before. With one request at a time this is `SerialUse` (`SingleUse`), `SerialRows`
  (`OneRowPerMachine`) and `SerialAttempts` (`AttemptOnce`).

`MachineProofs` proves, for any number of requests of each kind:

* `CertificateKept` (`KeepsACertificate`), by `RenewalSound`: the certificate that a
  renewal has signed is neither the one in use nor revoked, because the CA only
  revokes the one that the request came with.
* `RescanKept` (`RescanNotForgotten`), by `WishHeld`, which is a little
  stronger: a heartbeat that deletes the key has seen it, so the wish passes from
  the key to the heartbeat.
* `DriftUnlessRaced` (`OnePendingDrift`), by `DriftsSound`: an enrolment that is about
  to insert found no pending drift; if there is one when it commits, two enrolments
  looked at once. A decision only ends drifts.
* `OneClassification` (`ExactlyOneClassification`), by `TagsSound`: what a request has
  deleted and what it will insert is at most one classification each, and the index
  refuses the rest.

`CollectProofs`:

* `HermesOnce` (`OneResultEach`) and `OutcomesStay` (`OutcomeStays`), by `OnceAnalysed`
  and `CollectSound`: a row that is analysed has no result yet, a row with a result
  is over, and the tick's copy of such a row is "analyzing", from which the tick
  writes nothing.
* `ApprovedFirst` (`CompletedWasApproved`), by `ReviewsSound`: whoever has read a
  request as approved read it after an approval, and approvals are not forgotten.
* `PushedWasServed` (`FalselyPushedOnlyIfStale`), by `ServerSound` and `ArtifactsSound`: a
  handler that reports "accepted" or brings back a pulled definition carries one that
  the server has had, and a copy of a row that is still there is of a row
  with a definition. The theorem then looks at the two columns that a commit writes or
  leaves: unless it left one of them, the row is the pair that the handler vouches for.
* `AnalysisEnds` (`WithinRecursionLimit`) and `StepsToldApart` (`IdsClashOnlyWithDetails`),
  by `GraphSound`: `NodesCounted` gives the nodes that have run as a function of the
  node that is next and of the steps collected, for each of the two tiers, and
  bounds it by the length of the plan; `ItemsNumbered` says that a step numbers its
  own items only.
* `ConflictsHaveReasons` (`ConflictsExplained`), by `LinksSound`: for any number of
  synchronisations, what one has read names each machine once, the table as it sees it
  gives each client to one row, and what two of them have written is apart, because an
  upsert waits for what another has written. So the link that an upsert meets is one of
  its own transaction, of a machine of the same name, or a committed one.
* `ForensicsTypes` (`ForensicsTypeOK`): a behaviour of the components side by side is
  one of each of them (`EachBehaves`), so their theorems hold in it as well, and each
  keeps its types. Several are inductive only together with what a step relies on: a
  flow has at most as many alerts as scans run at once (`AlertsCounted`), Hermes posts
  for a claim that was given (`ClaimsGiven`), and a link belongs to a row that is there
  (`LinksSound`).
* `ForensicsAreSafe` and `ForensicsStepsHold`: with one worker, all properties of the run
  `forensics` hold in its specification for every value of the other constants.

`RecordProofs`:

* `DecisionsHold` (`DecisionStands`) and `ComplianceHolds` (`ComplianceKept`), by
  `LoadedTyped` and lemmas that say, for each action, which request ends in it and
  what its guard saw.
* `InventoryAgrees` (`OneReport`), by `InventorySound`: a commit writes the columns of
  its report that differ from what it has loaded, so over an unchanged row it leaves
  exactly its report, which it also adds to the history.
* `SkippedWhileTimesAdvance` and `OneRequestSkipsUnchanged` turn the finding
  `inventory_skipped` into a statement of its cause. They assume `SnapshotsAdvance`: each
  commit stores a later `collected_at` than those stored before. The newest
  configuration of the history is then the one that the portal shows, but for a commit
  that was overtaken (`NewestShown`), and with one request at a time none is
  (`LoadedIsPresent`), so `SkipsOnlyUnchanged` holds, with imports and any reports. Two
  configurations stored by one process have one time, which is how the run breaks it.
* `AdministrationIsSafe` and `AdministrationStepsHold` put the theorems about the components
  together: in the specification of the run `administration` all its properties hold,
  for every value of its constants. `SignedInStaysHere` is the one that needs an
  argument, because in that specification the sessions also take steps without the portal.
* `AdminTypes` (`AdminTypeOK`), as for the investigations, with `EachBehaves` and the types
  of each component: those of the dossier are inductive as they stand; the inventory's
  need to know what a request carries in each phase (`RequestsTyped`), the links of
  the bot that a chat was linked through a token that is gone (`ChatsSound`), the
  certificates `RenewalSound`, and the desk `DriftsSound` (`DeskRows`).

`AccountProofs`:

* `ForksOnlyOnOverlap` (`ForksOnlyOnTwoReads`) with `FamiliesBegun`: a family is named by
  its first token, so a login starts a new one, and a rotation replaces the token that it
  has read; a second heir therefore needs a second request with that token. `LiveUnique`
  (at most one live token of a family, as long as no token is read twice at once) and
  `EndedFamilies` (an ended family comes back only through a refresh that had read
  before) follow.
* `SuperLostToOverlap` (`SuperLostOnlyToOverlap`), by `AccountsSound`: a request never
  takes anything from its own administrator, so the last one who stands is lost to
  somebody who no longer stands. `SuperStaysAlone`: if requests do not overlap,
  whoever has asked stands until the answer (`AskerStands`), so `SuperRemains` holds.
* `KeysOnce` (`OnceForEachKey`) by `InboxSound`: the index decides between two calls.
  `LinkedOnce` (`TokenLinksOnce`) by `LinksSound`: a token that is being answered or has
  linked a chat is gone from memory, and no token is both. `SnapshotHolds`
  (`SnapshotIsCurrent`) is inductive as it stands.
* `SignedInStays` (`StaysSignedIn`): a session goes on. `PortalSound` says
  that a refresh goes on for somebody who waits; `Newest`, that the browser holds the
  newest pair or the one before it, and in the second case that the cache knows the
  newest and it is on its way; `GoesOn` is `Newest` until an answer is lost or
  the sessions are ended on purpose.
* `DismissedForToday` (`DismissedStaysGone`): a row is only added for an alert without an
  event, and events outlive the rows. `AlertsTyped` are the types, with what a
  caller holds.
* `SweepCutShort` (`SweepCutShortOnly`), by `SweepInv`: every machine that the sweep has
  found waits, is marked in the open transaction, is committed offline, was heard of or
  is gone.
  `SweepSteps` says of each step that the sweep goes on with them, begins, ends with all
  of them, or fails, and why it fails. `OneRecipientNeverBlocks` adds that with one user, and as
  long as no rule, machine or notification is deleted, the comment that
  `alert_blocks_sweep` refutes is true: the key shared by the recipients is its cause.

`JobNamedWhileAnalyzing`, `RevokedNeverEnrols`, `OneLivePerFamily`, `SuperRemains` (for
requests that do not overlap), `EndedFamilyStaysEnded`, `TokenLinksOnce` and `OnceForEachKey` are proved without a run of their own.

Only model-checked: the liveness properties `EndsUnlessGivenUp`, `SilentGoesOffline`,
`LiveMachineShown` and `UnnamedTokensCleaned`, which are out of the reach of the
prover, like everything with ENABLED and induction over data. The properties of
the runs that expect a violation are refuted, not proved.

## Findings

* `lost_result`: the reconcile loop takes all its locks in one SELECT, but the
  first commit of the loop (`dfir_investigation.py:628`) releases them. A later row can accept its result
  while the loop is still busy with an earlier one, and is then set back to
  `pending` by a 404 of a DeepAgent that restarted: the finished report is lost
  and the investigation runs again. The comment at line 376 calls the 404 safe.
* `stuck`: after the last attempt of both callbacks DeepAgent keeps the job as
  finished and answers GET with 2xx. `_state_check_deepagent_job` does nothing
  then, and a row that is not `dispatch_uncertain` has no age bound, so it stays
  `analyzing` and keeps its slot. The comment at `deepagent/api.py:96` says this
  must not happen.
* `never_cleaned`: one refused enrolment that names an expired or used token makes
  the single DELETE of `_cleanup_tokens` fail from then on.
* `audit_forks`: two overlapping transactions name the same predecessor, and
  `verify_chain` reports a break although no row was changed.
* `alert_blocks_sweep`: all notifications of an alert carry one idempotency key, and
  the key is unique. With two recipients the commit fails; its rollback takes the
  sweep's own changes along and expires the rows that the sweep has still to go
  through, so the sweep ends, each time. The comment at `monitor.py:61` says an alert
  does not block the sweep.
* `inventory_skipped`: the newest snapshot is looked up by `collected_at`, whose
  default is computed when the process imports the module, so all snapshots of one
  process carry one time. A report that is back at an older configuration can be
  compared with that one and answered "unchanged" although the portal shows another.

### Other divergences met while modelling

They have no run of their own: most are visible in one definition or say nothing that a
property could refute. Where a definition is named, TLC refutes it on the instance given.

* local investigations never start: `dfir_investigation.py:450` asks for
  `external_orchestrator != "deepagent"`, which a NULL does not satisfy, although the
  comment at line 442 includes them;
* no timeout ends an investigation that Hermes does not answer, although
  `dfir_investigation.py:965` says so;
* the artifact seed compares the bundle with the row after it has replaced the row's
  definition (`velociraptor_artifact_seed.py:113-129`), so an artifact that was pushed
  is not pushed again after an upgrade, against the comment at line 122:
  `SkipsOnlySameDefinition` of `VelociraptorArtifacts` is false with one artifact, two
  definitions and one handler;
* the synchronisation of links still fails, against `velociraptor_sync.py:234-235`, for
  two machines of one name, and for a single machine that has enrolled again: only its
  newer row is linked, but the committed link of the older one has the client.
  `OneMachineNeverConflicts` of `VelociraptorLinks` is false with two rows of one
  machine, one client and one synchronisation;
* the guards of the super administrator (`users.py:11`, `users.py:265`) are evaluated
  before the commit, so two who demote, lock or delete each other at once leave nobody:
  `SuperRemains` of `Accounts` is false with two users and two requests;
* a wish for a scan is put on the Python object when Redis fails (`machines.py:777`);
  nothing reads it;
* `EnrollAttempt.created_at` (`models.py:633`) and `DfirHunt.created_at`
  (`models.py:795`) default to the time of import: after 24 hours of uptime each
  retry of a refused machine records a new attempt (`enroll.py:41-42`), and new hunts
  are not seen by the alert scan (`monitor.py:466-475`);
* an offline export that is older than the present inventory overwrites it, against
  `inventory_sync.py:4-6`; a report that names an application twice fails the unique
  index (`models.py:362`) at every commit;
* one idempotency key for several recipients reaches nobody
  (`services/notifications.py:153-163`);
* the portal's `fetchJsonUpstream` drops a rotated pair, and its logout does not pass
  the refresh token on;
* an account with refresh tokens cannot be deleted;
* the deletion of a contact ignores the freeze of a profile, and some handlers check
  the freeze again after their commit (`system_profiles.py:1465`), so they may answer
  400 although they have committed;
* changes of a JSONB value in place are not written (`raw_artifacts`), and the job of
  an external investigation is bound by its first progress report.

### Limits

The models also show the limits of properties that hold, which a change of one
configuration reproduces:

* with `Handlers = {a, b}`, `serial.cfg` refutes `SingleUse`, `OneRowPerMachine`
  and `AttemptOnce`: two enrolments that overlap in the CA call both pass the gate
  with one token, and two first enrolments of one machine insert two rows, after
  which `scalar_one_or_none` raises for that machine;
* `DeclineLostOnlyIfStale` names who undoes a decline: a heartbeat, approval or
  sweep that read the row before (`online` written over `decommissioned`). A
  declined machine that enrols again becomes `pending`, and its next heartbeat
  sets it `online`, with `lifecycle` still `decommissioned`;
* `CompletedLostOnlyIfStale` has the same shape: a dispatch whose outcome comes
  after the result overwrites `hermes_status`, and a stop that read the row before
  the result turns a completed investigation into a failed one;
* `AcceptedOnce` is about one row: with two active rows and a restart of DeepAgent a
  row that has its result is requeued (`lost_result`) and takes a second one;
* `ForksOnlyOnTwoReads` names the way in which a family of refresh tokens forks: two
  refreshes of one token that overlap, since `refresh` takes no row lock. The portal
  sends one at a time;
* `SuperLostOnlyToOverlap` likewise allows the two super administrators above;
* so do the properties of artifacts, inventories, drifts, certificates and the bot's
  configuration: they except a copy that was old when it was committed, two look-ups at
  once, an answer that was lost, a snapshot stored late. The code does nothing against
  these; the properties show that there is no other way;
* `SilentGoesOffline` assumes that no enabled rule for silent machines has two
  recipients: that is what `alert_blocks_sweep` shows.

## Abstractions

* A callback, and each other handler whose lock is held until its commit, is one
  step. `SKIP LOCKED` therefore never meets a row that such a handler is writing:
  `FifoDispatch` is about rows no request is writing.
* A worker that claims a row which its session already holds gets the copy it has;
  with one worker the copy is that of its own last write, so it is not modelled.
* The branch of `_state_check_deepagent_job` for a row without a job is not an
  action; `JobNamed` proves that one worker never reaches it.
* In `Fleet` a machine keeps its fingerprint (`MachineDesk` has its changes) and
  there is one organisation: which row an
  enrolment finds depends on the hardware alone.
* `revoke_token` deletes the row, so the status REVOKED is never written and the
  branch that refuses it is dead.
* What the language model and a tool answer is any answer, and the evidence that fits
  the budget any part of it.
* A definition of an artifact stands for its sha256, a report for its `config_hash`.
* Requests whose awaits do not matter to a property are one step: the requests of
  the catalog, of the schedules.
* The remote systems (the CA, Velociraptor, Redis, Telegram) succeed or fail at each
  call; a call that fails may have been carried out where that matters.
* A row of the audit log stands for its content hash: distinct rows are assumed to
  have distinct hashes.
* Deleting a token or a machine, approving an attempt and creating a token read
  and write without an await that matters to the properties, and are one step.

## Not modelled

* The analysis of a local investigation by the server's own model: no row reaches it
  (see above). The chat about an investigation, and the limit of five active
  investigations of a machine, which is counted before the insert.
* The scan each minute for new and lost machines (`_scan_alerts`): a third caller of
  `trigger_alert`, with the same steps as the two that are modelled.
* Agent settings, organisations, contacts, officers, device types and API keys:
  single rows, written in one transaction; what the deletion of a contact or an
  officer does to a profile is in `SystemProfiles`.
* Announcements, compliance, reports and statistics, diagrams and the configuration of
  the language model: listings, exports, prompts; no order of theirs matters.
* The Velociraptor HTTP client and its configuration row, the proxy for single
  collections, and the loop over the schedules, which nothing starts.
* The live feed, which is best effort and never read back, and the portal's pages.
* Enrolling a second factor, an administrator unlinking another user's Telegram chat,
  and test messages.
* The agents on the machines, which are not in the repository: they use the
  certificate of the last answer and send what the models let them send.

## Further work

Which cases the LIMIT of the collection tick can starve, as a liveness property: five
investigations that Hermes never answers keep every younger one from starting
(`dfir_investigation.py:453`), and the code states nothing that this would contradict.
