# TalkFlow: TLA+ models, model checking and proofs

TalkFlow is the control plane of an outbound AI calling platform. A telephony
gateway publishes what happens on calls to Kafka; a FastAPI backend over
PostgreSQL and Redis ingests it, governs scripts and campaigns, imports leads,
feeds the VICIdial dialer, hands qualified calls to human verifiers and keeps
recordings. A Next.js dashboard is what managers, verifiers and QA work with: it
calls the API, keeps much of its own state in the browser and goes on when a call
fails. This directory specifies the parts of both whose behaviour depends on the
order in which requests, messages, answers, crashes and retries happen. Paths of
the backend are relative to `src/apps/backend/`, those of the dashboard to
`src/apps/dashboard/src/`.

## 1. Inventory

### Call ingest worker — `workers/call_ingest_worker.py`
* **State.** The call registry (`calls`), its partitioned children
  (`call_events`, `transcript_turns`, `call_node_path`,
  `call_qualification_fields`), the `call.completed` rows of the outbox; the live
  board in Redis (one key per call and an index set); the consumer group's
  committed offsets and each consumer's in-memory position.
* **Operations.** `run_worker` (poll, handle, commit offsets), `handle_opened`,
  `handle_state_event`, `handle_transcript`, `handle_field`, `handle_closed`.
* **Interaction.** Five topics keyed by call; one PostgreSQL transaction per
  message; best-effort Redis writes *before* the commit.
* **Hard.** Redelivery, any order between topics, two consumers across a
  rebalance, a dropped batch, a crash between commit and offset commit.
* **Correct when** an event counts once whatever is redelivered, nothing is
  attached to a call that does not exist, a call closes once with one
  announcement, and the live board shows what the registry holds.

### Calls API — `app/modules/calls/`
* **State.** The same registry. **Operations.** `PATCH` disposition
  (`update_disposition`), reads. The pure tables in `policies.py` (terminal
  statuses, eligibility, what a disposition implies) are shared with the worker.
* **Correct when** a stored disposition, the qualification pair and the VICIdial
  status agree.

### Script governance — `app/modules/scripts/`
* **State.** `scripts` (status, `current_version`, `active_version_id`, edit
  counter), `script_versions`, `script_activations`, the script binding of
  `campaigns`, script events in the outbox.
* **Operations.** create, duplicate, edit, new version, edit version, submit,
  approve, reject, activate. Diff, simulation, listing only read.
* **Interaction.** Activation writes the campaign row, which the campaign service
  writes too; the migrated database adds a trigger that protects versions which are
  no longer drafts.
* **Hard.** Every request reads without a lock and writes at commit; approve and
  activate flush in between. `talkflow_backend.md:560` lists simultaneous
  activation among the five flows that must be tested for concurrency.
* **Correct when** versions are numbered without gaps, nothing unsigned goes
  live, every move of a pointer is accounted for, and a submitted version no
  longer changes.

### Campaigns — `app/modules/campaigns/`
* **State.** `campaigns` (status, bindings, `version`), the VICIdial list map.
* **Operations.** create, update (with optional expected version), start (guard
  `can_start_campaign`), pause, stop, bind script.
* **Interaction.** Creation, update and `bind_script` write the two columns that
  activation writes (`script_id`, `active_script_version_id`).
* **Hard.** The version guard is evaluated on an unlocked read; start's guard
  reads the script version, the row and the lists at different moments; `bind_script`
  checks a version it does not lock.
* **Correct when** a campaign becomes active only through the guard, is bound by
  `bind_script` to a signed version only, and each accepted edit is visible to the
  next optimistic writer.

### Lead import and hopper push — `app/modules/leads/`
* **State.** `lead_import_jobs` (status, the rows of the file, the VICIdial run),
  `leads`, VICIdial's hopper.
* **Operations.** upload, save mapping (which classifies every row), commit, start
  and stop the VICIdial run, assign a list, delete a batch, edit and create a lead,
  bulk assign.
* **Hard.** Leads are pushed to the dialer in a loop of remote calls before the
  commit that remembers it; suppression is read once before the loop.
* **Correct when** a batch is imported once, and no lead is pushed twice or after
  its number was suppressed.

### Suppression register — `app/modules/suppression/`
* **State.** `suppression_entries`, the lead flag, a Redis verdict cache (300 s).
* **Operations.** check, add, remove, CSV import.
* **Hard.** Cache and database are written in separate steps, by concurrent
  requests. **Correct when** no answer "clear" outlives an added entry.

### Recordings and retention — `app/modules/recordings/`, `workers/recording_reconciler.py`, `workers/retention_purger.py`
* **State.** recording rows (state, legal hold, retention), objects in the object
  store, one-time download tokens in Redis.
* **Operations.** register, reconcile, request and consume a download, set and
  lift legal hold, purge. **Hard.** object store and database change in separate
  steps; the purger acts on what it selected earlier.
* **Correct when** nothing under legal hold is deleted and every row that says
  "available" has its object.

### Transfers and verifier desk — `app/modules/transfers/`, `app/modules/verifier/`
* **State.** `transfers` (status, verifier, attempt), verifier availability,
  callbacks. **Operations.** reserve, accept, reject, dispose, retry, create
  callback, ring watchdog. **Hard.** unlocked reads by two verifiers and the
  watchdog. **Correct when** one transfer is bridged by one verifier.

### Telephony webhooks — `app/modules/telephony/`, `app/core/idempotency.py`
* **State.** idempotency keys, webhook logs, dispositions by lead.
* **Operations.** start and disposition webhooks. **Hard.** redelivery; the claim
  is stored apart from the effect. **Correct when** each delivery takes effect
  exactly once.

### Transactional outbox and realtime fan-out — `app/core/outbox.py`, `app/modules/realtime/`
* **State.** outbox rows with a sequence per channel, socket subscriptions.
* **Operations.** write, dispatcher tick, replay, publish. **Hard.** sequence
  allocation without a lock, two dispatchers, order of commits. **Correct when**
  a subscriber sees each event of a channel once and in order. The dispatcher is
  only started by `tests/test_step32_outbox.py`.

### Authentication and sessions — `app/modules/auth/`, `app/core/redis.py`
* **State.** users, refresh-token families, session records and revocations in
  Redis. **Operations.** login, refresh with rotation, logout, revocation.
  **Hard.** two refreshes with one token. **Correct when** a reused token
  revokes its family and an honest client keeps exactly one.

### The rest
* **Metric rollups** (`workers/rollup_worker.py`,
  `workers/analytics_rollup_worker.py`): SQL folds behind a watermark.
* **Exports, QA, compliance, rule sets, audit, users and roles, operations**:
  create/read/update of single rows, without a protocol of their own.
* **Adapters** (`app/packages/vicidial`, `app/packages/telephony`,
  `app/packages/storage`): I/O over external services.

### Dashboard: session client and navigation — `lib/api.js`, `context/AuthContext.jsx`, `components/auth/`, `components/layout/`, `config/navigation.js`
* **State.** The cookie pair and the stored profile of the browser; per tab the
  page, the user, the shared refresh promise and the calls in flight; on the server
  the refresh tokens, sessions and the access tokens that ran out.
* **Operations.** `apiFetch` with refresh and replay, sign-up, sign-in, `/auth/me`
  at the start, sign-out, guards, the tabs a role is offered.
* **Hard.** The refresh token is rotated at every use and a second use revokes the
  session; calls meet their 401 together, in two tabs, or after a reload; answers
  are lost. **Correct when** no token is spent twice, no call is carried out twice
  and none waits for ever.

### Dashboard: lead desk — `components/leads/`
* **State.** The table of batches, the rows of a list, the import wizard, the
  suppression list and its copy in `localStorage`, calls in flight.
* **Operations.** Fetches, run switch, edits, deletion, the wizard's upload,
  mapping and commit, file import, extraction of suppressed numbers.
* **Hard.** Answers in any order, an early edit to be rolled back, a wizard left
  while its call runs. **Correct when** table and wizard show what the server has,
  and keys a file brought in stay.

### Dashboard: campaign desk — `components/campaigns/`
* **State.** The list on screen and in `localStorage`, team rosters, the open form.
* **Operations.** Fetch and merge, creation under a made-up id, edits, binding,
  transfer and routing forms, deletion. **Hard.** A fetch merges the list it saw
  when it began; edits are not sent to anyone. **Correct when** what is stored is
  what is shown and no answer drops a campaign.

### Dashboard: script desk — `components/call-scripts/`
* **State.** The scripts on screen and in `localStorage`, the versions the desk
  keeps, the tombstones of deleted scripts, editor and simulator.
* **Operations.** Fetch and merge, creation, edits, activation, withdrawal,
  deletion, simulation. **Hard.** Deletions and edits live in the browser only
  while the server goes on listing. **Correct when** a deleted script stays away
  and the snapshot of a version left behind never changes.

### Dashboard: calls and QA — `components/calls/`, `components/qa/`
* **State.** One stored copy of the calls, the state of either tab, the walks over
  the pages of `GET /calls`. **Operations.** Walk, filters, panels, the QA queue
  with its sample, audits, scorecards. **Hard.** Pages read by offset while calls
  go on opening; audits live in the copy only. **Correct when** a walk leaves each
  call once, an audit is ended only by a walk, and no unaudited call drops out of
  the sample.

### Dashboard: transfer, verifier, alert, recording, analytics and settings desks — `components/transfers/`, `verifier/`, `system/`, `recording/`, `analytics/`, `settings/`
* **State.** Per tab, made anew whenever the tab is mounted: the failed-transfer queue,
  the verifier's card, alerts and the dialog over them, recordings and their audit
  form, exports and their dialog, settings and the "Saved" badge; timers and calls that
  end after their tab is gone. **Operations.** Buttons that send and go on whatever the
  answer is, forms, dialogs, tab changes, reloads. **Hard.** Buttons pressed again
  before the answer, answers and timers in any order. **Correct when**, while a tab
  stays, no late end puts a transfer back into the queue, reopens an alert or changes
  an audit, and the copies a dialog shows are current. (A late accept does open a
  completed verification again; no property excludes that.)

### Dashboard: the rest
* **Accounts desk** (`components/users/`): calls `/admin/users...`, while the API has
  `/users` and `/users/{id}/approve`: every request ends in 404 and the screens show
  sample data.
* **Reporting and audit screens** (`components/reports/`, `audit/`, `dashboard/`,
  `charts/`, `profile/`): displays of sample data or of one read.

`PROJECT.json` lists the same components with their status, and under `hazards`
what in this code a test would hardly reach, each at its line.

Hazards of the same kinds that are not modelled and not listed there:
`campaigns/service.py:247` (the version guard is read before the write and not repeated
in it), `retention_purger.py:24` and `recording_reconciler.py:22` (object store and row
in separate steps), `auth/service.py:301` (two refreshes of one token in the database),
the order of the outbox dispatcher (`core/outbox.py:103`), sequence numbers taken
without a lock, `core/outbox.py:58`; two verifiers on one transfer,
`verifier/service.py:90`; one idempotency key for two webhooks,
`telephony/service.py:66`; `scripts/service.py:721` and `:536`, `leads/service.py:450`
and `:811`. In the dashboard: an unknown role gets the navigation of the master
administrator (`config/navigation.js:23`), a stored profile is believed before the
server has answered (`context/AuthContext.jsx:29`), and several screens read
`res?.data` of a `Response`, which has none (`VerifierView.jsx:144`,
`AnalyticsView.jsx:101`, `AuditLogsView.jsx:47`).

## 2. Modules

| module | models | kind |
| --- | --- | --- |
| `CallPolicies` | `app/modules/calls/policies.py` | pure tables |
| `CallIngest` | the ingest worker, Kafka, PostgreSQL, Redis | detailed specification |
| `CallLedger` | what the worker's three rules promise | abstract specification |
| `CallIngestProofs` | — | theorems about `CallIngest`, with the refinement of `CallLedger` |
| `ScriptGovernance` | `app/modules/scripts/` and the script binding of `app/modules/campaigns/`, both schemas | detailed specification |
| `ScriptProofs` | — | theorems about `ScriptGovernance` and `ScriptDesk` |
| `Suppression` | `app/modules/suppression/`, the flag on `leads`, the verdicts in Redis | detailed specification |
| `LeadPipeline` | `app/modules/leads/` and VICIdial's hopper, composed with `Suppression` | detailed specification |
| `LeadPipelineProofs` | — | theorems about `LeadPipeline` and `Suppression` |
| `SessionClient` | `lib/api.js`, the sign-in context, guards, navigation; the server's sessions (external) | detailed specification |
| `SessionClientProofs` | — | theorems about `SessionClient` |
| `LeadDesk` | `components/leads/` over the import API (external) | detailed specification |
| `LeadDeskProofs` | — | theorems about `LeadDesk` |
| `CampaignDesk` | `components/campaigns/` over the campaign API (external) | detailed specification |
| `CampaignDeskProofs` | — | theorems about `CampaignDesk` |
| `ScriptDesk` | `components/call-scripts/` over the script API (external) | detailed specification |
| `CallDesk` | `components/calls/`, `components/qa/` over `GET /calls` (external) | detailed specification |
| `CallDeskProofs` | — | theorems about `CallDesk` |
| `Shell` | the frame: role, tab, part of the tab, calls in flight | shared state of the desks below |
| `TransferDesk`, `AlertDesk`, `RecordingDesk`, `ReportDesk`, `SettingsDesk` | one desk each | components, each EXTENDS `Shell` |
| `OperationsDesk` | the five desks in the frame, with banner, navigation and reload | composition |
| `OperationsDeskProofs` | — | theorems about the five desks together |
| `MC*` | instances for TLC, and the history variables the properties need | |

`map` in `PROJECT.json` ties each definition to its lines.

### CallIngest
A worker is a consumer of the group. `Poll` is `getmany`: the position of every
partition moves past the whole batch at once. A message is handled in three
steps: `Receive` opens the session and reads the call; one handler action
(`OpenCall`, `ReuseCall`, `EnterNode`, `AddTurn`, `CaptureField`, `CloseCall`,
`CloseAgain`, `SkipDuplicate`) deduplicates, computes the rows and writes Redis;
`Commit` makes the rows visible. Other workers run in between. What PostgreSQL
makes a transaction wait for is a guard: an uncommitted row with the same unique
key (`EventKeyHeld`), a call row another transaction has inserted or updated
(`RowHeld`). An UPDATE writes the columns that differ from what the ORM read
(`Column`), so a stale object overwrites only those. `RefuseMessage` is
`WaitForOpenError`; `DropBatch` is both loops breaking on a failure;
`CommitOffsets` commits the current position. `Abort`, a partly executed Redis
sequence and `Crash` are the faults; `Rebalance` moves a partition while the
former owner still holds its batch, as aiokafka's background rebalance does.

Children have no foreign key and channels no unique index, as in the migrated schema
(`9f0a1b2c3d4e`). `Migrated` tells the unique index of `call_events` apart: over call
and event id in the ORM metadata, which the tests use, and over the event time as well
in the migration. `SameIndexKey` says when two uncommitted event rows meet in it: an
event that tells no time (`stamped = FALSE`) is stamped with the clock of whoever
handles it (`_event_ts`), so over the migrated index it never meets another. The
look-up before the insert goes by call and event id in both. A call id that is opened
again under another channel meets the primary key (`OpenConflict`). The migrated key
also has `started_at`; `OneOpenTime` therefore assumes, of the migrated schema, that
the openings of a call id tell one time, since the registry would otherwise hold the
call twice. Durations, talk time, tokens and
other derived columns are left out; a payload is what its handler branches on.

### CallLedger
A call opens once, each event counts once and in one step with everything that
follows from it, and a call closes once with one announcement. `CallIngest` with
one worker implements it: `state` is the status column, `recorded` the event
keys, `announced` the outbox, `turns` and `nodes` themselves.

### ScriptGovernance
A session serves one request. Beginning a request is its reads and checks on what
they return (`tx[x].row`, `tx[x].seen` keep them); `Commit` writes the columns the
request changed relative to what it read. Approve, and activate for a campaign,
issue a second SELECT; SQLAlchemy flushes first, so from `Flush` on the request
holds the locks of `Early` and other requests that write those rows wait.
`Refuse` is a database error at that point or at commit (both leave nothing), and
`Abandon` a lost connection. Creating and duplicating insert rows that nobody
else can see yet and take one step each.

A campaign's binding is `bound[k]`, two columns with a foreign key each and nothing
that ties the version to the script. `CreateCampaign` and `UpdateCampaign` write what
the payload says (`Payloads`) and check nothing; `BindScript` loads the campaign,
`CheckVersion` reads the status of the version, `CommitCampaign` writes the columns
that differ from what was loaded; `EndEdit` is a refusal or a lost connection.
`ActivateVersion` for a campaign writes the same columns, so that all of them race.

`schema` is `metadata` (the tests' `create_all`) or `migrated`. The docstring of
migration `o0p1q2r3s4u5` says itself that the tests and a migrated database have
been describing different shapes. The migrations' trigger refuses every UPDATE of
a version that is not a draft; with it approving, rejecting and archiving always
fail, so nothing is activated there, and the unique
activation index is never met. Campaigns can be bound there by plain updates only.

Abstractions: a node graph is a model value, `Sound` the graphs in which
`validate_node_graph` finds nothing; change notes, names and rule sets are left out. An
expected version, of a script or a campaign, is a check on the row that was read, which
only removes behaviours. Nothing deletes a campaign. The other columns of a campaign,
and starting and stopping it, are left out: none of them touches the binding. `signed`
stands for `approved_by` and keeps the text the approver had read. Audit rows and
events written after the commit are rolled back when `get_db` closes the session, so
they never appear. A campaign id that does not exist fails with a foreign-key error and
is not modelled.

### Suppression and LeadPipeline
`LeadPipeline` extends `Suppression`: the requests of both desks share the
sessions, the `leads` rows and the register. A request of the register takes three
steps: the look-up, the rows and the cache, the commit. Redis is told before the
commit and survives a rollback (`Abandon`). What a transaction has written and not
committed is locked: `LeadsFree` (lead rows), `EntryFree` (an entry), `IndexFree`
(the partial unique index, which makes an insert wait for another insert and for
the removal of the active entry).

The lead requests load their job without a lock (`SaveMapping`, `CommitImport`,
`StartRun`, `StopRun`); SQLAlchemy sends the first UPDATE of the job with the next
SELECT, from where the request holds the row lock (`locked`). So `save_mapping` is
two steps: the known numbers, then the register, the classification and the commit.
`commit_import` is the UPDATE to `importing`, which nobody else sees, and the
insert. A start is the pending leads, the register, one `Push` per lead, and
`FinishRun`. `Push` has the outcomes of a remote call: accepted with or without an
id in the answer, rejected, or a broken connection before or after the dialer
accepted the lead. `delete_batch` deletes the leads it sees, then the job.

`Looked` is `_phone_from_row` as it is: it looks up the *target* `phone` among the
source columns, so it finds numbers only in a file whose column is itself named
`phone`, and none in the rows `save_mapping` has already prepared.

Abstractions: a number is a model value, one that does not normalize `NoPhone`; a
lead is named by job, line and insert; list and campaign ids are reduced to whether
there is one; counters, times and names are left out. An update of existing leads by
an import writes none of the columns modelled. `create_lead`, `bulk_assign` and the
campaign of a batch are left out: they touch no column a run goes by, and a created
lead belongs to no batch. An expiry date of an entry is stored and never evaluated
by the code, so there is no such step.

### The dashboard's modules in common
A handler is cut where it awaits. The click sends a call and keeps what the closure
captured; the server answers, refuses or never hears of it; the arrival of the
answer is a step of its own, applied to the state of that moment. So calls overtake
each other. A component that is unmounted keeps its calls, whose answers change
nothing or, where the handler writes `localStorage` or navigates, do only that. A
button is a guard (`...Offered`), a dialog a guard on everything it covers. The
server is modelled from what the desk can see of it and marked external. `Clicks`
and `Visits` bound what a person does: a visit is about some parts of the desk, a
click within those parts costs one. Texts, numbers and dates are model values or
left out; of them the models keep the words the code compares.

### SessionClient
`Send`/`ServeCall`/`DeliverOk`, `DeliverRefused` and `LoseCall` are one `apiFetch`;
`AwaitRefresh` is a call that meets its 401 and joins or starts `refreshInFlight`;
`RefreshAnswered` and `RefreshFailed` wake all that wait, to replay or to give up.
The jar and the stored profile belong to the browser, everything else to a tab and
dies with `Reload`. `ServeRefresh` is the rotation: a token presented twice revokes
the session. `Expire` is the age of an access token. History: `replayed`, `orphaned`
and `rotatedFor` remember which token was presented again and whether its answer
was lost; `runs` counts how often the server carried a call out. A sign-up waits
1200 ms after its answer before it leaves the page (`LeaveSignup`), during which another
call may go out. A logout with a session that still lives is committed; one with a
session that is over returns before the commit and changes nothing. Left out:
`register()`, `AdminGuard`, and the guard of the user settings, which no page or only
a display uses.

### LeadDesk
One server job per list (`jobs`, external) and a count of accepted writes
(`version`), which the table's `synced` is compared with. `RegistryAnswered` is the
re-read of the table; `EditRow` shows an edit early and `EditAnswered` reads the
table again; `ToggleRun`/`RunAnswered` the run switch; `UploadFile`, `ValidateMapping`,
`StartImport` with their answers the wizard, with `GuessColumnMapping` from the
headers; `Retable`, `RowsAnswered`, `RegisterAnswered` and `ImportFile` the four
sources of the suppression list, which `Extract` rebuilds; `Remount` a return to the
desk. Left out: sorting, filtering, counts and the detail view, which only read; the
list of active campaigns, and the inputs of a campaign or list id.

### CampaignDesk
Every edit writes the screen and storage at once (`ToggleStatus`, `SaveRouting`,
`AddItem`, `SaveTeam`, `BindBuiltin`); only `CreateCampaign` and `BindUploaded` reach
the server. `FetchAnswered` merges the list that was in storage when its fetch began.
`Temps` are the ids made of the clock, which recur. `clashed` and `strayed` remember
the windows named in the properties. Left out: metrics, outcomes, performance and the
dialing form, whose state no other step reads.

### ScriptDesk
`shown` and `stored` hold rows with the versions the desk keeps (`DeskInit`, `DeskNext`
and the like carry the prefix because `ScriptGovernance` has the plain names and
`ScriptProofs` extends both). `Saved` is the edit
that makes a new version of an approved script and freezes the old one; it goes by the
status the click found, for every row of the id. A wording may be `Blank`. `Snapshot` is
what was kept of a version, `VersionView` what the desk shows of it: the snapshot, or
today's wording where there is none or it is blank. `Activate` sends submit, approve and
activate in a row and changes the screen whatever comes back; `DeleteScript` leaves a
tombstone. The simulator speaks the greeting of the script that was shown when it
began. Left out: the approvals view. `/scripts/approvals` and a button lead to it, but
its queue starts empty and only a save that submits would add to it
(`ScriptsView.jsx:567`), while both buttons save without submitting (`:1359`, `:1367`).

### CallDesk
`walk` holds the walks over the pages; `PageAnswered` takes a page over and asks for
the next or `Finish`es, filling up with simulated calls (`Padded`) and writing the
copy. `MountQa` reads the copy once and `SubmitAudit` writes it back whole.
`SampledForQa` is the sample rule with the words and defaults of the code; a call
without a disposition is shown by its qualification (`ShownAs`). Left out:
the results view and the fields of a scorecard.

### Shell, the five desks and OperationsDesk
`Shell` has the tab, its part and the calls (`Send`, `End`); each desk EXTENDS it with
one or two variables and its steps; `OperationsDesk` puts them side by side and says
what a desk may not: `Go` mounts a tab anew when the tab changes (`FreshDesks`) and
cuts its calls loose (`Orphaned`), `Reload` drops them. An address that is typed is an
initial state, so `Init` has every tab and part the role may see. A call has one of
two ends for these desks: answered or refused alike, since the handlers do not look,
or cut off as a replay (`lib/api.js:107`), which is the only way `apiFetch` rejects.
`Crashed` is `/system/integrations`, see below.

* `TransferDesk`: `RetryTransfer`, `MarkResolved` and `Recovered`; `AcceptTransfer`,
  `CompleteVerification`, `Verified` and `ResetCard` for the one call of the card.
* `AlertDesk`: filters, the dialog's copy of an alert, acknowledge and resolve from
  row or dialog (`WithStatus` writes both).
* `RecordingDesk`: player, transcript, audit form (`OpenQaAudit`, `Rate`,
  `SaveQaAudit`), and the mark of a copied id with one timer per copy.
* `ReportDesk`: the dialog of exports and what is listed when its call ends.
* `SettingsDesk`: which forms were typed into, the badge and its timers.

Left out there: charts and sample figures, progress of the player, the directory of
users in the settings.

## 3. What is checked

| run | instance | shows |
| --- | --- | --- |
| `ingest_single` | 1 worker, 4 streams with duplicates, a reused channel, a poisoned message and two closes; batches of up to 3; 2 faults | types; one announcement per closed call, with its status, and dense numbers (`Announcements`); live board equals registry when nothing failed; terminal once; refinement of `CallLedger` |
| `ingest_pair` | 2 workers, batches of 2, one partition handed over while its batch is in hand, over the migrated index, redeliveries with the time of the first | an event's effect exists exactly once and only with its record, nothing is orphaned, no two transactions hold one event, and (liveness) every transaction ends |
| `scripts_race` | 2 sessions, 2 scripts with 2 versions and 2 texts, no campaign, after an overlap of two requests 1 script (`MaxRaced`), both schemas, lost connections at any point | gapless numbering with exact announcements, and with the trigger a submitted version is frozen; as long as no two requests have overlapped, one active version, the one the script points at, approved text live, and no request refused by the metadata schema (`SerialSafetyAlone`) |
| `scripts_bind` | 2 sessions, 1 script with 2 versions and 1 text, 1 campaign bound by any of its four writers, both schemas | types; no version goes live, and no script points at one, that nobody signed (`LiveWasSigned`); which moves of a pointer come with a record, a check or neither (`BindingsAccounted`) |
| `leads_serial` | 1 session, 1 job, files with a bad row and with another column name, Redis up or down, a request ended at any step | types, and a job is imported once, leaves no lead behind and is shown active exactly while its run is on (`Consistent`); a cached "clear" is true of every number the cache was told of; as long as no id was lost a lead is pushed once |
| `leads_race` | 2 sessions, 1 job with one number twice, 2 entries of that number | one active entry; no number twice in one insert; no run pushes a number that was suppressed when it was requested and stayed so |
| `session_one` | 1 tab with 2 calls, 2 tokens, 1 lost message, 1 reload, from a fresh browser, role QA | types and no call carried out twice (`Consistent`); a token is presented again only if its answer was lost; (liveness) every call that waits for the refresh goes on |
| `leads_desk` | 2 lists, 1 file of 2 columns, 3 suppression keys, 2 calls in flight, 1 lost; visits to the table or the wizard (4 clicks), to rows and suppression (3) | what the wizard shows belongs to its file (`Consistent`); a table that has seen every write is the server's; imported keys stay; (liveness) an early edit is confirmed or rolled back |
| `campaigns_desk` | 2 campaigns, 1 created, 1 recurring id, 2 calls, 1 lost; five visits of 2 or 3 clicks, three first storages | items stay in their campaign (`Consistent`), storage equals screen, no answer drops a campaign, outside the windows they name |
| `scripts_desk` | 1 active script, 1 created, 2 wordings, 3 versions, 2 calls, 1 lost; three visits of 2 or 3 clicks | types; deleted scripts stay away; the snapshot of a version left behind never changes, a blank one included, nor what is shown of one that is not blank |
| `calls_desk` | 5 calls of 4 outcomes, pages of 2, 2 pages a walk, lists filled to 3, 2 walks, 1 page lost, 5 clicks | unaudited calls are sampled (`Consistent`); audits end only with a walk; undisturbed walks are complete |
| `operations_desk` | roles master administrator and QA, every first address, 2 failed transfers, 2 alerts, 2 recordings, 2 outcomes, 1 title, 2 calls, 5 clicks | outcomes are stated, the alert's dialog is current, audits have scores, exports have titles (`Consistent`); while a tab stays, no row comes back into the queue, no alert is reopened and no audit is changed but by its form (`NothingComesBack`) |

**Bounds and why they are enough.** The hazards of the ingest worker involve at most
two consumers, two messages of one call and one fault between two steps; the streams
contain each such pair (a duplicate, two closes, a child before its open, a field
racing a close, a channel under two calls), `MaxBatch` lets a batch be cut at any place
and `MaxFaults` allows a fault during the recovery from another one. The races of
script governance are between two requests on the versions of one script: two versions
suffice for archiving and for colliding numbers, `MaxEdits` only bounds the edit
counter. Scripts meet in the binding of a campaign, which
holds whatever the four writers put there, so that one script of two versions suffices
for it, and when one is copied, for which the requests one at a time have a second. `Payloads`, what a plain update may write, has the binding to the first
version, signed or not (`scripts_bind`); wordings matter to the life of a version and
not to a binding (`scripts_race`). Sessions and scripts are permuted by symmetry in the
script runs, which check safety only. In the lead runs one number suffices: the
register and the cache treat numbers apart, and a batch of one number twice is the
smallest that a classification can get wrong. `MaxEntries` (entries of one number) lets
a number be added, removed and added again, `MaxPushes` lets a lead be pushed once more
than it should. `leads_race` has `MaxCopies = 1`, one insert of a job, because two
overlapping commits do insert twice (section 4); it leaves Redis down, since a run does
not consult it. `leads_serial` has two inserts, so that a retried commit would show.

In the dashboard a hazard is two calls in flight and what a person does between
their two ends: two slots, and clicks enough to begin both and act once or twice in
between. One lost call suffices to separate the two sides. `Visits` divides the
clicks among the parts of a desk that share state; a visit that joined more parts
would multiply their independent steps. In `session_one` one tab can spend a token
twice, `MaxTokens = 2` is one rotation and `MaxReloads = 1` a page torn down in it.
In `calls_desk` a list is full at 3 rows (500 in the code), so a walk meets the full
list, the simulated filling and the page limit. `SampleEvery = 6` leaves the first
rows to the rules about outcome and score. Five clicks of `operations_desk` open an
alert or an audit, change it and leave, or press two buttons before either answer.

**Fairness.** The worker's `FairSpec` is weak fairness of `Work(w)`: the daemon loop
never stops by itself and PostgreSQL grants a wait once its holder ends. In
`SessionClient` and `LeadDesk` it is weak fairness of the server's answer to a call
that reached it and of the browser's delivery of an answer; nothing is assumed of
clicks, faults, crashes, losses or rebalances. `CHECK_DEADLOCK FALSE`: the streams are
finite, requests stop coming at the bounds, and clicks run out.

**History variables.** `MCLeadPipeline` adds what the properties remember and the
code does not: `settled` (numbers in the register ever since a run was requested),
`lost` (a run has not stored an id the dialer gave), `untold` (numbers added while
the cache was not told). `MCScriptRace` adds `overlapped`: two requests have been in
flight together. Those of the desks are marked as such where they are declared.

**What is deliberately stated for part of the behaviours.** `ClearIsTrue`,
`PushedOnce` and `BatchesInOrder` are for requests one at a time: with two, a check
caches a verdict that an addition has overtaken, two starts push the same leads, a
commit races the deletion of its batch, and a stop that loaded the job before a
start writes `interrupted` beside `is_active`. `ClearIsTrue` leaves out numbers that
came by CSV or during an outage of Redis, which the code never tells the cache, and
`PushedOnce` behaviours in which an id was lost. `SuppressedStaysOut` is about what
was suppressed when the run was requested: the register is read once, before the
first call of the dialer.

`LiveBoardAgrees` excludes states after a fault (the code has no repair) and calls
whose channel was opened twice (`ReuseCall` writes a snapshot even for a closed call).
`Announcements`, `TerminalOnce` and the refinement are for one consumer: across a
rebalance two consumers compute the same `MAX(seq) + 1` and both close a call.
`RecordedIsApplied` is for logs in which an event id names one message.
`UncommittedKeys` and `EffectsOnce` are run with redeliveries that tell the time of the
first (section 4). `SerialSafetyAlone` is for requests one at a time: with two in
flight and the metadata schema two activations leave two active versions, and an
approval and a rejection both pass. `BindingsAccounted` lets a plain update of a
campaign bind it to anything, and a binding and an activation that cross leave a script
and a version of different origin: the code does both. Separation of duties
(`talkflow_backend.md`, M5) is in the blueprint and not in the code.

On the desks the code does go wrong in the windows a property excludes, and the
model contains them:
* `ReplayedOnlyIfOrphaned` is about what a tab has rotated itself. Two tabs share a
  cookie jar and no promise, and a tab may spend a token the other has rotated.
* `ShownIsRegistry` is for a table that has seen every accepted write. A confirmed
  start leaves the old state in its row until the next read.
* The counts of `leads_desk` are current unless a call outlived its wizard
  (`crossed`) or a mapping was edited under validation (`meddled`).
* `StoredIsShown` excludes an edit, a second fetch or a departure between the two
  ends of a fetch, and two rows of one name (`clashed`): the fetch then undoes what
  it had not seen. `ItemsStayHome` excludes a form that stays open while the page
  changes its campaign (`strayed`): its items are saved into the other one.
* `TombstonesHold` excludes a fetch that began before the deletion and an id the clock
  makes up again; `SnapshotsFrozen` the fetch that replaces versions by the server's.
  What is *shown* of a version without a snapshot, or with a blank one, is today's
  wording (`ScriptsView.jsx:1407`) and changes with it; of such a version the property
  says only that the snapshot stays. Two scripts can share an id the clock makes up
  again, so the property asks each row on screen to carry on *one* that was there, not
  all rows of its id.
* `PagesComplete` is for walks without a failed page during which no call opened.
* `NothingComesBack` is for one tab on screen: leaving it forgets everything. It is
  about the queue, alerts and audits; an accept that is answered late does open a
  completed verification again (`VerifierView.jsx:146`).

## 4. Where the code and its words disagree

Met while modelling; in each case the model follows the code.

* `workers/call_ingest_worker.py:204-206` (and `:82`) says that a message refused
  because its call is not open yet is redelivered; nothing seeks back, so the offset
  committed next (`:716`) is past it and it is lost.
* Rule 3 (`workers/call_ingest_worker.py:22-24`) says that a closed call stays as it
  is; two consumers that close it at once both pass the check at `:389`, and the
  second rewrites it.
* `workers/call_ingest_worker.py:15-18` says that events are keyed by
  `(call_id, external_event_id)`, so that a duplicate, from a concurrent consumer too, is
  skipped. The unique index of the migration (`9f0a1b2c3d4e`, `:373-376`) also has
  `event_ts`, and an event without a usable time is stamped with `datetime.now`
  (`:101-105`): two consumers that hold it across a rebalance both record and apply it.
  With `Logs <- UnstampedLogs` in `MCCallIngest_pair.cfg`, TLC finds `UncommittedKeys`
  violated.
* `approve_version` (`scripts/service.py:721`) signs a pending version; the trigger of
  migration `f1a2b3c4d5e6` (`:212`) refuses every update of a version that is not a
  draft, so on a migrated database no version is ever approved.
* `core/outbox.py:3` has events written in the same transaction as the change;
  `submit_version` (`scripts/service.py:681`) commits first, and its event is rolled
  back when the session closes.
* The docstring of `commit_import` (`leads/service.py:990-991`) and
  `talkflow_backend.md:1268` rule out a double
  import; the state is checked without a lock (`:996`) and two overlapping commits
  insert the rows twice.
* `leads/schemas.py:213` calls the mapping "the authoritative source of which CSV
  columns feed which fields"; `_phone_from_row` (`leads/service.py:244`) looks for a
  column named `phone`, and a suppressed number in a column of another name is kept for
  insertion.
* `lib/api.js:117` says that callers rely on `apiFetch` never rejecting; the replay at
  `:107` is returned without `await` and its failure is thrown past the `catch`.
* `components/leads/hooks/useLeadsState.js:768-770` says that the run state on screen
  now reflects what the dialer was told. The state is merged under snake_case names,
  which `normalizeBatch` reads only where a row has no camelCase one: after a
  confirmed start the switch shows the old state, and a second press repeats the
  request.

Observed besides:
* `components/system/hooks/useSystemState.js:163-197` returns no `webhooks`, which
  `SystemIntegrationsView.jsx:173` maps over: `/system/integrations` takes the page
  down, with no error boundary, and a reload does so again.
* `AnalyticsView.jsx:148` reads `res?.data` of a `Response`: exports the server made
  are never listed, and one whose replay was cut off is listed as READY. A late end
  closes the dialog and clears the title of a later export (`:176-177`).
* Copy marks and the "Saved" badge are cleared by timers of earlier clicks
  (`RecordingView.jsx:104-108`, `SettingsView.jsx:108-112`); saving settings stores
  nothing.
* `ScriptsView.jsx:289` sends submit, approve and activate in a row, always for
  version 1 and without the body the API requires; wording edits are not sent in a
  form it accepts (`:551`). The desk shows a state the server never had.

## 5. What is proved

Every theorem is for all values of the constants. Hardly any of the
properties is inductive as it stands; what had to be added is said for each.

**`CallIngestProofs`** — any workers, streams and bounds, and both indexes: `TypeCorrect`
and `NothingOrphaned`; and `EachEffectOnce` and `NewEventHeldOnce` under
`EventTimesTold`: over the migrated index, every delivery of an event id tells a time
and they all tell the same, so that two transactions that hold one event meet in the
index (`IndexTells`). Without it both are false (section 4). The inductive invariant is
`TypeOK /\ Safe` with `Safe == EffectsOnce /\ NoOrphans /\ UncommittedKeys /\ Attached`.
A commit adds rows for a key, and that none is there yet follows from what the
transaction found when it applied (`UncommittedKeys`: its key is neither committed
nor held by another); that the call exists follows from `Attached`. Assumptions:
`LogAssumption`, `BoundAssumption`, `NoTopicAssumption`.

The second part is about what the three rules promise.
* `RecordedTheorem` (any number of workers, `OneMeaning`): a recorded event has had
  its effect. `OneMeaning` says that an event id names one message, delivered once
  or more often; where two different messages carry one id the code skips the
  second, and the property is false.
* `AnnouncementsTheorem`, `TerminalTheorem`, `LedgerTheorem` (`OneWorker`). The
  invariant `LedgerInv` adds to the above that what the worker has read is still the
  row (`SeenIsRow`), that the number it has computed is the next one (`NumberIsNext`),
  and that rows, turns, nodes and announcements agree (`TablesRight`). With it every
  step maps to a step of `CallLedger` or a stutter: only commits change the ledger,
  each opens, advances or closes one call.
* `LiveBoardTheorem` (`OneWorker`): while `faults = 0`, Redis and the registry agree.
  Redis is written before the commit, so `BoardFollows` says what the board shows at
  every step: the row, or, for the call of a transaction that has written Redis and
  not committed, the row as it will leave it. An opening of a call that exists
  (`ReuseCall`) is excluded by the property, and that none other occurs takes the rest
  of `LiveInv`: without a fault the position is past every batch (`Ahead`, `InBatch`)
  and each call was opened by a message that is done (`OpenedBefore`).

**`ScriptProofs`**, the server — any sessions, scripts, campaigns, texts and version
bounds and both schemas: `ScriptTypes`, `NumbersWithoutGap`, `OnlySignedGoesLive`,
`PointersAccounted`, `SubmittedIsFrozen`. A request writes from stale reads. `IInv`
adds `RowsOK` and, for each request in flight, `RequestOK`: what it has read may be
out of date, but rows never vanish, signatures are never taken back and
`current_version` only grows. Every commit makes the rows *grow* in that sense
(`VersionAfterGrows`), which keeps every other request's `RequestOK`
(`GrowthKeepsRequests`); a `create_version` which the unique index does not refuse
read the current number (`ScriptAfterOK`). `SerialLifeTheorem` (`OneSession`) is
`SerialSafety`: since nobody else writes, a request's reads stay true (`ReadAsIs`),
and with that each commit keeps one active version, the one the script points at, and
approved text, and violates no index; requests on campaigns leave scripts alone.
`PointersAccounted` (`BindingsAccounted`) is an action property: what a `bind_script`
has found approved or active is signed (`EditOK`), and stays so while other requests
commit. Assumptions: `SchemaAssumption`, `TextAssumption`, `VersionAssumption`,
`CampaignAssumption`, `PayloadAssumption`.

**`ScriptProofs`**, the desk — any ids, wordings, outcomes, visits and bounds, calls lost
or answered in any order. The invariant is
`DeskInv == Screen /\ Storage /\ SimOK /\ CallsOK /\ Visit`; that it is inductive takes
two facts the types do not say: every row heads its own history with its current
version (`Headed`), and the local rows that a fetch carries are disjoint from the
tombstones it carries (`CallOK`).
* `DeskTypes`: types, and a simulation is on exactly while a script is under it.
* `DeletedStaysDeleted` (`TombstonesHold`): a merge leaves out what its tombstones
  name, and no other answer adds a row.
* `FrozenStaysFrozen` (`SnapshotsFrozen`): a snapshot stays, blank or not, and what is
  shown of one that is not blank stays with it (`VersionView`). Each way to change a
  row carries it on (`CarriesOn`), and each list a step shows follows the list before
  it (`Follows`). The same said of all rows of one id would be false: the clock can
  make up one id for two scripts, which have snapshots of their own.

Assumptions: `BoundsAssumption`, `IdsAssumption`, `KnownAssumption`, `VisitsAssumption`
of `ScriptDesk`.

**`LeadPipelineProofs`** — any sessions, jobs, files, leads and bounds.
* `TypeTheorem`.
* `NumberOncePerInsertTheorem`: `save_mapping` keeps one row of each number, and what
  it keeps is inserted as it is, or not at all; rows in hand and rows stored have that
  form whichever request read them.
* `OneActiveEntryTheorem`: `ActiveInv` adds to the property what an uncommitted insert
  has found. The unique index makes it wait for every other insert and for the
  removal of the active entry (`PendingInsert`), so that it still is the only one when
  it commits.
* `SuppressedStaysOutTheorem`: the specification with the history variable
  `settled`. `SettledTrue` says that a settled number is in the register, and `Safe`
  that what a run is still to push carries no number that has been settled since it
  was requested: the register it read held that number, and nothing is added later.

The second part has one session (`OneSession`), which may fail at any step.
`BatchesTheorem` (`OrderInv`: the request in flight has read the row as it is),
`ClearIsTrueTheorem` (`ClearInv`: what a check has found clear is clear until it
caches that, and an addition has cleared the verdict before it commits) and
`PushedOnceTheorem` (`OnceInv`: as long as no id was lost, a lead the dialer accepted
has its id, or the run in flight has it, or its batch is gone; and a run takes only
leads without one). Assumptions of both parts: those on the file format, the leads,
the statuses and the bounds that `Suppression` and `LeadPipeline` declare.

**`SessionClientProofs`** — any tabs, slots, roles and bounds.
* `ConsistentTheorem`: types, and no call is carried out twice. A call is sent again
  only after a 401, which is answered before the work; `CallsSound` relates a call's
  phase and answer to the work done for it.
* `ReplayedOnlyIfOrphanedTheorem`: `TokenInv` relates the jar, the answers in flight
  and what each tab has rotated. The answer of a refresh or of a login brings a token
  that nobody has presented and no other answer brings (`RefreshBringsNew`,
  `LoginBringsNew`), and a token in the jar that a tab has rotated is orphaned or its
  refresh is still in flight (`RotatedInJar`).

Assumptions: `BoundsAssumption`, `ViewsAssumption`,
`ReturningAssumption` (a browser that comes back with a session has been given a token).

**`LeadDeskProofs`** — any lists, files, keys, visits and bounds, and calls lost or
answered in any order. The invariant is `Typed /\ TableInv /\ WizardInv /\ ImportedKept`,
where `CallOK` and `NetOK` say that a call sent, or answered well, carries what its
handler reads.
* `ShownIsRegistryTheorem`: the table may be behind by deletions only, each with its
  answer under way (`OnlyDeletions`); it, and every registry answer in flight, shows the
  registry but for those rows (`Shows`). Accepted writes have numbers of their own
  (`SeenOK`), so an edit shown early (`synced = 0`) claims nothing (`AfterEdit`), and the
  answer of a run carries the dial list that the job has (`AnswersTrue`). An answer used
  up or lost leaves less under way and nothing false (`Forgotten`, `StillTrue`).
* `ConsistentTheorem`: as long as no call has outlived its wizard, at most one call is
  the wizard's own (`Own`), the one it waits for, about the file and mapping it shows
  (`OwnCall`).
* `ImportedKeptTheorem`: inductive by itself; what a file adds is in the list it
  stores (`Extracted`).

Assumptions: `OldAssumption`, `BoundsAssumption`, `VisitsAssumption`, `TargetsAssumption`.

**`CampaignDeskProofs`** — any campaigns, ids, visits and bounds, calls lost or answered
in any order. The invariant is `Typed /\ HomeInv /\ SyncInv`.
* `ConsistentTheorem`: types, and `ItemsStayHome`. Pools and routes are copied between
  the screen, its copy, the open form and the lists that fetches carry; `HomeInv` says
  of each of them that the items are at home, unless `strayed`, and of the server's list
  without exception.
* `StoredIsShownTheorem`: `SyncInv` says that, unless `clashed`, storage equals screen,
  no call of an earlier visit is left, and one fetch at most is under way, with the list
  that is stored. Its answer then writes both sides alike.
* `RowsLeaveByHandTheorem`: an action property, by actions; the merge keeps each row the
  fetch began with (`Among` and its lemmas).

Assumptions: `IdsAssumption`, `KnownAssumption`, `BoundsAssumption`, `VisitsAssumption`.

**`CallDeskProofs`** — any calls and outcomes, page sizes, limits, walks and clicks. The
invariant is `Counts /\ StoredOK /\ CallsOK /\ QaOK /\ WalksOK`.
* `ConsistentTheorem`: types, and no unaudited call drops out of the sample. The copy is
  always one that a Calls tab believes (`Believed`), and at most one walk is mounted.
* `AuditsKeptTheorem`: the QA list has every audit of the copy (`QaOK`), so that writing
  it back whole loses none; the rows a walk brings have none yet (`FreshRow`).
* `PagesCompleteTheorem`: what an undisturbed walk has got is the first pages
  (`WalkOK`, `Complete`); the next page continues it, and a short page ends it only
  where the calls end (`NextPage`, `WalkedAll`).

Assumptions: `Positive`, `DispositionAssumption`.

**`OperationsDeskProofs`** — any roles, transfers, alerts, recordings, outcomes,
titles, calls in flight and clicks. `ConsistentTheorem`: the invariant has a part for
each desk, and `CallsOK`, that what a call is about was stated before it was sent.
`NothingComesBackTheorem`: an action property, by actions. Desks touch each other only
through `Go`, which changes the tab, and through `Crash`; timers and clicks share
the bound `Clicks`, which the counts of pending timers need. Assumptions: `Bounds`,
`AlertSample`, `RecordingSample`.

**Positions.** The first row of an id, the first match of a search and the k-th of the
rows that are kept are found by least elements (`LeastNumber`, from the library's
`NatLessThanWellFounded`): every non-empty set of numbers has one, which the provers can
use, whereas an induction over data they cannot.

**Only model-checked.** Liveness (`TransactionsEnd`, `CallsSettle`, `EditsSettle`),
which the proof system does not handle. Every invariant and every action property of
the runs is a theorem; of `SerialSafetyAlone` the theorem, `SerialLifeTheorem`, is about
specifications with one session, and the run about what happens before the first
overlap of two.

## 6. Plan

More of the backend: **CampaignControl** (`campaigns`: the start guard, pause and
stop), **Transfers** (reserve, accept, watchdog: one bridge per transfer),
**RecordingStore** (reconciler, purger, legal hold), the **outbox** dispatcher with
**realtime**, and **telephony webhooks** with the idempotency store.

## 7. Not modelled

* Backend: rollups (SQL folds), CRUD services without a protocol, adapters, and the
  components of the last paragraph.
* Dashboard: the accounts desk and the reporting and audit screens, whose requests
  fail or whose answers are not read; charts; the modal of `UsersView` that nothing
  opens; `ReportingView`, `IntegrationsView`, `RealtimeReportView`, `ReportsView`,
  and `Recorder`, which no screen imports.
