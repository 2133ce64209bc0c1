# InsightForge 3.0: specifications, model checking and proofs

InsightForge is a FastAPI application over SQLite. A user turns an idea into an
idea brief, asks a language model for solution candidates, confirms one of them as
version 1 of the project's definition (a *snapshot*), attaches evidence to the
claims the snapshot rests on, and lets evidence and edits raise *change proposals*
that a human accepts into the next snapshot. Documents and a handoff package are
generated from the snapshots.

The modules in this directory model the parts of the program in which order
matters: which transaction commits first, which thread reads before another
writes, what a crash leaves behind. `PROJECT.json` maps every definition that
models code to its source lines, lists the runs, and lists the hazards of the code
with the properties that cover them.

    tlc -workers 2 -config AsyncWorker.cfg MCAsyncGeneration
    tlc -workers 2 -config Hosted.cfg MCHostedWorkspace
    tlapm AsyncGenerationProofs.tla
    tlapm HostedWorkspaceProofs.tla

Contents: [concurrency of the program](#concurrency-of-the-program),
[inventory](#inventory), [modules](#modules), [runs](#runs),
[history variables](#history-variables-and-what-they-exempt),
[disagreements](#where-the-code-and-its-documents-disagree), [fairness](#fairness),
[proofs](#proofs), [what is left out](#what-is-left-out), [plan](#plan).

## Concurrency of the program

Every model rests on these facts of the code, so they come first.

* **Threads.** Synchronous endpoints run in a thread pool, so two requests for one
  project run concurrently. An application has one daemon thread that executes
  asynchronous generations (`AsyncGenerationWorker`), with an event loop per run.
  No lock surrounds the services modelled here; SQLite is the only arbiter.
* **Transactions.** `Database.connect()` (`app/db.py`) yields a connection in
  Python's default isolation mode and commits at the end of the block. Reads before
  the first `INSERT`/`UPDATE`/`DELETE` run outside any transaction, so each sees the
  database of its own moment; the first write starts a transaction, and from there
  to the commit the request holds the write lock. A block that opens with
  `BEGIN IMMEDIATE` is atomic from its first statement.

  Hence the rule of translation: a `BEGIN IMMEDIATE` block, or a block that writes
  before it reads, is **one action**; a block that reads and then writes is a
  *reads* action, which remembers what it read, and a *writes* action. A guard
  inside an `UPDATE ... WHERE` and a `UNIQUE` constraint are evaluated by the write.
* **Crash.** The process may die between any two actions. Rows stay, everything in
  memory is lost. Rows left `RUNNING` or `RESERVED` are deliberately not repaired on
  start (`docs/PROVIDER_DISPATCH_LEDGER.md`): the service does not run again what it
  cannot prove to have stopped.
* **Keyring and files.** API keys live in the operating system's keyring and backups in
  files. Neither takes part in a transaction, so a write to them is a step of its own
  and stays when the transaction around it is rolled back.
* **Shared memory.** The managed runtime is one object per application, with an
  attribute `_pending_reservation` that all synchronous handlers share. Asynchronous
  generation builds a runtime of its own for each call.

## Inventory

Status: **M** modelled, **p** partly, **–** not modelled (see
[what is left out](#what-is-left-out) and the [plan](#plan)).

### Generation by a provider

| Component | State | Operations | Hard behaviour | Correct when |
|---|---|---|---|---|
| **M** asynchronous queue and worker (`async_generation.py`, lifespan and routes of `main.py`) | runs, intents, worker thread, active loop, stop flag | create, replay, cancel, claim, mark call, finish, start, stop | cancel handler racing the worker's publication of its loop; callbacks for a finished run; crash while running; database error inside the loop | a run is executed at most once, run and intent agree, the quota status follows the result, a cancel is not lost, a settled run never changes |
| **M** acceptance authorizations (`provider_acceptance_authorization.py`) | one row per authorization | issue, expire, redeem with a run, replay | two redemptions at once | spent on one run, of its own project and model |
| **p** dispatch evidence (`provider_dispatch_ledger.py`) | permits, append-only events | acquire, record, classify | death between boundary, request and answer | never understates what was sent, never confirms what was not |
| **M** hosted usage allowance (`beta_usage.py`) | reservations, counter per day and operation | consume, commit, release | midnight, concurrency at the limit, double release | counter equals the reservations not released; limit holds |
| **p** managed model runtime (`ai_runtime.py`), provider adapters (`provider_adapters.py`) | pending reservation, HTTP client | call, cancel, close | shared attribute; cancellation during close | a failed call is released, a delivered one committed |
| **p** solution design (`solution_design.py`) | solution runs, candidates | generate, validate, persist | three separate transactions after the answer | stored, charged and answered together |
| **p** AI reference, evidence coach, competitor comparison | results | call, store | use of the shared reservation | a delivered result is charged |
| **M** synchronous guard (`solution_generation_guard.py`) | intents | begin, replay, complete, fail | abandoned intents, a handler that stops half-way | one run per key, no false success |
| **M** model profiles and credentials (`model_profiles.py`, `credential_store.py`) | profiles, a project's choice, keyring | create, update, delete, set default, choose, test | a keyring outside of the transactions; a test that records results of a profile changed meanwhile | one usable selection; row and key agree |
| **p** hybrid runtime (`hybrid_runtime.py`) | none of its own | select a profile | – | a selected profile exists and is enabled |
| **–** model catalogue | static tables | – | – | – |

### The project's definition

| Component | State | Operations | Hard behaviour | Correct when |
|---|---|---|---|---|
| **M** snapshots (`snapshots.py`) | snapshots, claim and decision links, current snapshot, canvas projection | confirm initial solution, accept, reconfirm | two acceptances or confirmations at once | one linear chain; the claims in force are those of the last snapshot |
| **M** change proposals (`change_proposals.py`) | proposals | propose, accept, reject, defer | decide and accept at once | one snapshot per accepted proposal, none otherwise |
| **M** impact and artifact health (`impact.py`, `artifact_health.py`) | health, dependencies | resolve impact, mark, reconfirm | the same change found twice | no duplicate proposal; only a human clears a mark |
| **M** claims and evidence links (`project_claims.py`) | claims, links, status | analyse, persist relation, recompute | analysis racing an archive; crash between a relation and its impact | status follows the active evidence; a loss is reported |
| **p** sources (`sources.py`, `source_guidance.py`, `retrieval_service.py`) | sources, chunks | add, classify, retrieve, archive, restore | two requests on one source | only admissible evidence counts |
| **p** decisions (`decisions.py`) | decisions | confirm with the first snapshot | – | – |
| **p** quick start, canvas, project records (`quick_start.py`, `projects.py`, `canvas_projection.py`) | briefs, canvas, canvas versions, trash | confirm, refine, edit, project, trash, take back, purge | a brief refined between check and update; edit racing an acceptance; a project taken back while it is purged | a snapshot rests on a confirmed brief; an edited canvas is under review |
| **M** legacy migration (`legacy_migration.py`) | briefs, snapshots | migrate at every start | a project of the new flow taken for an old one | – |
| **p** examples (`example_copies.py`) | copies, relations | copy | sixteen reads in as many moments | a copy of a quiet project is whole |
| **p** guidance and walkthrough (`guidance.py`, `guided_project.py`) | session, decisions, canvas | answer, choose, apply, go back, reset | three transactions per request | what is confirmed is what was applied; advice can be followed |
| **p** MCP server and tools (`tools.py`, `mcp_functions.py`) | none of its own | the same services by another transport | – | – |

### Documents and the rest

| Component | State | Operations | Hard behaviour | Correct when |
|---|---|---|---|---|
| **p** document loop (`loop.py`, `validation.py`) | document versions, dependencies | collect, rounds, number, insert, record | a source archived while the text is written | what is recorded as current rests on active sources |
| **M** versions and workspace (`document_versions.py`, `document_workspace.py`) | versions, editor drafts | edit, commit, restore, validate, confirm, trash, purge | every check outside of the write that rests on it | see handoff |
| **M** handoff (`handoff.py`) | packages, acknowledgements | readiness, acknowledge, package | readiness stale when the package is built | a package holds confirmed documents of its snapshot |
| **M** drafts (`drafts.py`) | revisions | load, save | a save between read and write of another | no unseen overwrite |
| **M** accounts and workspace pool (`account_registry.py`, `accounts.py`) | invitations, accounts, sessions, leases, open applications | issue, claim, login, lease, sweep, close | an application closed while its worker holds a run; a shutdown that fails | what is in use stays open; one database per account |
| **p** hosted beta operations (`beta_backup.py`) | database file, backups | back up, restore, roll back | damaged files, a script that dies, a left-over journal | a restore loses nothing |
| **–** retrieval ranking, export, ingestion, configuration, schemas, browser client | derived or static | – | – | – |

How they interact: routes call services; the asynchronous executor calls solution
design, which calls the managed runtime, which reserves in the usage service,
records in the dispatch ledger and calls an adapter. Sources, claims and canvas
edits call the impact resolver inside or after their own transaction; the impact
resolver writes health and proposals; accepting a proposal writes snapshot, claims,
health, canvas and proposal in one transaction. Documents depend on the snapshot and the
sources they were written from; archives and acceptances mark them. In a hosted
installation every account has an application, with a database, a worker and a
`ModelProfiles` service of its own, that the pool opens and closes.

## Modules

### `GenerationJob`, `AsyncGeneration`

`GenerationJob` is the promise: a job is submitted once, its executor is entered at
most once, it succeeds only after that, and a settled job stays settled. It may
stay executing for ever.

`AsyncGeneration` is the queue. Its variables are the three tables (`runs`,
`intents`, `auths`), the worker thread (`workerPc`, `workerKey`, `outcome`,
`stopping`), the cancel handlers (`canceller`) and the callbacks scheduled on the
active event loop (`signals`). `entered` is a history variable.

| Actions | Code |
|---|---|
| `CreateRun`, `ReplayRun`, `RedeemAndCreate`, `RedeemReplay` | `create_or_replay`, `redeem_and_create`: one `BEGIN IMMEDIATE` block each |
| `IssueAuthorization`, `AuthorizationExpires` | `provider_acceptance_authorization.py` and the clock |
| `RequestCancel`, `RereadRun`, `SignalWorker` | `request_cancel`: its transaction, its second read, then the route's call into the worker's active loop |
| `StartWorker`, `Poll`, `ClaimNext`, `NothingToClaim` | the thread's loop and `claim_next` |
| `PublishLoop`, `CheckRun`, `EnterExecutor` | the loop becomes visible; the row is read again with its flag; `mark_provider_call` and the executor |
| `ExecutorReturns`, `DeliverSignal`, `Finish` | the three ways out of the executor and the compare-and-set of `finish` |
| `PreparationFails`, `FinishFails`, `ClaimFails`, `CancelHandlerFails` | a database error where the code catches it, or does not |
| `StopWorker`, `ExitLoop`, `Crash` | `stop`, the end of the loop, the end of the process |

A request key is a model value standing for (participant, project, key); a competitor
snapshot is a member of `Contexts`; the answer is abstracted to the kind of payload
in `response_json`. `earlier` is the order of `created_at`.

### `GenerationPipeline`

Extends `AsyncGeneration` and opens its one step "awaiting" into the transactions and
suspension points of the managed executor: reserve, acquire a permit (authorized
runs only), record the call boundary, send, record the answer, release on failure,
close the client, validate, persist, list, commit, return. A cancellation is delivered
only where the coroutine is suspended: in the request and in the closing of the
client. Steps of `AsyncGeneration` that start, end or cancel an executor are
conjoined with the corresponding pipeline step; all others leave the pipeline alone.
`sent` is a history variable: how often the request really went out.

What the executor answers is not what it has stored. `ListCandidates` reads the candidates
of the project's newest solution run, and a synchronous generation of the project inserts a
run (`SyncInserts`) before it stores that run's candidates (`SyncStores`), or never stores
any. `bare` is the set of projects whose newest run has none; more of the synchronous
generation is not in this module (`ProjectInception` has it). The worker takes an answer
without candidates for a failure (`ListedAnswer`); `overtaken` remembers the runs that got one.

### `QuotaReservations`

The allowance of one participant and synchronous calls on threads of their own.
`consume`, `commit` and `release` are one action each; every access to the shared
attribute (`Remember`, `ReadPending`, `ClearSlot`, `Forget`) is an action too.
`Committers` are the calls whose handler calls `commit_current_reservation`
(evidence analysis); the handlers of AI reference, guidance and comparison never do.
`consume` reads the clock before it waits for the database, so `ReadClock` is a step
of its own and a day may pass after it.

### `ProjectHistory`, `SnapshotGovernance`

`ProjectHistory` is the promise: the history of a definition starts with one
confirmation, each later version adopts one proposal not adopted before, and what is
recorded stays.

`SnapshotGovernance` has the tables `snapshots` (with their claim links), `current`,
`health`, `proposals`, `claims`, `canvas`, and `requests`: what each handler thread
read before its writes. The services map to actions in pairs (`ConfirmReads` /
`ConfirmWrites`, `AcceptReads` / `AcceptWrites`, `DecideReads` / `DecideWrites`,
`ReconfirmReads` / `ReconfirmChecks` / `ReconfirmWrites`, `SourceReads` /
`SourceWrites`, `SuggestReads` / `SuggestWrites`); a request that fails a constraint
rolls back (`ConfirmFails`, `AcceptFails`). An analysis of evidence is the loop of the
code: `AnalyseReads`, then for each relation `PersistRelation` and, in a
transaction of its own, `ImpactReads` / `ImpactWrites`. `EditCanvas` is one action: the
only thing it reads before its first write is the canvas version, and the key of
`project_canvas_versions` refuses an edit whose version was taken in between.

Abstractions: a snapshot is its version, its predecessor, its claims and its
proposal; the other content is copied and never tested. A claim is its state and its
verification status; the status that evidence leads to is any member of `Observed`,
since the rules that compute it are not the subject here. Archiving or restoring a
source touches one claim; with several, each goes through the same steps inside the
one transaction. The claim type `behavior` is never created by the modelled code.

`ClaimImpact` holds the rule by which a change of a claim's status matters
(`IsMaterial`); `SnapshotGovernance` and `EvidenceLifecycle` share it.

### `EvidenceLifecycle`

From a source to the status of a claim. `sources`, `links`, `claims` and `health` are
the tables, `requests` is what each handler has read. `Derive` is the rule of
`recompute_status_tx` over the links it finds inside the transaction, and `Classify` and
`ADMISSIBILITY` say what a source may prove.

| Actions | Code |
|---|---|
| `AddSource` | `add_source` with `INSERT OR IGNORE` |
| `AnalyseReads`, `Retrieve`, `ValidateRelation`, `PersistRelation`, `ResolveImpact`, `AnalysisEnds` | `analyze_project_evidence`: the claims are read before the first provider call; each relation is validated outside of and stored in a transaction, and its impact is another one |
| `ArchiveReads`, `Archive`, `RestoreReads`, `Restore` | `archive_source`, `restore_source`: status and links are read, then written together with the impact |
| `PersistFails`, `ImpactFails`, `LifecycleFails`, `Crash` | a claim superseded meanwhile, the end of the process |
| `Supersede` | an accepted proposal replaces a claim (`SnapshotGovernance` has its interleavings) |

### `DocumentVersions`, `Handoff`

The PRD and TechDoc versions of one project. A request is a chain of transactions:
generation is `Collect`, `RunRounds`, `InsertVersion`, `StoreClaim` for each unresolved claim
(each has a commit of its own, so the version is there, and can be confirmed, before they
are) and `PersistDependencies`; validation,
confirmation, restoring and purging are a read and a write each; an edit is `SaveDraft`,
`CommitReads`, `CreateFromSource`. Under them `Archive`, `Restore`, `ClaimChanges`,
`NewSnapshot` and `Reconfirm` change what versions rest on. The text and its validation
are abstracted to the sources a version cites and to a verdict, which is open except
that a citation of an archived source blocks.

`Handoff` extends it with the exports (`CheckSnapshot`, `CheckDocuments`, `ReadProject`,
`BuildPackage`: four reads of four moments), the acknowledgement of unresolved claims,
and the part of the recommended next action that follows from documents (`NextAction`,
evaluated in every state).

The instance is cut by `workload`, a constant record that a behaviour chooses at the
start and keeps: the types of document, requests at a time, versions, snapshots, packages,
unresolved claims of a version, and whether there are edits and discards. Each workload of
`MCHandoff` is a combination in which something new can go wrong; all of them at once are
out of reach.

### `HostedWorkspace` and its parts

Seven parts that share no state (their tables are disjoint or abstracted apart):

| Part | Module | What it models |
|---|---|---|
| `accounts` | `AccountWorkspaces` | invitations and accounts (one `IMMEDIATE` transaction per method), and the pool: `Route`, `Lease`, `Release` around `SweepInspects`, `SweepSpares`, `SweepCloses`, `CloseFails`, with the worker's job of each account |
| `inception` | `ProjectInception` | briefs (`ConfirmBrief*`, `RefineBrief*`), the synchronous generation (`Begin`, `DesignReads`, `InsertRun`, `RejectCandidates` / `StoreCandidates`, `ListCandidates`, `MarkEmpty`, `Complete`, `FailIntent`), the choice (`Select*`), and the start of the application, which migrates what looks like an old project (`Restart`, `Migrate`) |
| `guided` | `GuidedSession` | the guided conversation: each request is a read and up to three transactions |
| `drafts` | `WorkspaceDrafts` | the compare-and-set of the unified drafts, with what each client has seen |
| `profiles` | `ModelProfiles` | profiles, default and choice, the keyring beside the transactions (`UpdateBegins` / `UpdateCommits` / `RollsBack` / `PutsBack`, or `PutBackFails` when the keyring refuses a second time), and the connection test |
| `copies` | `ProjectCopies` | the copy of a project, table after table, beside what changes the project meanwhile (`ConfirmFirst`, `ProposeChange`, `Accept`, `Decide`, `UpdateCanvas` with the proposal that reconciles the edit), and the trash with its purge |
| `backups` | `DatabaseBackups` | backup and restore with every check, copy and replacement as a step |

`HostedWorkspace` composes them: a behaviour chooses the part that acts and keeps to it,
so that one run explores the sum of the state spaces and not their product, which would
show nothing more of parts that do not interact. `OneStartOfTheOthers` gives the parts
that do not act one initial state.

### MC modules

`MCAsyncGeneration`, `MCGenerationPipeline`, `MCQuotaReservations`,
`MCSnapshotGovernance`, `MCEvidenceLifecycle`, `MCHandoff` and `MCHostedWorkspace` only
name model values and finite sets for the configurations.
Every module with actions also holds *mutants*: variants of a definition with a plausible mistake,
next to the definition they vary. No specification uses them; `PROJECT.json` pairs
each property with one that must break it.

## Runs

| Run | Instance | Shows |
|---|---|---|
| `async_requests` | 2 keys in 2 projects, 1 authorization, 2 models, 1 context, 2 requests per key, no crash | creations, replays, redemptions and cancels in every order around the worker: `RunIntentAgree`, `AuthorizationSpentOnce`, `SettledIsFinal`. 1.6 M states |
| `async_worker` | 2 keys, 1 crash or stop, 1 database error, fair | `OneExecution`, `QuotaFollowsResult`, `NoCancelFallsThrough`, `CancelledOnlyOnRequest`, `OrphanNeedsFailure`, the refinement `ImplementsJob`, and the liveness of cancel and queue. 144 k states |
| `pipeline` | 2 keys, 1 authorization, allowance 1, 1 crash, 1 database error of the queue, 1 of the executor | `EvidenceIsSound`, `SentAtMostOnce`, `ReservationFollowsRun`, `StoredSolutionsAreDelivered`. 9.4 M states |
| `pipeline_cancel` | as `pipeline`, without faults | violation, see below |
| `quota` | 3 calls, 2 of them committers, allowance 2, 2 days, 1 crash | `UsageCountsReservations`, `UsageWithinLimit`, `AnsweredIsNotReleased`, `ReservationsSettleOnce`. 81 k states |
| `quota_delivered`, `quota_failed` | 3 calls, 1 day | violations, see below |
| `governance` | 2 handlers, 2 claims, 3 snapshots, 2 proposals | `HistoryIsLinear`, `OneSnapshotPerProposal`, `ActiveClaimsAreCurrent`, `OneOpenProposalPerClaim`, `EditedCanvasIsProposed`, `ReviewEndsWithHuman`, the refinement `ImplementsHistory`. 494 k states |
| `governance_rejected` | 2 handlers, 2 snapshots, 1 proposal | violation, see below |
| `evidence` | 2 handlers, 2 sources, a claim and its replacement, crashes | `StatusFollowsEvidence`, `LossIsReported`. 2.2 M states |
| `documents` | 2 handlers, 1 exporter, 1 source, 9 workloads of up to 2 versions, 2 snapshots, 2 claims, 1 package | `CurrentRestsOnActive`, `PackagesAreConfirmed`, `AdviceIsPossible`. 4.7 M states |
| `hosted` | 2 threads, 2 accounts (invitations, keys, options, profiles), 1 legacy database, 1 copying thread; bounds below | `UsedApplicationsStayOpen`, `SnapshotRestsOnConfirmed`, `RunsAreAccountedFor`, `ConfirmedIsApplied`, `NoUnseenOverwrite`, `SelectedProfilesAreUsable`, `ProfileStoresAgree`, `CopiesAreWhole`, `NothingIsLost`. 2.8 M states |

Why these bounds are enough for what they show:

* The queue has one worker, so interference needs the run it holds and one other:
  the callback that lands on the next run's loop needs two keys, the order of the
  queue needs two, an authorization raced for needs two. A second crash or fault finds
  the same rows the first left behind.
* A commit of somebody else's reservation needs two calls, and a third to be the one
  refused at an allowance of 2. One midnight separates a reservation from its release.
* A race of two acceptances needs two handlers and two proposals against one
  snapshot; a third snapshot lets a stale request act two versions later. Two claims
  allow a claim and its replacement. In this instance both are user problems, so of the
  clauses of `IsMaterial` those for that type and for dependent snapshots are exercised;
  the proofs cover every type.

* Two sources are what it takes to support or contest a claim, and two requests what it
  takes to overlap on one of them; the replaced claim meets requests that read the old one.
* Two versions of one document make "latest" ambiguous, and two snapshots make a package
  or a version refer to a past one. Two requests at a time meet on one version, or ask for
  the same number while a package is put together. Of two claims one can be stored and the
  other not when a version is confirmed.
* In `hosted`: one end of the process and one failed shutdown (`MaxStops`,
  `MaxCloseFaults`) leave the rows and entries every later one would. Three briefs
  (`MaxBriefs`) let a brief be refined twice under one generation; two runs (`MaxRuns`) let one
  overtake the other. Five `Questions` are those of the code; three decisions, two
  canvases, two sessions (`MaxDecisions`, `MaxCanvases`, `MaxSessions`) let the user go back after each
  and start over. Four revisions (`MaxRevision`) let two editors overtake each other twice.
  One profile with two keys, or two profiles without keys (`ProfileScopes`): keys of different
  profiles do not meet. One end of the process and one rollback (`MaxProfileStops`,
  `MaxProfileFaults`). Two projects (`MaxProjects`): a copy and its parent; two versions of
  each (`MaxVersions`) let the current one and the last one differ. Two edits of a project's
  canvas and two proposals (`MaxEdits`, `MaxProposals`): one can be accepted and the other be
  left open against the snapshot before. No copy is begun when there is no room for it. Two commits
  (`MaxCommits`), three backups (`MaxBackups`) and two faults (`MaxFileFaults`): one to force a
  rollback, one to hit the rollback itself.

Deadlock is checked in the queue runs, in `evidence` and in `documents`. The `Quota*`, `Governance*` and
`Hosted` configurations turn it off: every call ends, users may stop asking, and the
bounds on snapshots, proposals, revisions or briefs are reached.

The bounds `MaxRequests`, `MaxRestarts`, `MaxFaults`, `MaxStepFaults`, `MaxDay`,
`MaxCrashes`, `MaxSnapshots`, `MaxProposals` (of the definition, and of each project that is
copied) and those named above appear only as the
guard of the action that counts, and `workload` and `scope` as guards on what a behaviour may start.
Each module has one type invariant, which is proved instead of being run (`TypeCorrect`,
`PipelineTypeCorrect`); adding `TypeOK` (`PipelineTypeOK`) to a configuration checks it on the
instance.

The guard on proposals also stands in the way of actions that would
propose one more: with the bound reached, an edit after version 1 is not possible. The
proofs hold for every value of the bounds, hence for executions of every length.
`governance`, `evidence`, `documents` and `hosted` use symmetry of interchangeable
threads and names; they have no liveness property.

## History variables and what they exempt

A property of code whose checks and writes are apart often holds only if nobody
interferes. Where that is so the interference is recorded, and the property says what it
leaves out; each exemption is a behaviour the code really has.

* `overlapped` (`EvidenceLifecycle`): a source was archived or restored while another
  request that had read it had yet to write. The status of a claim may then count a link
  to an archived source, or an active link may go uncounted; the design document's rule that a relation is
  rejected when it is revalidated at commit time does not hold there, since the
  validation precedes the transaction.
* `owed` (`EvidenceLifecycle`): a claim lost its support and no mark has been set yet. A
  crash between the two transactions of a relation loses the mark for good.
* `raced` (`DocumentVersions`): a source was archived after the loop had collected its
  evidence and before it recorded the version, which is then recorded as current.
* `hasty` (`DocumentVersions`): a version was confirmed before all of its unresolved claims
  were stored. A package of a project without a snapshot may then list fewer of them. With a
  snapshot this cannot happen: a version depends on it only when its claims are all stored.
* `disturbed` (`Handoff`): a document or the snapshot changed while a package was made. It
  then may hold documents that need review, or list fewer unresolved claims.
* `overtaken` (`GenerationPipeline`): the answer of a run was read from a synchronous run
  without candidates. The run is settled FAILED, although its solutions are stored and its
  reservation is committed. The two properties that name it say that this is exactly what
  then happens, and that without a fault it happens in no other way.
* `overtaken` (`ProjectInception`): a later run makes `list_candidates` answer for the
  wrong run, and a run with stored candidates may be marked as empty. Its key answers FAILED.
* `overlapped` (`GuidedSession`): two requests of one conversation overlapped, or one was
  cut short. The latest proposal is then confirmed, which need not be the applied one.
* `unsettled`, `raced` (`ModelProfiles`): a key put back after its transaction gave up the
  lock overwrites a key stored meanwhile; a put-back that raises leaves the new key, or none,
  beside the row that was rolled back; a test records results for a profile that has
  changed.
* `torn` (`ProjectCopies`): the original changed while it was copied. If it was an
  acceptance, the copy has a snapshot more than its current one, and its next acceptance
  is refused by the key on (project, version), for good. If it was an edit of the canvas, the
  copy may show the edit without the proposal that asks to take it over.
* A migrated snapshot (`chosen.run = 0`) may rest on a brief nobody confirmed: a project
  of the new flow with a canvas and no solution yet is migrated by the next start, after which
  its user can no longer choose a solution.

Where an exemption is the very race that a hazard names (a dead thread, overlapping
requests for a source, an archive during the rounds), the property does not say that the race
is harmless. It says that the damage has no other cause, and `PROJECT.json` says so in the
note of the hazard.

## Where the code and its documents disagree

* `pipeline_cancel`, `CancelledRunHoldsNothing`: the resource matrix
  (`docs/OPEN_TEST_RESOURCE_ISOLATION_MATRIX.md:70`) says a cancelled run holds no
  reservation. A cancellation delivered while the client is being closed
  (`ai_runtime.py:632`) passes every handler that releases.
* `quota_delivered`, `DeliveredIsCommitted`: `beta_usage.py:145` promises that a
  delivered operation is committed. AI reference, guidance and comparison never commit.
* `quota_failed`, `FailedIsReleased`: `beta_usage.py:158` promises that a call without
  result is released. One call's commit may take the reservation another call has
  stored in the shared attribute; when that call fails, it finds it committed.
* `governance_rejected`, `RejectedMadeNoSnapshot`: the design document says rejecting
  creates no snapshot. Reject and defer check the status before they hold the write
  lock and update by id alone, so a proposal that has just made the current snapshot
  can end as rejected.

## Fairness

Safety and refinement need none. `FairSpec` of `AsyncGeneration` assumes weak fairness
of

* `WorkerStep` and `ExitLoop`: the thread is a plain loop without a lock to wait for,
  and the deployment restarts a process that is gone (`StartWorker`);
* `RereadRun(k)` and `SignalWorker(k)`: a handler that has committed goes on;
* `DeliverSignal(k)`: the event loop runs its callbacks while the executor is
  suspended.

Nothing is assumed of users, faults, crashes or the executor. A provider may never
answer: `CancelSettles` holds nevertheless, because the callback cancels the task;
`QueueDrains` names the condition it needs, that the worker is again and again not
awaiting an executor. Both name the states in which the code gives up: an orphaned
run, a dead thread.

## Proofs

Eight modules hold the proofs; all are checked to the last leaf. Each safety and each
action property that a passing run checks is proved as a theorem, and so are the type
invariant of every specification, the two refinements of the queue and the one of the
definition's history. Two kinds of theorem have no run of their own:

* *What stays.* `RecordsAreKept` (governance and pipeline), `HistoryIsKept`,
  `KeysAreAnsweredOnce` and `RestoresFollowBackups` are action properties of the records that
  the code never means to take back, for every pair of consecutive states.
* *What an exemption is worth.* Some properties exempt states that requests in flight have
  left, and three runs expect a violation. `OneAtATimeStatusFollows`, `KeysAgreeInTurn`,
  `OneAtATimeSettles` and `CancelledBeforeClosing` prove that under the named condition,
  which is a hypothesis of the theorem and not a guard of the model, the exemption is empty or the
  refuted promise holds. They tell which interleaving is to blame, and that no other is.

The only assumptions are the named `ASSUME`s on constants, which TLC evaluates in every run:

* sets of interchangeable things that are counted (keys, calls, claims, sources, requests
  for an account) are finite;
* bounds are natural numbers;
* names are what the code makes them: an account is not a legacy database, null values are
  not keys, a type of document is one of the two there are;
* what is enumerated is a set of possible inputs, and not empty where the code needs one.

**`AsyncGenerationProofs`**: `TypeCorrect`, `RunAndIntentAgree`, `AtMostOneExecution`,
`QuotaSettled`, `SettledRunsAreFinal`, `QueueImplementsJob`. The properties are not
inductive by themselves: that a run is entered once rests on where the worker is. The
invariant `IInv` adds `WorkerHoldsRun` (the worker is busy exactly when it holds a run,
and that run is `RUNNING`, so nobody else can settle it or claim it) and
`EnteredByPhase` (up to the entry of its executor the claimed run has not been entered,
and after it once). `NextIInv` has one step per action. The refinement then needs only
`IInv`: each action is one step of the job or leaves the mapped state alone.

The other theorems add two invariants. `AuthInv`: a run that does not exist carries no
authorization, so a new run is the first bearer of the one it redeems
(`AuthorizationsSpentOnce`). `CancelInv`: whatever can cancel an execution, and whatever
says that it was cancelled, goes back to a request for it (`CancelsRequested`), and from
the worker's check of the flag on a request is with its handler or with the event loop
(`CancelsPending`). `NoCancelIsLost`, `CancelledRunsWereAsked` and `OrphansNeedFailure`
follow.

**`GenerationPipelineProofs`**: each step of the managed call is a step of the queue whose
executor it is (`PipelineImplementsQueue`), so that each theorem above holds of it; in
particular `PipelineImplementsJob`. `PipelineInv` then ties the records of a run to the stage
of the call that makes them (`ByStage`: permit, dispatch events, reservation and stored solutions
at each stage), says that nothing is on record for a run that
was never entered (`RecordsNeedEntry`), what the ledger holds whatever became of the executor
(`EvidenceKept`), and, for each settled run, what its result leaves behind (`Kept`). From it follow
`EvidenceSound`, `RequestsSentOnce`, `ReservationsFollowRuns`, `StoredSolutionsDelivered`, and
with the bounds on the counts `PipelineTypeCorrect`. `RecordsAreKept`: permits, dispatch events,
sent requests and stored solutions only grow, and a reservation goes from none to held to
settled; this needs `ByStage`, since the code updates by the run's id alone.
`CancelledBeforeClosing` is the counterpart of run `PipelineCancel`. The run shows a cancelled run
whose reservation is held; the theorem shows that this takes a cancellation while the
executor closes its HTTP client (`CancelWhileClosing`), a window between two awaits.
`CancelledHoldNothing` is its invariant: as long as no write has failed, a cancelled answer on
the way back to the worker, or recorded by it, has no held reservation.
`ReservationsFollowRuns` and `StoredSolutionsDelivered` need one more link: a run is
in `overtaken` only from the listing of its candidates on, and the answer on the way to the
worker, and then the result of the run, is one with candidates only if it is not.

**`QuotaReservationsProofs`**: `CounterMatchesLedger`, `AllowanceKept`,
`AnswerKeepsReservation`, `SettlesOnce`, for any number of calls, operations, days and
crashes. The addition is `ReservationByPhase`: before `Consume` a call has no
reservation, while it is being called it has one that is held (though perhaps
committed by another call), and once answered it is never released. `Consume` and
`release` change a cardinality by one, which the lemmas `ConsumeKeepsStep` and
`ReleaseKeepsStep` establish; the others leave the held sets alone. `TypeCorrect` comes with
them. `OneAtATimeSettles` is the counterpart of the runs `QuotaFailed` and `QuotaDelivered`:
under `[]OneAtATime` (no two calls between their reservation and their settlement) both
promises hold, by `OwnReservation`, that the attribute of the service names the reservation of
the call that is under way.

**`SnapshotGovernanceProofs`**: `OneChain`, `ProposalsMakeOneSnapshot`,
`ClaimsFollowSnapshot`, `NoDuplicateProposal`, `EditsAreProposed`, `OnlyHumansClear`,
`SnapshotsImplementHistory`, `TypeCorrect`, for any number of handlers, claims,
snapshots and proposals. The question is why acceptances that checked an old state
cannot fork the chain. The answer is `AcceptedAgainstCurrent`: the new version is that
of the base plus one, and since versions are consecutive it is free only if the base is
still the last snapshot; otherwise the unique constraint rejects the insert. `IInv` adds
what the argument needs: `BasesExist` and `RequestsRead` (what proposals and handlers
remember exists, and as long as an acceptance can still succeed the claims it replaces
are in force), `Origins` (snapshot *i* > 1 comes from a proposal against *i* - 1),
`AcceptedMadeOne`, and `NoClaimsBefore` the first snapshot. `RecordsAreKept` then says
that no step edits what was decided on: snapshots and the texts of proposals stay, decided
proposals stay decided, and a claim is absent, then in force, then superseded.

**`EvidenceLifecycleProofs`**: `StatusFollows`, `LossesAreReported`, for any number of
handlers, sources and claims. A handler writes what it has computed from reads of another
transaction; the argument is that of every source not in `overlapped` its knowledge is
complete. `LinksRest`: a link that counts has a source that is active, and claims that
are not in force have no links. `RequestRests`: a claim that an archive does not recompute
has no active link to the source, and each link that a restore reactivates is of a claim
that it recomputes. `SameWorth` does the rest: a claim whose links stay, and whose active
links keep their sources, keeps its status. For `LossIsReported`, a handler that does not know a
claim takes it for unverified and cannot take its support away (`LossIsMaterial`
shows that whatever does is material).

`StatusFollows` compares a status with the function that computes it; `StatusesHaveEvidence`
says what it takes without that function: a supported claim has two different sources that
support it, active and of a type that may, and none against it. It rests on
`EvidenceIsAdmissible`, that what is forbidden to bear on a claim never does: a relation is
validated in one transaction and stored in another, and `AdmissibleInv` carries the type of
the source, which nothing changes, from the one to the other. `OneAtATimeStatusFollows`: with
one handler nothing is ever `overlapped`, so that the status of every claim in force is right.

**`HandoffProofs`**: `CurrentVersionsRest`, `PackagesRestOnConfirmed`,
`TheAdviceIsPossible`, for any number of requests, exporters, sources, versions, snapshots
and packages. `VersionsRemain` says what no step changes: what a version cites, the
snapshot it was recorded with, and that it was approved. A package put together from four
reads of four moments therefore holds versions that are still what they were selected for
(`PackageRests`, `ExportRests`). What a package lists rests on `ClaimsInv`: a version that
depends on a snapshot has all its unresolved claims stored, and so has every confirmed one
that is not in `hasty`. `CurrentRests` needs `OneEach`: a version whose
dependencies are not recorded yet is with the one request that made it. That the advice is
possible rests on a lemma that a nonempty set of versions has a latest one, which follows from
the well-foundedness of < on the natural numbers. `ReferencesAreKept`: a purge deletes a
version by its id alone, and a copy is inserted under a number read earlier; `ReferenceInv`
shows why a draft still edits, and a restored version still names, a stored version of its
type, and why no number is given twice, which `PackagesRestOnConfirmed` says of the documents
of a package. `HistoryIsKept` is `VersionsRemain` of both parts
together with the packages and acknowledgements. `TypeCorrect` follows from both invariants.

**`ModelProfilesProofs`**: the invariant `ProfileInv` of the profiles, their default and the keyring.
`WritersLock`: from its check to its commit a client holds the write lock, so a profile
being deleted is not in use (`DeletedAreFree`). `KeysOf(p)`, for each profile by itself:
who changes a key, and has not been overlapped, would put back the key that is meant; an
update that was not overlapped commits the key that is in the keyring; a test that nothing
disturbed has seen the profile as it is. A put-back that raises marks its profile as
`unsettled`, until an update of its key that nothing overlaps.

**`HostedWorkspaceProofs`**: the parts share no state, so a step of the composition is a
step of each part or leaves it alone (`PartsStep`), and each part has an invariant of its own:

| Part | Theorems | Argument |
|---|---|---|
| drafts | `DraftsAreSeen` | `DraftInv`: a save names no base, or the revision the client has seen |
| backups | `RestoresLoseNothing`, `RestoresFollowBackups` | `RestoreByStep`: at each step of a restore the live database, or a checked copy of it, holds what it held before; the second theorem says of each step that backups stay and that the file is replaced only once that copy has its manifest |
| accounts | `ApplicationsStayOpen` | `RegistryInv`: no two accounts share a database; `PoolInv`: the leases of an entry are the requests that hold it, counted by `Cardinality`, so an entry that the sweep may close has none |
| copies | `CopiesHoldTogether` | `InStep`: what a copying thread has read and written so far agrees with the original, unless the original changed (`torn`); `Whole`: the canvas of every project that is not torn shows its current snapshot or an edit that is among its proposals, whichever proposals are left open (`Shown`) |
| inception | `SnapshotsRestOnConfirmed`, `EveryRunIsAccountedFor`, `KeysAreAnsweredOnce` | `InceptionInv`: a key is run by one request (`OwnKeys`, `KeysRunOnce`), the run is where its request is (`RunByPhase`), what has been answered stays (`Answered`), and candidates in use were generated from confirmed briefs (`BriefsConfirmed`) |
| profiles | `SelectionsAreUsable`, `TheStoresAgree`, `KeysAgreeInTurn` | `ProfileInv`, above; if each change of a key ends before the next one begins (`OneChanges`), the process ends in none (`NoneIsCut`) and no put-back raises (`AllArePutBack`), `unsettled` stays empty: there is no fourth exemption |
| guided | `ConfirmedWasApplied` | `CanvasForEach`: a request that has written a canvas may confirm one decision, so confirmed decisions and such requests together are never more than canvases; `OneByOne`: if requests come one after the other, the newest proposal is the option of a session that is ready |

`TypeCorrect` puts the parts together: each invariant types what its part reads, and the counts
(`AccountCounts`, `InceptionCounts` and the others) keep to their bounds.

Only model-checked, because liveness and `ENABLED` are out of the provers' reach:
`CancelSettles` and `QueueDrains`. The properties that are expected to fail have their
counterexamples from TLC. Induction over data is out of reach as well; nothing here needs
it, since sequences are only appended to and read by index, and no module declares a
RECURSIVE operator.

## What is left out

* Prompts, payload formats, parsing and validation of model answers, the texts of
  documents and of the conversation: a draft is usable or not, a document passes or not.
* The fixture runtime, the routing tables of managed models, and the synchronous
  adapters: configuration and I/O. A claimed run resolves its model again from tables
  that are not modelled.
* The guard's process-local variant without a database, which only tests use.
* The document loop's replay of an idempotency key and its competitor binding; the live test
  of a profile, which follows the connection test's protocol on columns of its own;
  profile revisions and audit rows.
* The decision and the claims that a migration infers; the seeding of examples, which
  inserts fixed data before the first request.
* The revisions of the document editor's drafts. `WorkspaceDrafts` models the unified drafts
  (`drafts.py`) only. `save_draft` of `document_workspace.py` compares the revision and then
  upserts without a condition, so that of two saves at the same moment the later overwrites
  the earlier unseen; `SaveDraft` keeps of such a draft which version it edits.
* Two reads that are one moment in the model and two in the code: the open proposals and the
  health in `ReconfirmChecks`; the newest run and its candidates, with the first write after
  them, in `SelectWrites`. In the code a mark may appear between the first two, to be cleared by a
  reconfirmation that saw no proposal (in the model this needs a mark that was there
  before), and a newer run between the second two, whose candidates are then not the ones
  chosen from; the chosen run is complete and its brief confirmed all the same.
* Passwords, the limit of login attempts, the guided tour.
* Expiry of an authorization while the redemption waits for the write lock: expiry is
  checked in the same step as the redemption.
* Retrieval ranking, chunking and ingestion, exports as files, reports, feedback and
  consents, schemas and the browser client: pure functions, I/O or append-only records.
  The client's polling and repeating are the environment of `AsyncGeneration`.

Things the models make visible and no property forbids, because no document promises
otherwise: a crash between the two steps of a reset leaves a project without a guided
session, and every request of the conversation, a reset included, is then refused; a run
orphaned by a crash keeps its account's application open for good; a revoked or expired
invitation binds its legacy database for good; a generation that a synchronous one
overtakes is reported as failed and charged, with its solutions in the database; a key that the
keyring twice refuses to write is no longer the one its profile was tested with; a project
taken out of the trash between the reads and the deletes of a purge is purged (no property
forbids it: the `DELETE`s name the id alone); a project with a draft, an AI reference, a
comparison or feedback cannot be purged.

## Plan

Done: the queue with its authorizations (`GenerationJob`, `AsyncGeneration`), the managed
call (`GenerationPipeline`), the allowance (`QuotaReservations`), the definition
(`ProjectHistory`, `SnapshotGovernance`), evidence (`ClaimImpact`, `EvidenceLifecycle`), documents
(`DocumentVersions`, `Handoff`), and the hosted workspace with its parts.

Next, in this order:

1. Pure rules against a reference definition over bounded inputs: the validation of a set of
   solution candidates (`solution_design.py`, `validate_solution_set`) and the
   reciprocal-rank fusion of retrieval, the two rules of the program long enough to be
   wrong in a way that their unit tests would not show.
2. What the other records keep, as `RecordsAreKept` does for the pipeline: the runs and
   intents of `AsyncGeneration`, the links and sources of `EvidenceLifecycle`.
3. Liveness of the synchronous generation: a key whose request has died answers after a
   bounded number of retries, or never, depending on the row the request left.
