# BrickVision in TLA+

BrickVision builds a *capability graph* of the Databricks platform, a *knowledge
graph* of one workspace, and a console that plans and runs use cases from both.
This directory models the parts of it where several actors share state, and the
algorithms those parts rest on: the whole indexer job from its source adapters to the
publication in Lakebase, the rollback command, the console reads, the
workspace-graph job and the planner, the records of a use case, the two in-memory
monitors of the console with the work their threads submit, and the evaluation of
retrieval. TLC checks the models on small instances; TLAPS proves their safety and action
properties and the two refinements for every value of their constants.

Paths below are relative to the repository; `capability_graph/` stands for
`src/brickvision_runtime/capability_graph/`, `console_api/` for
`apps/console-api/src/console_api/`, `databricks_jobs/` for
`src/brickvision_runtime/databricks_jobs/`.

## 1. Inventory

What the parts are, what each keeps, who changes it, and what makes it correct.

### Capability-graph indexer, front half (`databricks_jobs/run_capability_indexer.py`, `capability_graph/sources/`, `graph_builder.py`, `embed.py`, `vs_upsert.py`)

A job of thirteen tasks. The front half is `plan`, four sources in parallel (`sdk`,
`openapi_aws`, `docs_aws`, `labs`), `graph_builder`, then `embed` beside `persist`,
`vs_upsert` after both, and `smoke`. Each task reads what the tasks before it left in the
staging directory of the run and writes a result there.

The adapters are pure: Python source, API reference pages, HTML and a checked-out
repository become methods, operations, chunks and callables. The builder merges them in a
fixed order (SDK, hand-authored skills, OpenAPI, docs, labs) into extensions, edges and
provenance; a source of higher authority replaces a row. `embed` makes vectors of the
chunks and of the extensions' texts through a cache and under a token cap; `vs_upsert`
writes them into one index that all runs share.

*State*: the staging directory, `embedding_cache`, the vector index, typed Delta tables,
`corpus_snapshots`. Cache and index outlive a run; both are keyed by the hash of a text.
*Hard*: the sources change between tasks and pages fail to load without a word; five
sources write one row; batches fail one by one; a cap cuts a run short and the run is
promoted all the same; tasks die after they wrote the cache.
*Correct when*: no word of a page is lost between chunks; a row is of its most trusted
source; edges end at something; a vector is the vector of the text it is found under;
what is missing from the index is reported, and gets there in the end.

### Capability-graph indexer, tail (`capability_graph/promote.py`, `retention.py`, `brickvision/cli/indexer.py`)

`persist` replaces the rows of a snapshot in the typed Delta tables and inserts its ledger
row; a table that fails does not stop its siblings. `vs_upsert` and `smoke` report failures
in their result and succeed. `promote` consults the three results and the ledger, then
moves the one-row pointer `active_snapshot_id` and stamps `promoted_at_ms`, as two
statements. `retention` reads the pointer, lists promoted snapshots past the window and
deactivates them; `sync` runs beside it. The job runs one at a time; each task has its own
number of retries. An operator's rollback (`brickvision indexer rollback`) moves the pointer
back to a promoted, live snapshot of the last 30 days, at any moment.

*State*: the pointer, the ledger, the typed rows, the staged results.
*Hard*: a statement whose client gave up after `wait_timeout` may commit much later;
processes die between the statements; retries; a rollback between the sweep's read
of the pointer and its updates; two windows compared with different operators.
*Correct when*: what is active was validated; the ledger never runs ahead of the
pointer; the age of a snapshot is never rewritten; what may be rolled back to is
not deactivated; what is serving is not deactivated; the sweep does its job; a run ends.

### Lakebase publish (`capability_graph/publish.py`)

The `sync` task resets ten synced tables of the console's Postgres read model, creates them
again or starts their pipelines, and polls until the pointer there shows the new snapshot and
six of the tables have its rows.
*State*: per table, whether the UC object and the Postgres table exist, whether an update is
under way, and which rows were copied. *Hard*: failure between delete and create, answers
that are lost, one exception that skips the siblings, rollbacks that nobody publishes.
*Correct when*: a successful task means pointer and rows are of one snapshot until an
operator says otherwise; tables are missing only during a sync or after a failed one.

### Console reads (`console_api/lakebase.py`, `capability_*_service.py`, `capability_graph/retrieve.py`)

A request reads the pointer, then the rows of that snapshot, in two statements on one
shared Postgres connection, which a failing request closes.
*State*: the slot of the connection. *Hard*: a sync replaces the tables between the two
statements; a connection is closed under another request. *Correct when*: a request that
nothing disturbed answers with rows, and one failure costs only those who shared the
connection at the time.

### Workspace knowledge graph (job of two tasks, `databricks_jobs/run_workspace_kg.py`)

Lists and profiles tables, turns profiles into claims, appends them to
`workspace_claims` (audit history) and merges them into `workspace_claims_current`,
then starts the pipeline that copies the latter into Lakebase.
*State*: the two tables, the copy, the workspace itself, which changes meanwhile.
*Hard*: late statements of an earlier attempt, a pipeline that copies when it likes,
claims that no longer hold. *Correct when*: what is readable is in the history, and
a refresh that got through its merges is all there.

### Workspace planner (`console_api/usecase_suggestions.py`, `usecase_planner.py`, `usecase_artifacts.py`)

`plan_and_build_workspace_suggestion` compiles a suggestion from Lakebase, stores
the plan, compiles again, and creates the schema's quality view if the evidence
holds. *State*: `workspace_build_plans`, the view. *Hard*: pointer, claims and
view change between its reads; `CREATE VIEW` may land after it raised.
*Correct when*: the view rests on real claims, the record of a plan is true of the
workspace, and evidence that the recheck looks at blocks the build when it changed.

### Use-case records (`console_api/usecase_records.py`, `usecase_service.py`)

Creation, strategy, skill inputs, artifact plan, validation and go/no-go decision of
a use case, in append-only tables of which handlers read the newest row.
*Hard*: concurrent handlers that read several tables in separate queries; a
failed query reads as an empty table; an INSERT may land late.
*Correct when*: a ready decision has a validated plan behind it, and that plan
binds only what was saved.

### Use-case executions (`console_api/usecase_executions.py`, `usecase_tool_proofs.py`)

A dictionary of runs under a lock, a pool of three threads, and rows stored by each
job; a proof may also be asked for directly, in the thread of a request. *Hard*: the check
for an active run and the insertion are two critical sections; INSERTs raise; the process is
replaced. *Correct when*: a family runs twice only in that window or by a direct request,
what is completed is stored, and a run ends.

### Skill execution, ML readiness and Lakebridge (`console_api/skill_execution_service.py`, `src/brickvision_runtime/ml/`, `databricks_api_executor.py`)

What a thread of the monitor does: it submits a SQL statement, a PySpark or training job or
a Lakebridge conversion, waits for it up to a deadline, and reads back what it left. An ML
execution first decides which problem the evidence supports, with which backend, and
whether its API plan passes a gate; a conversion first checks what is installed and bound.
*State*: the remote work, the output table or folder, which all executions of a family of a
use case share. *Hard*: work outlives its thread and writes later; nothing read back says who
wrote it; several heuristics judge the same columns. *Correct when*: a proof rests on its
own execution's work, what a completed code conversion wrote is in the output volume, and what
is approved can be trained.

### Migration runs (`console_api/migration_runs.py`)

A dictionary of runs under a lock, a pool, a best-effort row after each change,
and requests that merge memory and rows. *Hard*: rows that are missing or late,
reads of table and memory at different times, restarts. *Correct when*: a living
run is never shown as interrupted, a stored result is not hidden, what is shown
does not go back, and a run ends.

### Evaluation (`console_api/capability_rag_service.py`, `evaluation_events.py`, `evaluation_service.py`, `scripts/run_evaluation_scorers.py`, `scripts/evaluation_lib.py`)

Searching and asking leave events; the daily job registers curated datasets, scores them
against the newest events and samples live traces; a page sums up the newest runs and the
day's answers. *State*: `evaluation_events` (events and scorer runs), `evaluation_datasets`.
*Hard*: events are lost or late; a failed query reads as no rows; a registration is a DELETE
and an INSERT either of which may land later. *Correct when*: a run that passed rests on a
retrieval that found what was expected, a green page on a full set of runs and a healthy
day, and what was registered stays registered.

### The rest

The runtime harness and its primitives (budget, human approval, evidence) are sequential
checks; install and uninstall commands provision objects once; skills are content; the React
console is presentation. They keep no state that two actors share. `PROJECT.json` lists each
with the reason it is not modelled.

### How the parts interact

    sources --adapters--> graph builder --texts--> embed --> vector index <-- search / ask --> events
                               |                                                               |
    indexer job --persist/promote/retention--> Delta tables <--rollback-- operator    evaluation job --> page
                                                  |
                                                  +--publish--> Lakebase --> console reads
                                                                   ^            |
    workspace-graph job --claims--> Delta --pipeline---------------+        planner --> view

    console handlers --> use-case records;  monitors (memory + rows) <-- start / list / get
                                               |
                                               +--threads--> statements, jobs, conversions in the workspace

All of it meets in tables. There is no message queue, and no lock wider than one process.

## 2. Modules

| module | models | abstraction |
|---|---|---|
| `SourceAdapters`, `SdkAdapter`, `OpenApiAdapter`, `DocsAdapter`, `LabsAdapter` | the four adapters the job reads | names and texts are sequences of words; tokenizing Python and HTML is the standard library's |
| `CapabilityGraphBuilder` | `build_capability_graph`, EXTENDS the adapters | routing tables are constants; edges and provenance are sets of keys |
| `CapabilityIndexing` | the job from `plan` to the gates of `promote`, EXTENDS the builder | a vector is the text it was made of |
| `SnapshotRegistry` | what the Delta side promises its readers | five sets and a pointer |
| `SnapshotLifecycle` | the job from `persist` to `retention`, and rollback | a snapshot is an id; rows are none, partial or full |
| `LakebasePublish` | the `sync` task and its pipelines, EXTENDS the registry | a table is the set of snapshots it has rows for |
| `ConsoleReads` | two-query requests on the shared connection, EXTENDS `LakebasePublish` | a request is the two reads it does |
| `WorkspaceKG` | the workspace-graph job and its pipeline | one claim per table profile |
| `UsecasePlanner` | the planner, EXTENDS `WorkspaceKG` | scoring and wording left out |
| `UsecaseRecords` | a use case up to its decision | a binding has no, some or all fields |
| `UsecaseExecutions` | execution monitor and tool proofs | a skill is its verdict |
| `SkillExecutions` | what the skills do in the workspace, EXTENDS the monitor | an output is the set of its writers |
| `MLReadiness` | the decisions of an ML execution | a column is a number with tags |
| `LakebridgeSwitch` | the decisions of a conversion | what is installed and bound, as flags |
| `MigrationRuns` | migration monitor, rows and console | a run is its status |
| `Evaluation` | asking, the scorer job, the page | a question's expected context is a rank |
| `CapabilityIndexingProofs`, `SnapshotLifecycleProofs`, `ConsoleReadsProofs`, `UsecasePlannerProofs`, `UsecaseRecordsProofs`, `SkillExecutionsProofs`, `MigrationRunsProofs`, `EvaluationProofs` | theorems about the modules they are named for, and those these extend | |
| `MC...` | operators the `.cfg` files give to constants, symmetry sets | |

### The adapters and CapabilityGraphBuilder

Each adapter is an operator from its input to its result (`ParseSdk`, `ParseOpenApi`,
`ParseDocs`, `ParseLakebridge`), made of the code's filters and conversions: which files and
pages count, how a name tells an effect or a phase, which method pages over or succeeds
which, which REST operation a page is about and which pages are aliases of one, what the
HTML extractor keeps of a page, where a chunk starts and which headings it stands under.
Ids are tuples, their kind first.

A graph under construction is the record the builders pass on. Each builder folds over its
source: it routes an entity to a meta-skill (`MetaOfMethod`, `MetaOfPath`, `DocsTargets`, the
phase of a callable), mints the extension's id, and calls `Upsert`, which replaces a row only
when its own authority is strictly higher. The code's routing tables have hundreds of rows;
they are constants, with the code's way of looking things up in them.

What the translation showed of the code, without consequence for a property:
- `_dedupe_openapi_documents` says in its docstring that account and workspace APIs stay
  distinct; its key is version, verb, path and operation only, so they collapse.
- A class that is both dataclass and service is a dataclass only, where a comment of
  `sdk_adapter.py` says it is captured on both sides.
- Pages of the API reference never carry an effect class: their extensions stay
  "unclassified" unless the SDK knows them.
- An override by OpenAPI, docs or labs takes the exemplar off a stub (`graph_builder.py:83`).
- Read from the skills directory, one malformed pointer fails the builder; listed by the
  manifest, the same skill is only a broken pointer.

### CapabilityIndexing

`phase` and `attempt` say which task a run is at; `staged`, `graph` and `embedded` are its
artifacts; `cache` and `index` outlive it. `World` holds the sources of each day, `Change`
moves to the next day at any moment, and `Extract` may lose any page on the way, or all of them.
`Build` looks for the hand-authored skills where it is told to. `Embed` is
`embed_batch` as a fold: a hit costs nothing, a full batch is flushed, over the cap the scan
stops, a batch that keeps failing leaves errors. `VsUpsert` writes the batches that land.
`Promote` stands for what `SnapshotLifecycle` models in detail. `Settle` ends all changes and
faults, and `quiet` counts the runs since.

What the translation showed: `embed.py:48-51` says a breach of the token cap fails the
snapshot, but a truncated result is promoted (`MissingIsReported` states what is left: the
artifact says so). The "daily" cap is per invocation. Stubs share the empty hash although
`graph_builder.py:1212-1215` calls the content hash a unique, stable key, so the index has one
vector for all of them. Vectors of old texts and of runs that were not promoted stay in the
index, which a search does not filter by snapshot. When the sitemap cannot be read the
source is empty, corpus health says "success" and the snapshot is promoted. The blog
source is planned and never read. `smoke` can only pass with an empty baseline: it compares
hash ids with extension ids.

### SnapshotRegistry and SnapshotLifecycle

`SnapshotRegistry` is the abstract specification: the pointer only moves to a snapshot with
all its rows, those rows then stay, a promotion is recorded only of a snapshot that was
served, a retirement only of a recorded one. `SnapshotLifecycle` implements it
(`ImplementsRegistry`): the job's tables, seen without the job, take its steps.

In `SnapshotLifecycle`, `ledger` is `corpus_snapshots`, `active` the pointer row, `staged` the
result files of each run, `persisted` the typed rows. `pc` says where the job is: one action
per task up to `Smoke`, then the statements of `promote_snapshot`
(`PromoteGates`, `PromotePoint`, `PromoteStamp`, `PromoteEmit`) and of
`run_retention` (`RetentionReadActive`, `SweepList`, `SweepDeactivate`,
`SweepDeactivated`, `SweepStaging`), because a crash or an operator can come between any two.
`RollbackBegin`, `RollbackCheck` and `RollbackPoint` are the command. A
statement succeeds, fails, or is added to `inflight`, from where `Land` may carry it out
at any later time. `Restart` is the scheduler: the same task again, or the end of the run.
`everActive` and `overlapped` are history; `overlapped` has the snapshots a rollback turned to
while a sweep was at work or had left an UPDATE for them in the warehouse (`MeetsSweep`). The second
case needs a rollback window longer than the retention window. They are set apart
(`BV_INDEXER_SNAPSHOT_RETENTION_DAYS`, `cli/indexer.py:143`, and `BV_INDEXER_RETENTION_DAYS`,
`run_capability_indexer.py:2039`), and only their defaults agree.

Assumptions: the scheduler starts a run only when the warehouse has disposed of the
previous run's statements (runs are scheduled a day apart, and the statements touch a row or
two); a run's snapshot id is new, as it is `snap_` and the run's own id. The rollback's rate
limit (`cli/indexer.py:416`) reads a timestamp only the dry-run log carries, so it never
limits, and the model has none.

### LakebasePublish and ConsoleReads

`LakebasePublish` builds on the registry, not on the lifecycle: a run's promotion is its
`Serve` and `Record`, a rollback a `Serve` by somebody else, and `LateServe` a promotion that
lands after its run. `synced`, `updating`, `present` and `copy` are the state of each table;
`DeleteSynced` and `CreateSynced` are one step per table, in the code's order, and every call
may fail, time out, or do its work and lose its answer. A pipeline's update lands or fails
when it likes (`UpdateLands`, `UpdateFails`). `Poll` succeeds only on what it sees. As a run's snapshot id is its own, `Build` never begins a
complete snapshot anew.
In `ConsoleReads` a request acquires the shared connection for each of its two statements;
`Drop` is the `with` block of `lakebase_connection`, which closes the connection it yielded and
empties the slot whatever is in it by then. `disturbed` and `struck` are history.
The poll of the code leaves three of the ten tables (`refresh_plan`, `corpus_health`,
`source_authority`) unverified; `Verified` is a proper subset for that reason.

### WorkspaceKG and UsecasePlanner

`world` is what a profile of each table would say; `WorldChanges` changes it. One
action per statement batch, with a table per batch; all INSERTs precede the first MERGE.
`late` holds statements that may still land. `PipelineRuns` copies `current` as it is
at that moment, or fails. As above, a refresh starts only when the statements of the one
before are done with. The planner's request has an action for each
query and statement, in the order of the code: pointer, claims, plan row, pointer,
claims, view, outcome row. `ServedSnapshotChanges` stands for the publish task.

The recheck (`usecase_planner.py:66`) compares the suggestion's id, its target and the active
snapshot. The plan's own step (`usecase_planner.py:144-147`) says more: "Block execution if
required schema table profile claims disappear or the target schema changes." A claim that
disappears between the compilations does not block the build; `BuiltOnRecheckedEvidence`
states what does hold of the evidence a view was built on. A claim's id hashes its value, so
rows of old values and of dropped tables stay in `workspace_claims_current`.

### UsecaseRecords

`tables` holds rows with the time they were composed, `req` the local state of each
handler. A read returns the newest row or, when the query fails where the code catches it, none.
`Composes` stamps a row; `Insert` appends it, raises, or leaves it in `lateRows`.
The families of a strategy, the resolver's gaps, the steps of a plan and the
validator's rules are operators translated from the code's tables. Deployment has no skill for a
composite strategy (`HasSkill`), so the plan of one that deploys is always blocked by `STEP_SKILL_ID_MISSING`.

Assumptions: `created_at_ms` differs between rows (two requests in one millisecond
would make "the newest row" any of them); `LIMIT 100` of the bindings query is not reached.

### UsecaseExecutions, SkillExecutions, MLReadiness, LakebridgeSwitch

`status`, `family`, `persist` and `asked` are the entries of `_RUNS` and the direct requests,
`queue` what the pool has not begun, `stage` where the thread that has the run is.
`StartCheck` and `StartInsert` are the two critical sections; `AskProof` is a proof asked for
directly, which looks at no run. A row is stored, or its INSERT raises and the row is there
or not. Two families (`Unrecorded`) return before their proof row is written, and the step
`proof_persist` shows as completed all the same (`usecase_tool_proofs.py:65`);
`CompletedIsRecorded` excepts them by name.

`SkillExecutions` opens the step in which a skill runs. `phase` is how far it has come, `remote`
the work it submitted, `output` whose output is in the place of each family, `seen` whose it
has read or exported, `volume` whose converted code is in the output volume. `RemoteEnds` does not ask whether anyone still waits: the deadlines of the code
(1800 or 3600 s) and restarts give up the wait and leave the work. Which submissions an ML
execution can come to is `TrainingOutcome` of `MLReadiness`, and a conversion `Outcome` of
`LakebridgeSwitch`, over the use cases and settings the constants list.

A code conversion waits for its Switch run (`WaitForSwitch`), exports the folder of the use case
and copies what it got to the volume (`ExportFolder`, `CopyToVolume`). `skill.py:555-573` reads
the end of a run from either of two layouts but its `result_state` from one of them only, and
accepts none: with the other layout a run that failed is as good as one that did not, so
`WaitForSwitch` takes both. Nothing looks at whether the export holds a file of this run, although
the skill declares `code.conversion.must.not.fabricate.outputs` (`skill.py:25`): a Switch run may
end well or badly without writing, and `Conclude` shows it as completed. "Completed" therefore
does not say that anything was converted, and no property here says so. What the order of
the steps does guarantee is `CompletedIsDelivered`: what the execution wrote to the folder is
in the volume. The export comes after the run is over, a failed copy is noticed, and a later export
holds the earlier files too. It excepts a command whose run is not known, and conversions that
run together: there TLC finds, once the exception is dropped, that an export taken before the
other's run had ended is copied over the newer files, and a file is lost that was shown as delivered.

`MLReadiness` has the three heuristics of `ml/readiness.py` that judge the same columns, the
four backends, the binding of a plan and the training gate. The gate asks for a plan and not
whose it is: with a metric outside the strategy's candidates (the default `rmse` for a
classification), or without a backend, the bound plan is blocked and the strategy's own
placeholder passes; that is the outcome `unplanned`. Rankings and segmentations have no
backend (`spark_ml` waits for a "clustering" nobody recommends). The generated driver
reports the metric 0.0 and its floor does not enter the status, so neither is in the model.

`LakebridgeSwitch` has the checks of the three workflows, each by its own rules: transpilation
asks only for the help text of the command, conversion also wants the extension listed, or
just the Python package, and then, without configuration and extension, its command fails;
a conversion uploads its configuration before its checks, so without the command it ends as
failed and the checks are never shown; a command is waited for only if its text names a run.

### MigrationRuns

The list request is two actions, the read of the table (`ListBegin`) and the merge with memory
(`ListAnswer`), as the code does them; `GetAnswer` is the single fetch. What a run ends as is
decided by `LakebridgeSwitch` from what it finds installed and bound. `Restart` empties the
memory. `settled` and `lost` are history. When the workflow raises, an assessment run keeps
its own step "running" in its final record (`migration_runs.py:140` sets the steps of a
conversion only); steps are not modelled.

Assumptions: ids are not reused; each status of a migration run is persisted with
an `updated_at_ms` greater than the last; fewer runs exist than the list's limit.

### Evaluation

`ask` is a request between its search and its answer, `events` the rows they leave, `job` the
run of the scorer job with the task, dataset and attempt it is at, `runs` its rows, `registry`
the datasets registered, `late` the statements given up on, `page` the page being put together.
The metrics are the code's, in percent; floors are those of the manifest. What grounds an
answer is any of `Grounding` whatever the search's row showed: hits without a text, with that of a mere
relation, and behind the twelfth are left out (`capability_rag_service.py:329`), and the two rows
show different fields of a hit. The walk over the graph adds none: it imports a module that does
not exist and swallows the error.

What the translation showed: the manifest as shipped has no floor for the document recall of
the capability graph, so its category is at best a warning and the page is never green
(`GateChoices` has it both ways). `config/evaluation/README.md` says the job compares
recent events; the query has no time window. The gates of the other four workflows are never
applied: they pass when their files are complete. A request that raises leaves no event, so the
live success rate counts only those that came to an answer. "Passed" may rest on one scored
question of many.

## 3. Runs

| run | states | question |
|---|---|---|
| `capability_indexing` | 2 days, 8 texts, 1 retry, 2 faults | what is chunked, merged, embedded, indexed and promoted |
| `snapshot_lifecycle` | 2 snapshots, 1 operator, crash of `promote` | safety of promote, retention and rollback together, and the registry they implement |
| `snapshot_retries` | 2 snapshots, the retries of `databricks.yml` | stamps written once; every run ends |
| `promotion_atomic` | 2 snapshots | *violated*: the two writes of `promote` are not atomic |
| `sweep_as_deployed` | the ledger as its DDL declares it | *violated*: the sweep deactivates nothing |
| `console_reads` | 2 snapshots, 2 tables, 2 requests, 3 connections, 1 retry | what a sync leaves behind and what requests answer meanwhile |
| `plan_and_build` | 2 tables, 1 request, 2 snapshots, 1 change | planner over the claims two refreshes write |
| `usecase_records` | 2 handlers, 2 strategies, 1 late row | what a plan and a decision rest on |
| `usecase_decision` | 1 handler, 2 plans | *violated*: a decision about a plan nobody validated |
| `skill_executions` | 2 executions, 2 callers, 3 families, pool of 1, 1 direct proof | duplicates, completeness, whose work a proof rests on, what a conversion delivers, termination |
| `migration_runs` | 2 runs, 1 console, pool of 1, 1 late row | what the console shows of a run |
| `evaluation` | 1 question, 3 events, 1 job with a retry, 1 page, 1 fault | what a passed run and a green page rest on |

The properties are stated, with the words of the code or its docs where it has
any, at the end of each module. `TypeOK` is checked where a proof
starts from it (`snapshot_lifecycle`, `skill_executions`); elsewhere the types are part of the
inductive invariant, and proved with it.

*Bounds, and why they are enough.*
- `capability_indexing`: two days are an old text and a new one, a hash in the cache and one that
  is not. Its sources are written so that each rule of an adapter or builder
  meets a case: a file that does not parse, private names, an iterator with its peer, a
  deprecated method with a successor, a method nobody routes, aliases of one operation, a page of
  two chunks with headings and a navigation bar, a stub that docs rewrite and two stubs of one
  hash. `ChunkWords` 10 and `OverlapWords` 1 keep the code's proportion, where the snap to a
  paragraph is at most a tenth. 8 texts in batches of 2 under a cap of 5 take two runs, hence
  `QuietRuns` 2. Two faults are one of a batch and one of a task, or one in each of two runs.
- Two snapshots are one to serve and one to roll back to or to sweep. `MaxClock` is 2
  days with windows of 1: it lets a snapshot be inside a window, at its boundary and past it.
  A rollback, a sweep and a late statement of each of two runs all fit. Where liveness or the full
  retry policy is checked the operator is left out, since it takes no part in either
  question and would multiply the states.
- `console_reads` has the pointer and one table of rows, both polled: a third table, of the kind the
  poll leaves out, gave the same results without retries (796,994 states). That a failure
  to create such a table fails the attempt is what `NoTableForgotten` rests on, for any tables. One retry is what shows an attempt starting over on what the
  last one left; both values of the reset switch are in it. Two requests share a
  connection; a third connection is what a request opens while two are held.
- Two tables are one whose batch got through and one whose batch did not; three
  observations are a run with a retry and another after it, so a statement of the first attempt can
  land after the second. One value per table is the smallest that shows a claim to be stale;
  one change of the workspace separates two compilations.
- Two handlers interleave; two strategies, one with gaps and one without, are what a
  decision tells apart; one late row of any table is enough to be read after
  the fact. The drift of a decision needs two plans and a single user.
- Two executions on one thread leave one queued; two callers are what the race of
  two critical sections takes. PySpark overwrites, ML appends and reads the newest, Code Convert
  adds to a folder; the ML use cases come to each of "blocked", "planned" and "unplanned", the
  conversions to a waited and an unwaited run. SQL and Migration have the guards of
  these; with Migration for Code Convert the results are the same.
- One thread and two migration runs leave one queued; one late row can land after the final
  one. Pollers do not affect each other, so one is enough.
- `evaluation`: one question with its newest and an older event of each kind; one fault is one
  statement lost, late or failing anywhere; `MinLive` is 1 in place of 10. A second
  question without faults gave the same results. The two retrieval workflows are those whose
  gates look at events.

`CHECK_DEADLOCK FALSE` is set where a model stops: `SnapshotLifecycle` without
operators ends when the snapshots are used up and the clock has run out, `Evaluation` when its
job, page and events are. Symmetry is used only in runs without liveness; the action properties checked
under it treat the symmetric values alike.

*Fairness.* `snapshot_retries` assumes weak fairness of the job's next step: the job
scheduler runs the next task, restarts a dead one and enforces `timeout_seconds`. It
assumes nothing about operators, about the warehouse landing a statement, or about a
crash not happening. `skill_executions` assumes it of `Work` and `migration_runs` of a free
thread taking the next job and of each job's next step: the pool's threads
run, and each call they wait for answers or times out. The work a thread has submitted may run
for ever; its thread ends all the same. A request, a restart, a direct proof and a late row
are never obliged to happen. That the token cap only delays (`CatchesUp`) is stated as a
bounded invariant, in a number of runs that `QuietAssumption` relates to the cap, which needs
no fairness and says more.

*Refinement.* `ImplementsRegistry` of `snapshot_lifecycle` is the specification of
`SnapshotRegistry` under the mapping of its five variables to the tables of the job;
`RegistryImplemented` proves it for every instance. `LakebasePublish` and `ConsoleReads` then
build on the registry alone, so what they say holds over any job that implements it.

### What the violated runs show

1. `promotion_atomic`: `promote.py:24-26` says of pointer and ledger that "both writes
   either commit together or both roll back". They are two calls; when the second fails, or the
   process dies and the retries run out, the active snapshot has no `promoted_at_ms`. Rollback
   and retention then never consider it.
2. `sweep_as_deployed`: `retention.py:237` selects `run_id`, which
   `schemas/corpus.py` does not declare, so every sweep ends with a
   non-fatal error and nothing is deactivated. `snapshot_lifecycle` checks the same property
   with that column in the table, and it holds.
3. `usecase_decision`: the decision is about "a validated usecase plan", but
   looks at the newest validation whatever plan it is of.

## 4. Proofs

Every safety and action property the passing runs check is proved for every value of the
constants. The assumptions are the named ones of the modules: identifiers apart from their null
values, windows, pool sizes and retries natural numbers, the retention window and the pools not
zero, a pointer among the tables, sources and skills that are lists. Four theorems want more:
- `EvaluationProofs` rests on `ManifestAssumption`: some workflow is listed, the capability graph
  has a floor for its first hit, the other retrieval one for its recall or its grounding.
  `evalsets.json` has all of these. Without a floor a run would pass on whatever it found, and the
  theorem would be false.
- `SweepThorough` has the hypothesis that the ledger has the columns the sweep selects
  (`ListedColumns \subseteq LedgerColumns`). The table as declared does not, so the theorem says
  what the code does once `run_id` is there. `FailedListRetiresNothing` is its
  counterpart for the table as it is: nothing is ever retired, however long retention runs.
- `ChunksMeet` has the hypothesis `PagesNest`, that the pages of the sources are HTML whose elements
  nest. The extractor keeps a flag for the title and one level for the heading, so on a page with a heading
  in a heading it drops words that a reader sees; nothing less will do. `MCCapabilityIndexing` assumes it
  too, so TLC evaluates it on the pages of the run.
- `CapNeverStarves` rests on `QuietAssumption`: `QuietRuns` is at least the number of runs that the texts
  of a day need, counting the batches that fit under the cap.

None of the safety properties is inductive. Each says nothing of a statement that may still land,
of what a request has read and not yet used, or of the step a job is at, and the next step
could break it. The inductive invariants add just that. The proofs follow them part by part,
one lemma per action or group of actions that can disturb a part, and split `Next` once.

### CapabilityIndexing, the builder and the adapters (`CapabilityIndexingProofs`)

`ChunksMeet`, `EdgesHold`, `RowsOfBestSource`, `VectorsOfTheirTexts`, `MissingReported`, `CapNeverStarves`
speak of what folds over data compute: of a page, of the sources, of the texts to embed. The
library's induction theorems take an operator as a parameter, which the provers cannot instantiate.
`Induct` and `Trace` say the same of sets and follow from `WFMin`: a set of naturals with 0 and every
successor is all of them, and what is so before the first step of a loop and kept by each is so
after the last. `Steps`, the loop in which the model writes the code's `for` statements, is a recursive function for
that reason. The routing tables, sources and skills may be any.

- The graph. `Sound` is kept by each of the builder's steps, from the empty graph on: rows are of
  the shape `IsRow`; `Ranked`, a row's authority is the highest among those of its provenance;
  `Hashed`, a row's hash is that of its text or the stubs' empty one; `Grounded`, edges, deprecations and
  exemplars hold together. `FromMethods` before `LinkSuccessors` is what makes the ends of a deprecation
  exist. What the adapters hand over is `Parsed`: lists of entities, and of a page chunks that
  cover its words and have hashes that tell theirs.
- The run. `Placed`, `Staged` (each artifact was parsed), `Built` (from the builder on, the graph is
  sound for what the run read) are inductive and give `EdgesHold` and `RowsOfBestSource`.
- The vectors. `Stored` adds that cache, rows and index pair a hash with its own text only, and
  `Complete`: after `embed` all texts are among the rows, after `upsert` in the index, or the artifact admits
  errors or the cap. For the scan of `embed_batch` this is `Scanned` and `Told`, carried from
  request to request: each that has been passed is a row or waiting, unless there are errors or the scan was
  cut short.
- The cap. `Resting` says of a quiet run that it plans all, reads what there is and builds
  `FullGraph`. `Caught` counts: a run begun with the first `k` texts of the day in the cache ends with at least the
  first `k` plus the batches the cap pays for (`ReachFacts`), since hits are free, the scan takes the requests in
  the same order each time, and it stops only when the cap is spent on whole batches (`Paid`,
  `Underway`). After `QuietRuns` runs all are in, the run after promotes a snapshot of all, and it stays so.
- The pages. `Shows` relates the extractor's state to the depths of open elements and the words shown so far;
  `DepthSteps` and `ReadShows` keep it over each tag and text outside of dropped elements, and what happens
  within one is passed over as a whole. So the extractor's words are `Visible` (`VisibleWords`). `Tiles` says the
  chunks cut from a text begin at its first word, each after the one before and within reach of the overlap,
  and end at its last (`ChunksTile`); `Glued` puts them together again. `Fetches` says that what is staged was
  parsed from pages of `World`, whichever of them were lost on the way.

Proving it found a defect of the models, not of the code: arms of a `CASE` that could both hold, where
TLA+ may take either and the code takes the first that does (a heading's tag inside a dropped element, a
command that fails and names no run). The arms exclude each other now, or are a chain of `IF`.

### SnapshotLifecycle and SnapshotRegistry (`SnapshotLifecycleProofs`)

`TypeCorrect`, `ActiveValidated`, `StampedActive`, `RollbackAvailable`, `StampOnce` rest on `IInv`,
whose parts, beside the types, are:
- `PublishedComplete`: whatever the pointer names, is about to name or may yet be made to
  name by a lingering statement is complete.
- `PersistTruthful`, `BuildingUnpublished`: a staged "ok" means all rows are there, and
  the snapshot whose rows are being replaced is not published.
- `StampsFollowPointer`: a stamp, written or in flight, is of a snapshot that has been active.
- `OneStamp`: a snapshot with a stamp under way has none yet, and at most one is under way.
  It is what makes `promoted_at_ms` a constant once set.
- `OnlyOldDeactivated`: a snapshot listed, being deactivated or deactivated is past the
  window, and stays so as the clock advances because `promoted_at_ms` does not.

`ActiveSpared` adds `Spared`: what serves (the pointer names it, a statement will make it name it, or a
rollback that was allowed is about to) and what retires (deactivated, a statement under way, or on the
list) have no snapshot in common but those of `overlapped`. The attempt to prove it with windows of
its own found what the run, with both windows 1, could not reach: a rollback that begins after the
sweep, while an UPDATE the sweep gave up on is still to land. `MeetsSweep` now counts that.
`SweepThorough` adds `Listed`, what is eligible is on the list until its UPDATE has
worked, and `RunRecent`: no stamp that lands during a sweep is old enough to make a snapshot eligible
behind the list's back.

`RegistryImplemented` is the refinement. `TableSteps` says there are three ways a
step can touch what the registry shows: not at all, by replacing the rows of the run at
`persist`, or by a statement the warehouse runs, just sent or lingering. The first is a
stutter, the second a `Prepare`, and of the statements the pointer's is a `Serve`, the stamp's a
`Record` and a deactivation a `Retire`. `Prepare` needs that what is rebuilt was never served,
which `IInv` knows only of what is served now; `ServedKept` adds it for all that was.

### LakebasePublish and ConsoleReads (`ConsoleReadsProofs`)

Of a publish: `PointersAgree`, `RowsBehindPointer`, `NoTableForgotten`, for any tables, order of
tables, retries and reset settings. `CopiesWhole` carries the argument: a verified table that has the run's rows has
those of every complete snapshot, because the run's are the youngest and a copy is of the whole table;
so what a poll sees of one snapshot it may conclude for those an operator can roll back to.
It was not inductive as the model stood: `Build` let a run begin a snapshot already
complete, whose rows are then not the youngest. The code cannot do that, as a run's id names its snapshot
(`run_capability_indexer.py:697`), and `Build` no longer does. `TriedAll` says how far the loop
over the tables has come, and that a table passed without a noted failure exists.

`ConsoleReadsOnly` is the step-by-step proof that requests leave the publish alone: all of the above holds
under any number of readers. `CleanReads` and `StrikesStay` then need who
holds which connection (`PoolTypes`) and that a request nobody struck has a live one, while one
that was struck is about to find its own dead (`RequestFacts`).

### WorkspaceKG and UsecasePlanner (`UsecasePlannerProofs`)

`PlannerTypeCorrect`, `ReadModelIsAudited`, `RefreshesComplete`, `ViewsAreBacked`, `StatusesAreTrue`,
`EvidenceIsRechecked`, for any tables, values, requests and retries. `LateIsAudited` says a MERGE
that may land late carries a claim already in the audit table, which is so because
all INSERTs precede the first MERGE; `Sent` says how far the attempt's batches have come;
`CopyTrails` that the copy in Lakebase is of an earlier table which has lost no claim since. `Stands`
says for each step of a request what has been established of its plan, views that may yet be created
included, and `RowsAreFinal` that a plan row other than the first is written at the end only.

### UsecaseRecords (`UsecaseRecordsProofs`)

`TypeCorrect`, `PlansUseSavedInputs`, `ReadyRestsOnValidation`. `RowsFine` says of each row, stored, late or in a
handler's hands, what it rests on: a plan on bindings before it, a passed validation on a stored plan with
inputs, a ready decision on such a validation. That a decision and a plan may be apart
(`usecase_decision`) is not excluded, and is what the run shows.

### UsecaseExecutions and SkillExecutions (`SkillExecutionsProofs`)

`TypeCorrect`, `Duplicates`, `Recorded`, for every number of executions and callers and every pool size.
`Placed` says where a run is according to its status (a queued run is in the queue once, a
running one has a thread of the pool, one asked for directly is in neither); `StartsKnow` that a start
which has made its check knows of every active run of its family unless it was overtaken;
`RowsFollow` that the stage of a job implies its rows. Pool size needs that what begins was not
busy: `Cardinality(Busy)` then grows by one at most.

`SkillsImplement`: with the statements, jobs and conversions
in the workspace, and whatever these do after their thread has gone, an execution is one
of the monitor's. The three theorems above therefore hold of it as they stand.
`OwnWorkProves` adds what the place of a family holds: from the end of an
execution's work to its last look nothing but its own output and that of the excused
(`OwnOutput`), and what it read is of those and not nothing (`OwnSeen`). For that `Proceeds` ties the phase of the
work to the stage of the thread, and `Untouched` says a job that has not begun has left nothing.
`ConversionsDelivered` follows a named conversion to the volume: past the wait its run
is over and writes no more (`RunOver`), so what is in the folder then is in the export (`Exported`), and in the volume once
the copy is through (`Copied`). An export also holds what every conversion completed before it still has
in the folder, so its copy, even one that breaks off, takes nothing of theirs away; and none is completed
while an export waits to be copied, since one conversion of the use case is active at a time outside
`raced` and `asked`. By `RacedIssued` what is in `raced` has its family for good, so the exception never ceases to apply.
`ApprovedTrainable` is about `MLReadiness`: `HeuristicsAgree` proves, for every set of columns
and every name and type they may have, that the heuristic judging the problem and the one judging the features
agree where the theorem says so.

### MigrationRuns (`MigrationRunsProofs`)

`TypeCorrect`, `InterruptedIsLost`, `ResultsShow`, `AnswersForward`. Statuses are ranked. Memory is at
least as far as every row (`RowsTrail`), every read a poll is about to merge (`ReadsTrail`) and every
answer given (`AnswersTrail`), unless the run was lost with its process. `AnswersForward` is the action
property, from two states of that invariant.

### Evaluation (`EvaluationProofs`)

`SyncRegisters`, `PassesBacked`, `GreensEarned`. The rows only grow, and of a row only whether it is stored
can change, from given up on to landed (`KeepsEvents`, `KeepsRuns`): what a run or a page was
made of can still be read off the rows later. `RowsBacked` states `PassIsBacked` of the
rows and of the one the job has in hand. `ScoredBacked` is its core: a positive rate, by `RateFacts`
about percentages of finite sets, means that some question's newest answer counts. `PageSound` holds what an open page
remembers within the rows there are; `CategoryPassed` and `LivePassed` take a green page apart.

### Only model-checked

Liveness (`RunTerminates`, `ExecutionsEnd`, `RunsEnd`): fairness and ENABLED are beyond the prover. That
the state is within the bounds of a run, and that each action can happen, is TLC's to show.

## 5. Not modelled, and the plan

Left out of modelled parts:
- `retention`'s Pass 2, the clean-up of the embedding cache (`retention.py:255`): a row it takes is only
  embedded again; cluster and OAuth tombstones and its dry runs; the health rows of the indexer;
- `daily_budget_usd` of `embed_batch`, a second cap of the shape of the token cap and at the same place
  (`embed.py:331`), and its error for a single vector of the wrong dimension (`embed.py:348`): its text is left
  without a vector and reported, as those of a failed batch are;
- a changed embedding endpoint or model: the hash of a text, the key of cache and index, does not name it;
- the volume copy of a transpilation, on which its outcome does not depend
  (`skill_execution_service.py:1480`), and folders or volumes bound for one execution alone: one use
  case is modelled, with the places it has by default;
- the content of `smoke`'s queries (its verdict is a choice);
- the blog adapter: no task reads its artifact;
- the dual-substrate search and the pin of its snapshot (`retrieve.py:362`, 60 s): it has no
  caller but tests, and the command line reads past the cache;
- steps inside a migration run; the generation of SQL and PySpark text, and the loading of skill contracts;
- alias assignment and serving of models: no execution calls them;
- the offline scorers under `eval/`: no caller but tests;
- catalogs, schemas and columns among the claims; scoring and wording of suggestions.

Executions and records are separate models: the code of an execution reads the newest plan but
never the decision (`skill_execution_service.py:378`), so a composition would have no guard to
check.

Left out as a whole: the runtime harness, budget and approval primitives (one caller, in
sequence), the install, workspace and uninstall commands (provisioning, once), skills, React
console, scripts and configuration (content and presentation).
