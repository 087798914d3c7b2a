# TLA+ models of arbitra's durable core

Arbitra runs multi-model code audits, feature plans and test plans as long, paid workflows. Its design rule
(`docs/durability.md`) is that a crash must never cost a second payment for work already done, and that what is handed
off is what was reviewed. This project models the parts of the code those promises depend on, checks them with TLC on
small instances and proves the central ones with TLAPS for every value of the constants. `PROJECT.json` lists the runs,
the source lines every definition stands for, the hazards, the findings and the theorems; this file explains them.

## 1. The system and its parts

| Part (source under `packages/`) | State it keeps | Operations | Talks to | What is hard | What makes it correct |
| --- | --- | --- | --- | --- | --- |
| Workflow runner, activity runtime (`core/src/runner`, `core/src/activity.ts`) | outputs in hand, attempts, a batch of concurrent nodes | create, resume, execute batches, cancel | journal and event log, artifact store, executors | nodes of a batch interleave; a crash between any two writes | a node starts only on durable inputs; a recorded output is never paid again; COMPLETED means everything is on file |
| Run lifecycle (`runtime/src/orchestrator.ts`) | `#live`, `#resuming`, wake-up timers | start, resume, raise the limit, cancel, decide, wake up | runner, run store, batch lane | checks and writes are awaits apart; timers race operators | one handle per run; decisions reach a stopped run; no call hangs |
| Run event log (`runtime/src/run-store.ts`) | `events.jsonl`, the write chain, `#eventsUndo` | append, load | runner | a failed write whose cut-back fails too; torn tails; power loss | readable, in order, nothing lost or doubled |
| Activity journal (`persistence/src/journal.ts`) | `journal.jsonl` | append, load | runner | appends of sibling nodes overlap; a failing one truncates | loads; keeps what was acknowledged |
| Token budget (`providers/src/token-budget.ts`) | reservations on disk and in memory | reserve, recordActual, release | invocation, batch lane | saves that fail after replacing the file; usage known late | spending within the limit; reports final |
| Provider invocation (`providers/src/runtime.ts`, `scheduler.ts`) | attempt counters, slots, sends under way | invoke | budget, transport | timeouts of sends that go on, sleep, cancellation, retries | what was consumed is charged; retries never overlap; every call ends |
| Batch lane (`providers/src/batch/lane.ts`) | item attempts and submissions on disk, groups, poll loops | execute, flush, poll, collect, cancel, resolve | batch API, budget | lost acknowledgments, late acceptance, stops between the saves of one block | nothing is sent again blindly; results are kept; every execute settles |
| Model activities (`runtime/src/model-activities.ts`) | in-flight map; input, trace, mapping records; saved answers | invoke | pool, batch lane, run store, replay source | four writes per answer, any of which may be the last | a traced answer is never paid again; one request per activity |
| CLI transport, native process (`providers/src/transports/cli`, `process.ts`) | sessions kept between turns; a tree of child processes | turn, probe, sweep; run, end | invocation, tools | a session nobody forgets; forks that race the kill | each turn continues the right session; nothing outlives its command |
| Graph checkpoints, artifact index (`core/src/runner/graph-checkpoints.ts`, `runtime/src/run-store.ts`) | decisions and versions in `artifacts.json` | open, decide, publish | runner, operators | the index is read-modify-write, also by a second process | a node passes only on an approval of its present inputs |
| Workflow graphs (`workflow/src/graph-structure.ts`, `runtime/src/authored-graphs.ts`) | graph revisions | validate, save, start | orchestrator | edges that order a stage before what feeds it | every stage runs after what it reads |
| Audit: discovery (`runtime/src/model-discovery.ts`, `discovery-scope.ts`) | units, gaps, answers | plan, ask, split, follow up | model activities | ceilings, timeouts, refusals, resumes | every line is examined or a reported gap |
| Audit: board and peer review (`core/src/issue-board`, `workflow/src/consensus`, `runtime/src/model-peer-*.ts`, `peer-review-batches.ts`) | candidates, votes, conflicts, limits | vote, edit, merge, settle | model activities | overlapping edits; halved batches replanned on resume | each reply counted once; the panel's outcome follows its votes |
| Audit: verification, variants (`runtime/src/model-pipeline.ts`, `variant-search.ts`, `workflow/src/nodes/verification`) | questions, verdicts; proposals | ask, re-ask; propose, check, join | model activities | a bound shared by concurrent questions; artifacts published one by one | no candidate is verified or dropped without its reason; a variant joins once |
| Audit: draft, revision and review of the plan (`runtime/src/planner-*.ts`, `revision-context.ts`, `plan-questions.ts`, `critic-context.ts`) | call records, patches, answers | compose, patch, review | model activities, operator | the composition restarts in smaller parts; patches against an old plan | every issue has a task or a question; a retired task's issues move on; what is handed off was reviewed |
| Audit: task order, write scopes (`workflow/src/nodes/planner/traceability.ts`) | orders stated twice, globs | reconcile, chain, validate | plan | two scopes that overlap in one file | tasks that may write one file are ordered |
| Tool loop (`runtime/src/model-harness.ts`, `snapshot-tools.ts`, `model-history.ts`) | turns, read lines, budgets | turn, tool, repair | model activities | state in memory rebuilt from recorded replies | a resumed conversation is the one it was; budgets hold |
| Incremental audit, Testing replay (`runtime/src/incremental-audit.ts`, `replay-contracts.ts`) | a base run per run | reuse a unit | run store | a base that itself reused, stopped or is resumed meanwhile | what is reused is what a fresh call would have been asked |
| Testing execution (`runtime/src/testing-*.ts`) | attempt ledger, write journal, worktree | write, check, final check, reopen, hand off | sandbox, models | stops at any save; writers beside checks | the bytes handed off are the bytes verified |
| Feature run (`runtime/src/feature-pipeline.ts`, `requirements-*.ts`, `model-feature-*.ts`) | requirement versions, approvals, reviews | edit, explore, review, revise, hand off | operators, models | edits from another process while the run is live | the handed-off plan was reviewed as it is |
| Evaluation corpus (`persistence/src/evaluation-corpus`) | a journal of batches behind a lock | add, adjudicate, export | file system | a commit that fails half way | committed batches and their artifacts stay |
| Batch drivers, HTTP transports, prompts, rendering, preflight, premise check, plan export, HTTP and web interfaces | none of their own | | | | not modelled, section 7 |

How they interact: the orchestrator makes one handle per run and hands it to the runner. The runner executes the graph
in batches; every node is an activity whose start, end and error are journalled and whose output is an artifact. A node
that needs a model calls a model activity, which reserves from the budget, sends through the invocation policy or the
batch lane, and saves what it got. The stages of an Audit, a Feature run and a Testing run hand over through named
artifacts. Everything a resume needs is on disk, everything else dies with the process.

## 2. Modules

| Module | Models | Checked by |
| --- | --- | --- |
| `DurableRun` | abstract specification: outputs are only added, in dependency order, and the run completes once all are there | refined by `WorkflowRunner` |
| `WorkflowRunner` | runner, activity runtime and their two files, with crash, power loss, failing writes, deleted artifacts | `MCWorkflowRunner` |
| `RunLifecycle` | orchestrator calls on one run, wake-up timer, process restarts | itself |
| `LogFile` | a file of newline-terminated records: whole and torn chunks, what a reader retains | used by the next three |
| `EventLog`, `ActivityJournal` | the serialised append chain of `events.jsonl`; overlapping appends to `journal.jsonl` | `MCDurableFiles`, `MCActivityJournal` |
| `CorpusStore` | the corpus journal, its lock, artifacts and exports | `MCDurableFiles` |
| `TokenBudget`, `ProviderInvocation` | `DurableTokenBudget`; `invoke` with retries, slots, timeouts, sleep, over the budget | `MCDurableFiles`; itself |
| `BatchLane` | the lane, its records and the provider behind it | `MCBatchLane` |
| `ModelActivity` | `ModelActivities.invoke` and `execute` for one activity | `MCDurableFiles` |
| `GraphCheckpoints` | human and gate nodes, decisions, the artifact index of two processes | `MCDurableFiles` |
| `CliTransport`, `NativeProcess` | a CLI provider's turns and sessions; a process tree and how it is ended | `MCDurableFiles` |
| `TestingPlan`, `TestingExecution` | write schedule; the executor with worktree, journal, checks and handoff | `MCTestingExecution` |
| `Requirements`, `FeatureRun` | requirement versions; the Feature pipeline around them | `MCFeatureRun` |
| `AuthoredGraphs`, `AuditDiscovery`, `PeerBoard`, `PeerReviewBatches`, `AuditVerification`, `VariantSearch`, `PlanDraft`, `PlanRevision`, `PlanReview`, `TaskOrder`, `WriteScopes`, `ToolLoop`, `IncrementalAudit` | the parts of an Audit, one each | `MCAudit` |
| `WorkflowRunnerProofs`, `ProviderInvocationProofs`, `BatchLaneProofs`, `FeatureRunProofs`, `TestingExecutionProofs`, `RunStoreProofs`, `CallProofs` | theorems about the module of that name (`RunStoreProofs`: `RunLifecycle`, `EventLog` as `E!`, `ActivityJournal` as `J!`, `CorpusStore` as `K!`; `ProviderInvocationProofs`: `TokenBudget` too; `CallProofs`: `ModelActivity`, `GraphCheckpoints`, `CliTransport` as `X!`, `NativeProcess` as `O!`) | TLAPS |
| `FilesProofs` | carries the theorems of the files over to the properties of the run `durable_files` | TLAPS |

`MCDurableFiles` and `MCAudit` each hold several independent components as instances: `which` says whose steps are taken
and the variables that component does not use are `Null`. Nothing is shared between them, so the state space is the sum
and not the product of the parts; where components do share state (budget and invocation, requirements and Feature run,
log file and logs) one module extends the other.

Definitions keep the code's names. What corresponds to what:

* `WorkflowRunner`: `journal`/`events` are the two files and `journalSynced`/`eventsSynced` how much of each a power loss
  leaves; `eventQueue` is the promise chain of event writes; `nodePhase` is the await at which each node's async function
  stands, so every await of `#executeNode` and `ActivityRuntime.run` is an action boundary. A restart projects
  `completed` and `attempts` from the journal as `projectRunState` does. Appends are atomic here; what a failing append
  does to the bytes is the subject of `EventLog` and `ActivityJournal`. The run `journal_sibling_cut` shows that the
  journal does not always give the runner that atomicity, so the theorems speak of the runner above a journal that does.
* `RunLifecycle`: `pc[c]` is the await of each caller's method, `handle` the result promise of each handle, `waking` the
  `#wakeAfterReset` of a settled handle, `armed` the timer. Handles run as `WorkflowRunner` promises: they settle.
* `EventLog`, `ActivityJournal`: one action per system call of an append (open/recover, write, sync, cut), each of which
  may fail; a failing write may leave nothing, a part or the whole record. `FaultsOverlap` says whether an I/O error may
  fall on an append while another is under way.
* `TokenBudget`: operations are serial in the code, so each is one step with an outcome: `saved`, `failed`, or `late`
  (the file was replaced and the save still rejected).
* `ProviderInvocation`: `running` holds attempts whose send has not stopped, also after the call has given up on it, and
  `paid` what the provider consumed. Minute windows and retry-after delays are waiting, without clocks.
* `BatchLane`: a submission is named by the set of its members. `net` holds submit requests the provider may still accept
  at any time, `Cut...` actions are a stop of the process between the saves of one block.
* `ModelActivity`: `mapping`, `identity`, `trace`, `replayRecord` are the activity's records in the run store, `log` its
  lines in the trace log, `outputs` the saved answers that are intact, `call` the execution in flight with the write it
  stands before. Answers are numbered by the send that produced them. `Redacted` is what `publish` does to a payload.
* `GraphCheckpoints`: a version is the hash of a node and its inputs; `held[p]` is the index process `p` has read and is
  about to rewrite, `overlapped` records that two processes published at once.
* `CliTransport`: a conversation is the sequence of tool requests answered in it; `sessions` and `roots` are what the
  CLI's own process and directory keep. `NativeProcess`: `proc` is the process table, a pass is one look at it and the
  signals that follow; forks interleave with both.
* `TestingExecution`: at most one durable save per step, `Stop` after any of them. A fingerprint is the snapshot it
  stands for, here as in all pipelines: a digest is the value it is taken of.
* The Audit's modules name a candidate, task, unit or issue by its number and abstract its text to a size. Answers are
  recorded by activity, so a resumed part hears them again without asking; a model's reply is chosen from a small set of
  good, partial and bad ones. Replies that are refused by a call's own checks are left out.

## 3. Runs

Every property of a run that passes has a mutant: a change of one definition, of the kind a slip in the code would be,
under which TLC finds that property violated.

| Run | Instance and why it is enough | Shows |
| --- | --- | --- |
| `runner_crash` (349k states) | fan-out a → {b, c}, both branches in one stage, one resume, crash or power loss anywhere, cancellation, blocking. Two concurrent branches with a common input are the least graph with a batch, an order and a shared stage | `InputsDurable`, `CompletedIsComplete`, `ImplementsDurableRun` |
| `runner_faults` (75k) | chain a → b, one failing write, one deleted artifact, one resume, two kinds of failure | `EndNamesStoredArtifact`; `PaidOnce`: nothing recorded is executed again; `Settles`: every process brings the run to rest |
| `lifecycle` (480k) | two operators and the wake-up, two handles, one crash, limits 0..2. Races need two calls and a timer | `HeldAlone`: one handle, edits of stopped runs only; `CompletedIsFinal`; `CallsReturn` |
| `lifecycle_stale_wakeup` | the same without crash | violation of `WakesOnlyPausedRun`, section 6 |
| `journal_sibling_cut` | two overlapping appends, one error | violation of `EndSurvives`, section 6 |
| `durable_files` (1.13M) | eight components, one at a time: the event log (three events, three I/O errors, two power losses), the journal (three overlapping appends, three errors that meet no other append, two power losses), the budget (two activities, three reservations, limits 2 and 3), a model activity (two callers, two requests, two sends, three attempts, a fault, a stop, a replay source, records of an earlier build), the corpus (three batches, imports and exports, two faults, two stops), checkpoints (two versions, three executions, two responses, a second process), the CLI transport (two calls of each of four dialects, two turns, one upgrade, one trouble) and a process tree of four on three platforms: Linux, whose process table names sessions, another POSIX system, whose table does not, and Windows); the journal run leaves failures of overlapping appends to `journal_sibling_cut` | `LogKept`, `AckedKept`, `BudgetKept`, `AnswersKept`, `CorpusKept`, `DecisionObeyed`, `CliTurnsSound`, `NativeTreeEnded` |
| `invocation` (392k) | two calls, one slot, one retry, one resend, one sleep, one process stop | `SendsAccounted`: consumption is charged, a call never has two sends; `CallsEnd` |
| `batch_one_item` (193k) | one item, two attempts, two process stops also between saves, so that the recovery of a stop is itself cut | `NoBlindResubmission`, `RecordsAreTruthful`, `ResultsKept`, `ExecuteSettles` |
| `batch_stale_prepared` | two items in one group, one attempt each, one stop | violation of `NoBlindResubmission`, section 6 |
| `testing_execution` (344k) | two tasks in one batch whose second check also reads the first's file, two attempts, one repair round, two harness modes, one stop at any save | `EvidenceHolds`: what is handed off was verified byte for byte and the journal explains the worktree; `ExecutionSettles` |
| `feature_run` (423k) | two drafts that need an approval and one that needs none, both modes, capable, weak and no critic, whose critiques may be degraded, one revision, two racing events | `PlanIsReviewed`: what is handed off was reviewed as it is; `FeatureSettles` |
| `audit` (1.88M) | twelve components, one at a time, each over several setups chosen for its boundaries: graphs with edges put in and left out, repositories that fit a call and ones with a file or a line that does not, boards with two and three auditors and three policies, verification bounds of 2 to 4 and none, plans in one call, in sections and through an outline, critics that are off, skipped, independent and dependent and whose items may be rejected, globs compared over all small paths, conversations of up to two turns, chains of three runs; one stop between stores | `StagesFed`, `DiscoveryComplete`, `ReviewedOnce`, `PanelSound`, `VerifiedForReason`, `VariantsJoinOnce`, `DraftComplete`, `RevisionSound`, `PlanReviewed`, `WritesOrdered`, `ToolLoopSound`, `ReuseSound` |

Bounds are constants named `Max...`, or part of a setup; each is in a guard. Two crashes are used where a crash during
recovery matters (batch lane, log files, corpus), one elsewhere. Deadlock is not checked where a run may legitimately
stop: it completes, is cancelled, or waits for an operator. `testing_execution` is checked for it. Symmetry is used only
in runs without liveness properties, over callers and activities that no action tells apart.

## 4. Fairness

Weak fairness only, and only on what the process does by itself: the event loop runs ready continuations, file
operations settle, timers fire, and a provider request ends by its time limit (`timeoutMs`, `requestTimeoutMs`). Nobody
is obliged to start, resume, cancel or decide; faults and crashes are never fair; nothing is assumed of the provider in
the batch lane, where the poll loop ends at its own deadline. A run ends in `RunLifecycle` because `WorkflowRunner` has
`Settles`, which in turn rests on executors that return or throw. `TestingExecution` and `FeatureRun` assume that the
step the process is in is taken unless it stops; a stopped one need not be resumed.

## 5. Proofs

Each theorem holds for every value of the module's constants: every graph, any number of items, records, callers, sends,
faults, crashes and restarts. The assumptions on constants are those the modules declare, which TLC evaluates in a run.

**The runner** (`WorkflowRunnerProofs`, from `GraphAssumption`: predecessors are nodes, plan positions distinct, stages
are not final states; and `BoundAssumption`). `TypeCorrect`, `InputsAreDurable`, `CompletedRunsAreComplete`,
`EndsNameStoredArtifacts`, `NothingIsPaidTwice`, and `RunnerImplementsDurableRun`: the specification implements
`DurableRun`, with `done` mapped to the nodes ended in the synced part of the journal and `completed` to a synced
COMPLETED. None of these is inductive by itself. `OrderInv` adds what ties memory to disk: every end is synced, outputs
in hand are on file, a node that has begun had its inputs in hand and is in the batch until done, nodes are under way
only while the scheduling loop runs, and COMPLETED is queued only with all outputs in hand. `PaymentInv` adds that until
a node looks for its output the runtime knows what the journal projects, and that an attempt under way means all
recorded outputs are gone. `JournalCases` and `EventsCases` reduce every action to what it does to the two files; each
conjunct then has a step lemma. The refinement uses that a step adds at most one end and that a crash takes none. The
module also proves that non-empty sets of naturals have a least element and finite ones a greatest, from the
well-foundedness of `<`: the library states induction over an operator, which the installed provers cannot instantiate.

**The lifecycle** (`RunStoreProofs`). `LifecycleTyped`, `RunIsHeldAlone`, `CompletedRunsStayCompleted`. The invariant
adds: the guard of a run belongs to the one call that holds it and no handle is live before that call makes one
(`GuardOwned`, `NoneLiveBefore`), nothing happens before the start (`StartedFirst`), what a resume has read of the
status is still so when it goes on (`NotTakenUpCompleted`), and an edit in progress finds the run still blocked.

**The logs** (`RunStoreProofs`). `TheLogIsKept`, from `LogAssumption` (the names the model uses for "none" are not file
positions): what is acknowledged is in the file, in order and readable; what is reported failed left nothing once the
cuts are made; an expensive event outlives every crash. Invariant: the file holds the log and at most one chunk more,
and that chunk is explained by the write under way or by a cut not yet made; the positions remembered are the end of the
log. `TheJournalIsKept`, from `~FaultsOverlap`, says the same of the journal's overlapping appends as long as every
failed append was cut back. The hypothesis is needed: `journal_sibling_cut` is the counterexample without it. Both use
the same lemmas on chunks and on what a power loss leaves.

**The corpus** (`RunStoreProofs`). `TheCorpusIsKept`, from `CorpusAssumption` (bundles are sequences of entries, what an entry
rests on is one too, and none is a commit or an export; bounds are naturals). The invariant speaks of the places where
batches end rather than of counting: `Layout` says which increasing places they are, `WholeBatch` that each batch is
complete, follows from those before it and has its artifacts in place, `ExportSound` that a report was made from bytes
still there. To this it adds that what was reported is in a batch that ends within the synced part (`CorpusTold`), that
the state in memory is that of a file that ends with its last commit (`Loaded`: without it the next write would follow a
torn line), what may be written next (`Permitted`) and is stored by then (`InPlace`), and that what is about to be synced
is the last batch (`CorpusSyncing`). `NthFacts` shows that counting the commits gives these places back, by a bijection
where an induction over the set is out of reach. Two facts carry the steps: a shorter file, torn or not, keeps its batches
up to the cut (`BatchesLeft`: crashes, failed writes, loads), and a batch that `Applies` after the rest makes one more
(`BatchAppended`).

**The budget and the calls** (`ProviderInvocationProofs`). `BudgetIsKept`: only usage above an
attempt's own estimate takes the charges past the limit, and what callers were told is on disk. The invariant relates
three versions of the reservations (on disk, in memory, as told) by `Matches`, entry by entry. Sums are a recursive
function; what is needed of them (appending, raising one entry, monotonicity) is proved by least counterexample. The
invocations implement the budget (`InvocationsUseTheBudget`), so its invariant holds of them as well, and `SendsAreAccounted`
adds that a send under way, or one that consumed anything, has a reservation that was neither released nor reported
below what was consumed.

**The batch lane** (`BatchLaneProofs`). `NothingIsSentBlindly`, `RecordsTellTheTruth`, `FinalRecordsStay`, for any number of
items, attempts and stops, from `SavesApart`: a stop between two saves of one block meets only submissions of one
member (`CutSaves => MaximumItems = 1`). Without stops inside a block groups may have any size. The hypothesis is needed:
`batch_stale_prepared` is the counterexample without it. The invariant's core is `Held`: a submission that may be at the
provider is the one all its members name.

**Checkpoints** (`CallProofs`). `DecisionsAreObeyed`: the node passes or is rejected only as its own version was decided, and
unless two processes publish at once nothing published is lost and a blocked node's checkpoint is the current one. The
invariant says what each process has still to publish at each of its awaits, and that the index it has read is still the
one on disk.

**Model activities** (`CallProofs`). `AnswersAreKept`, from `ActivityAssumption` (bounds are naturals, and the model's
"none" is none of the records): one request is ever asked, a traced answer that is intact is not paid for again, and
every caller gets that answer. The invariant says what an intact traced answer implies (it is that of the last send, and
the stored trace is of the recorded request and of the last line of the log: `Vouched`), what the execution knows at
each of its writes (`Unpaid`, `Paid`, `Answering`), and that a refused request stays refused because limits only rise
(`Refused`): a limit that could fall would let a request refused before pass as the recorded one.

**The CLI's turns** (`CallProofs`). `TurnsAreSound`, from `TransportAssumption` (streams are sequences of events, calls are
finitely many, bounds are naturals): directories and sessions on disk have one user each, a session is continued only with
the conversation it holds, a turn is charged its own tokens, and a reply comes only from a clean stream. The invariant has
four parts: what a call knows of the CLI file and what it was told (`CallsSound`), that the cached version was probed after
the stamp beside it (`Resolved`), that a kept session holds exactly the conversation of its key, at the tokens last reported
where usage is cumulative (`Stored`), and that every session is either kept or run, by one (`Owned`). `ReplyIsClean` does
the four readers.

**Process trees** (`CallProofs`). `TreesAreEnded`, from `ProcessAssumption`: a tree reported as terminated holds no pipe and
leaves nothing in the leader's group nor, on Linux, in its session, no process of another tree is touched, and an open call always has
something still to come. The assumption bounds the tree by the looks of a pass (`Cardinality(Pids) <= Looks + 2`), which is
a limit of the code: `endTree` freezes what four looks find and then kills, so a tree that forks on through every look can
keep a process ahead of it. The invariant says what passes have found and frozen (`Passes`), that a pass about to kill has
found all there is, unless the table could not be read (`AllFound`: each look that is not the last finds at least one more,
so the looks suffice), that the pass after the streams' end is the last (`LastPass`), and which timer, pass or event an open
call still has (`StillToCome`).

**The Feature run** (`FeatureRunProofs`). `PlansAreReviewed`, from `FeatureAssumption` and `DraftAssumption` (what models may
answer are drafts, explorations and votes, rounds are positive, and the model's "none" is not a critic's answer). The
invariant says what each place of the pipeline holds (`ReviewHeld`, `ExploredHeld`, `PlanHeld`), that every recorded answer is
one its activity may give and every revision asked for is on the ledger (`AnswersSound`), that a settled review on record is
one every reviewer of a round accepted (`RecordsSound`), and that an outcome that passed names a plan whose requirements
and critic were sound (`OutcomeSound`, `PlanSound`). Edits of another process change only the versions; that an approval
never outlives its draft is inductive once a version's parent is known to be one before it. The ledger bounds the
revisions because distinct revision requests have distinct entries on it.

**The Testing executor** (`TestingExecutionProofs`). `EvidenceAlwaysHolds`, from `PlanAssumption`, `ScheduleAssumption` (every task
gets a batch: the code throws `TESTING_WRITE_SCHEDULE_DEADLOCK` otherwise) and `ExecutionAssumption`
(writers change files of their scope, bounds are naturals within the contract's limits, the model's "none" is no write). The
invariant `TestingInv` says, at every save the executor may stop at: the journal replays to the bytes of the worktree, but
for its last write, which may be in place or not (`TreeKept`); the write under way is that last one, by a writer of the batch
(`WriteUnderWay`); the writers at work are of one batch, each with an attempt on the ledger (`BatchAlone`); a task is
launched at most once for each attempt (`LaunchesCounted`); only the check the executor waits for is unfinished
(`ChecksEnded`), which needs that a final check stays at its retry until its execution has ended (`FinalRetryStays`); the
bytes of a handoff are those on which every task's final check passed, until the worktree is deleted (`HandedOff`); an attempt
is invalidated only by a final check that failed on the bytes it names (`InvalidationsRest`); no two rounds of repair start
from the same bytes (`RoundsApart`). `WorkChanges` to `LiveChanges` say which steps touch which record, so that each part is
proved against the few that matter; completed executions are never taken back (`EndedStays`), which carries the evidence from
one step to the next. That a batch is free of conflicts (`BatchIsAlone`) and that a replay applies the writes one by one
(`ReplayedIs`) are shown of the recursive functions by a least counterexample.

**The run's own properties** (`FilesProofs`). `EventsAreKept`, `AcknowledgedIsKept`, `SpendingIsKept`,
`CheckpointsAreObeyed`, `AnswersStayKept`, `CorpusStaysKept`, `TurnsStaySound`, `TreesStayEnded` state `LogKept`,
`AckedKept`, `BudgetKept`, `DecisionObeyed`, `AnswersKept`, `CorpusKept`, `CliTurnsSound`, `NativeTreeEnded` of
`MCDurableFiles`, that is all that run `durable_files` checks: one lemma per component shows that its instance there takes
the steps of the component the general theorem is about.

Only model-checked:

* liveness (`Settles`, `CallsReturn`, `CallsEnd`, `ExecuteSettles`, `ExecutionSettles`, `FeatureSettles`): it rests on fairness and
  `ENABLED`, which the prover does not handle;
* the properties of `AuditVerification`, `IncrementalAudit`, `PlanDraft`, `PlanRevision`, `TaskOrder`, `VariantSearch` and
  `WriteScopes`, whose algorithms are RECURSIVE operators: the prover cannot reason in such a module, and what a recursive
  definition computes for every input needs induction over data. `MCAudit` instantiates them, so no theorem can be stated
  of its properties in that module;
* not yet proved: the invariants of the Audit's modules without recursion (`AuthoredGraphs`, `AuditDiscovery`, `PeerBoard`,
  `PeerReviewBatches`, `PlanReview`, `ToolLoop`).


## 6. Findings

1. `lifecycle_stale_wakeup`: a wake-up armed while a resume is under way outlives it and later resumes a run that was
   cancelled, blocked or failed since (`orchestrator.ts:1351`), although the comment above says a resume or cancel
   removes it.
2. `journal_sibling_cut`: a failing journal append truncates to its own start and takes a sibling's acknowledged end with
   it (`journal.ts:84`); the event log of the same store serialises its writes, the journal does not.
3. `batch_stale_prepared`: abandoning a partly saved submission clears the submission of a member that has since been
   sent in another one (`lane.ts:695`), so it is sent twice.

Met while modelling, without a run of their own:

* a stop between the saves of an acknowledgment makes a later execute fail with `BATCH_STATE_INCONSISTENT`; a late submit
  failure can save a bound submission as uncertain;
* a wake-up that finds the run held is lost;
* an answer with text under a secret's name is returned unmasked by the first call and masked by a resumed one, although
  `model-activities.ts:298` says they are the same; a caller that may dispatch can join a replay-only call and fail with it;
* a corpus import reported `unchanged` after a failed sync may be lost by a power loss;
* two processes that publish at once can lose an entry of the artifact index; a checkpoint response whose publish fails
  is recorded although it is reported failed;
* `FeatureRun` reads the requirements again for the outcome's fingerprint, so an edit from another process may come between;
* a peer vote on a candidate created by the same reply fails the round on every resume, though a comment near
  `model-pipeline.ts:322` says a bad operation is left out; a conflict still pending in round 3 makes the selection use
  the projected vote status;
* a reply with cyclic links fails the plan's draft on every resume;
* the artifact of a cut read can be read back past the beyond-unit budget (`snapshot-tools.ts:67-77`), so the tool loop's
  budget property is about the file tools only;
* in a chain of incremental runs a reused unit is sent the index its base *stored* (`incremental-audit.ts:558-562`,
  `model-discovery.ts:278`), which is not the one the base sent when the base itself reused it, so its saved output is
  missed and asked for again; the comment near `incremental-audit.ts:102` says it is the one the base sent.

## 7. Not modelled, and why

Batch drivers and HTTP transports map requests to wire formats; their behaviour appears as the external steps of
`ProviderInvocation` and `BatchLane`. Prompt composition, parsing, context sizing, rendering, preflight, the premise check,
plan export, security scans and the comparison of replays are text, path and file analysis without concurrent state.
HTTP routes, the command line and the web client call operations modelled in `RunLifecycle`.

Within the parts that are modelled:

* `RunLifecycle`: run preparation, views, exports; two processes that run one run (nothing in the code excludes them, a
  hazard in `PROJECT.json`). The logs: writes that are short and report success. `ProviderInvocation`: clocks and rates.
  `BatchLane`: `reconcile`, which nothing calls.
* `CliTransport`: the limit ledger, failed probes and unsupported versions; every call offers tools, a session stored
  but never named would not be forgotten, a close during a call leaves what it keeps until the sweep; one trouble per
  behaviour. `NativeProcess`: a process the host may not signal forks nothing, zombies and reused group numbers and the
  reader of the Windows table are left out; its guarantee is for trees that race fewer forks than there are looks (4).
  A process that left the group is found by its session on Linux only (`process.ts:205-213` reads none elsewhere), so
  there a detached one whose parents are gone may live on unreported. `taskkill /T` is taken to walk the tree as
  `windowsDescendants` does, by parents that are older than their children; the second of slack on creation times
  (`process.ts:254`, `259`) is left out.
* The logs, runner and lanes: a plain process death is modelled as leaving a file that is as good as synced, since nothing
  but a power loss takes bytes back; a `close` that fails after a sync is left out. `GraphCheckpoints`: `DecisionObeyed`
  says nothing of an index that two processes published at once (`overlapped`), whose lost entry is a hazard without a
  property.
* `AuditDiscovery`: units start in any order; whether a decline is recorded or sent again by a resume is free, which
  covers the CLI tools of its own a model used (`model-discovery.ts:355`). `PeerBoard`: replies in reviewer order, one disposition and at most one edit
  per reply, a severity edit always changes it. `PeerReviewBatches`: clustering and grounding. `AuditVerification`: groups
  and follow-ups in any order, the bound holds per execution; a place without cited context (`model-pipeline.ts:724`) does
  not occur, every finding carries evidence. A resume under a bound may have places answered by the first execution that
  it does not itself ask again, so `VerifiedForReason` says that a candidate with a confirmed place is not rejected of
  runs that were not stopped, that have no bound, and of severe, backed candidates always. `VariantSearch`: places are
  single lines, an unanswered check is not recorded, what is published is not sorted by severity
  (`model-pipeline.ts:568`). `WriteScopes`, `TaskOrder`: tasks without `dependencies`, duplicate graph edges; one character class.
* `PlanDraft`: brief questions, routing, validation assertions. `PlanRevision`: concurrency is any order, tasks in number
  order, what a call admits is part of its budget. `PlanReview`: a plan is the calls that made it and its blocking
  questions; a critic reads one whole or two parts; HOLDS and unanswered are one verdict; pair packing and rendering. A critique is
  degraded when the critic was skipped, is not independent of the planner or had an item rejected
  (`critic/node.ts:34`): it is then not checked, revises nothing and fails the gate, and `PlanReviewed` says so. It also
  says that a plan passes only if no blocking item reported of any part of it is left unresolved.
* `ToolLoop`: line sizes include line ends; only the last artifact a tool stored is kept; the refit of repairs, the testing extension and turn announcements.
* `IncrementalAudit`: units of a run in order, cited lines are whole files, git history is ordered heads, a resume finds
  the files put back, a recorded output is that of the same request (`model-activities.ts:226`), the output limit in a
  stage's identity (`incremental-audit.ts:253`) does not change; missing or corrupt source artifacts and an absent snapshot identity.
* `TestingExecution`: size limits, secrets that withhold a change set, configuration changed between two starts; a
  task's verification commands are one check (`testing-task-verifier.ts:59-77`, `95-104`), which passes when all do.
  `FeatureRun`: context allocation and batches.

## 8. Plan

1. Proofs, in this order: `DiscoveryComplete`, `PlanReviewed`.
2. Modules still worth writing: convergence (`pipeline.ts`), the premise check, plan export, preflight, as pure algorithms
   against reference definitions, and the rest of the orchestrator (preparation, exports).
3. `BatchLane.reconcile`, and a shared run of `ModelActivity` above the lane.
