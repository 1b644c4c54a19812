# A formal model of the VoltX platform backend

TLA+ modules, TLC configurations and machine-checked proofs for the core of the
VoltX backend (`src/backend`): the workflow engine, the human approval of agent
actions, the coordination of agents that delegate to agents, the queues and what
is done from them (webhooks, Stripe events, workflow runs), and the records that
several processes keep without a queue or a version between them (schedules, the
audit chain, documents, integrations and their credentials, conversations).
Everything is translated from the TypeScript sources; paths are relative to
`src/backend/src/modules/`. `PROJECT.json` maps each definition to the lines it
stands for, lists the runs, the mutants that show each property can fail, the
hazards and the theorems.

Contents: [inventory](#inventory) · [modules](#modules) · [runs](#runs) ·
[bounds](#bounds) · [fairness](#fairness) · [findings](#findings) ·
[proofs](#proofs) · [plan](#plan) · [not modelled](#not-modelled)

## Inventory

The backend is one NestJS program that runs in any number of processes over one
Postgres database and, when configured, one Redis with BullMQ queues. Requests
are handled by async functions and async generators (a generator backs both a
JSON answer and an event stream). There is no shared memory between processes, and
within one every `await` is a point where others run. Most tables are written
with plain reads and updates; the workflow run's row has a version that every
writer respects, an integration connection's one that only a user's edit looks at,
and only the resumption of an agent run has a conditional claim.

| Component | State | Operations | Interacts with | What is hard | What makes it correct |
|---|---|---|---|---|---|
| **Workflow engine** `workflows/engine`, `workflow.service.ts`, the run, step and approval repositories | run row with version and merged context, step rows, approval rows, the in-process table of abort controllers, each call's private step map | run, stream, pause, resume, cancel, retry, approve, reject; scheduling, execution, retry, skip, merge, compensation | its queue, the step executors, streams | two drivers of one run, a stale map of steps, a request between a read and its write, a crash in a step | no step before its dependencies or without its approval, no output lost, cancelled stays cancelled, a driven run ends, rollback in reverse |
| **Agent approval and resume** `ai/approvals`, `ai/agents/approvals`, `ai/agents/autonomous` | agent run row, approval rows, queue jobs | ask, park, decide, enqueue, deliver, claim, execute, continue | coordination, queue, audit log | a decision before the run is parked, a job delivered again, a worker that dies, a late audit failure | one driver at a time, nothing unapproved executed, each approved call once, ends are final |
| **Multi-agent coordination** `multi-agent-orchestrator.service.ts`, `coordination-state.ts`, `merge-async-generators.ts` | tree of runs, one agent count per tree, the generators in flight | delegate, batch, register, create, retry, merge, time out, resume | approvals, agent loop | check and registration with an await between, a generator that throws while its siblings are in flight | the agent and depth limits, every awaited run answered, every row settled |
| **Workflow run queue** `workflows/jobs` | run rows, BullMQ jobs named by run and version | create, enqueue, deliver, drive | engine, scheduler | a name used twice is dropped, a job delivered twice, a worker without a tenant | a run that will not be driven says so |
| **Workflow scheduler** `workflows/scheduling` | schedule rows, cron jobs of each process | poll, disable, fire, register, enable | engine, run queue | every process polls, disable and fire are apart, a cron job outlives its schedule elsewhere | how often a schedule fires for each time it is due |
| **Outbound webhooks** `webhooks` | endpoint and delivery rows, jobs | publish, replay, attempt, record, suspend, delete | queue, every module that publishes | the receiver answered but the row was not written, a slow worker records late, the endpoint goes meanwhile | a delivery ends, its verdict stands, repeats are the queue's or a failure's |
| **Stripe events** `billing/stripe`, `billing/jobs`, `billing/trials` | event rows, subscription, invoice and payment rows | receive, enqueue, dispatch, mark, sweep trials | queue | late, repeated, reordered events, a handler that stops between two writes, the sweep that writes the same row | the rows say what Stripe last said |
| **Dead letters** `background-jobs` | failure rows | listen, record | all monitored queues | every process listens and looks at the job as it is by then | what used up its attempts is on record, and nothing else |
| **Audit chain** `audit` | hash-linked rows | write under an advisory lock, verify | nearly everything | equal times, clocks that differ | what was written verifies |
| **Knowledge ingestion** `knowledge/ingestion` | document rows, chunk rows | ingest, reindex, fail | AI gateway, integration sync | delete, await, create, by two callers | an indexed document has its chunks, once, if its text has any |
| **Integration sync** `integrations`, its connectors and `integrations/webhooks` | connection row with cursor and source id, event rows | sync, poll, receive, contribute, update | external systems, knowledge | a cursor taken late, a JSON column that everyone writes whole | an event with an id has one row and, if it is of the kind, one document; what is left behind is known |
| **Integration credentials** `integrations/dispatch` | encrypted credential, connection status | use, refresh, connect, revoke, check | external providers | two refreshes at once, a refresh against a revocation | the stored token is one the provider accepts, a revoked connection has none |
| **Conversations** `communications` | conversation and message rows | ingest, send, report | channels, workflows | repeated and reordered messages and reports | each message once and told of, its status the last one reported |
| Workflow definition graph `workflows/definition` | none | validate, find a cycle | engine (its acyclicity) | recursion | a cycle is reported exactly when there is one |
| Attachment processing `attachments/processing` | attachment row, stored files | scan, convert, extract | storage, queue | retry of half a pipeline | never ready before it was scanned |
| Promises `promises` | promise row, event rows | create, transition | audit | read, check, write | transitions follow the table |
| The rest (sales, companies, organizations, identity, marketplace, platform administration, clients) | single rows | create, read, update, delete | | | see [not modelled](#not-modelled) |

Components in bold are modelled, wholly or in part; `PROJECT.json` says of each which.

## Modules

| Module | Role |
|---|---|
| `RunLifecycle` | Abstract: what a run promises to whoever looks at its row. Status, steps done, outputs gathered and lost; no drivers, versions or maps. |
| `WorkflowEngine` | Detailed: one run, any number of concurrent `executeRun` calls, requests, crashes. Refines `RunLifecycle` while one driver at a time drives it. |
| `MCWorkflowEngine` | Small definitions (a pair, a branch, a fork ...) and deployments for TLC. |
| `WorkflowEngineProofs`, `WorkflowStepProofs` | The engine's theorems for any number of drivers: types and the row, the steps. |
| `WorkflowDriverProofs` | Its theorems for one driver at a time, and the refinement of `RunLifecycle`. |
| `AgentApproval` | One agent run, its approvals, their jobs, and everyone who may execute it. |
| `MCAgentApproval` | Its instances. |
| `AgentApprovalProofs` | Its theorems. |
| `AgentCoordination` | A tree of runs, each of them the generator of one agent's loop. |
| `MCAgentCoordination` | Its instances. |
| `AgentCoordinationProofs` | Its theorems. |
| `JobQueue` | A queue as the code uses BullMQ: jobs added once under their name, locks, attempts, lost locks, dead workers; and the listener that keeps dead letters. |
| `OutboundWebhooks`, `StripeEvents`, `RunQueue` | The three producers and processors, each extending `JobQueue`. |
| `MCJobs` | The queue composed with each of the three. |
| `QueueProofs` | Theorems about that composition. |
| `Processes` | Processes that are all alike, and a clock. |
| `WorkflowSchedules`, `AuditChain`, `KnowledgeIngestion`, `IntegrationSync`, `Credentials`, `Conversations` | Records that processes share, each extending `Processes`. |
| `MCRecords` | The six side by side. |
| `CredentialsProofs`, `RecordProofs` | Theorems about credentials, and about the others and all six side by side. |

The engine's rows are its own: the
workflow engine reaches agents only through a step executor that answers, fails or
is aborted, which is how `WorkflowEngine` sees every executor. The two agent modules
are two views of the `agent_runs` rows: `AgentApproval`
looks at one run in depth and lets its agent do anything;
`AgentCoordination` looks at the tree and reduces an approval to "the run stops as
WAITING_APPROVAL, and may be resumed later".

### WorkflowEngine

*State.* `run` is the `workflow_runs` row (status, version, and the set of steps
whose output is merged in its context). `stepStatus` is the `workflow_step_runs`
rows; a row that does not exist yet and a PENDING one are alike to the engine and
are one value. `completedAt` is what compensation sorts by: the reading of the
wall clock of whichever process executed the step. `Clock` is what clocks may read, and
each reading is any of it, because clocks differ, are set back, and tell no two steps
of one millisecond apart. `approval` is, for every approval step, the sequence of its rows.
`drv[d]` is the local state of an `executeRun` call: its program counter, its copy
of the run row, `view` (the map of step statuses it reads once, at its start), the
steps of its wave and where each of them is. `controller` is
`activeRunControllers` of each process. `deciding`, `retrying` and `cancelling` are
request handlers between two of their awaits. `seen` is history: what ever
happened to each step. Its *dropped* entries are the outputs that no call will merge
any more: those in the hands of a driver that a crash takes, or whose second attempt
at the merge finds the row changed again (the conflict then escapes `executeRun`). Its
*behind* entries are the steps whose stamp was not later than that of a step they
depend on. The definition graph is acyclic, as `definition/workflow-graph.util.ts`
requires of what is saved (`AcyclicAssumption`).

*Actions.* A user's request is an action (`RunWorkflow`, `ResumeRun`, `PauseRun`,
`CancelRun`, `RetryReset`, `DecideCheck` ...) with the guards and early returns of
`WorkflowService`; the request handlers that write twice have a second action
(`RetryRelease`, `DecideApproval`, `CancelInProcess`). A driver's actions follow
`executeRun`: `Register`, `FindRun`, `ClaimRun`, `Reload`, `ListSteps`, then
`StartWave` / `BeginAttempt` / `Execute...` / `ConsultApproval` / `AskApproval` /
`ParkStep` / `SaveStep` / `CallFails` / `EndWave`, `MergeOutput` / `RereadRun` / `RemergeOutput` for
`mergeContext`, `Reconcile` and `AfterWave` for what the loop does between waves,
`Conclude` and `Settle` for its verdict, `ListSucceeded` and `Compensate` for the
rollback. `Crash` loses all drivers and controllers of a process.

A step that succeeds has SUCCEEDED written first; its checkpoint and its log entry are
created after that, inside the same `try` (`SaveStep`). When one of these calls fails, or
one of the approval's executor or of the parking, the `catch` takes it for an error of the
step (`CallFails`): the step is tried again, RETRYING over SUCCEEDED, or becomes FAILED.
`RunLifecycle` has an action for it, `TakeBack`, which `MayFail` allows: a run
in which `MaxFaults` is positive. A call that fails outside the `try` ends `executeRun` and
leaves the rows as a crash does.

*Abstractions.* Every await whose effect others can see is a step; what is merged:
pause's and cancel's read and conditional write (a stale one is refused without any
effect, so it is the same as no request); in `retryRun`, the read of the run with the
reset of its failed steps after it (`RetryReset`); and the skips of one loop iteration
with the row read that precedes them. `Array.sort` is stable, so of two equal stamps the
step whose row was created first is rolled back first; the model leaves that open. Outputs are the names of the steps that made
them. Executors succeed, err or are aborted at will.

### AgentApproval

*State.* `run` (the row's status), `decision` and `tool` of each approval row,
`decided` (`decide()` calls that have committed but not enqueued), `job` of each
approval, `exec[e]` (program counter and approval of whoever executes: the request
that began the run, and workers), and the history counters `effects` (how often
each approved call was executed), `redelivered`, `faults` and `misreports`.

*Actions.* `AskForTool` and `AskFails` (findOrCreatePending, with its reuse of a
pending row for the same call), `Park` / `ParkFails` (the row is set to
WAITING_APPROVAL *after* the loop has returned), `Refuse`, `Finish`, `Report` /
`ReportFails` (the audit entry is written inside the same `try`, so its failure
overwrites the row with FAILED: a *misreport*), `MarkDecided`, `EnqueueResume` /
`EnqueueFails`, `Deliver`, `Redeliver`, `FindRun`, `ClaimRunForResume`,
`ExecuteApprovedActionIfNeeded`, `ResumeFails`, `Die`. The queue is external: it
delivers at least once, and delivers again what was locked by a worker that is slow
or dead. Without a queue `resume` is called directly, which is
`MaxRedeliveries = 0`.

### AgentCoordination

*State.* `run[r]` is a row plus its generator: parent, depth, status, the
CoordinationState it is charged to, iterations left, targets of the decision left,
`via` (the generators an event of it climbs through), and `hold`: *driven* from
above; *drifting* when a generator it climbs through has stopped, so that it will
reach its next yield and no further; *stopped*. `task[r]` is the batch a loop has
under way, each task between validation and answer. `count` is the agent count of
each CoordinationState.

*Actions.* `Delegate` and `NextBatch` (all tasks of a batch pass
`assertCanSpawnAgent` before any of them is registered), `FindAgent` (the await,
and the registration), `CreateAgentRun`, `Announce`, `Collect`, `Retry`, `GiveUp`,
`Propagate` (an abort is rethrown), `TaskFails`, `EndBatch`, `Finish`, `Drift`,
`Resume` (a resumed run has a CoordinationState of its own). The deadline and
the permission checks are refusals that may happen at any time. A timer may end
(`Finish`) any loop that has no batch under way; while one is, the children share the
parent's abort signal, so the abort ends a child first and climbs by `Propagate`.
Which tasks of a batch are refused does not matter, so a refusal is a shorter batch.

### JobQueue and its users

*State.* `queue` is the queue a behaviour is about and `redis` whether there is one:
without it the producer does the work at once, in one attempt. `job[j]` is BullMQ's
own state of the job (external: waiting, active and locked by a worker, done,
failed, attempts made, locks lost). `worker[w]` is what a worker works on, the step
its processor is at, and which attempt it took it for. `failedSeen` is the `failed`
events every process has yet to look at, `deadLetter` counts the
`BackgroundJobFailure` rows. The n-th job is that of the n-th row of the users:
deliveries, Stripe events, runs.

*Actions.* `Add`, `Take`, `Return` and `Throw` are what the users' actions are made
of; `Return` and `Throw` do nothing to a job whose lock the worker has lost, though
what the worker wrote to its rows stays. `Stall` and `StallAlive` take the lock from
a dead and a slow worker, `Die` kills one, `HandleFailed` is the listener. Whether
the loss of the last lock counts as an attempt depends on the library's version and
is left open.

- `OutboundWebhooks`: `Publish` and `ReplayDelivery` write a row,
  `EnqueueDelivery` adds its job; `FindDelivery`, `FindEndpoint`, `Post` and the
  `Record...` actions are `attemptDelivery`, whose `catch` also catches a failure to
  record an accepted post (`AcceptedIsLost`); `SetStatus` and `DeleteEndpoint` happen
  meanwhile, the latter cascading to the deliveries.
- `StripeEvents`: a `story` is what happens to one object at Stripe. `ReceiveNew`,
  `ReceiveAgain`, `EnqueueEvent` and `EnqueueFails` are the controller;
  `FindMirror`, `WriteMirror`, `AddItems`, `MarkProcessed` and `HandlerThrows` the
  dispatcher and its handlers, and `FindExpiredTrial`, `EndTrial` the sweep, which
  writes the subscription's row without looking at it again. `mirror` is the local
  rows.
- `RunQueue`: `CreateRun`, `FindPendingRun` (an idempotency key that is known),
  `EnqueueRun`, `DeliverRun`, `LoadRun`, `LoadRunThrows`. What follows a load is
  `WorkflowEngine`.

A behaviour of `MCJobs` is about one queue. Queues share nothing but the processes,
and a process that dies loses one job of one queue as well as of several, so nothing
is lost by it.

### Records shared by processes

Every process, request and overlapping poll is a `Process`; each step is what one
`await` does.

- `WorkflowSchedules`: `ListDue`, `DisableDue`, `FireSchedule`, `MarkRun` are the poll
  of delayed schedules; `Trigger` is a cron tick or an event; `FireFails`,
  `Restart` (which registers the enabled cron schedules again),
  `EnableSchedule`, `DisableSchedule`, which takes back the cron job of its own
  process only. `armed` counts the times it was enabled with its time set.
- `AuditChain`: `LockAndRead`, `Link`, `RollBack`; `ChainVerifies` is `verifyChain`. A
  row's hash stands for the row, its id is any number not used yet, its time is the
  clock of the process that writes.
- `KnowledgeIngestion`: find or create the document, delete its chunks, embed, create
  the new ones, say INDEXED and keep the text, tell the source, or say FAILED; reindexing
  does the same with the text that was kept. A text with no words in it has no chunks,
  and `chunkEmbedAndStore` returns after the delete. A set of chunks is named by the
  process that made it.
- `IntegrationSync`: connectors that are polled (`StartSync`, `EndPoll`) and ones that
  post (`Receive`), then `CreateIfNew`, `Contribute`, `FinishSync`; the config column,
  with the cursor and the source id, is always written whole, from the copy. What a poll
  lists is any set of what has come about: connectors ask for what is since the cursor,
  Gmail for no more than 20 messages and, without a cursor, for those of the last day,
  Google Calendar by the time of the appointment and not of its entry, OneDrive without
  regard to the cursor. `skipped` keeps what was not listed and is older than the cursor
  that is going to be written. The events of the connectors that are polled have an id
  and something for the knowledge graph; what is posted may lack either: one without an
  id is never found again, one without a contribution becomes a row and no document.
- `Credentials`: `Resolve`, `ReadCredential`, `RefreshAccessToken`,
  `UpsertCredential`, `UseConnection`, `WriteStatus` are actions, health checks, syncs
  and forced refreshes; `ExchangeCode`, `StoreConnected`, `DeleteCredential`,
  `WriteRevoked` are users. A provider rotates refresh tokens or not.
- `Conversations`: inbound, `FindByExternalId`, the conversation, the message, and
  what is told of it; outbound, the row, the channel's answer, `SaveSent`, and the
  channel's reports, which may overtake it and one another.

A behaviour of `MCRecords` is about one `part`, for the same reason: the parts share
no rows.

## Runs

| Run | Question | Properties |
|---|---|---|
| `engine_concurrent` | Two drivers, every kind of request, a crash, a call that fails, an approval step, a condition, a compensation: what always holds? | `TypeOK` `CopiesAreCurrent` `DependenciesRespected` `ApprovalGate` `OnlySucceededIsCompensated` `OutputsNeverLost` `CancelledNeverResumes` `ClaimedOnce` |
| `engine_single_driver` | One driver at a time, no crash, a step retried, an approval, two branches, five requests among them clients that hang up, a call that fails, two readings of the clock: does the engine keep its promise, end, and roll back in order? | `CompletedRunIsWhole` `RollbackInReverse` `OnlyAbortsDeadlock` `RunSettles` `LifecycleImplemented` |
| `engine_cancel_overwritten` | Is a cancellation final? **No.** | `CancelledIsFinal` |
| `engine_crash_recovery` | Does a fresh call pick up where a crashed one left? **No.** | `NeverDeadlocked` |
| `approval_protocol` | Three executors, two approvals, a redelivery, a fault: who drives, what is executed, what is final, what progresses? | `TypeOK` `OneDriver` `OnlyApprovedIsExecuted` `RepeatsAreRedeliveries` `EndIsFinal` `RunProgresses` |
| `approval_repeated` | Does the claim keep a redelivered job from executing again? **No.** | `ExecutedAtMostOnce` |
| `approval_forgotten` | Is a waiting run always waiting for something? **No.** | `WaitsForSomething` |
| `coordination_tree` | Trees two deep, and batches that follow one another, a fault, a retry, a resumption: by how much is the agent limit exceeded, is everything charged, is the depth kept, who awaits whom, does all that is driven end? | `TypeOK` `DepthBounded` `Charged` `OvershootBounded` `Awaited` `DrivenRunsSettle` |
| `coordination_abandoned` | Does every run's row settle? **No.** | `EveryRunSettles` |
| `background_jobs` | Deliveries, Stripe events and runs, with Redis and without: what is repeated, what is on record, whose word stands, what ends? | `TypeOK` `DeadLettersAccountedFor` `RepeatsAccountedFor` `MirrorsStripe` `VerdictStands` `DeliverySettles` `ExhaustedIsRecorded` |
| `background_tenantless` | Does a run whose job used up its attempts say so? **No.** | `FailedRunSaysSo` |
| `background_records` | Two processes and the records they share: what survives their interleavings, failures and deaths? | `TypeOK` `FiresAccountedFor` `ChainIsLinear` `IndexedIsWhole` `EventsAccountedFor` `GrantKept` `InboundOnce` `StatusIsLatest` |

The properties of the passing runs that took the most to get right:

- `CopiesAreCurrent`: a copy with the row's version *is* the row. The versioned
  update is sound because of it, and it would fail if any writer forgot to bump the
  version (the mutant of `Moved`).
- `DependenciesRespected` and `ApprovalGate` hold although a second driver
  schedules from a map that may be arbitrarily old: they are stated over `seen`,
  because a retry puts step rows back to PENDING.
- `CompletedRunIsWhole` and `OnlyAbortsDeadlock` state the exceptions the code has
  even with one driver at a time. A step aborted while a pause lands is CANCELLED in
  a run that is resumed later: it counts as over when the run succeeds, and what
  depends on it never gets ready, which is the only way into the branch that
  `runLoop` keeps for a deadlock. An output whose merge conflicts twice is dropped in
  a run that has been cancelled; a rejection that comes later can make that run
  FAILED, and a retry of it SUCCEEDED, without the output.
- `LifecycleImplemented` holds although SUCCEEDED may be written over: a step is taken
  back only while its output is in nobody's context, and nothing that depends on it was
  begun.
- `RollbackInReverse` says as much as the code's sort allows: a step is rolled back
  before what it depends on unless its own stamp was not later (`behind`), by a clock
  that was slow or in the same millisecond.
- `OvershootBounded` is the true bound of an agent limit that is checked before an
  await and charged after it: MaxAgents − 1 plus the tasks that may be between the
  check and the charge at once. That the limit itself does not hold, although the
  check is documented as a reservation, is in the hazards.
- `Awaited` relates the tree of generators to the tree of rows: no driven child
  without a driven parent that has a task waiting for it.
- `EndIsFinal` and `OneDriver` carry the one exception that the code has: an audit
  write that fails after the row was written (`misreports`).
- Most properties of the background modules name the exceptions under which the
  code's promise fails (a lock lost, a write out of order, two at once, a call that
  failed) by a history variable. Each exception is real: without it TLC finds the
  property violated. What is so excepted is not caught: `PROJECT.json` says at each
  hazard which part of it the property covers and which it leaves to the code.
- `IndexedIsWhole`: an INDEXED document has nothing to be found only for a text without
  words, or for a crossing and a failure together.
- `EventsAccountedFor`: an event with an id has one row; no row becomes two documents, and
  each with something to contribute becomes one unless a failure dropped it; what a cursor
  leaves behind without a row was `dropped` by a failure or `skipped` by a poll. An event
  without an id has a row, and a document, for each time it was posted.
- `GrantKept` is about two refreshes with rotating tokens, which look as if the
  older could be stored last: it cannot, because the provider refuses whoever comes
  second with the token it has replaced, so only the one whose token is current
  stores anything.
- `RepeatsAccountedFor` and `VerdictStands` charge every repetition of a post to a
  lost lock or a failed attempt, though a slow worker still records its outcome
  after its successor has.

Deadlock is not checked: all these systems may legitimately stop (a finished run, a
run that nobody approves, a used-up bound). Distinct states of the larger runs:
`background_records` 1,139,890, `engine_single_driver` 974,111, `engine_concurrent`
615,519, `background_jobs` 197,616, `coordination_tree` 191 thousand.

## Bounds

| Constant | Where | Why it is enough |
|---|---|---|
| `MaxRequests` 2–5, `MaxCrashes` 0–1 | engine | A race needs one request against one driver, a takeover needs a second request, a retry of a failed run a third; the single driver run affords five: a run that is started, paused, resumed, decided and retried. |
| `MaxFaults` 0–1, `Clock` of 1 or 2 | engine | One failing call at any place shows the write over SUCCEEDED; two readings put a stamp before, after or level with another. |
| Two or three steps | engine | A dependency, a branch and a pair of concurrent branches. |
| `MaxAttempts` 1–2 | engine | Two attempts is a retry; the concurrent run saves it. |
| Two drivers, one process | engine | All requests of the concurrent run reach one table of controllers, where they interfere most; `DriverSymmetry` is used in that run, which checks no liveness. |
| Three executors, two approvals | approval | The request and two workers; one approval to be late and one for the run to be waiting for. |
| `MaxRedeliveries` 1, `MaxFaults` 1 | approval | One of each anywhere; `approval_protocol` has one tool for size, the two violation runs have two. |
| `MaxRuns` 9 | coordination | Large enough that creating a run is never blocked by the bound. |
| `MaxAgents` 3, `MaxParallel` 2, `MaxIterations` 1, and the shapes `DeepAndBatched` | coordination | The defaults are 10 and 3; two per level and two levels show both overshooting within a batch and between batches, three targets make a second batch. |
| `MaxFaults` 1 | coordination | One fault shows the retry and the aborted sibling; a resumption shows the second CoordinationState. |
| `Jobs` 2, two workers, `MaxAttempts` 2, `MaxStalled` 1, `MaxFaults` 1 | queues | A delivery and its replay, two events to be reordered; two workers are a slow one and its successor, or two listeners; 2 attempts have a last and one that is not; BullMQ's default is one lost lock. |
| One endpoint, `StoriesOfTwo` | queues | Deliveries of different endpoints share nothing; every pair of events that writes the same row in a different way is a story. |
| Two processes, `MaxTime` 2 | records | All races here are of two, and processes are all alike, as are the messages that come in (`RecordSymmetry`; the run checks no liveness); two clock ticks put an event before, within and after a poll, and let a clock that is ahead write between two that are not. |
| `MaxArmed` 2, `MaxFires` 3 | schedules | Enabled again while it is being fired; three runs is one more than allowed. |
| `LogId` of 3, `MaxSkew` 1 | audit | The third row tells a fork from a chain. |
| `Happening` of 1, `MaxRows` 2 | sync | The property is about each event by itself, and the cursor depends on no event; two rows are one more than an event with an id may have. With two happenings the sync alone has 4.8 million states and passes. |
| `MaxTokens` 3 | credentials | A first token, and two that replace it or come from another grant. |
| `Inbound` of 2, `FatesOfTwo` | conversations | One message twice, two of a thread; a report that overtakes another needs two. |

## Fairness

- *Engine*: weak fairness of each driver's own steps and of the request handlers
  already under way. Node's event loop resumes every settled promise, and every
  executor is raced against a timeout. Users and crashes owe nothing. The fairness
  says nothing of a driver lost in a crash.
- *Approval*: weak fairness of each live executor, and, for every approval, of
  enqueueing what was decided and delivering what was enqueued. Approvers owe
  nothing, and `RunProgresses` promises nothing after a fault.
- *Coordination*: weak fairness of each generator's steps: the calls it awaits are
  database calls, model calls with a time limit, or a child's next event. A stopped
  generator has no step.
- *Queues*: weak fairness of the workers' steps and of taking each job (BullMQ's
  workers loop, and each call ends by a timeout), of the stalled check for the jobs of
  dead workers, and of the listener's handlers. Nothing is owed by slow workers,
  producers, Stripe or users, and `DeliverySettles` and `ExhaustedIsRecorded`
  promise nothing after a fault.
- *Records*: safety only.

## Findings

Each is a run that must fail, with the sentence of the repository it contradicts;
`PROJECT.json` quotes both.

1. `engine_cancel_overwritten`: a cancellation that lands between
   `mergeContext`'s update and the query for the row it returns gives the engine the
   cancelled row's version; `failRun` then writes FAILED over CANCELLED.
2. `engine_crash_recovery`: the row of a step that was RUNNING when its process
   died stays so; later calls find nothing ready and return with the run RUNNING.
   Without a crash the same is reached by an abort that a pause overtakes
   (`OnlyAbortsDeadlock`).
3. `approval_repeated`: the claim asks only whether the run waits, not for what, so
   a redelivered job for one approval claims a run that waits for the next.
4. `approval_forgotten`: the approvers are asked before the run is marked as
   waiting; a decision in between resumes nothing, and nothing else ever does.
5. `coordination_abandoned`: a child's timeout is thrown through its parent, which
   ends; the siblings' generators are never asked again and their rows stay RUNNING.
6. `background_tenantless`: a worker has no tenant context, and the first thing
   `executeRun` does is a query that asks for one. Every attempt throws before the
   engine looks at the run, so the run stays PENDING and never says FAILED.

Met while modelling and not runs:

- `WEBHOOK_DELIVERY_QUEUE` is not among `MONITORED_QUEUES`, although the listener is
  described as one for every queue. Exhausted deliveries are recorded on their own rows
  instead.
- `integrations/knowledge/integration-knowledge-contributor.service.ts:17` says of a
  connection's source "so there is exactly one source to find-or-create, ever". The copy of
  the config is not changed by `resolveKnowledgeSourceId`, so each event of a first sync
  creates another one, and so do two syncs that overlap (`ResolvedConfig`).
- `integrations/integration-event.repository.ts:57` calls `createIfNew` "Idempotent by
  construction". It is for events with an `externalId`; the generic webhook's is optional,
  and a post without one that is repeated makes another row (`IsNew`).
- `integrations/integration-connection.service.ts:263` says that the token is neither used
  nor stored "again after this call". A refresh under way stores one after the revocation
  (`overtaken` in `Credentials`).
- `workflows/engine/workflow-engine.service.ts:540` describes the rollback as a walk over
  what has succeeded "in reverse". Stamps that are level or out of order give another
  order (`behind`).

## Proofs

TLAPS checks all of these for every value of the constants that meets the named
assumptions: any definition graph, any number of drivers, processes, executors,
approvals, runs, jobs, workers, attempts, requests, faults and crashes. The
assumptions (`DefinitionAssumption`, `DeploymentAssumption`, `ApprovalAssumption`,
`CoordinationAssumption`, `JobQueueAssumption`, `WebhookAssumption`,
`StripeAssumption`, `StoryAssumption`, `ProcessAssumption`, `ScheduleAssumption`,
`AuditAssumption`, `SyncAssumption`, `FateAssumption`, `CredentialAssumption`) give the constants their
types and say that processes, workers and steps are finitely many. Two say more.
`AcyclicAssumption` is what the validator checks of a definition; only
`OnlyAbortsStick` uses it. `StoryAssumption` says that Stripe deletes a subscription
and refunds a payment only after events that made them known. The module that states
an assumption is extended by that of a passing run, so TLC evaluates it.

| Theorem | Says |
|---|---|
| `WorkflowEngineProofs!TypeCorrect` | `Spec => []TypeOK`: types, and no step tried more than `MaxAttempts` times. |
| `WorkflowEngineProofs!CopiesStayCurrent` | `CopiesAreCurrent`. |
| `WorkflowEngineProofs!NoOutputLost` | `OutputsNeverLost`. |
| `WorkflowEngineProofs!NeverResumedAfterCancel` | `CancelledNeverResumes`. |
| `WorkflowEngineProofs!OneClaim` | `ClaimedOnce`. |
| `WorkflowStepProofs!DependenciesHold` | `DependenciesRespected`. |
| `WorkflowStepProofs!GateHolds` | `ApprovalGate`. |
| `WorkflowStepProofs!CompensationSound` | `OnlySucceededIsCompensated`. |
| `WorkflowDriverProofs!RunIsWhole` | One driver at a time: `CompletedRunIsWhole`, whatever crashes. |
| `WorkflowDriverProofs!RollbackReversed` | One driver at a time: `RollbackInReverse`, whatever crashes and whatever the clocks read. |
| `WorkflowDriverProofs!OnlyAbortsStick` | One driver at a time and no crash: `OnlyAbortsDeadlock`. |
| `WorkflowDriverProofs!EngineImplementsLifecycle` | One driver at a time: `Spec => LifecycleImplemented`, whatever crashes and whatever calls fail. |
| `AgentApprovalProofs!TypeCorrect` | `TypeOK`. |
| `AgentApprovalProofs!DriversExclude` | `OneDriver`. |
| `AgentApprovalProofs!EndsForGood` | `EndIsFinal`. |
| `AgentApprovalProofs!ApprovedOnly` | `OnlyApprovedIsExecuted`. |
| `AgentApprovalProofs!RepeatsPaidFor` | `RepeatsAreRedeliveries`. |
| `AgentApprovalProofs!OnceWithoutRedelivery` | Without redelivery, `ExecutedAtMostOnce`: the property `approval_repeated` refutes with one. |
| `AgentCoordinationProofs!TypeCorrect` | `TypeOK`. |
| `AgentCoordinationProofs!TreeBounded` | `DepthBounded`. |
| `AgentCoordinationProofs!SpawnsCharged` | `Charged`. |
| `AgentCoordinationProofs!DrivenAwaited` | `Awaited`. |
| `AgentCoordinationProofs!OvershootLimited` | `OvershootBounded`, for any depth, width and number of agents. |
| `QueueProofs!JobsTyped` | `TypeOK` of the queue and its three users. |
| `QueueProofs!DeadLettersEarned` | `DeadLettersAccountedFor`. |
| `QueueProofs!RepeatsBounded` | `RepeatsAccountedFor`. |
| `QueueProofs!VerdictKept` | `VerdictStands`. |
| `QueueProofs!MirrorFaithful` | `MirrorsStripe`, for any story. |
| `RecordProofs!RecordsTyped` | `TypeOK` of all records side by side (with one theorem for each part). |
| `RecordProofs!FiresBounded` | `FiresAccountedFor`. |
| `RecordProofs!ChainHolds` | `ChainIsLinear`. |
| `RecordProofs!IndexedWhole` | `IndexedIsWhole`. |
| `RecordProofs!EventsKept` | `EventsAccountedFor`. |
| `RecordProofs!StoredOnce` | `InboundOnce`. |
| `RecordProofs!LatestStatus` | `StatusIsLatest`. |
| `CredentialsProofs!TypeCorrect` | `CredentialTypeOK`. |
| `CredentialsProofs!GrantSafe` | `GrantKept`. |

*The row.* `CopiesAreCurrent` alone is not inductive: a driver's verdict is
written from its copy, so what the copy's status may be at each program point
must be known, and a `retryRun` between its two writes holds a version only.
`RowInv` adds `Coherent` (a driver about to claim has a copy that can be claimed,
one about to give a verdict has one that is neither cancelled nor paused, and
after the claim the row is not PENDING), that version 0 is the initial row, and that
the version a retry holds is that of a FAILED row if it is still current. A step
then either leaves the row or satisfies `RowWritten` (version bumped, context
grown, the allowed changes of status), and the drivers' copies follow. The three
action properties are consequences of `RowStep`.

*The steps.* The drivers' maps are stale, so nothing can be said of them in
terms of the rows. `StepInv` relates both to the history: a map or a table of
rows is `Honest` when what it claims has happened (and `seen` only grows, so an
old honest map remains honest), a driver is `Grounded` when what it works on had
its dependencies done, and approval rows are `Gated`. The three theorems follow from it.

*One driver.* With `Driver = {d}` the map is not stale, and `Alone` says how it and
the rows agree. `Placed` says what the driver holds at each program point, and
`Reflects` that what it knows of a step is so, but for a failure that a retry has
reset since and for a success whose record is still to be made, or could not be
(`Unrecorded`). `Ordered` says that steps were taken up after what they depend on and
were stamped later, unless they are *behind*. Since SUCCEEDED may be written over, a step
that is at work again must have nothing built on it: whatever depends on it has not been
taken up, because the driver's map does not say yet that it is done. `Gathered`: the output of a step that succeeded is merged, dropped,
or in the driver's hands, and in only one of these. `Timely`: whoever
comes between the driver and the row has paused or cancelled the run, and whoever
comes a second time can only have cancelled it, so that the second conflict in
`mergeContext` means a cancellation. `Closed` and `Undoing` are about what a
SUCCEEDED run leaves to do and what a rollback has left. A
completed run is then whole because nothing is in anybody's hands.
`OnlyAbortsStick` adds `Busy`: what the rows call RUNNING is in hands, which a crash
breaks. If the driver finds nothing ready, the steps not over are not empty, and by
`AcyclicAssumption` one of them waits for none of the others, so it has to be
aborted.

*The refinement.* Under `Alone`, `EngineImplementsLifecycle` takes the actions one
by one: `Settled` is a step that leaves the abstract state, `StatusMoves` one that
changes the status alone; executions and skips are `Finish`, a merge `Gather`, a step
executed again or FAILED after its SUCCEEDED `TakeBack`, a crash and an escape from
`mergeContext` `Lose`.

*Approvals.* `OneDriver` with `TypeOK` is inductive: the claim is the only way to
become a driver of a run that is not RUNNING, and whoever drives keeps the row
RUNNING until it returns. `RepeatsPaidFor` counts, for each approval, the executors
that hold its job and may still execute it: executions made and to come are at most
one more than the redeliveries. `Once`, for `MaxRedeliveries = 0`, says that a job has
at most one holder, who has executed nothing for it yet.

*Coordination.* `Tree` adds to `DepthBounded` that whoever has a task before its
creation is admitted (`Admitted`: the depth was checked before the await, and
nothing changes it), and that a parent has a smaller number. `Account` says of each
CoordinationState that the runs created for it, and the tasks past their
registration, are no more than its count, though they pass the limit's check
together. `Chains` goes along `via`: whoever is driven through a generator has
a driven parent with a task waiting for it, whose own `via` is shorter by one; a
stop of one generator therefore makes those that climb through it drift, and no
others.

`OvershootLimited` gives every run that is at work a place, the path of slots that
leads to it from the root of its tree (`Path`; `Places` says that such places
exist, they are no part of the state). A place is not unique by construction: a slot
is given to the next task while what an earlier one left behind still drifts. The
invariant is `Apart`: where one path leads to two runs, the slot of the upper one
that leads to the lower is `Taken`, by a task that waits or by an abort that goes
through it. A task that is looked up takes no such slot, hence two lookups extend two
places to different paths (`ByPaths`); and every run that was delegated to is in a
taken slot of its own (`Nested`), so that n runs at work leave at most n (`MaxParallel`
− 1) + 1 slots for lookups (`ByRuns`; `Roots`: one run of each tree was delegated to by
nobody). While the count is below `MaxAgents`, what is looked up therefore fits under
the bound (`RoomLeft`); once it is not, no lookup begins, and each that ends as
a registration moves by one from the lookups to the count (`Room`). A task that fails
breaks `Apart`, which is why the property is about behaviours without faults: the
slot of the agent that failed goes to its replacement with its children still at work.

*The queue.* `QueueInv` says how a worker's attempt relates to the job's counters
(`NextAttempt`: who holds the lock is at the attempt after those made). For
`DeadLettersEarned` each `failed` event is one process's to look at, and a job's
failures, those recorded and those still to look at are counted together
(`DeadLetterInv`). `RepeatsInv` counts posts made, and the workers on their way to
one, against attempts and lost locks; a worker that lost its lock counts as late
and was paid for when it lost it. `VerdictInv` says that a delivery whose job never
lost its lock has one worker at most, and its verdict is in only when it has none.

*Stripe.* `RowsInv` relates event rows, jobs and answers; `FaultlessInv` says that
without a fault whatever is not processed has its job before it. `OrderInv` is about a
behaviour in order: one event in hand at a time, those before it processed, the
rows what the last one handled said (`LastReflected`), but for a handler between two
of its writes (`StepsFit`, `LinesOnce`). Stories are sequences of any length, and
nothing is proved by induction over them: each event's effect is
compared with what the rows say when it is the last one begun.

*Schedules.* How often a process may still fire depends on where it is in its poll:
`FiresLeft` says so for each step (it has found the schedule due, it could still
find it so), and is inductive with the types.

*The audit chain.* `ChainIsLinear` needs that the holder of the lock still has the
latest row when it writes (`LockHeld`) and that rows are numbered in the order in
which they were written (`Numbered`, a fact about the cardinality of the log). A new
row then comes after all others, so `Latest` of what is before any other row stays
as it was. That the id it links to is an id of the log rests on `HasLast`.

*Documents.* `Uncrossed`: while no two ingestions met, whoever is at work is alone, on
the only document, and what says INDEXED, or is about to, has what its text asks for
(`Holds`: one set of chunks, or none for a text without words). `Unbroken`: while none
failed, a document that says INDEXED, or is about to, has chunks, stored or about to
be, unless an ingestion of it found no words (`empty`).

*Integrations.* `Documented` counts, for each event, its documents and the hands that
are about to make one against its rows; `Known`, that what has not come about has no row
and is in nobody's hands. `CursorsCover` says of every cursor, in the row, in a copy or
still to be written, that each event before it has a row, was skipped or dropped, or is
among those its sync still has to store. A poll skips what it passes at the moment at
which its cursor is known, and an event that comes about before a cursor in play, by a
clock that is ahead, is skipped at once.

*Credentials.* `GrantKept` rests on `GrantInv`: with a provider that rotates, whoever
waits to store a token has one that nobody else holds and that is not the stored one;
with one that does not, every token handed out stays accepted; and once a credential
is deleted with nobody refreshing it, nobody comes to store one.

*Conversations.* While no message was in two hands (`twice`), `OneInHands` and
`OnceIfNotTwice` tell how many have it and how often it is stored; `CopiesLeft`
bounds the copies by the processes otherwise; `ReportsInOrder` says that the reports
yet to come follow all those applied, and that the row says what the last of these said.

*Side by side.* `PartsBehave` shows that a behaviour of `MCRecords` is one of each
part; the parts' theorems hold of it then.

*Only model-checked*: liveness (`RunSettles`, `RunProgresses`, `DrivenRunsSettle`,
`DeliverySettles`, `ExhaustedIsRecorded`), which is beyond the prover. What the recursive definitions compute for every input
would need an induction over data, which none of the provers can instantiate; no theorem
is about them.

## Plan

Order of work: the engine first (it is what the rest of the platform schedules
work with), then approvals, coordination, the queues, the shared records, and their
proofs: these are done. What is left:

1. **Several drivers**: which part of `RunLifecycle` survives when drivers overlap.
   `CompletedRunIsWhole` does not; the status machine, and that each output is gathered
   once, should.
2. **A run that is both in a queue and driven**: `RunQueue` hands a loaded run over;
   composing it with `WorkflowEngine` would say who drives after a redelivery.

## Not modelled

- *Of the engine*: definition editing, the log, checkpoint and dead-letter rows
  that nothing reads back, the run statuses TIMED_OUT and EXPIRED that nothing
  writes, idempotency keys, what the queue does with a failed job; calls that fail
  outside the `try` of `runStepWithRetry`, which escape `executeRun` and leave the rows as a
  crash does (the generators of the step's siblings run on to their next event, which is
  left out). A call that fails is assumed to have had no effect, here and in the other
  modules: a statement that commits and whose answer is lost is not modelled.
- *Of approvals*: the EXPIRED status (no code sweeps `expiresAt`), who may decide, notifications.
- *Of coordination*: plans and prompts, what agents say, tool calls that are not
  delegations.
- *Of the queues*: what the library does inside (its Lua scripts, its backoff times);
  that a job's custom id may contain a colon is assumed, as the code does.
- *Of webhooks*: secrets, signatures, the creation of endpoints. *Of billing*: checkout
  sessions and payment methods (one idempotent write each), quotas, coupons, seats, and the
  branches that ignore an event whose customer has no billing account, whose organization
  has no subscription row, or whose charge names no payment: the object of a story has
  them.
- *Of integrations*: the connectors' APIs beyond that they list something; a client that
  writes back a config with keys it read earlier, or a cursor of its own (`UpdateConfig`
  writes one without either); a second item under the same `externalId`, such as a
  document that is changed later, which is taken for known; whether the ingestion of a
  contributed document ends INDEXED, which is `KnowledgeIngestion`'s matter; usage and
  health records. *Of knowledge*: extraction, how chunks are cut, retrieval. *Of
  conversations*: notes, assignments, summaries, calls, realtime events, the poll cursor.
- *Workflow definition graph*: `findDependencyCycle` is a sequential recursion that unit
  tests reach; the engine's model assumes what it establishes (`AcyclicAssumption`).
- *Attachment processing, promises, notifications, cache*: one linear pipeline under the
  queue that `JobQueue` already models, or single rows that nothing else relates to.
- *Agent loop and tools*: what a model says; the agent modules take any outcome of it.
- *Sales, companies, organizations, marketplace, platform administration*: single
  rows behind forms, without protocols of their own.
- *Authentication, identity, provisioning*: out of scope.
- *AI gateway, providers, storage, mail*: I/O; where a modelled component calls
  them, the call succeeds, fails or takes its time.
- *Clients (web, mobile, SDKs)*: they take part in no decision modelled here.
