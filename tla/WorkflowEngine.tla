---------------------------- MODULE WorkflowEngine ----------------------------
(***************************************************************************)
(* One workflow run driven by any number of concurrent executeRun calls.   *)
(*                                                                         *)
(* The run row carries an optimistic version, the step rows do not.  Each  *)
(* call of WorkflowEngineService.executeRun is a driver: it holds a copy   *)
(* of the run row, a private map of step statuses read once at its start,  *)
(* and the generators of the steps it is executing.  Users pause, cancel,  *)
(* resume, retry and decide approvals from other requests, a stream's      *)
(* client may hang up, and a process may crash.  Every await on the        *)
(* database that other parties can observe is a step of its own.           *)
(***************************************************************************)
EXTENDS Integers, Sequences, FiniteSets

CONSTANTS
  Step,             \* the steps of the published definition
  DependsOn,        \* what each step depends on
  ApprovalStep,     \* the steps of type APPROVAL
  ConditionalStep,  \* the steps that carry a condition
  CompensatedStep,  \* the steps that declare a compensation
  MaxAttempts,      \* retryPolicy.maxAttempts
  Driver,           \* the executeRun calls that may be in flight
  Instance,         \* the backend processes
  Home,             \* the process each driver runs in
  NoDriver,         \* an empty slot of activeRunControllers
  Inline,           \* TRUE when no queue is configured: enqueueRun drains the run itself
  Requests,         \* the kinds of request the users make
  Clock,            \* what the clocks of the processes may read, in milliseconds
  MaxRequests,      \* bound: requests made in a behaviour
  MaxCrashes,       \* bound: process crashes in a behaviour
  MaxFaults         \* bound: database calls of a step that fail in a behaviour

RequestKind == {"run", "runStream", "resume", "resumeStream", "pause", "cancel",
                "retry", "approve", "reject", "disconnect"}

\* What the definition validator and the configuration schema establish.
ASSUME DefinitionAssumption ==
  /\ IsFiniteSet(Step)
  /\ DependsOn \in [Step -> SUBSET Step]
  /\ ApprovalStep \subseteq Step
  /\ ConditionalStep \subseteq Step
  /\ CompensatedStep \subseteq Step
  /\ MaxAttempts \in Nat \ {0}

\* The validator refuses a definition whose dependencies form a cycle: of any
\* steps, one depends on none of the others.
ASSUME AcyclicAssumption ==
  \A S \in SUBSET Step \ {{}} : \E s \in S : DependsOn[s] \intersect S = {}

ASSUME DeploymentAssumption ==
  /\ Home \in [Driver -> Instance]
  /\ NoDriver \notin Driver
  /\ Inline \in BOOLEAN
  /\ Requests \subseteq RequestKind
  /\ Clock \subseteq Nat \ {0}
  /\ MaxRequests \in Nat
  /\ MaxCrashes \in Nat
  /\ MaxFaults \in Nat

-----------------------------------------------------------------------------
VARIABLES
  run,          \* the workflow_runs row
  stepStatus,   \* the workflow_step_runs rows: no row yet and PENDING are alike to the engine
  completedAt,  \* when each step last succeeded, by the clock of the process it ran in; 0: never
  approval,     \* the workflow_approvals rows of each approval step, in order of creation
  drv,          \* the local state of each executeRun call
  controller,   \* activeRunControllers, per process
  deciding,     \* decideApproval calls between the PENDING check and the update
  retrying,     \* retryRun calls between resetFailedForRetry and the update: the version read
  cancelling,   \* processes in which cancelRun has yet to abort the local driver
  seen,         \* history: what has ever happened to each step; its output is
                \* dropped when the call that holds it ends without merging it
  budget        \* requests, crashes and failed calls so far

vars == <<run, stepStatus, completedAt, approval, drv, controller, deciding, retrying,
          cancelling, seen, budget>>

requestVars == <<deciding, retrying, cancelling, budget>>
rowVars == <<run, stepStatus, completedAt, approval>>

RunStatus == {"PENDING", "RUNNING", "PAUSED", "WAITING_APPROVAL", "SUCCEEDED", "FAILED",
              "CANCELLED"}
TerminalRun == {"SUCCEEDED", "FAILED", "CANCELLED"}
StepStatus == {"PENDING", "RUNNING", "RETRYING", "WAITING_APPROVAL", "SUCCEEDED", "FAILED",
               "SKIPPED", "CANCELLED"}
\* Mutant: a failed step counts as finished.
TerminalStepMutant == {"SUCCEEDED", "SKIPPED", "CANCELLED", "FAILED"}

TerminalStep == {"SUCCEEDED", "SKIPPED", "CANCELLED"}
SatisfiedStep == {"SUCCEEDED", "SKIPPED"}
ApprovalStatus == {"PENDING", "APPROVED", "REJECTED"}
Event == {"succeeded", "skipped", "approved", "compensated", "dropped", "behind"}

\* context is the set of steps whose output has been merged into it.
RunRow == [status : RunStatus, version : Nat, context : SUBSET Step]

\* Where a driver is: between which two awaits.
Pc == {"off", "load", "find", "claim", "claimed", "list", "reconcile", "wave", "merge",
       "reread", "remerge", "merged", "loop", "stuck", "rollback", "undo",
       "cancel", "complete", "park", "fail"}

\* What the generator of a step is doing, and the outcome it returned.
Outcome == {"succeeded", "failed", "cancelled", "waiting"}
Work == {"none", "mark", "exec", "hit", "ask", "park", "save", "merging"} \union Outcome

NewRun == [status |-> "PENDING", version |-> 0, context |-> {}]

Idle == [pc |-> "off", copy |-> NewRun, view |-> [s \in Step |-> "PENDING"],
         work |-> [s \in Step |-> "none"], attempt |-> [s \in Step |-> 0],
         todo |-> {}, aborted |-> FALSE, streaming |-> FALSE]

Init ==
  /\ run = NewRun
  /\ stepStatus = [s \in Step |-> "PENDING"]
  /\ completedAt = [s \in Step |-> 0]
  /\ approval = [s \in ApprovalStep |-> <<>>]
  /\ drv = [d \in Driver |-> Idle]
  /\ controller = [i \in Instance |-> NoDriver]
  /\ deciding = {}
  /\ retrying = {}
  /\ cancelling = {}
  /\ seen = {}
  /\ budget = [requests |-> 0, crashes |-> 0, faults |-> 0]

-----------------------------------------------------------------------------
(* The run row: WorkflowRunRepository.updateWithVersion.                    *)

\* Mutant: a status is written without a new version.
MovedMutant(row, status) == [row EXCEPT !.status = status]

Moved(row, status) == [row EXCEPT !.status = status, !.version = @ + 1]

\* Mutant: an older copy will do.
CurrentMutant(copy) == copy.version <= run.version

Current(copy) == copy.version = run.version

-----------------------------------------------------------------------------
(* Requests.  Pause and cancel read the row and update it at the version    *)
(* they read: a request whose read is stale is refused and changes nothing, *)
(* so each is one step on the current row.                                  *)

Request(kind) ==
  /\ kind \in Requests
  /\ budget.requests < MaxRequests
  /\ budget' = [budget EXCEPT !.requests = @ + 1]

\* The local state of d becomes the record given.
Become(d, state) == drv' = [drv EXCEPT ![d] = state]

Begin(d, streaming) ==
  /\ drv[d].pc = "off"
  /\ Become(d, [Idle EXCEPT !.pc = "load", !.streaming = streaming])

\* enqueueRun without a queue drains executeRun, with nothing to keep a
\* second call for the same run out.
RunWorkflow(d) ==
  /\ Inline
  /\ Request("run")
  /\ run.status = "PENDING"
  /\ Begin(d, FALSE)
  /\ UNCHANGED <<rowVars, controller, deciding, retrying, cancelling, seen>>

ResumeRun(d) ==
  /\ Inline
  /\ Request("resume")
  /\ run.status \in {"PAUSED", "WAITING_APPROVAL"}
  /\ Begin(d, FALSE)
  /\ UNCHANGED <<rowVars, controller, deciding, retrying, cancelling, seen>>

NotActiveInProcess(d) == controller[Home[d]] = NoDriver

\* An idempotency key already used returns the existing run, whatever its
\* status, and runWorkflowStream drives it.
RunWorkflowStream(d) ==
  /\ Request("runStream")
  /\ NotActiveInProcess(d)
  /\ Begin(d, TRUE)
  /\ UNCHANGED <<rowVars, controller, deciding, retrying, cancelling, seen>>

ResumeRunStream(d) ==
  /\ Request("resumeStream")
  /\ run.status \in {"PAUSED", "WAITING_APPROVAL"}
  /\ NotActiveInProcess(d)
  /\ Begin(d, TRUE)
  /\ UNCHANGED <<rowVars, controller, deciding, retrying, cancelling, seen>>

\* Mutant: whatever is not over can be paused.
PauseRunMutant ==
  /\ Request("pause")
  /\ run.status \notin TerminalRun
  /\ run' = Moved(run, "PAUSED")
  /\ UNCHANGED <<stepStatus, completedAt, approval, drv, controller, deciding, retrying,
                 cancelling, seen>>

PauseRun ==
  /\ Request("pause")
  /\ run.status = "RUNNING"
  /\ run' = Moved(run, "PAUSED")
  /\ UNCHANGED <<stepStatus, completedAt, approval, drv, controller, deciding, retrying,
                 cancelling, seen>>

CancelRun(i) ==
  /\ Request("cancel")
  /\ run.status \notin TerminalRun
  /\ run' = Moved(run, "CANCELLED")
  /\ cancelling' = cancelling \union {i}
  /\ UNCHANGED <<stepStatus, completedAt, approval, drv, controller, deciding, retrying, seen>>

\* Aborting a controller reaches the executors that are running: each holds a
\* timeout signal that listens to it.  A signal made after the abort does not.
Aborted(state) ==
  [state EXCEPT !.aborted = TRUE,
                !.work = [s \in Step |-> IF @[s] = "exec" /\ s \notin ApprovalStep
                                         THEN "hit" ELSE @[s]]]

AbortedIn(i) ==
  [d \in Driver |-> IF d = controller[i] THEN Aborted(drv[d]) ELSE drv[d]]

CancelInProcess(i) ==
  /\ i \in cancelling
  /\ cancelling' = cancelling \ {i}
  /\ drv' = AbortedIn(i)
  /\ UNCHANGED <<rowVars, controller, deciding, retrying, seen, budget>>

\* The client of a stream hangs up: its abort listener fires once, and aborts
\* whichever driver of the run is registered in the process.
Disconnect(d) ==
  /\ Request("disconnect")
  /\ drv[d].pc # "off"
  /\ drv[d].streaming
  /\ drv' = [AbortedIn(Home[d]) EXCEPT ![d] = [@ EXCEPT !.streaming = FALSE]]
  /\ UNCHANGED <<rowVars, controller, deciding, retrying, cancelling, seen>>

\* Mutant: every step is reset, the succeeded ones too.
RetryResetMutant ==
  /\ Request("retry")
  /\ run.status = "FAILED"
  /\ stepStatus' = [s \in Step |-> "PENDING"]
  /\ retrying' = retrying \union {run.version}
  /\ UNCHANGED <<run, completedAt, approval, drv, controller, deciding, cancelling, seen>>

RetryReset ==
  /\ Request("retry")
  /\ run.status = "FAILED"
  /\ stepStatus' = [s \in Step |-> IF stepStatus[s] = "FAILED" THEN "PENDING"
                                   ELSE stepStatus[s]]
  /\ retrying' = retrying \union {run.version}
  /\ UNCHANGED <<run, completedAt, approval, drv, controller, deciding, cancelling, seen>>

RetryRelease(d) ==
  \E v \in retrying :
    /\ retrying' = retrying \ {v}
    /\ IF v = run.version
         THEN /\ run' = Moved(run, "PAUSED")
              /\ IF Inline THEN Begin(d, FALSE) ELSE UNCHANGED drv
         ELSE UNCHANGED <<run, drv>>
    /\ UNCHANGED <<stepStatus, completedAt, approval, controller, deciding, cancelling, seen,
                   budget>>

Verdict == [approve |-> "APPROVED", reject |-> "REJECTED"]

DecideCheck(s) ==
  \E kind \in DOMAIN Verdict, n \in DOMAIN approval[s] :
    /\ Request(kind)
    /\ approval[s][n] = "PENDING"
    /\ deciding' = deciding \union {<<s, n, Verdict[kind]>>}
    /\ UNCHANGED <<rowVars, drv, controller, retrying, cancelling, seen>>

\* decide() updates the row unconditionally; the run is then driven again
\* whatever its status.
DecideApproval(d) ==
  \E r \in deciding :
    /\ deciding' = deciding \ {r}
    /\ approval' = [approval EXCEPT ![r[1]][r[2]] = r[3]]
    /\ seen' = IF r[3] = "APPROVED" THEN seen \union {<<"approved", r[1]>>} ELSE seen
    /\ IF Inline THEN Begin(d, FALSE) ELSE UNCHANGED drv
    /\ UNCHANGED <<run, stepStatus, completedAt, controller, retrying, cancelling, budget>>

-----------------------------------------------------------------------------
(* executeRun up to the scheduler's loop.                                   *)

At(d, pc) == drv[d].pc = pc

Goto(d, pc) == Become(d, [drv[d] EXCEPT !.pc = pc])

\* Leaving executeRun, by return or by an exception, empties the process's
\* slot for this run, also when another driver has taken it over.
Leave(d) ==
  /\ Become(d, Idle)
  /\ controller' = [controller EXCEPT ![Home[d]] = NoDriver]

\* The published version is loaded first; only then is the controller set.
Register(d) ==
  /\ At(d, "load")
  /\ controller' = [controller EXCEPT ![Home[d]] = d]
  /\ Goto(d, "find")
  /\ UNCHANGED <<rowVars, requestVars, seen>>

FindRun(d) ==
  /\ At(d, "find")
  /\ Become(d, [drv[d] EXCEPT !.copy = run,
                              !.pc = IF run.status \in {"PENDING", "PAUSED", "WAITING_APPROVAL"}
                                      THEN "claim" ELSE "list"])
  /\ UNCHANGED <<rowVars, controller, requestVars, seen>>

ClaimRun(d) ==
  /\ At(d, "claim")
  /\ \/ /\ Current(drv[d].copy)
        /\ run' = Moved(run, "RUNNING")
        /\ Goto(d, "claimed")
        /\ UNCHANGED controller
     \/ /\ ~Current(drv[d].copy)
        /\ Leave(d)
        /\ UNCHANGED run
  /\ UNCHANGED <<stepStatus, completedAt, approval, requestVars, seen>>

\* updateWithVersion returns the row as a second query finds it, which may
\* already be a later writer's.
Reload(d) ==
  /\ drv[d].pc \in {"claimed", "merged"}
  /\ Become(d, [drv[d] EXCEPT !.copy = run,
                              !.pc = IF @ = "claimed" THEN "list" ELSE "merge"])
  /\ UNCHANGED <<rowVars, controller, requestVars, seen>>

ListSteps(d) ==
  /\ At(d, "list")
  /\ Become(d, [drv[d] EXCEPT !.view = stepStatus,
                              !.todo = {s \in Step : stepStatus[s] = "WAITING_APPROVAL"},
                              !.pc = "reconcile"])
  /\ UNCHANGED <<rowVars, controller, requestVars, seen>>

Wave(steps) ==
  [s \in Step |-> IF s \in steps THEN "mark" ELSE "none"]

\* Parked approvals are re-entered one at a time, then the loop begins.
Reconcile(d) ==
  /\ At(d, "reconcile")
  /\ \/ /\ drv[d].todo = {}
        /\ Goto(d, "loop")
     \/ \E s \in drv[d].todo :
          Become(d, [drv[d] EXCEPT !.todo = @ \ {s},
                                   !.work = Wave({s}),
                                   !.attempt[s] = 0,
                                   !.pc = "wave"])
  /\ UNCHANGED <<rowVars, controller, requestVars, seen>>

-----------------------------------------------------------------------------
(* runStepWithRetry: the generator of one step.                             *)

Working(d, s, states) == drv[d].pc = "wave" /\ drv[d].work[s] \in states

Turn(d, s, work) == Become(d, [drv[d] EXCEPT !.work[s] = work])

BeginAttempt(d, s) ==
  /\ Working(d, s, {"mark"})
  /\ stepStatus' = [stepStatus EXCEPT ![s] = IF drv[d].attempt[s] = 0 THEN "RUNNING"
                                             ELSE "RETRYING"]
  /\ Become(d, [drv[d] EXCEPT !.work[s] = "exec", !.attempt[s] = @ + 1])
  /\ UNCHANGED <<run, completedAt, approval, controller, requestVars, seen>>

\* Stamped by a clock that had not got past the stamp of what the step depends on.
Behind(s, now) == \E t \in DependsOn[s] : now <= completedAt[t]

\* The wall clocks of two processes differ, one may be set back, and two steps may
\* complete in the same millisecond: the reading is any.
StepSucceeds(d, s) ==
  \E now \in Clock :
    /\ stepStatus' = [stepStatus EXCEPT ![s] = "SUCCEEDED"]
    /\ completedAt' = [completedAt EXCEPT ![s] = now]
    /\ seen' = seen \union {<<"succeeded", s>>}
                   \union (IF Behind(s, now) THEN {<<"behind", s>>} ELSE {})
    /\ Turn(d, s, "save")

\* Mutant: one attempt too many.
StepErrsMutant(d, s) ==
  /\ IF drv[d].attempt[s] <= MaxAttempts
       THEN /\ Turn(d, s, "mark")
            /\ UNCHANGED stepStatus
       ELSE /\ Turn(d, s, "failed")
            /\ stepStatus' = [stepStatus EXCEPT ![s] = "FAILED"]
  /\ UNCHANGED <<completedAt, seen>>

\* An error is retried while attempts remain, then the step is FAILED.
StepErrs(d, s) ==
  /\ IF drv[d].attempt[s] < MaxAttempts
       THEN /\ Turn(d, s, "mark")
            /\ UNCHANGED stepStatus
       ELSE /\ Turn(d, s, "failed")
            /\ stepStatus' = [stepStatus EXCEPT ![s] = "FAILED"]
  /\ UNCHANGED <<completedAt, seen>>

ExecuteSucceeds(d, s) ==
  /\ s \notin ApprovalStep
  /\ Working(d, s, {"exec", "hit"})
  /\ StepSucceeds(d, s)
  /\ UNCHANGED <<run, approval, controller, requestVars>>

\* The executor throws, times out, or reports the abort as a plain error.
ExecuteErrs(d, s) ==
  /\ s \notin ApprovalStep
  /\ Working(d, s, {"exec", "hit"})
  /\ StepErrs(d, s)
  /\ UNCHANGED <<run, approval, controller, requestVars>>

ExecuteAborts(d, s) ==
  /\ Working(d, s, {"hit"})
  /\ stepStatus' = [stepStatus EXCEPT ![s] = "CANCELLED"]
  /\ Turn(d, s, "cancelled")
  /\ UNCHANGED <<run, completedAt, approval, controller, requestVars, seen>>

\* ApprovalStepExecutor: some row of the step decides, if there is one.
ConsultApproval(d, s) ==
  /\ s \in ApprovalStep
  /\ Working(d, s, {"exec"})
  /\ \/ /\ approval[s] = <<>>
        /\ Turn(d, s, "ask")
        /\ UNCHANGED <<stepStatus, completedAt, seen>>
     \/ \E n \in DOMAIN approval[s] :
          \/ /\ approval[s][n] = "PENDING"
             /\ Turn(d, s, "park")
             /\ UNCHANGED <<stepStatus, completedAt, seen>>
          \/ approval[s][n] = "APPROVED" /\ StepSucceeds(d, s)
          \/ approval[s][n] = "REJECTED" /\ StepErrs(d, s)
  /\ UNCHANGED <<run, approval, controller, requestVars>>

\* The checkpoint and the log entry of a success are created in the same try.
SaveStep(d, s) ==
  /\ Working(d, s, {"save"})
  /\ Turn(d, s, "succeeded")
  /\ UNCHANGED <<rowVars, controller, requestVars, seen>>

AskApproval(d, s) ==
  /\ Working(d, s, {"ask"})
  /\ approval' = [approval EXCEPT ![s] = Append(@, "PENDING")]
  /\ Turn(d, s, "park")
  /\ UNCHANGED <<run, stepStatus, completedAt, controller, requestVars, seen>>

ParkStep(d, s) ==
  /\ Working(d, s, {"park"})
  /\ stepStatus' = [stepStatus EXCEPT ![s] = "WAITING_APPROVAL"]
  /\ Turn(d, s, "waiting")
  /\ UNCHANGED <<run, completedAt, approval, controller, requestVars, seen>>

\* A database call within the try fails: the approval's executor, the parking, or what
\* follows the SUCCEEDED write, which is an error of the step like any other.
CallFails(d, s) ==
  /\ Working(d, s, {"ask", "park", "save"} \union (IF s \in ApprovalStep THEN {"exec"} ELSE {}))
  /\ budget.faults < MaxFaults
  /\ budget' = [budget EXCEPT !.faults = @ + 1]
  /\ StepErrs(d, s)
  /\ UNCHANGED <<run, approval, controller, deciding, retrying, cancelling>>

-----------------------------------------------------------------------------
(* Gathering the outcomes: statusByStepId, mergeContext.                    *)

\* Mutant: a parked approval is taken for a finished step.
RecordedMutant == [succeeded |-> "SUCCEEDED", failed |-> "FAILED", cancelled |-> "CANCELLED",
                   waiting |-> "SUCCEEDED"]

Recorded == [succeeded |-> "SUCCEEDED", failed |-> "FAILED", cancelled |-> "CANCELLED",
             waiting |-> "WAITING_APPROVAL"]

EndWave(d) ==
  /\ At(d, "wave")
  /\ \A s \in Step : drv[d].work[s] \in Outcome \union {"none"}
  /\ Become(d, [drv[d] EXCEPT !.view = [s \in Step |-> IF drv[d].work[s] = "none"
                                      THEN drv[d].view[s] ELSE Recorded[drv[d].work[s]]],
                              !.pc = "merge"])
  /\ UNCHANGED <<rowVars, controller, requestVars, seen>>

\* Mutant: the new output replaces the context.
MergedMutant(row, s) == [run EXCEPT !.context = {s}, !.version = @ + 1]

Merged(row, s) == [run EXCEPT !.context = row.context \union {s}, !.version = @ + 1]

\* A first conflict is retried on a fresh copy.
MergeOutput(d) ==
  /\ At(d, "merge")
  /\ \E s \in Step :
       /\ drv[d].work[s] = "succeeded"
       /\ IF Current(drv[d].copy)
            THEN /\ run' = Merged(drv[d].copy, s)
                 /\ Become(d, [drv[d] EXCEPT !.work[s] = "none", !.pc = "merged"])
            ELSE /\ Become(d, [drv[d] EXCEPT !.work[s] = "merging", !.pc = "reread"])
                 /\ UNCHANGED run
  /\ UNCHANGED <<stepStatus, completedAt, approval, controller, requestVars, seen>>

RereadRun(d) ==
  /\ At(d, "reread")
  /\ Become(d, [drv[d] EXCEPT !.copy = run, !.pc = "remerge"])
  /\ UNCHANGED <<rowVars, controller, requestVars, seen>>

\* The outputs in d's hands, or thrown away to be made again while the row says
\* SUCCEEDED; and those of hands that are gone.
Unmerged(d) ==
  {s \in Step : \/ drv[d].work[s] \in {"save", "succeeded", "merging"}
                \/ drv[d].work[s] = "mark" /\ stepStatus[s] = "SUCCEEDED"}
Drop(drivers) == seen' = seen \union ({"dropped"} \X UNION {Unmerged(d) : d \in drivers})

\* A second conflict escapes executeRun.
RemergeOutput(d) ==
  /\ At(d, "remerge")
  /\ \E s \in Step :
       /\ drv[d].work[s] = "merging"
       /\ IF Current(drv[d].copy)
            THEN /\ run' = Merged(drv[d].copy, s)
                 /\ Become(d, [drv[d] EXCEPT !.work[s] = "none", !.pc = "merged"])
                 /\ UNCHANGED <<controller, seen>>
            ELSE Leave(d) /\ Drop({d}) /\ UNCHANGED run
  /\ UNCHANGED <<stepStatus, completedAt, approval, requestVars>>

\* Every output merged: a failure ends the run, anything else goes on.
AfterWave(d) ==
  /\ At(d, "merge")
  /\ \A s \in Step : drv[d].work[s] # "succeeded"
  /\ Become(d, [drv[d] EXCEPT !.work = Wave({}),
                              !.pc = IF \E s \in Step : drv[d].work[s] = "failed"
                                      THEN "rollback" ELSE "reconcile"])
  /\ UNCHANGED <<rowVars, controller, requestVars, seen>>

-----------------------------------------------------------------------------
(* runLoop.                                                                 *)

\* Mutants: a dependency in any state but PENDING will do; what failed is not
\* taken up again; what waits for an approval is polled.
ReadyMutant(view) ==
  {s \in Step : /\ view[s] \in {"PENDING", "FAILED"}
                /\ \A t \in DependsOn[s] : view[t] # "PENDING"}

ReadyWithoutFailed(view) ==
  {s \in Step : /\ view[s] = "PENDING"
                /\ \A t \in DependsOn[s] : view[t] \in SatisfiedStep}

ReadyWithWaiting(view) ==
  {s \in Step : /\ view[s] \in {"PENDING", "FAILED", "WAITING_APPROVAL"}
                /\ \A t \in DependsOn[s] : view[t] \in SatisfiedStep}

Ready(view) ==
  {s \in Step : /\ view[s] \in {"PENDING", "FAILED"}
                /\ \A t \in DependsOn[s] : view[t] \in SatisfiedStep}

\* What the loop does next, decided on the driver's private map of statuses.
Course(state) ==
  IF state.aborted THEN "cancel"
  ELSE IF \A s \in Step : state.view[s] \in TerminalStep THEN "complete"
  ELSE IF Ready(state.view) # {} THEN "wave"
  ELSE IF \E s \in Step : state.view[s] = "WAITING_APPROVAL" THEN "park"
  ELSE "stuck"

\* Each iteration begins with a read of the row, whose status can stop it.
Stopped == run.status \in {"CANCELLED", "PAUSED"}

StopLoop(d) ==
  /\ At(d, "loop")
  /\ Stopped
  /\ Leave(d)
  /\ UNCHANGED <<rowVars, requestVars, seen>>

Conclude(d) ==
  /\ At(d, "loop")
  /\ ~Stopped
  /\ Course(drv[d]) # "wave"
  /\ Become(d, [drv[d] EXCEPT !.copy = run, !.pc = Course(drv[d])])
  /\ UNCHANGED <<rowVars, controller, requestVars, seen>>

\* The ready steps whose condition is false are skipped, the others make up a
\* wave; if none is left the loop goes round again.
Skipping(map, skipped) == [s \in Step |-> IF s \in skipped THEN "SKIPPED" ELSE map[s]]

StartWave(d) ==
  /\ At(d, "loop")
  /\ ~Stopped
  /\ Course(drv[d]) = "wave"
  /\ LET ready == Ready(drv[d].view) IN
     \E skipped \in SUBSET (ready \intersect ConditionalStep) :
       /\ stepStatus' = Skipping(stepStatus, skipped)
       /\ seen' = seen \union ({"skipped"} \X skipped)
       /\ Become(d, [drv[d] EXCEPT !.copy = run,
                                   !.view = Skipping(@, skipped),
                                   !.work = Wave(ready \ skipped),
                                   !.attempt = [s \in Step |-> 0],
                                   !.pc = IF skipped = ready THEN "loop" ELSE "wave"])
  /\ UNCHANGED <<run, completedAt, approval, controller, requestVars>>

\* No step is ready, none waits, and the run is not complete: a warning is
\* logged and the run is left as it is.
GiveUp(d) ==
  /\ At(d, "stuck")
  /\ Leave(d)
  /\ UNCHANGED <<rowVars, requestVars, seen>>

\* Mutant: every compensation is run, whatever became of the step.
ListSucceededMutant(d) ==
  /\ At(d, "rollback")
  /\ Become(d, [drv[d] EXCEPT !.todo = CompensatedStep, !.pc = "undo"])
  /\ UNCHANGED <<rowVars, controller, requestVars, seen>>

\* failRun first rolls back what has succeeded, the latest first, whether or
\* not a compensation works...
ListSucceeded(d) ==
  /\ At(d, "rollback")
  /\ Become(d, [drv[d] EXCEPT !.todo = {s \in CompensatedStep : stepStatus[s] = "SUCCEEDED"},
                              !.pc = "undo"])
  /\ UNCHANGED <<rowVars, controller, requestVars, seen>>

\* Mutant: the oldest first.
LatestMutant(steps) ==
  {s \in steps : \A t \in steps : completedAt[t] >= completedAt[s]}

\* Array.sort by completedAt; which of two equal stamps comes first is left open.
Latest(steps) ==
  {s \in steps : \A t \in steps : completedAt[t] <= completedAt[s]}

Compensate(d) ==
  /\ At(d, "undo")
  /\ \/ /\ drv[d].todo = {}
        /\ Goto(d, "fail")
        /\ UNCHANGED seen
     \/ \E s \in Latest(drv[d].todo) :
          /\ Become(d, [drv[d] EXCEPT !.todo = @ \ {s}])
          /\ \/ seen' = seen \union {<<"compensated", s>>}
             \/ UNCHANGED seen
  /\ UNCHANGED <<rowVars, controller, requestVars>>

\* ...and then writes its verdict, as every way out of the loop does, at the
\* version of the copy the decision was made on; a conflict escapes.
Verdicts == [cancel |-> "CANCELLED", complete |-> "SUCCEEDED", park |-> "WAITING_APPROVAL",
             fail |-> "FAILED"]

Settle(d) ==
  /\ drv[d].pc \in DOMAIN Verdicts
  /\ run' = IF Current(drv[d].copy) THEN Moved(run, Verdicts[drv[d].pc]) ELSE run
  /\ Leave(d)
  /\ UNCHANGED <<stepStatus, completedAt, approval, requestVars, seen>>

-----------------------------------------------------------------------------
(* A process dies: its drivers, its controllers and its requests with it.   *)

Crash(i) ==
  /\ budget.crashes < MaxCrashes
  /\ budget' = [budget EXCEPT !.crashes = @ + 1]
  /\ drv' = [d \in Driver |-> IF Home[d] = i THEN Idle ELSE drv[d]]
  /\ controller' = [controller EXCEPT ![i] = NoDriver]
  /\ cancelling' = cancelling \ {i}
  /\ retrying' \in SUBSET retrying
  /\ deciding' \in SUBSET deciding
  /\ Drop({d \in Driver : Home[d] = i})
  /\ UNCHANGED rowVars

-----------------------------------------------------------------------------
StepWork(d, s) ==
  \/ BeginAttempt(d, s)
  \/ ExecuteSucceeds(d, s)
  \/ ExecuteErrs(d, s)
  \/ ExecuteAborts(d, s)
  \/ ConsultApproval(d, s)
  \/ SaveStep(d, s)
  \/ AskApproval(d, s)
  \/ ParkStep(d, s)
  \/ CallFails(d, s)

Drive(d) ==
  \/ Register(d)
  \/ FindRun(d)
  \/ ClaimRun(d)
  \/ Reload(d)
  \/ ListSteps(d)
  \/ Reconcile(d)
  \/ \E s \in Step : StepWork(d, s)
  \/ EndWave(d)
  \/ MergeOutput(d)
  \/ RereadRun(d)
  \/ RemergeOutput(d)
  \/ AfterWave(d)
  \/ StopLoop(d)
  \/ Conclude(d)
  \/ StartWave(d)
  \/ GiveUp(d)
  \/ ListSucceeded(d)
  \/ Compensate(d)
  \/ Settle(d)

Handler ==
  \/ \E i \in Instance : CancelInProcess(i)
  \/ \E d \in Driver : RetryRelease(d) \/ DecideApproval(d)

User ==
  \/ \E d \in Driver : \/ RunWorkflow(d) \/ ResumeRun(d)
                       \/ RunWorkflowStream(d) \/ ResumeRunStream(d)
                       \/ Disconnect(d)
  \/ PauseRun
  \/ \E i \in Instance : CancelRun(i)
  \/ RetryReset
  \/ \E s \in ApprovalStep : DecideCheck(s)

Next ==
  \/ \E d \in Driver : Drive(d)
  \/ Handler
  \/ User
  \/ \E i \in Instance : Crash(i)

Spec == Init /\ [][Next]_vars

\* A driver whose process lives keeps running: database calls return, and a
\* step ends or its timeout fires.  Users owe nothing.
Fairness ==
  /\ \A d \in Driver : WF_vars(Drive(d))
  /\ WF_vars(Handler)

FairSpec == Spec /\ Fairness

-----------------------------------------------------------------------------
(* Properties.                                                              *)

LocalState ==
  [pc : Pc, copy : RunRow, view : [Step -> StepStatus], work : [Step -> Work],
   attempt : [Step -> 0..MaxAttempts], todo : SUBSET Step, aborted : BOOLEAN,
   streaming : BOOLEAN]

\* A step about to begin an attempt has one left.
DriverState ==
  {state \in LocalState :
     \A s \in Step : state.work[s] = "mark" => state.attempt[s] < MaxAttempts}

\* Every variable holds a value of its type; no step is tried more than MaxAttempts times.
TypeOK ==
  /\ run \in RunRow
  /\ stepStatus \in [Step -> StepStatus]
  /\ completedAt \in [Step -> Nat]
  /\ approval \in [ApprovalStep -> Seq(ApprovalStatus)]
  /\ drv \in [Driver -> DriverState]
  /\ controller \in [Instance -> Driver \union {NoDriver}]
  /\ deciding \in SUBSET (ApprovalStep \X Nat \X {"APPROVED", "REJECTED"})
  /\ retrying \in SUBSET Nat
  /\ cancelling \in SUBSET Instance
  /\ seen \in SUBSET (Event \X Step)
  /\ budget \in [requests : Nat, crashes : Nat, faults : Nat]

\* The version identifies the state of the row: a copy whose version is the
\* row's is the row.  This is what lets updateWithVersion write a context
\* computed from a copy, and a verdict reached on one, without a lock.
CopiesAreCurrent ==
  \A d \in Driver : /\ drv[d].copy.version <= run.version
                    /\ Current(drv[d].copy) => drv[d].copy = run

\* No write ever drops an output that was merged into the run's context,
\* whatever pauses, cancels and other drivers write in between.
OutputsNeverLost == [][run.context \subseteq run'.context]_vars

Happened(event, s) == <<event, s>> \in seen

\* No step is started, skipped or finished before each step it depends on has
\* succeeded or been skipped, however stale the map its driver schedules from.
DependenciesRespected ==
  \A s \in Step : stepStatus[s] # "PENDING" =>
    \A t \in DependsOn[s] : Happened("succeeded", t) \/ Happened("skipped", t)

\* Nothing gets past an approval step nobody approved: neither the step
\* itself nor a step that depends on it, unless its condition skipped it.
ApprovalGate ==
  \A s \in ApprovalStep : ~Happened("approved", s) =>
    /\ stepStatus[s] # "SUCCEEDED"
    /\ ~Happened("skipped", s) =>
         \A t \in Step : s \in DependsOn[t] => stepStatus[t] = "PENDING"

\* A cancelled run is never resumed, paused, parked or completed, not even by
\* a driver that read the row before the cancellation.
CancelledNeverResumes ==
  [][run.status = "CANCELLED" => run'.status \in {"CANCELLED", "FAILED"}]_vars

\* The row never goes back to PENDING, and leaves it only by being claimed
\* once, or cancelled: a second driver's claim conflicts.
ClaimedOnce ==
  [][run'.status # run.status =>
       /\ run'.status # "PENDING"
       /\ run.status = "PENDING" => run'.status \in {"RUNNING", "CANCELLED"}]_vars

\* Only what has really succeeded is rolled back.
OnlySucceededIsCompensated ==
  \A s \in Step : Happened("compensated", s) => Happened("succeeded", s)

\* The steps that need nothing more: done, or aborted.
Over == {s \in Step : stepStatus[s] \in SatisfiedStep \union {"CANCELLED"}}

Succeeded == {s \in Step : stepStatus[s] = "SUCCEEDED"}
Dropped == {s \in Step : Happened("dropped", s)}

\* While one driver at a time drives the run: a run that is SUCCEEDED has every
\* step over, none of them failed, and every output but those that were dropped.
\* A step that was aborted before the run was paused counts as over.
CompletedRunIsWhole ==
  run.status = "SUCCEEDED" => Over = Step /\ run.context = Succeeded \ Dropped

\* While one driver at a time drives the run: a step is rolled back only when
\* everything that was built on it and can be rolled back has been visited, but
\* for steps that were stamped by a clock that was behind, or in the same millisecond.
RollbackInReverse ==
  \A d \in Driver : At(d, "undo") =>
    \A s \in drv[d].todo, t \in Step :
      (/\ t \in DependsOn[s] /\ t \in CompensatedStep
       /\ stepStatus[t] = "SUCCEEDED" /\ ~Happened("behind", s))
        => t \in drv[d].todo

\* The defensive branch of runLoop is dead code.
NeverDeadlocked == \A d \in Driver : ~At(d, "stuck")

AbortedStep == \E s \in Step : stepStatus[s] = "CANCELLED"

\* While one driver at a time drives the run and no process crashes: the defensive
\* branch is reached only when a step was aborted and the run went on, because a
\* pause was written before the abort was noticed.
OnlyAbortsDeadlock == ~AbortedStep => NeverDeadlocked

\* A cancelled run stays cancelled.
CancelledIsFinal == [][run.status = "CANCELLED" => run'.status = "CANCELLED"]_vars

\* What the run's row promises: see RunLifecycle.
Lifecycle == INSTANCE RunLifecycle WITH
  MayCrash <- MaxCrashes > 0,
  MayFail <- MaxFaults > 0,
  status <- run.status,
  done <- Over,
  succeeded <- Succeeded,
  outputs <- run.context,
  lost <- Dropped

\* While one driver at a time drives the run, the engine implements it.
LifecycleImplemented == Lifecycle!Spec

\* A run that is executing ends, pauses or parks, while no process crashes and no
\* step is aborted in a run that goes on.
RunSettles == run.status = "RUNNING" ~> run.status # "RUNNING" \/ AbortedStep

=============================================================================
