----------------------------- MODULE AgentApproval -----------------------------
(***************************************************************************)
(* The human approval of what an AI agent wants to do.                     *)
(*                                                                         *)
(* A run whose agent asks for a mutating tool is not given the tool: an    *)
(* approval is written, the loop returns, and the run's row is then set to *)
(* WAITING_APPROVAL.  Deciding an approval puts a job on a queue; the      *)
(* worker that takes it claims the run, executes the approved call and     *)
(* goes on with the agent's loop, which may ask again.  Workers may be     *)
(* slow, may die, and a job whose lock has expired is delivered again.     *)
(***************************************************************************)
EXTENDS Naturals

CONSTANTS
  Approval,         \* the agent_action_approvals rows this run may ever have
  Tool,             \* the mutating tools
  Executor,         \* what may execute the run: the request that began it, the workers
  NoApproval,       \* what the request works for
  Starter,          \* the executor of the request
  Nobody,           \* no executor holds the job's lock
  Modes,            \* how the run is started
  MaxRedeliveries,  \* bound: times a job is delivered again; 0 when no queue is configured
  MaxFaults         \* bound: executors that die, database or queue calls that fail

ASSUME ApprovalAssumption ==
  /\ NoApproval \notin Approval
  /\ Starter \in Executor
  /\ Nobody \notin Executor
  /\ Modes \subseteq {"loop", "plain"}
  /\ MaxRedeliveries \in Nat
  /\ MaxFaults \in Nat

VARIABLES
  run,        \* the status of the agent_runs row
  decision,   \* the status of each approval row
  tool,       \* the tool each approval is about
  decided,    \* decide() calls between markDecided and the enqueueing
  job,        \* the job of each approval
  redelivered,\* times each job has been delivered again
  exec,       \* the local state of each executor
  effects,    \* history: times the call of each approval was executed
  faults,     \* faults so far
  misreports  \* history: times a run whose row was already written was made FAILED

vars ==
  <<run, decision, tool, decided, job, redelivered, exec, effects, faults, misreports>>

RunStatus == {"RUNNING", "WAITING_APPROVAL", "SUCCEEDED", "FAILED", "TIMED_OUT"}
Ended == {"SUCCEEDED", "FAILED", "TIMED_OUT"}
ApprovalStatus == {"PENDING", "APPROVED", "REJECTED"}

\* A job waits, is locked by the worker that runs it, is done, or never was.
\* A dead worker's lock stays until it is found stalled.
JobState == [state : {"none", "waiting", "locked", "done"}, by : Executor \union {Nobody}]

Pc == {"idle", "plain", "loop", "park", "refuse", "report", "find", "claim", "act"}

\* The executors that drive the run: the others wait for a job or look at the row.
Driving == {"plain", "loop", "park", "refuse", "act"}

\* The executors that have yet to do what their job is for.
Resuming == {"find", "claim", "act"}

NoJob == [state |-> "none", by |-> Nobody]
Waiting == [state |-> "waiting", by |-> Nobody]
Done == [state |-> "done", by |-> Nobody]
Locked(e) == [state |-> "locked", by |-> e]

\* An executor works for an approval, or for the request alone.
Rest == [pc |-> "idle", for |-> NoApproval]

Init ==
  /\ run = "RUNNING"
  /\ decision = [n \in Approval |-> "none"]
  /\ tool \in [Approval -> Tool]
  /\ decided = {}
  /\ job = [n \in Approval |-> NoJob]
  /\ redelivered = [n \in Approval |-> 0]
  /\ \E mode \in Modes :
       exec = [e \in Executor |-> IF e = Starter THEN [Rest EXCEPT !.pc = mode] ELSE Rest]
  /\ effects = [n \in Approval |-> 0]
  /\ faults = 0
  /\ misreports = 0

-----------------------------------------------------------------------------
(* The agent's loop.                                                        *)

At(e, pc) == exec[e].pc = pc

Goto(e, pc) == exec' = [exec EXCEPT ![e].pc = pc]

\* An executor that returns completes its job, if it still holds the lock.
Return(e) ==
  /\ exec' = [exec EXCEPT ![e] = Rest]
  /\ job' = [n \in Approval |-> IF job[n] = Locked(e) THEN Done ELSE job[n]]

\* An approval that is still pending for the same tool is used again.
FindOrCreatePending(t) ==
  IF \E n \in Approval : decision[n] = "PENDING" /\ tool[n] = t
    THEN UNCHANGED decision
    ELSE \E n \in Approval :
           /\ decision[n] = "none"
           /\ tool[n] = t
           /\ decision' = [decision EXCEPT ![n] = "PENDING"]

\* ToolApprovalRequiredError: the autonomous loop pauses, a plain run fails.
AskForTool(e) ==
  /\ exec[e].pc \in {"loop", "plain"}
  /\ \E t \in Tool : FindOrCreatePending(t)
  /\ Goto(e, IF At(e, "loop") THEN "park" ELSE "refuse")
  /\ UNCHANGED <<run, tool, decided, job, redelivered, effects, faults, misreports>>

Fault ==
  /\ faults < MaxFaults
  /\ faults' = faults + 1

\* The approval is written, but not its audit entry: the autonomous loop takes
\* this for a failure of the tool and goes on.
AskFails(e) ==
  /\ exec[e].pc \in {"loop", "plain"}
  /\ Fault
  /\ \E t \in Tool : FindOrCreatePending(t)
  /\ Goto(e, IF At(e, "loop") THEN "loop" ELSE "refuse")
  /\ UNCHANGED <<run, tool, decided, job, redelivered, effects, misreports>>

\* The row gets its new status; what did not fail is then put into the audit log.
UpdateAgentRun(e, status) ==
  /\ run' = status
  /\ IF status \in {"WAITING_APPROVAL", "SUCCEEDED"}
       THEN Goto(e, "report") /\ UNCHANGED job
       ELSE Return(e)

\* Only now does the row say that the run waits.
Park(e) ==
  /\ At(e, "park")
  /\ UpdateAgentRun(e, "WAITING_APPROVAL")
  /\ UNCHANGED <<decision, tool, decided, redelivered, effects, faults, misreports>>

\* A step row or the usage summary cannot be written or read.
ParkFails(e) ==
  /\ At(e, "park")
  /\ Fault
  /\ UpdateAgentRun(e, "FAILED")
  /\ UNCHANGED <<decision, tool, decided, redelivered, effects, misreports>>

Refuse(e) ==
  /\ At(e, "refuse")
  /\ UpdateAgentRun(e, "FAILED")
  /\ UNCHANGED <<decision, tool, decided, redelivered, effects, faults, misreports>>

\* The final answer, an error, or an abort.
Finish(e) ==
  /\ exec[e].pc \in {"loop", "plain"}
  /\ \E status \in Ended : UpdateAgentRun(e, status)
  /\ UNCHANGED <<decision, tool, decided, redelivered, effects, faults, misreports>>

Report(e) ==
  /\ At(e, "report")
  /\ Return(e)
  /\ UNCHANGED <<run, decision, tool, decided, redelivered, effects, faults, misreports>>

\* The audit log is written inside the try block: its failure is taken for the
\* run's, whatever has become of the run since.
ReportFails(e) ==
  /\ At(e, "report")
  /\ Fault
  /\ misreports' = misreports + 1
  /\ UpdateAgentRun(e, "FAILED")
  /\ UNCHANGED <<decision, tool, decided, redelivered, effects>>

-----------------------------------------------------------------------------
(* Deciding, and the queue.                                                 *)

\* The update matches only a row that is PENDING.
MarkDecided(n) ==
  /\ decision[n] = "PENDING"
  /\ \E verdict \in {"APPROVED", "REJECTED"} : decision' = [decision EXCEPT ![n] = verdict]
  /\ decided' = decided \union {n}
  /\ UNCHANGED <<run, tool, job, redelivered, exec, effects, faults, misreports>>

EnqueueResume(n) ==
  /\ n \in decided
  /\ decided' = decided \ {n}
  /\ job' = [job EXCEPT ![n] = Waiting]
  /\ UNCHANGED <<run, decision, tool, redelivered, exec, effects, faults, misreports>>

\* A failure to enqueue is only logged; the deciding process may also die first.
EnqueueFails(n) ==
  /\ n \in decided
  /\ Fault
  /\ decided' = decided \ {n}
  /\ UNCHANGED <<run, decision, tool, job, redelivered, exec, effects, misreports>>

\* Mutant: the job does not say what it is for.
DeliverMutant(e, n) ==
  /\ At(e, "idle")
  /\ job[n] = Waiting
  /\ job' = [job EXCEPT ![n] = Locked(e)]
  /\ exec' = [exec EXCEPT ![e] = [pc |-> "find", for |-> NoApproval]]
  /\ UNCHANGED <<run, decision, tool, decided, redelivered, effects, faults, misreports>>

\* A job whose queue is missing is not put anywhere: resume is called at once.
Deliver(e, n) ==
  /\ At(e, "idle")
  /\ job[n] = Waiting
  /\ job' = [job EXCEPT ![n] = Locked(e)]
  /\ exec' = [exec EXCEPT ![e] = [pc |-> "find", for |-> n]]
  /\ UNCHANGED <<run, decision, tool, decided, redelivered, effects, faults, misreports>>

\* The lock expired: the worker that held it is dead, or merely slow.
Redeliver(n) ==
  /\ job[n].state = "locked"
  /\ redelivered[n] < MaxRedeliveries
  /\ redelivered' = [redelivered EXCEPT ![n] = @ + 1]
  /\ job' = [job EXCEPT ![n] = Waiting]
  /\ UNCHANGED <<run, decision, tool, decided, exec, effects, faults, misreports>>

-----------------------------------------------------------------------------
(* AgentRunResumeService.resume.                                            *)

FindRun(e) ==
  /\ At(e, "find")
  /\ IF run = "WAITING_APPROVAL" THEN Goto(e, "claim") /\ UNCHANGED job ELSE Return(e)
  /\ UNCHANGED <<run, decision, tool, decided, redelivered, effects, faults, misreports>>

\* Mutant: the claim does not look at the status again.
ClaimRunForResumeMutant(e) ==
  /\ At(e, "claim")
  /\ run' = "RUNNING"
  /\ Goto(e, "act")
  /\ UNCHANGED <<job, decision, tool, decided, redelivered, effects, faults, misreports>>

\* Mutant: the winner of the claim returns like the loser.
ClaimWithoutResuming(e) ==
  /\ At(e, "claim")
  /\ run' = "RUNNING"
  /\ Return(e)
  /\ UNCHANGED <<decision, tool, decided, redelivered, effects, faults, misreports>>

ClaimRunForResume(e) ==
  /\ At(e, "claim")
  /\ IF run = "WAITING_APPROVAL"
       THEN run' = "RUNNING" /\ Goto(e, "act") /\ UNCHANGED job
       ELSE Return(e) /\ UNCHANGED run
  /\ UNCHANGED <<decision, tool, decided, redelivered, effects, faults, misreports>>

\* Mutants: a rejected call is executed too; the call is made again when it failed.
ExecuteWhateverDecided(e) ==
  /\ At(e, "act")
  /\ \/ effects' = [effects EXCEPT ![exec[e].for] = @ + 1]
     \/ UNCHANGED effects
  /\ Goto(e, "loop")
  /\ UNCHANGED <<run, decision, tool, decided, job, redelivered, faults, misreports>>

ExecuteTwice(e) ==
  /\ At(e, "act")
  /\ \/ /\ decision[exec[e].for] = "APPROVED"
        /\ effects' = [effects EXCEPT ![exec[e].for] = @ + 2]
     \/ UNCHANGED effects
  /\ Goto(e, "loop")
  /\ UNCHANGED <<run, decision, tool, decided, job, redelivered, faults, misreports>>

\* The call of the approval the job names, which is not necessarily the one
\* the run is waiting for; a failing call is told to the agent.
ExecuteApprovedActionIfNeeded(e) ==
  /\ At(e, "act")
  /\ \/ /\ decision[exec[e].for] = "APPROVED"
        /\ effects' = [effects EXCEPT ![exec[e].for] = @ + 1]
     \/ UNCHANGED effects
  /\ Goto(e, "loop")
  /\ UNCHANGED <<run, decision, tool, decided, job, redelivered, faults, misreports>>

\* No conversation, no membership, no agent, or an exception: it is logged, and
\* the job is done.
ResumeFails(e) ==
  /\ exec[e].pc \in Resuming
  /\ Fault
  /\ Return(e)
  /\ UNCHANGED <<run, decision, tool, decided, redelivered, effects, misreports>>

\* A process dies.  With no queue the job dies with it.
Die(e) ==
  /\ ~At(e, "idle")
  /\ Fault
  /\ exec' = [exec EXCEPT ![e] = Rest]
  /\ UNCHANGED <<run, decision, tool, decided, job, redelivered, effects, misreports>>

-----------------------------------------------------------------------------
Execute(e) ==
  \/ AskForTool(e)
  \/ Park(e)
  \/ Refuse(e)
  \/ Finish(e)
  \/ Report(e)
  \/ FindRun(e)
  \/ ClaimRunForResume(e)
  \/ ExecuteApprovedActionIfNeeded(e)

Next ==
  \/ \E e \in Executor : \/ Execute(e)
                         \/ AskFails(e) \/ ParkFails(e) \/ ReportFails(e) \/ ResumeFails(e)
                         \/ Die(e)
  \/ \E n \in Approval : \/ MarkDecided(n) \/ EnqueueResume(n) \/ EnqueueFails(n)
                         \/ Redeliver(n)
                         \/ \E e \in Executor : Deliver(e, n)

Spec == Init /\ [][Next]_vars

\* A live executor keeps running, and the queue delivers; approvers owe nothing.
Fairness ==
  /\ \A e \in Executor : WF_vars(Execute(e))
  /\ \A n \in Approval : WF_vars(EnqueueResume(n) \/ \E e \in Executor : Deliver(e, n))

FairSpec == Spec /\ Fairness

-----------------------------------------------------------------------------
(* Properties.                                                              *)

Local == [pc : Pc, for : Approval \union {NoApproval}]

\* Every variable holds a value of its type, an executor that resumes the run
\* knows for which approval, and no bound is exceeded.
TypeOK ==
  /\ run \in RunStatus
  /\ decision \in [Approval -> ApprovalStatus \union {"none"}]
  /\ tool \in [Approval -> Tool]
  /\ decided \in SUBSET Approval
  /\ job \in [Approval -> JobState]
  /\ redelivered \in [Approval -> 0..MaxRedeliveries]
  /\ exec \in [Executor -> Local]
  /\ \A e \in Executor : exec[e].pc \in Resuming => exec[e].for \in Approval
  /\ effects \in [Approval -> Nat]
  /\ faults \in Nat
  /\ misreports \in Nat

\* One executor at a time drives the run, and no run that can be claimed is
\* driven, whatever is delivered again and whoever is slow or dead.  The row of
\* a run that is driven says RUNNING, but for a misreport.
OneDriver ==
  \A e \in Executor : exec[e].pc \in Driving =>
    /\ run = "RUNNING" \/ (run = "FAILED" /\ misreports > 0)
    /\ \A f \in Executor : exec[f].pc \in Driving => f = e

\* Nothing that was not approved is executed.
OnlyApprovedIsExecuted ==
  \A n \in Approval : effects[n] > 0 => decision[n] = "APPROVED"

\* A call is executed once more only if its job was delivered once more.
RepeatsAreRedeliveries ==
  \A n \in Approval : effects[n] <= 1 + redelivered[n]

\* A run that has ended is never touched again, no late job revives it: only a
\* failure to write the audit log of an executor that is done with it does.
EndIsFinal == [][(run \in Ended /\ misreports' = 0) => run' = run]_vars

\* Until a fault, a run that is RUNNING ends or waits for an approval.
RunProgresses ==
  (run = "RUNNING" /\ faults = 0) ~> (run # "RUNNING" \/ faults > 0)

\* The claim keeps an approved call from being executed twice.
ExecutedAtMostOnce == \A n \in Approval : effects[n] <= 1

\* A run that waits, waits for somebody's decision or for a job that is on its way.
WaitsForSomething ==
  run = "WAITING_APPROVAL" =>
    \E n \in Approval : \/ decision[n] = "PENDING"
                        \/ n \in decided
                        \/ job[n].state \in {"waiting", "locked"}

=============================================================================
