--------------------------- MODULE AgentCoordination ---------------------------
(***************************************************************************)
(* Agents that delegate to agents.                                         *)
(*                                                                         *)
(* Every agent's loop is an async generator.  A loop that delegates starts *)
(* a batch of tasks, each of which creates a child run and pulls the       *)
(* child's generator; the tasks of a batch are merged by racing their next *)
(* events.  Every event climbs through all the generators above it, so a   *)
(* generator that throws leaves its other children with one event under    *)
(* way that nobody will take: they drift to their next yield and stop.     *)
(***************************************************************************)
EXTENDS Naturals, FiniteSets

CONSTANTS
  MaxAgents,     \* ai.multiAgent.maxAgents
  MaxParallel,   \* ai.multiAgent.maxParallelExecutions
  MaxIterations, \* ai.agentLoop.maxIterations
  Shapes,        \* ai.multiAgent.maxDepth, and the bounds that go with each
  MaxRuns,       \* bound: the rows ever created
  MaxFaults      \* bound: the calls that fail

ASSUME CoordinationAssumption ==
  /\ {MaxAgents, MaxParallel, MaxIterations, MaxRuns} \subseteq Nat \ {0}
  /\ MaxFaults \in Nat
  /\ Shapes \subseteq [depth : Nat, targets : Nat \ {0}, resumes : Nat, runs : 1..MaxRuns]

\* depth: how deep agents may delegate; targets: of one decision; resumes: after
\* an approval; runs: the rows ever created.  The last three are bounds.
VARIABLES
  shape,   \* the deployment's limit and the bounds of this behaviour
  created, \* the number of agent_runs rows
  run,     \* each run: its row and the state of its generator
  task,    \* the delegations each run has under way
  count,   \* the agentCount of each CoordinationState
  resumes, \* runs resumed so far
  faults   \* faults so far

vars == <<shape, created, run, task, count, resumes, faults>>

Run == 1..MaxRuns
Slot == 1..MaxParallel

\* The CoordinationStates: the root's, and one for every resumption.
Budget == 0..shape.resumes

NoRun == 0
Root == 1

Ended == {"SUCCEEDED", "FAILED", "TIMED_OUT"}
RunStatus == {"none", "RUNNING", "WAITING_APPROVAL"} \union Ended

\* A generator is driven from above, drifts to its next yield, or is stopped.
Hold == {"driven", "drifting", "stopped"}

\* via: the generators that the events of this one climb through.
RunState == [parent : Run \union {NoRun}, depth : Nat, status : RunStatus, budget : Budget,
             via : SUBSET Run, left : 0..MaxIterations, more : 0..shape.targets, hold : Hold]

TaskAt == {"free", "lookup", "create", "announce", "child", "answered", "failed", "aborted",
           "done"}

Task == [at : TaskAt, child : Run \union {NoRun}, attempt : 0..1]

Free == [at |-> "free", child |-> NoRun, attempt |-> 0]
Lookup == [at |-> "lookup", child |-> NoRun, attempt |-> 0]
Settled == [at |-> "done", child |-> NoRun, attempt |-> 0]

NewRun(parent, depth, budget, via, hold) ==
  [parent |-> parent, depth |-> depth, status |-> "RUNNING", budget |-> budget, via |-> via,
   left |-> MaxIterations, more |-> 0, hold |-> hold]

Absent == [NewRun(NoRun, 0, 0, {}, "stopped") EXCEPT !.status = "none"]

Init ==
  /\ shape \in Shapes
  /\ created = 1
  /\ run = [r \in Run |-> IF r = Root THEN NewRun(NoRun, 0, 0, {}, "driven") ELSE Absent]
  /\ task = [r \in Run |-> [t \in Slot |-> Free]]
  /\ count = [b \in Budget |-> IF b = 0 THEN 1 ELSE 0]
  /\ resumes = 0
  /\ faults = 0

-----------------------------------------------------------------------------
(* Generators.                                                              *)

Smaller(m, n) == IF m < n THEN m ELSE n

\* The generator can still run, if only to its next yield.
Alive(r) == run[r].status = "RUNNING" /\ run[r].hold # "stopped"

Driven(r) == run[r].status = "RUNNING" /\ run[r].hold = "driven"

Looping(r) == \A t \in Slot : task[r][t].at = "free"

\* The batch of r is over: its tasks have all returned.
Returned(r) == ~Looping(r) /\ \A t \in Slot : task[r][t].at \in {"free", "done"}

\* r yields an event: a drifting generator, and those above it, have then
\* nobody who asks for another.
Yield(r) ==
  [q \in Run |-> IF Alive(r) /\ run[q].hold = "drifting" /\ q \in run[r].via \union {r}
                   THEN [run[q] EXCEPT !.hold = "stopped"] ELSE run[q]]

Outcome(status) ==
  CASE status \in {"SUCCEEDED", "WAITING_APPROVAL"} -> "answered"
    [] status = "FAILED" -> "failed"
    [] status = "TIMED_OUT" -> "aborted"

\* runAgent returns or throws: the row gets its status, the task that waits for
\* the run its outcome, and what the run had under way drifts.
End(r, status, tasks) ==
  /\ run' = [q \in Run |->
       IF q = r THEN [run[r] EXCEPT !.status = status]
       ELSE IF r \in run[q].via /\ Driven(q) THEN [run[q] EXCEPT !.hold = "drifting"]
       ELSE Yield(r)[q]]
  /\ task' = [q \in Run |-> [t \in Slot |->
       IF tasks[q][t].at = "child" /\ tasks[q][t].child = r
         THEN [tasks[q][t] EXCEPT !.at = Outcome(status)] ELSE tasks[q][t]]]

-----------------------------------------------------------------------------
(* Delegation.                                                              *)

\* Mutants: the depth of the parent is checked; the count is not.
CanSpawnBelow(r) ==
  /\ run[r].depth <= shape.depth
  /\ count[run[r].budget] < MaxAgents

CanSpawnUncounted(r) == run[r].depth + 1 <= shape.depth

\* assertCanSpawnAgent.
CanSpawn(r) ==
  /\ run[r].depth + 1 <= shape.depth
  /\ count[run[r].budget] < MaxAgents

\* Every task of a batch is validated before any of them does anything else.
\* Some may be refused for the deadline or the agent's permissions; which ones
\* of a batch does not matter.
StartBatch(r, n) ==
  \E admitted \in 0..n :
    /\ admitted > 0 => CanSpawn(r)
    /\ task' = [task EXCEPT ![r] = [t \in Slot |-> IF t <= admitted THEN Lookup
                                                   ELSE IF t <= n THEN Settled ELSE Free]]

\* Mutant: the iterations are not limited.
DelegateMutant(r) ==
  /\ Alive(r) /\ Looping(r) /\ CanSpawn(r)
  /\ \E k \in 1..shape.targets : LET n == Smaller(k, MaxParallel) IN
       /\ StartBatch(r, n)
       /\ run' = [run EXCEPT ![r].left = @ - 1, ![r].more = k - n]
  /\ UNCHANGED <<created, count, resumes, faults>>

\* A decision that could only be refused is left out, as are the calls of tools:
\* it tells the agent something and changes nothing.
Delegate(r) ==
  /\ Alive(r) /\ Looping(r) /\ CanSpawn(r)
  /\ run[r].left > 0
  /\ \E k \in 1..shape.targets : LET n == Smaller(k, MaxParallel) IN
       /\ StartBatch(r, n)
       /\ run' = [run EXCEPT ![r].left = @ - 1, ![r].more = k - n]
  /\ UNCHANGED <<created, count, resumes, faults>>

NextBatch(r) ==
  /\ Alive(r) /\ Returned(r)
  /\ run[r].more > 0
  /\ LET n == Smaller(run[r].more, MaxParallel) IN
       /\ StartBatch(r, n)
       /\ run' = [run EXCEPT ![r].more = @ - n]
  /\ UNCHANGED <<created, count, resumes, faults>>

\* Mutant: the merge ends with the first task that does.
EndBatchMutant(r) ==
  /\ Alive(r)
  /\ \E t \in Slot : task[r][t].at = "done"
  /\ run[r].more = 0
  /\ task' = [task EXCEPT ![r] = [t \in Slot |-> Free]]
  /\ run' = Yield(r)
  /\ UNCHANGED <<created, count, resumes, faults>>

EndBatch(r) ==
  /\ Alive(r) /\ Returned(r)
  /\ run[r].more = 0
  /\ task' = [task EXCEPT ![r] = [t \in Slot |-> Free]]
  /\ run' = Yield(r)
  /\ UNCHANGED <<created, count, resumes, faults>>

\* The loop ends by itself: an answer, an approval to wait for, an error, an
\* abort or its own time limit.
Finish(r) ==
  /\ Alive(r) /\ Looping(r)
  /\ \E status \in Ended \union {"WAITING_APPROVAL"} : End(r, status, task)
  /\ UNCHANGED <<created, count, resumes, faults>>

\* A drifting loop comes to a yield.
Drift(r) ==
  /\ Alive(r) /\ run[r].hold = "drifting" /\ Looping(r)
  /\ run' = Yield(r)
  /\ UNCHANGED <<created, task, count, resumes, faults>>

\* Mutant: the agent is registered when its run is announced, if it ever is.
FindAgentMutant(r, t) ==
  /\ task[r][t].at = "lookup"
  /\ \/ task' = [task EXCEPT ![r][t] = Settled]
     \/ task' = [task EXCEPT ![r][t].at = "create"]
  /\ UNCHANGED <<created, run, count, resumes, faults>>

FindAgent(r, t) ==
  /\ task[r][t].at = "lookup"
  /\ \/ task' = [task EXCEPT ![r][t] = Settled] /\ UNCHANGED count
     \/ /\ task' = [task EXCEPT ![r][t].at = "create"]
        /\ count' = [count EXCEPT ![run[r].budget] = @ + 1]
  /\ UNCHANGED <<created, run, resumes, faults>>

\* The row says RUNNING before the child's generator is asked for anything.
CreateAgentRun(r, t) ==
  /\ task[r][t].at = "create"
  /\ created < shape.runs
  /\ created' = created + 1
  /\ run' = [run EXCEPT ![created + 1] =
       NewRun(r, run[r].depth + 1, run[r].budget, run[r].via \union {r}, "stopped")]
  /\ task' = [task EXCEPT ![r][t].at = "announce", ![r][t].child = created + 1]
  /\ UNCHANGED <<count, resumes, faults>>

\* agent_spawned is yielded; whoever drives r then starts the child.
Announce(r, t) ==
  /\ task[r][t].at = "announce"
  /\ task' = [task EXCEPT ![r][t].at = "child"]
  /\ run' = IF Driven(r) THEN [run EXCEPT ![task[r][t].child].hold = "driven"] ELSE Yield(r)
  /\ UNCHANGED <<created, count, resumes, faults>>

Collect(r, t) ==
  /\ Alive(r)
  /\ task[r][t].at = "answered"
  /\ task' = [task EXCEPT ![r][t] = Settled]
  /\ run' = Yield(r)
  /\ UNCHANGED <<created, count, resumes, faults>>

\* A failed child is replaced once, if it may still be.
Retry(r, t) ==
  /\ Alive(r)
  /\ task[r][t].at = "failed" /\ task[r][t].attempt = 0
  /\ \/ CanSpawn(r) /\ task' = [task EXCEPT ![r][t] = [Lookup EXCEPT !.attempt = 1]]
     \/ task' = [task EXCEPT ![r][t] = Settled]
  /\ UNCHANGED <<created, run, count, resumes, faults>>

\* Mutant: one attempt too many is counted.
GiveUpMutant(r, t) ==
  /\ Alive(r)
  /\ task[r][t].at = "failed" /\ task[r][t].attempt = 2
  /\ task' = [task EXCEPT ![r][t] = Settled]
  /\ UNCHANGED <<created, run, count, resumes, faults>>

GiveUp(r, t) ==
  /\ Alive(r)
  /\ task[r][t].at = "failed" /\ task[r][t].attempt = 1
  /\ task' = [task EXCEPT ![r][t] = Settled]
  /\ UNCHANGED <<created, run, count, resumes, faults>>

\* An abort, the child's own time limit included, goes through the parent.
Propagate(r, t) ==
  /\ Alive(r)
  /\ task[r][t].at = "aborted"
  /\ End(r, "TIMED_OUT", [task EXCEPT ![r][t] = Settled])
  /\ UNCHANGED <<created, count, resumes, faults>>

\* A database call of a task fails, and with it the agent that delegates.
TaskFails(r, t) ==
  /\ Alive(r)
  /\ task[r][t].at \in {"lookup", "create", "announce", "answered", "failed"}
  /\ faults < MaxFaults
  /\ faults' = faults + 1
  /\ End(r, "FAILED", [task EXCEPT ![r][t] = Settled])
  /\ UNCHANGED <<created, count, resumes>>

\* A run that waited is resumed, on its own and with a new CoordinationState.
Resume(r) ==
  /\ run[r].status = "WAITING_APPROVAL"
  /\ resumes < shape.resumes
  /\ resumes' = resumes + 1
  /\ count' = [count EXCEPT ![resumes + 1] = 1]
  /\ run' = [run EXCEPT ![r] = NewRun(@.parent, @.depth, resumes + 1, {}, "driven")]
  /\ UNCHANGED <<created, task, faults>>

-----------------------------------------------------------------------------
Delegation(r, t) ==
  \/ FindAgent(r, t)
  \/ CreateAgentRun(r, t)
  \/ Announce(r, t)
  \/ Collect(r, t)
  \/ Retry(r, t)
  \/ GiveUp(r, t)
  \/ Propagate(r, t)

Step(r) ==
  /\ \/ Delegate(r)
     \/ NextBatch(r)
     \/ EndBatch(r)
     \/ Finish(r)
     \/ Drift(r)
     \/ \E t \in Slot : Delegation(r, t)
  /\ UNCHANGED shape

Next ==
  \E r \in Run : \/ Step(r)
                 \/ Resume(r) /\ UNCHANGED shape
                 \/ \E t \in Slot : TaskFails(r, t) /\ UNCHANGED shape

Spec == Init /\ [][Next]_vars

\* Every call that a generator awaits is answered; approvers owe nothing.
Fairness == \A r \in Run : WF_vars(Step(r))

FairSpec == Spec /\ Fairness

-----------------------------------------------------------------------------
(* Properties.                                                              *)

\* Every variable holds a value of its type.
TypeOK ==
  /\ shape \in Shapes
  /\ created \in Run
  /\ run \in [Run -> RunState]
  /\ \A r \in Run : run[r].status = "none" <=> r > created
  /\ task \in [Run -> [Slot -> Task]]
  /\ count \in [Budget -> Nat]
  /\ resumes \in 0..shape.resumes
  /\ faults \in 0..MaxFaults

\* The runs form a tree no deeper than maxDepth.
DepthBounded ==
  \A r \in 2..created :
    /\ run[r].parent < r
    /\ run[r].depth = run[run[r].parent].depth + 1
    /\ run[r].depth <= shape.depth

\* Whatever is spawned was charged to its CoordinationState first.
Charged ==
  \A b \in Budget : b <= resumes =>
    Cardinality({r \in 1..created : run[r].budget = b})
      + Cardinality({p \in (1..created) \X Slot :
                       run[p[1]].budget = b /\ task[p[1]][p[2]].at = "create"})
    <= count[b]

\* The paths of slots from the root down to the deepest agents.
Path == [1..shape.depth -> Slot]

\* The checks precede the registrations: a tree outgrows its limit by the tasks
\* that may be between the two when one agent was left, and by no more.  That is
\* a leaf for every path, but no more than MaxAgents - 1 agents can start.
OvershootBounded ==
  faults = 0 => \A b \in Budget :
    count[b] <= MaxAgents - 1
                  + Smaller(Cardinality(Path), (MaxAgents - 1) * (MaxParallel - 1) + 1)

\* A run that is driven from above is awaited: its parent is driven too and has
\* a task that waits for it; and a task waits only for a run that is driven.
Awaited ==
  /\ \A r \in 1..created : Driven(r) /\ run[r].via # {} =>
       /\ Driven(run[r].parent)
       /\ \E t \in Slot : task[run[r].parent][t].at = "child" /\ task[run[r].parent][t].child = r
  /\ \A r \in 1..created : Driven(r) =>
       \A t \in Slot : task[r][t].at = "child" => Driven(task[r][t].child)

\* The driven runs all come to an end: nothing waits for ever, at any depth.
DrivenRunsSettle == <>[](\A r \in Run : ~Driven(r))

\* Every run's row gets a status other than RUNNING.
EveryRunSettles ==
  \A r \in Run : (run[r].status = "RUNNING") ~> (run[r].status # "RUNNING")

=============================================================================
