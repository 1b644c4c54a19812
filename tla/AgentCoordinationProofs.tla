------------------------ MODULE AgentCoordinationProofs ------------------------
(***************************************************************************)
(* Proofs about AgentCoordination, for any limits of the deployment, any   *)
(* number of runs, resumptions and faults.                                 *)
(***************************************************************************)
EXTENDS AgentCoordination, FiniteSetTheorems, TLAPS

-----------------------------------------------------------------------------
(* What the operators on rows and tasks do.                                 *)

\* The row of q keeps all but its status and its hold.
SameRow(q) ==
  /\ run'[q].parent = run[q].parent /\ run'[q].depth = run[q].depth
  /\ run'[q].budget = run[q].budget /\ run'[q].via = run[q].via

\* Nobody asks q for another event, if anything changes for q at all.
HeldBack(q) == run'[q].hold = run[q].hold \/ run'[q].hold = "stopped"

Rows == run \in [Run -> RunState]
Tasks == task \in [Run -> [Slot -> Task]]

\* One task moves, the others stay.
TaskSet(r, t, new) == task' = [task EXCEPT ![r][t] = new]

LEMMA TaskMoved ==
  ASSUME Tasks, NEW r \in Run, NEW t \in Slot, NEW new \in Task, TaskSet(r, t, new)
  PROVE  /\ Tasks'
         /\ task'[r][t] = new
         /\ \A q \in Run \ {r} : task'[q] = task[q]
         /\ \A s \in Slot \ {t} : task'[r][s] = task[r][s]
  BY DEF Tasks, Run, Slot, TaskSet

\* A task that moves to another point is well typed.
LEMMA TaskAtTyped ==
  ASSUME NEW k \in Task, NEW at \in TaskAt
  PROVE  [k EXCEPT !.at = at] \in Task /\ [k EXCEPT !.at = at].at = at
         /\ [k EXCEPT !.at = at].child = k.child
  BY DEF Task

LEMMA FixedTasksTyped == {Free, Lookup, Settled, [Lookup EXCEPT !.attempt = 1]} \subseteq Task
  BY DEF Free, Lookup, Settled, Task, TaskAt, NoRun

\* A yield stops what drifts, and changes nothing else.
LEMMA Yields ==
  ASSUME Rows, UNCHANGED shape, NEW r \in Run, run' = Yield(r)
  PROVE  /\ Rows'
         /\ \A q \in Run : /\ SameRow(q)
                           /\ run'[q].status = run[q].status
                           /\ run'[q].left = run[q].left /\ run'[q].more = run[q].more
                           /\ \/ run'[q].hold = run[q].hold
                              \/ run[q].hold = "drifting" /\ run'[q].hold = "stopped"
<1> DEFINE stop(q) == [run[q] EXCEPT !.hold = "stopped"]
<1>1. ASSUME NEW q \in Run
      PROVE  /\ stop(q) \in RunState
             /\ stop(q).hold = "stopped" /\ stop(q).status = run[q].status
             /\ stop(q).left = run[q].left /\ stop(q).more = run[q].more
             /\ stop(q).parent = run[q].parent /\ stop(q).depth = run[q].depth
             /\ stop(q).budget = run[q].budget /\ stop(q).via = run[q].via
  BY DEF Rows, RunState, Hold
<1>2. ASSUME NEW q \in Run
      PROVE  \/ run'[q] = run[q]
             \/ run[q].hold = "drifting" /\ run'[q] = stop(q)
  BY DEF Yield
<1>3. run' = [q \in Run |-> run'[q]]
  BY DEF Yield
<1> HIDE DEF stop
<1>4. \A q \in Run : run'[q] \in RunState
  BY <1>1, <1>2 DEF Rows
<1>5. RunState' = RunState
  BY DEF RunState, Budget
<1>6. Rows'
  BY <1>3, <1>4, <1>5 DEF Rows
<1>7. ASSUME NEW q \in Run
      PROVE  /\ SameRow(q)
             /\ run'[q].status = run[q].status
             /\ run'[q].left = run[q].left /\ run'[q].more = run[q].more
             /\ \/ run'[q].hold = run[q].hold
                \/ run[q].hold = "drifting" /\ run'[q].hold = "stopped"
  BY <1>1, <1>2 DEF SameRow
<1> QED
  BY <1>6, <1>7

\* The run that ends gets its status, its task its outcome; those below it drift.
LEMMA Ends ==
  ASSUME Rows, UNCHANGED shape, NEW r \in Run, NEW tasks \in [Run -> [Slot -> Task]],
         NEW status \in Ended \union {"WAITING_APPROVAL"}, End(r, status, tasks)
  PROVE  /\ Rows' /\ Tasks'
         /\ SameRow(r) /\ run'[r].status = status
         /\ \A q \in Run \ {r} :
              /\ SameRow(q)
              /\ run'[q].status = run[q].status
              /\ Driven(q)' => Driven(q) /\ r \notin run[q].via
              /\ Driven(q) /\ r \notin run[q].via => Driven(q)'
              /\ run[q].hold = "stopped" => run'[q].hold = "stopped"
         /\ \A q \in Run, t \in Slot :
              IF tasks[q][t].at = "child" /\ tasks[q][t].child = r
                THEN /\ task'[q][t].at \in {"answered", "failed", "aborted"}
                     /\ task'[q][t].child = r
                ELSE task'[q][t] = tasks[q][t]
<1> DEFINE end == [run[r] EXCEPT !.status = status]
           drift(q) == [run[q] EXCEPT !.hold = "drifting"]
           stop(q) == [run[q] EXCEPT !.hold = "stopped"]
<1>1. /\ end \in RunState
      /\ end.status = status
      /\ end.parent = run[r].parent /\ end.depth = run[r].depth
      /\ end.budget = run[r].budget /\ end.via = run[r].via
  <2>1. run[r] \in RunState /\ status \in RunStatus
    BY DEF Rows, RunStatus, Ended
  <2> QED
    BY <2>1 DEF RunState
<1>2. ASSUME NEW q \in Run
      PROVE  /\ drift(q) \in RunState /\ stop(q) \in RunState
             /\ drift(q).hold = "drifting" /\ drift(q).status = run[q].status
             /\ drift(q).parent = run[q].parent /\ drift(q).depth = run[q].depth
             /\ drift(q).budget = run[q].budget /\ drift(q).via = run[q].via
             /\ stop(q).hold = "stopped" /\ stop(q).status = run[q].status
             /\ stop(q).parent = run[q].parent /\ stop(q).depth = run[q].depth
             /\ stop(q).budget = run[q].budget /\ stop(q).via = run[q].via
  <2>1. run[q] \in RunState
    BY DEF Rows
  <2> QED
    BY <2>1 DEF RunState, Hold
<1>3. /\ run' = [q \in Run |-> run'[q]]
      /\ run'[r] = end
      /\ \A q \in Run \ {r} :
           \/ run'[q] = drift(q) /\ r \in run[q].via /\ Driven(q)
           \/ /\ ~(r \in run[q].via /\ Driven(q))
              /\ run'[q] = run[q] \/ (run[q].hold = "drifting" /\ run'[q] = stop(q))
  <2> DEFINE row(q) == IF q = r THEN end
                       ELSE IF r \in run[q].via /\ Driven(q) THEN drift(q)
                       ELSE Yield(r)[q]
  <2>1. run' = [q \in Run |-> row(q)]
    BY DEF End
  <2> HIDE DEF end, drift, stop
  <2>2. row(r) = end
    OBVIOUS
  <2>3. ASSUME NEW q \in Run \ {r}, r \in run[q].via /\ Driven(q)
        PROVE  row(q) = drift(q)
    BY <2>3
  <2>4. ASSUME NEW q \in Run \ {r}, ~(r \in run[q].via /\ Driven(q))
        PROVE  row(q) = run[q] \/ (run[q].hold = "drifting" /\ row(q) = stop(q))
    <3>1. row(q) = Yield(r)[q]
      BY <2>4
    <3> QED
      BY <3>1 DEF Yield, stop
  <2> HIDE DEF row
  <2>5. \A q \in Run : run'[q] = row(q)
    BY <2>1
  <2> QED
    BY <2>1, <2>2, <2>3, <2>4, <2>5
<1>4. RunState' = RunState
  BY DEF RunState, Budget
<1>5. Outcome(status) \in {"answered", "failed", "aborted"}
  BY DEF Outcome, Ended
<1>6. ASSUME NEW q \in Run, NEW t \in Slot
      PROVE  /\ IF tasks[q][t].at = "child" /\ tasks[q][t].child = r
                  THEN task'[q][t] = [tasks[q][t] EXCEPT !.at = Outcome(status)]
                  ELSE task'[q][t] = tasks[q][t]
             /\ tasks[q][t] \in Task
  BY DEF End
<1>7. ASSUME NEW q \in Run, NEW t \in Slot
      PROVE  /\ task'[q][t] \in Task
             /\ IF tasks[q][t].at = "child" /\ tasks[q][t].child = r
                  THEN /\ task'[q][t].at \in {"answered", "failed", "aborted"}
                       /\ task'[q][t].child = r
                  ELSE task'[q][t] = tasks[q][t]
  <2>1. Outcome(status) \in TaskAt
    BY <1>5 DEF TaskAt
  <2> DEFINE k == tasks[q][t]
             new == [k EXCEPT !.at = Outcome(status)]
  <2>2. k \in Task
    BY <1>6
  <2>3. new \in Task /\ new.at = Outcome(status) /\ new.child = k.child
    BY <2>1, <2>2, TaskAtTyped
  <2> HIDE DEF new
  <2>4. IF k.at = "child" /\ k.child = r THEN task'[q][t] = new ELSE task'[q][t] = k
    BY <1>6 DEF new
  <2> QED
    BY <1>5, <2>2, <2>3, <2>4
<1>8. Tasks'
  <2>1. task' = [q \in Run |-> [t \in Slot |-> task'[q][t]]]
    BY DEF End
  <2> QED
    BY <1>7, <2>1 DEF Tasks
<1> HIDE DEF end, drift, stop
<1>9. Rows'
  <2>1. \A q \in Run : run'[q] \in RunState
    BY <1>1, <1>2, <1>3 DEF Rows
  <2> QED
    BY <1>3, <1>4, <2>1 DEF Rows
<1>10. SameRow(r) /\ run'[r].status = status
  BY <1>1, <1>3 DEF SameRow
<1>11. ASSUME NEW q \in Run \ {r}
       PROVE  /\ SameRow(q)
              /\ run'[q].status = run[q].status
              /\ Driven(q)' => Driven(q) /\ r \notin run[q].via
              /\ Driven(q) /\ r \notin run[q].via => Driven(q)'
              /\ run[q].hold = "stopped" => run'[q].hold = "stopped"
  <2>1. CASE run'[q] = drift(q) /\ r \in run[q].via /\ Driven(q)
    BY <1>2, <2>1 DEF SameRow, Driven
  <2>2. CASE run'[q] = run[q] /\ ~(r \in run[q].via /\ Driven(q))
    BY <2>2 DEF SameRow, Driven
  <2>3. CASE run[q].hold = "drifting" /\ run'[q] = stop(q)
    BY <1>2, <2>3 DEF SameRow, Driven
  <2> QED
    BY <1>3, <2>1, <2>2, <2>3
<1> QED
  BY <1>7, <1>8, <1>9, <1>10, <1>11

\* A batch that starts: its tasks are looked up, refused, or there are none.
LEMMA Batches ==
  ASSUME Tasks, NEW r \in Run, NEW n \in Nat, StartBatch(r, n)
  PROVE  /\ Tasks'
         /\ \A q \in Run \ {r} : task'[q] = task[q]
         /\ \A t \in Slot : /\ task'[r][t] \in {Lookup, Settled, Free}
                            /\ task'[r][t] = Lookup => CanSpawn(r)
<1>1. PICK admitted \in 0..n :
        /\ admitted > 0 => CanSpawn(r)
        /\ task' = [task EXCEPT ![r] = [t \in Slot |-> IF t <= admitted THEN Lookup
                                                       ELSE IF t <= n THEN Settled ELSE Free]]
  BY DEF StartBatch
<1> DEFINE b == [t \in Slot |-> IF t <= admitted THEN Lookup
                                ELSE IF t <= n THEN Settled ELSE Free]
<1>2. b \in [Slot -> Task]
  BY FixedTasksTyped
<1>3. Lookup # Settled /\ Lookup # Free
  BY DEF Lookup, Settled, Free
<1>4. \A t \in Slot : /\ b[t] \in {Lookup, Settled, Free}
                      /\ b[t] = Lookup => t <= admitted
  BY <1>3
<1>5. \A t \in Slot : t <= admitted => admitted > 0
  BY DEF Slot
<1> HIDE DEF b
<1>6. Tasks' /\ task'[r] = b /\ \A q \in Run \ {r} : task'[q] = task[q]
  BY <1>1, <1>2 DEF Tasks, b
<1>7. ASSUME NEW t \in Slot
      PROVE  /\ task'[r][t] \in {Lookup, Settled, Free}
             /\ task'[r][t] = Lookup => CanSpawn(r)
  <2>1. task'[r][t] = b[t]
    BY <1>6
  <2> QED
    BY <1>1, <1>4, <1>5, <2>1
<1> QED
  BY <1>6, <1>7

-----------------------------------------------------------------------------
(* Four kinds of steps.                                                     *)

\* A task of r is given up, returned, or begun for the agent that it asks for.
Refilled(r, t) ==
  /\ task[r][t].at # "child"
  /\ task'[r][t].at \in {"free", "done", "lookup", "create"}
  /\ task'[r][t].child \in {NoRun, task[r][t].child}
  /\ task'[r][t].at \in {"lookup", "create"} => task[r][t].at = "lookup" \/ CanSpawn(r)

\* r works on its own tasks: no row begins or ends, and no child is driven.
Quiet(r) ==
  /\ UNCHANGED <<shape, created, resumes>>
  /\ \A q \in Run : /\ SameRow(q) /\ run'[q].status = run[q].status
                    /\ \/ run'[q].hold = run[q].hold
                       \/ run[q].hold = "drifting" /\ run'[q].hold = "stopped"
  /\ \A q \in Run \ {r} : task'[q] = task[q]
  /\ \A t \in Slot : task'[r][t] = task[r][t] \/ Refilled(r, t)
  /\ Looping(r) => Looping(r)' \/ Alive(r)

NoneRegistered ==
  \A q \in Run, t \in Slot : task'[q][t] = task[q][t] \/ task'[q][t].at # "create"

\* A step that is quiet and no agent's registration.
Working(r) ==
  \/ Delegate(r) \/ NextBatch(r) \/ EndBatch(r) \/ Drift(r)
  \/ \E t \in Slot : Collect(r, t) \/ Retry(r, t) \/ GiveUp(r, t)

\* No task but one that is looked up is begun anew.
LEMMA FixedTasks ==
  /\ Free.at = "free" /\ Settled.at = "done" /\ Lookup.at = "lookup"
  /\ [Lookup EXCEPT !.attempt = 1].at = "lookup"
  /\ Free.child = NoRun /\ Settled.child = NoRun /\ Lookup.child = NoRun
  /\ [Lookup EXCEPT !.attempt = 1].child = NoRun
  BY DEF Free, Settled, Lookup

\* The parts of the type that a step on the tasks has to establish.
LEMMA TypeKept ==
  ASSUME TypeOK, Rows', Tasks', UNCHANGED <<shape, created, count, resumes, faults>>,
         \A q \in Run : run'[q].status = run[q].status
  PROVE  TypeOK'
<1>1. Budget' = Budget
  BY DEF Budget
<1> QED
  BY <1>1 DEF TypeOK, Rows, Tasks

LEMMA BatchStep ==
  ASSUME TypeOK, UNCHANGED shape, NEW r \in Run, Delegate(r) \/ NextBatch(r)
  PROVE  /\ TypeOK' /\ Quiet(r)
         /\ UNCHANGED count /\ NoneRegistered
<1> USE CoordinationAssumption DEF CoordinationAssumption
<1>1. run[r] \in RunState /\ Rows /\ Tasks /\ shape.targets \in Nat
  BY DEF TypeOK, Rows, Tasks
<1>2. PICK n \in Nat, left \in 0..MaxIterations, more \in 0..shape.targets :
        /\ StartBatch(r, n)
        /\ run' = [run EXCEPT ![r] = [run[r] EXCEPT !.left = left, !.more = more]]
        /\ \A t \in Slot : task[r][t].at \in {"free", "done"}
        /\ Looping(r) => Alive(r)
  <2>1. CASE Delegate(r)
    <3>1. PICK k \in 1..shape.targets :
            /\ StartBatch(r, Smaller(k, MaxParallel))
            /\ run' = [run EXCEPT ![r].left = @ - 1, ![r].more = k - Smaller(k, MaxParallel)]
      BY <2>1 DEF Delegate
    <3>2. /\ Smaller(k, MaxParallel) \in Nat
          /\ run[r].left - 1 \in 0..MaxIterations
          /\ k - Smaller(k, MaxParallel) \in 0..shape.targets
      BY <1>1, <2>1 DEF Delegate, RunState, Smaller
    <3>3. run' = [run EXCEPT ![r] = [run[r] EXCEPT !.left = run[r].left - 1,
                                                   !.more = k - Smaller(k, MaxParallel)]]
      BY <1>1, <3>1 DEF Rows
    <3> QED
      BY <2>1, <3>1, <3>2, <3>3 DEF Delegate, Looping
  <2>2. CASE NextBatch(r)
    <3> DEFINE n == Smaller(run[r].more, MaxParallel)
    <3>1. StartBatch(r, n) /\ run' = [run EXCEPT ![r].more = @ - n]
      BY <2>2 DEF NextBatch
    <3>2. /\ n \in Nat
          /\ run[r].left \in 0..MaxIterations
          /\ run[r].more - n \in 0..shape.targets
      BY <1>1 DEF RunState, Smaller
    <3>3. run' = [run EXCEPT ![r] = [run[r] EXCEPT !.left = run[r].left, !.more = run[r].more - n]]
      BY <1>1, <3>1 DEF Rows, RunState
    <3> QED
      BY <2>2, <3>1, <3>2, <3>3 DEF NextBatch, Returned
  <2> QED
    BY <2>1, <2>2
<1> DEFINE row == [run[r] EXCEPT !.left = left, !.more = more]
<1>3. /\ row \in RunState
      /\ row.parent = run[r].parent /\ row.depth = run[r].depth
      /\ row.budget = run[r].budget /\ row.via = run[r].via
      /\ row.status = run[r].status /\ row.hold = run[r].hold
  BY <1>1 DEF RunState
<1>4. RunState' = RunState
  BY DEF RunState, Budget
<1>5. run' = [run EXCEPT ![r] = row]
  BY <1>2
<1> HIDE DEF row
<1>6. Rows' /\ \A q \in Run : /\ SameRow(q) /\ run'[q].status = run[q].status
                              /\ run'[q].hold = run[q].hold
  BY <1>1, <1>3, <1>4, <1>5 DEF Rows, SameRow
<1>7. /\ Tasks'
      /\ \A q \in Run \ {r} : task'[q] = task[q]
      /\ \A t \in Slot : /\ task'[r][t] \in {Lookup, Settled, Free}
                         /\ task'[r][t] = Lookup => CanSpawn(r)
  BY <1>1, <1>2, Batches
<1>8. \A t \in Slot : Refilled(r, t)
  BY <1>2, <1>7, FixedTasks DEF Refilled
<1>9. UNCHANGED <<created, count, resumes, faults>>
  BY DEF Delegate, NextBatch
<1> QED
  BY <1>2, <1>6, <1>7, <1>8, <1>9, FixedTasks, TypeKept DEF Quiet, NoneRegistered

LEMMA WorkingStep ==
  ASSUME TypeOK, UNCHANGED shape, NEW r \in Run, Working(r)
  PROVE  /\ TypeOK' /\ Quiet(r)
         /\ UNCHANGED count /\ NoneRegistered
<1>0. Rows /\ Tasks
  BY DEF TypeOK, Rows, Tasks
<1>1. CASE Delegate(r) \/ NextBatch(r)
  BY <1>1, BatchStep
<1>2. CASE EndBatch(r)
  <2>1. /\ Tasks' /\ \A q \in Run \ {r} : task'[q] = task[q]
        /\ \A t \in Slot : task'[r][t] = Free
    <3> DEFINE none == [t \in Slot |-> Free]
    <3>1. none \in [Slot -> Task] /\ \A t \in Slot : none[t] = Free
      BY FixedTasksTyped
    <3>2. task' = [task EXCEPT ![r] = none]
      BY <1>2 DEF EndBatch
    <3> HIDE DEF none
    <3>3. Tasks' /\ task'[r] = none /\ \A q \in Run \ {r} : task'[q] = task[q]
      BY <1>0, <3>1, <3>2 DEF Tasks
    <3> QED
      BY <3>1, <3>3
  <2>2. \A t \in Slot : Refilled(r, t)
    BY <1>2, <2>1, FixedTasks DEF EndBatch, Returned, Refilled
  <2>3. Alive(r) /\ UNCHANGED <<created, count, resumes, faults>> /\ run' = Yield(r)
    BY <1>2 DEF EndBatch
  <2> QED
    BY <1>0, <2>1, <2>2, <2>3, FixedTasks, Yields, TypeKept DEF Quiet, NoneRegistered
<1>3. CASE Drift(r)
  BY <1>0, <1>3, Yields, TypeKept DEF Drift, Quiet, Tasks, NoneRegistered
<1>4. ASSUME NEW t \in Slot, Collect(r, t) \/ Retry(r, t) \/ GiveUp(r, t)
      PROVE  /\ TypeOK' /\ Quiet(r)
             /\ UNCHANGED count /\ NoneRegistered
  <2>1. PICK new \in Task :
          /\ task' = [task EXCEPT ![r][t] = new]
          /\ new.at = "done" \/ (new.at = "lookup" /\ CanSpawn(r))
          /\ new.child = NoRun
    BY <1>4, FixedTasks, FixedTasksTyped DEF Collect, Retry, GiveUp
  <2>3. /\ Tasks' /\ \A q \in Run \ {r} : task'[q] = task[q]
        /\ task'[r][t] = new /\ \A s \in Slot \ {t} : task'[r][s] = task[r][s]
    <3>1. TaskSet(r, t, new)
      BY <2>1 DEF TaskSet
    <3> QED
      BY <1>0, <3>1, TaskMoved
  <2>4. task[r][t].at \in {"answered", "failed"} /\ Alive(r)
    BY <1>4 DEF Collect, Retry, GiveUp
  <2>5. Refilled(r, t)
    BY <2>1, <2>3, <2>4 DEF Refilled
  <2>6. UNCHANGED <<created, count, resumes, faults>>
    BY <1>4 DEF Collect, Retry, GiveUp
  <2>7. Rows' /\ \A q \in Run : /\ SameRow(q) /\ run'[q].status = run[q].status
                                /\ \/ run'[q].hold = run[q].hold
                                   \/ run[q].hold = "drifting" /\ run'[q].hold = "stopped"
    <3>1. CASE run' = Yield(r)
      BY <1>0, <3>1, Yields
    <3>2. CASE run' = run
      BY <1>0, <3>2 DEF Rows, SameRow, RunState, Budget
    <3> QED
      BY <1>4, <3>1, <3>2 DEF Collect, Retry, GiveUp
  <2> QED
    BY <2>1, <2>3, <2>4, <2>5, <2>6, <2>7, TypeKept DEF Quiet, NoneRegistered
<1> QED
  BY <1>1, <1>2, <1>3, <1>4 DEF Working

\* The registration of an agent is quiet too.
LEMMA FindAgentStep ==
  ASSUME TypeOK, UNCHANGED shape, NEW r \in Run, NEW t \in Slot, FindAgent(r, t)
  PROVE  /\ TypeOK' /\ Quiet(r)
         /\ \A s \in Slot \ {t} : task'[r][s] = task[r][s]
         /\ task[r][t].at = "lookup"
         /\ UNCHANGED run
         /\ \/ task'[r][t].at = "done" /\ UNCHANGED count
            \/ /\ task'[r][t].at = "create"
               /\ count' = [count EXCEPT ![run[r].budget] = @ + 1]
<1>0. Rows /\ Tasks /\ task[r][t] \in Task
  BY DEF TypeOK, Rows, Tasks
<1>1. task[r][t].at = "lookup" /\ UNCHANGED <<created, run, resumes, faults>>
  BY DEF FindAgent
<1>2. /\ Rows' /\ \A q \in Run : /\ SameRow(q) /\ run'[q].status = run[q].status
                                 /\ run'[q].hold = run[q].hold
  BY <1>0, <1>1 DEF Rows, SameRow, RunState, Budget
<1>3. ~Looping(r)
  BY <1>1 DEF Looping
<1>4. PICK new \in Task :
        /\ task' = [task EXCEPT ![r][t] = new]
        /\ new.child \in {NoRun, task[r][t].child}
        /\ \/ new.at = "done" /\ UNCHANGED count
           \/ new.at = "create" /\ count' = [count EXCEPT ![run[r].budget] = @ + 1]
  <2>1. CASE task' = [task EXCEPT ![r][t] = Settled] /\ UNCHANGED count
    BY <2>1, FixedTasks, FixedTasksTyped
  <2>2. CASE /\ task' = [task EXCEPT ![r][t].at = "create"]
             /\ count' = [count EXCEPT ![run[r].budget] = @ + 1]
    <3> DEFINE new == [task[r][t] EXCEPT !.at = "create"]
    <3>1. new \in Task /\ new.at = "create" /\ new.child = task[r][t].child
      BY <1>0, TaskAtTyped DEF TaskAt
    <3>2. task' = [task EXCEPT ![r][t] = new]
      BY <1>0, <2>2 DEF Tasks
    <3> QED
      BY <2>2, <3>1, <3>2
  <2> QED
    BY <2>1, <2>2 DEF FindAgent
<1>5. /\ Tasks' /\ \A q \in Run \ {r} : task'[q] = task[q]
      /\ task'[r][t] = new /\ \A s \in Slot \ {t} : task'[r][s] = task[r][s]
  <2>1. TaskSet(r, t, new)
    BY <1>4 DEF TaskSet
  <2> QED
    BY <1>0, <2>1, TaskMoved
<1>6. Refilled(r, t)
  BY <1>1, <1>4, <1>5 DEF Refilled
<1>7. Quiet(r)
  BY <1>1, <1>2, <1>3, <1>5, <1>6 DEF Quiet
<1>8. TypeOK'
  <2>1. Budget' = Budget /\ run[r].budget \in Budget
    BY <1>0 DEF Rows, RunState, Budget
  <2>2. count' \in [Budget -> Nat]
    BY <1>4, <2>1 DEF TypeOK
  <2> QED
    BY <1>1, <1>2, <1>5, <2>1, <2>2 DEF TypeOK, Rows, Tasks
<1> QED
  BY <1>1, <1>4, <1>5, <1>7, <1>8

\* A new run is a leaf below the run whose task asked for it, and not yet started.
LEMMA SpawnStep ==
  ASSUME TypeOK, UNCHANGED shape, NEW r \in Run, NEW t \in Slot, CreateAgentRun(r, t)
  PROVE  /\ TypeOK'
         /\ UNCHANGED <<shape, count, resumes>>
         /\ created' = created + 1 /\ created' \in Run
         /\ \A q \in Run \ {created'} : run'[q] = run[q]
         /\ run'[created'].parent = r /\ run'[created'].depth = run[r].depth + 1
         /\ run'[created'].budget = run[r].budget
         /\ run'[created'].via = run[r].via \union {r}
         /\ run'[created'].status = "RUNNING" /\ run'[created'].hold = "stopped"
         /\ task[r][t].at = "create" /\ task'[r][t].at = "announce"
         /\ task'[r][t].child = created'
         /\ \A q \in Run \ {r} : task'[q] = task[q]
         /\ \A s \in Slot \ {t} : task'[r][s] = task[r][s]
<1>0. Rows /\ Tasks /\ task[r][t] \in Task /\ run[r] \in RunState
  BY DEF TypeOK, Rows, Tasks
<1>1. shape.runs \in 1..MaxRuns /\ shape.targets \in Nat
  BY CoordinationAssumption DEF CoordinationAssumption, TypeOK
<1>2. created' = created + 1 /\ created' \in Run
  <2>1. created < shape.runs /\ created' = created + 1
    BY DEF CreateAgentRun
  <2>2. MaxRuns \in Nat
    BY CoordinationAssumption DEF CoordinationAssumption
  <2>3. created \in 1..MaxRuns
    BY DEF TypeOK, Run
  <2>4. created + 1 \in 1..MaxRuns
    <3> HIDE CoordinationAssumption
    <3> QED
      BY <1>1, <2>1, <2>2, <2>3
  <2> QED
    BY <2>1, <2>4 DEF Run
<1> DEFINE new == NewRun(r, run[r].depth + 1, run[r].budget, run[r].via \union {r}, "stopped")
           k == [task[r][t] EXCEPT !.at = "announce", !.child = created']
<1>3. /\ new \in RunState
      /\ new.parent = r /\ new.depth = run[r].depth + 1 /\ new.budget = run[r].budget
      /\ new.via = run[r].via \union {r} /\ new.status = "RUNNING" /\ new.hold = "stopped"
  BY <1>0, <1>1, CoordinationAssumption
     DEF CoordinationAssumption, NewRun, RunState, RunStatus, Hold
<1>4. k \in Task /\ k.at = "announce" /\ k.child = created'
  BY <1>0, <1>2 DEF Task, TaskAt
<1>5. run' = [run EXCEPT ![created'] = new] /\ task' = [task EXCEPT ![r][t] = k]
  BY <1>0, <1>2 DEF CreateAgentRun, Tasks
<1>6. RunState' = RunState /\ Budget' = Budget
  BY DEF RunState, Budget
<1> HIDE DEF new, k
<1>7. Rows' /\ run'[created'] = new /\ \A q \in Run \ {created'} : run'[q] = run[q]
  BY <1>0, <1>2, <1>3, <1>5, <1>6 DEF Rows
<1>8. /\ Tasks' /\ \A q \in Run \ {r} : task'[q] = task[q]
      /\ task'[r][t] = k /\ \A s \in Slot \ {t} : task'[r][s] = task[r][s]
  <2>1. Tasks /\ k \in Task /\ TaskSet(r, t, k)
    BY <1>0, <1>4, <1>5 DEF TaskSet
  <2> QED
    BY <2>1, TaskMoved
<1>9. task[r][t].at = "create" /\ UNCHANGED <<count, resumes, faults>>
  BY DEF CreateAgentRun
<1>10. TypeOK'
  <2>1. \A q \in Run : run'[q].status = "none" <=> q > created'
    BY <1>2, <1>3, <1>7 DEF TypeOK, Run
  <2> QED
    BY <1>2, <1>6, <1>7, <1>8, <1>9, <2>1 DEF TypeOK, Rows, Tasks
<1> QED
  BY <1>2, <1>3, <1>4, <1>7, <1>8, <1>9, <1>10

\* A run that is announced is driven if the run that announces it is.
LEMMA AnnounceStep ==
  ASSUME TypeOK, UNCHANGED shape, NEW r \in Run, NEW t \in Slot, Announce(r, t)
  PROVE  /\ TypeOK'
         /\ UNCHANGED <<shape, created, count, resumes>>
         /\ \A q \in Run : SameRow(q) /\ run'[q].status = run[q].status
         /\ \A q \in Run :
              IF Driven(r) /\ q = task[r][t].child THEN run'[q].hold = "driven"
              ELSE \/ run'[q].hold = run[q].hold
                   \/ run[q].hold = "drifting" /\ run'[q].hold = "stopped"
         /\ task[r][t].at = "announce" /\ task'[r][t].at = "child"
         /\ task'[r][t].child = task[r][t].child
         /\ \A q \in Run \ {r} : task'[q] = task[q]
         /\ \A s \in Slot \ {t} : task'[r][s] = task[r][s]
<1>0. Rows /\ Tasks /\ task[r][t] \in Task
  BY DEF TypeOK, Rows, Tasks
<1> DEFINE k == [task[r][t] EXCEPT !.at = "child"]
           c == task[r][t].child
<1>1. k \in Task /\ k.at = "child" /\ k.child = task[r][t].child
  BY <1>0, TaskAtTyped DEF TaskAt
<1>2. task' = [task EXCEPT ![r][t] = k]
  BY <1>0 DEF Announce, Tasks
<1> HIDE DEF k
<1>3. /\ Tasks' /\ \A q \in Run \ {r} : task'[q] = task[q]
      /\ task'[r][t] = k /\ \A s \in Slot \ {t} : task'[r][s] = task[r][s]
  <2>1. k \in Task /\ TaskSet(r, t, k)
    BY <1>1, <1>2 DEF TaskSet
  <2> QED
    BY <1>0, <2>1, TaskMoved
<1>4. task[r][t].at = "announce" /\ UNCHANGED <<created, count, resumes, faults>>
  BY DEF Announce
<1>5. /\ Rows'
      /\ \A q \in Run :
           /\ SameRow(q) /\ run'[q].status = run[q].status
           /\ IF Driven(r) /\ q = c THEN run'[q].hold = "driven"
              ELSE \/ run'[q].hold = run[q].hold
                   \/ run[q].hold = "drifting" /\ run'[q].hold = "stopped"
  <2>1. CASE Driven(r)
    <3> DEFINE row(q) == [run[q] EXCEPT !.hold = "driven"]
    <3>1. ASSUME NEW q \in Run
          PROVE  /\ row(q) \in RunState /\ row(q).hold = "driven" /\ row(q).status = run[q].status
                 /\ row(q).parent = run[q].parent /\ row(q).depth = run[q].depth
                 /\ row(q).budget = run[q].budget /\ row(q).via = run[q].via
      BY <1>0 DEF Rows, RunState, Hold
    <3>2. run' = [run EXCEPT ![c] = row(c)]
      BY <2>1 DEF Announce
    <3>3. RunState' = RunState
      BY DEF RunState, Budget
    <3> HIDE DEF row, c
    <3>4. /\ run' \in [Run -> RunState]
          /\ \A q \in Run : run'[q] = (IF q = c THEN row(q) ELSE run[q])
      BY <1>0, <3>1, <3>2 DEF Rows
    <3> QED
      BY <2>1, <3>1, <3>3, <3>4 DEF Rows, SameRow
  <2>2. CASE ~Driven(r)
    <3>1. run' = Yield(r)
      BY <2>2 DEF Announce
    <3> QED
      BY <1>0, <2>2, <3>1, Yields
  <2> QED
    BY <2>1, <2>2
<1>6. TypeOK'
  BY <1>3, <1>4, <1>5, TypeKept
<1> QED
  BY <1>1, <1>3, <1>4, <1>5, <1>6

\* The steps that end a run: all it has under way drifts.
Ending(r) == Finish(r) \/ \E t \in Slot : Propagate(r, t) \/ TaskFails(r, t)

LEMMA EndStep ==
  ASSUME TypeOK, UNCHANGED shape, NEW r \in Run, Ending(r)
  PROVE  /\ TypeOK'
         /\ UNCHANGED <<shape, created, count, resumes>>
         /\ Alive(r)
         /\ SameRow(r) /\ run'[r].status \in Ended \union {"WAITING_APPROVAL"}
         /\ run'[r].status = "WAITING_APPROVAL" => Looping(r)
         /\ \A q \in Run \ {r} :
              /\ SameRow(q)
              /\ run'[q].status = run[q].status
              /\ Driven(q)' => Driven(q) /\ r \notin run[q].via
              /\ Driven(q) /\ r \notin run[q].via => Driven(q)'
              /\ run[q].hold = "stopped" => run'[q].hold = "stopped"
         /\ \A q \in Run, t \in Slot :
              \/ task'[q][t] = task[q][t] /\ ~(task[q][t].at = "child" /\ task[q][t].child = r)
              \/ /\ task[q][t].at = "child" /\ task[q][t].child = r /\ task'[q][t].child = r
                 /\ task'[q][t].at \in {"answered", "failed", "aborted"}
              \/ /\ q = r /\ task[q][t].at # "free"
                 /\ task'[q][t].at = "done" /\ task'[q][t].child = NoRun
<1>0. Rows /\ Tasks
  BY DEF TypeOK, Rows, Tasks
<1>1. PICK tasks \in [Run -> [Slot -> Task]], status \in Ended \union {"WAITING_APPROVAL"} :
        /\ End(r, status, tasks)
        /\ status = "WAITING_APPROVAL" => Looping(r)
        /\ \A q \in Run, t \in Slot :
             \/ tasks[q][t] = task[q][t]
             \/ q = r /\ task[q][t].at # "free" /\ tasks[q][t] = Settled
  <2>1. ASSUME Finish(r)
        PROVE  /\ \E status \in Ended \union {"WAITING_APPROVAL"} : End(r, status, task)
               /\ Looping(r)
    BY <2>1 DEF Finish
  <2>2. ASSUME NEW t \in Slot, Propagate(r, t) \/ TaskFails(r, t)
        PROVE  \E tasks \in [Run -> [Slot -> Task]], status \in Ended :
                 /\ End(r, status, tasks)
                 /\ \A q \in Run, s \in Slot :
                      \/ tasks[q][s] = task[q][s]
                      \/ q = r /\ task[q][s].at # "free" /\ tasks[q][s] = Settled
    <3> DEFINE tasks == [task EXCEPT ![r][t] = Settled]
    <3>1. tasks \in [Run -> [Slot -> Task]]
      BY <1>0, FixedTasksTyped DEF Tasks
    <3>2. \A q \in Run, s \in Slot :
            tasks[q][s] = task[q][s] \/ (q = r /\ s = t /\ tasks[q][s] = Settled)
      BY <1>0 DEF Tasks
    <3>3. task[r][t].at # "free"
      BY <2>2 DEF Propagate, TaskFails
    <3>4. \E status \in Ended : End(r, status, tasks)
      BY <2>2 DEF Propagate, TaskFails, Ended
    <3> HIDE DEF tasks
    <3> QED
      BY <3>1, <3>2, <3>3, <3>4
  <2> QED
    BY <1>0, <2>1, <2>2 DEF Ending, Tasks, Ended
<1>2. /\ Rows' /\ Tasks'
      /\ SameRow(r) /\ run'[r].status = status
      /\ \A q \in Run \ {r} :
           /\ SameRow(q)
           /\ run'[q].status = run[q].status
           /\ Driven(q)' => Driven(q) /\ r \notin run[q].via
           /\ Driven(q) /\ r \notin run[q].via => Driven(q)'
           /\ run[q].hold = "stopped" => run'[q].hold = "stopped"
      /\ \A q \in Run, t \in Slot :
           IF tasks[q][t].at = "child" /\ tasks[q][t].child = r
             THEN /\ task'[q][t].at \in {"answered", "failed", "aborted"}
                  /\ task'[q][t].child = r
             ELSE task'[q][t] = tasks[q][t]
  <2>1. End(r, status, tasks)
    BY <1>1
  <2> QED
    BY <1>0, <2>1, Ends
<1>3. ASSUME NEW q \in Run, NEW t \in Slot
      PROVE  \/ task'[q][t] = task[q][t] /\ ~(task[q][t].at = "child" /\ task[q][t].child = r)
             \/ /\ task[q][t].at = "child" /\ task[q][t].child = r /\ task'[q][t].child = r
                /\ task'[q][t].at \in {"answered", "failed", "aborted"}
             \/ /\ q = r /\ task[q][t].at # "free"
                /\ task'[q][t].at = "done" /\ task'[q][t].child = NoRun
  BY <1>1, <1>2, FixedTasks
<1>4. /\ Alive(r)
      /\ UNCHANGED <<created, count, resumes>>
      /\ faults' \in 0..MaxFaults
  <2>1. /\ Alive(r)
        /\ UNCHANGED <<created, count, resumes>>
        /\ faults' = faults \/ (faults < MaxFaults /\ faults' = faults + 1)
    BY DEF Ending, Finish, Propagate, TaskFails
  <2> QED
    BY <2>1, CoordinationAssumption DEF CoordinationAssumption, TypeOK
<1>5. TypeOK'
  <2>1. Budget' = Budget
    BY DEF Budget
  <2>2. \A q \in Run : run'[q].status = "none" <=> q > created
    BY <1>2, <1>4 DEF Alive, TypeOK, Ended
  <2> QED
    BY <1>2, <1>4, <2>1, <2>2 DEF TypeOK, Rows, Tasks
<1> QED
  BY <1>1, <1>2, <1>3, <1>4, <1>5

\* A run that is resumed keeps its place in the tree, with a budget of its own.
LEMMA ResumeStep ==
  ASSUME TypeOK, UNCHANGED shape, NEW r \in Run, Resume(r)
  PROVE  /\ TypeOK'
         /\ UNCHANGED <<shape, created, task>>
         /\ resumes' = resumes + 1 /\ resumes' \in Budget
         /\ count' = [count EXCEPT ![resumes'] = 1]
         /\ run[r].status = "WAITING_APPROVAL"
         /\ \A q \in Run \ {r} : run'[q] = run[q]
         /\ run'[r].parent = run[r].parent /\ run'[r].depth = run[r].depth
         /\ run'[r].budget = resumes' /\ run'[r].via = {} /\ Driven(r)'
<1> USE CoordinationAssumption DEF CoordinationAssumption
<1>0. Rows /\ Tasks /\ run[r] \in RunState /\ shape.resumes \in Nat /\ shape.targets \in Nat
  BY DEF TypeOK, Rows, Tasks
<1>1. /\ resumes' = resumes + 1 /\ resumes' \in Budget
      /\ resumes' \in 0..shape.resumes
      /\ UNCHANGED <<shape, created, task, faults>>
      /\ count' = [count EXCEPT ![resumes'] = 1]
      /\ run[r].status = "WAITING_APPROVAL"
  BY <1>0 DEF Resume, TypeOK, Budget
<1> DEFINE new == NewRun(run[r].parent, run[r].depth, resumes', {}, "driven")
<1>2. /\ new \in RunState
      /\ new.parent = run[r].parent /\ new.depth = run[r].depth /\ new.budget = resumes'
      /\ new.via = {} /\ new.status = "RUNNING" /\ new.hold = "driven"
  BY <1>0, <1>1 DEF NewRun, RunState, RunStatus, Hold
<1>3. run' = [run EXCEPT ![r] = new]
  BY <1>0, <1>1 DEF Resume, Rows
<1>4. RunState' = RunState /\ Budget' = Budget
  BY DEF RunState, Budget
<1> HIDE DEF new
<1>5. Rows' /\ run'[r] = new /\ \A q \in Run \ {r} : run'[q] = run[q]
  BY <1>0, <1>2, <1>3, <1>4 DEF Rows
<1>6. TypeOK'
  <2>1. \A q \in Run : run'[q].status = "none" <=> q > created
    BY <1>1, <1>2, <1>5 DEF TypeOK
  <2>2. count' \in [Budget -> Nat]
    BY <1>1 DEF TypeOK
  <2> QED
    BY <1>1, <1>4, <1>5, <2>1, <2>2 DEF TypeOK, Rows
<1> QED
  BY <1>1, <1>2, <1>5, <1>6 DEF Driven

\* The kinds are all there are.
LEMMA Kinds ==
  ASSUME [Next]_vars
  PROVE  \/ UNCHANGED vars
         \/ /\ UNCHANGED shape
            /\ \E r \in Run :
                 \/ Working(r) \/ Ending(r) \/ Resume(r)
                 \/ \E t \in Slot : FindAgent(r, t) \/ CreateAgentRun(r, t) \/ Announce(r, t)
  BY DEF Next, Step, Delegation, Working, Ending

\* Every step leads from well-typed states to well-typed states.
LEMMA TypeStep == TypeOK /\ [Next]_vars => TypeOK'
<1> SUFFICES ASSUME TypeOK, [Next]_vars
             PROVE  TypeOK'
  OBVIOUS
<1>1. CASE UNCHANGED vars
  BY <1>1 DEF vars, TypeOK, RunState, Budget
<1> QED
  BY <1>1, Kinds, WorkingStep, EndStep, ResumeStep, FindAgentStep, SpawnStep, AnnounceStep

LEMMA TypeInit == Init => TypeOK
<1> SUFFICES ASSUME Init
             PROVE  TypeOK
  OBVIOUS
<1> USE CoordinationAssumption DEF CoordinationAssumption
<1>1. shape \in Shapes /\ shape.targets \in Nat /\ shape.resumes \in Nat /\ Root \in Run
  BY DEF Init, Root, Run
<1>2. NewRun(NoRun, 0, 0, {}, "driven") \in RunState /\ Absent \in RunState
  BY <1>1 DEF NewRun, Absent, RunState, RunStatus, Budget, Hold, Ended
<1>3. NewRun(NoRun, 0, 0, {}, "driven").status = "RUNNING" /\ Absent.status = "none"
  BY DEF NewRun, Absent
<1>4. run \in [Run -> RunState] /\ \A r \in Run : run[r].status = "none" <=> r > created
  BY <1>1, <1>2, <1>3 DEF Init, Run, Root
<1>5. task \in [Run -> [Slot -> Task]]
  BY FixedTasksTyped DEF Init
<1> QED
  BY <1>1, <1>4, <1>5 DEF Init, TypeOK, Root, Budget

\* Every reachable state is well typed; a row exists once it was created.
THEOREM TypeCorrect == Spec => []TypeOK
<1> QED
  BY TypeInit, TypeStep, PTL DEF Spec

-----------------------------------------------------------------------------
(* The tree of runs.                                                        *)

\* A row that does not exist or waits has nothing under way.
Idle ==
  \A r \in Run : run[r].status \in {"none", "WAITING_APPROVAL"} => Looping(r)

\* Whoever has an agent to spawn may spawn it; no task is for a row to come.
Admitted ==
  \A r \in Run, t \in Slot :
    /\ task[r][t].at \in {"lookup", "create"} => run[r].depth + 1 <= shape.depth
    /\ task[r][t].child \in 0..created

\* A run is created after its parent.
Parents == \A r \in 2..created : run[r].parent \in 1..(r - 1)

Tree == Idle /\ Admitted /\ Parents /\ DepthBounded

\* A row that exists is one of the runs.
LEMMA Existing ==
  ASSUME TypeOK
  PROVE  /\ 1..created \subseteq Run /\ 2..created \subseteq Run
         /\ \A r \in Run : run[r].status # "none" => r \in 1..created
         /\ created \in Nat
         /\ \A r \in Run : run[r].depth \in Nat /\ run[r] \in RunState
         /\ \A r \in Run, t \in Slot : task[r][t] \in Task
<1>1. created \in 1..MaxRuns /\ \A r \in Run : r \in 1..MaxRuns
  BY DEF TypeOK, Run
<1>2. /\ 1..created \subseteq Run /\ 2..created \subseteq Run
      /\ created \in Nat
      /\ \A r \in Run : r > created \/ r \in 1..created
  BY <1>1, CoordinationAssumption DEF CoordinationAssumption, Run
<1>3. \A r \in Run : run[r] \in RunState /\ run[r].depth \in Nat
  BY DEF TypeOK, RunState
<1> QED
  BY <1>2, <1>3 DEF TypeOK

LEMMA QuietTree ==
  ASSUME TypeOK, TypeOK', Tree, NEW r \in Run, Quiet(r)
  PROVE  Tree'
<1>1. Idle'
  BY DEF Tree, Idle, Quiet, Looping, Alive
<1>2. Admitted'
  <2> SUFFICES ASSUME NEW q \in Run, NEW t \in Slot
               PROVE  /\ task'[q][t].at \in {"lookup", "create"} =>
                           run'[q].depth + 1 <= shape'.depth
                      /\ task'[q][t].child \in 0..created'
    BY DEF Admitted
  <2>1. UNCHANGED <<shape, created>> /\ run'[q].depth = run[q].depth
    BY DEF Quiet, SameRow
  <2>2. CASE task'[q][t] = task[q][t]
    BY <2>1, <2>2 DEF Tree, Admitted
  <2>3. CASE q = r /\ Refilled(r, t)
    BY <2>1, <2>3, Existing DEF Tree, Admitted, Refilled, CanSpawn, NoRun
  <2> QED
    BY <2>2, <2>3 DEF Quiet
<1>3. created' = created /\ shape' = shape /\ \A q \in Run : SameRow(q)
  BY DEF Quiet
<1>4. \A q \in 2..created : q \in Run /\ run[q].parent \in Run
  BY Existing DEF Tree, Parents
<1>5. Parents' /\ DepthBounded'
  BY <1>3, <1>4 DEF Tree, Parents, DepthBounded, SameRow
<1> QED
  BY <1>1, <1>2, <1>5 DEF Tree

LEMMA SpawnTree ==
  ASSUME TypeOK, TypeOK', Tree, UNCHANGED shape, NEW r \in Run, NEW t \in Slot, CreateAgentRun(r, t)
  PROVE  Tree'
<1> DEFINE c == created'
<1>1. /\ c = created + 1 /\ c \in Run
      /\ \A q \in Run \ {c} : run'[q] = run[q]
      /\ run'[c].parent = r /\ run'[c].depth = run[r].depth + 1
      /\ run'[c].status = "RUNNING"
      /\ task[r][t].at = "create" /\ task'[r][t].at = "announce" /\ task'[r][t].child = c
      /\ \A q \in Run \ {r} : task'[q] = task[q]
      /\ \A s \in Slot \ {t} : task'[r][s] = task[r][s]
  BY SpawnStep
<1>2. run[r].status \notin {"none", "WAITING_APPROVAL"} /\ r \in 1..created
  BY <1>1, Existing DEF Tree, Idle, Looping
<1>3. Idle'
  BY <1>1, <1>2, Existing DEF Tree, Idle, Looping
<1>4. Looping(c) /\ c # r
  <2>1. run[c].status = "none"
    BY <1>1, Existing DEF TypeOK
  <2> QED
    BY <1>1, <1>2, <2>1, Existing DEF Tree, Idle
<1>5. Admitted'
  <2> SUFFICES ASSUME NEW q \in Run, NEW s \in Slot
               PROVE  /\ task'[q][s].at \in {"lookup", "create"} =>
                           run'[q].depth + 1 <= shape'.depth
                      /\ task'[q][s].child \in 0..created'
    BY DEF Admitted
  <2>1. CASE q = r /\ s = t
    BY <1>1, <2>1, Existing
  <2>2. CASE task'[q][s] = task[q][s] /\ q # c
    BY <1>1, <2>2, Existing DEF Tree, Admitted
  <2>3. CASE q = c
    <3>1. task'[q][s] = task[q][s] /\ task[q][s].at = "free"
      BY <1>1, <1>4, <2>3 DEF Looping
    <3> QED
      BY <1>1, <2>3, <3>1, Existing DEF Tree, Admitted
  <2> QED
    BY <1>1, <2>1, <2>2, <2>3
<1>6. run[r].depth + 1 <= shape.depth
  BY <1>1 DEF Tree, Admitted
<1>7. ASSUME NEW q \in 2..created'
      PROVE  /\ run'[q].parent \in 1..(q - 1)
             /\ run'[q].depth = run'[run'[q].parent].depth + 1
             /\ run'[q].depth <= shape'.depth
  <2>1. CASE q = c
    BY <1>1, <1>2, <1>4, <1>6, <2>1, Existing
  <2>2. CASE q \in 2..created
    <3>1. q \in Run \ {c} /\ run[q].parent \in Run \ {c}
      BY <1>1, <2>2, Existing DEF Tree, Parents
    <3> QED
      BY <1>1, <2>2, <3>1 DEF Tree, Parents, DepthBounded
  <2> QED
    BY <1>1, <2>1, <2>2, Existing
<1>8. Parents' /\ DepthBounded'
  BY <1>7, Existing DEF Parents, DepthBounded
<1> QED
  BY <1>3, <1>5, <1>8 DEF Tree

\* A step that neither creates a row nor begins a task.
LEMMA SettlingTree ==
  ASSUME TypeOK, TypeOK', Tree, UNCHANGED <<shape, created>>,
         \A q \in Run : run'[q].parent = run[q].parent /\ run'[q].depth = run[q].depth,
         \A q \in Run, t \in Slot :
           \/ task'[q][t] = task[q][t]
           \/ /\ task[q][t].at # "free"
              /\ task'[q][t].at \notin {"lookup", "create"}
              /\ task'[q][t].child \in {NoRun, task[q][t].child},
         \A q \in Run : run'[q].status \in {"none", "WAITING_APPROVAL"} => Looping(q)
  PROVE  Tree'
<1>1. Idle'
  BY DEF Idle, Looping
<1>2. Admitted'
  BY Existing DEF Tree, Admitted, NoRun
<1>3. \A q \in 2..created : q \in Run /\ run[q].parent \in Run
  BY Existing DEF Tree, Parents
<1>4. Parents' /\ DepthBounded'
  BY <1>3 DEF Tree, Parents, DepthBounded
<1> QED
  BY <1>1, <1>2, <1>4 DEF Tree

LEMMA TreeStep == TypeOK /\ TypeOK' /\ Tree /\ [Next]_vars => Tree'
<1> SUFFICES ASSUME TypeOK, TypeOK', Tree, [Next]_vars
             PROVE  Tree'
  OBVIOUS
<1>1. CASE UNCHANGED vars
  BY <1>1 DEF vars, Tree, Idle, Looping, Admitted, Parents, DepthBounded
<1>2. ASSUME NEW r \in Run, UNCHANGED shape,
             Working(r) \/ \E t \in Slot : FindAgent(r, t)
      PROVE  Tree'
  BY <1>2, WorkingStep, FindAgentStep, QuietTree
<1>3. ASSUME NEW r \in Run, NEW t \in Slot, UNCHANGED shape, CreateAgentRun(r, t)
      PROVE  Tree'
  BY <1>3, SpawnTree
<1>4. ASSUME NEW r \in Run, NEW t \in Slot, UNCHANGED shape, Announce(r, t)
      PROVE  Tree'
  <2>1. \A q \in Run : /\ run'[q].parent = run[q].parent /\ run'[q].depth = run[q].depth
                       /\ run'[q].status = run[q].status
    BY <1>4, AnnounceStep DEF SameRow
  <2>2. ASSUME NEW q \in Run, NEW s \in Slot
        PROVE  \/ task'[q][s] = task[q][s]
               \/ /\ task[q][s].at # "free"
                  /\ task'[q][s].at \notin {"lookup", "create"}
                  /\ task'[q][s].child \in {NoRun, task[q][s].child}
    BY <1>4, AnnounceStep
  <2>3. UNCHANGED created
    BY <1>4, AnnounceStep
  <2> QED
    BY <1>4, <2>1, <2>2, <2>3, SettlingTree DEF Tree, Idle
<1>5. ASSUME NEW r \in Run, UNCHANGED shape, Ending(r)
      PROVE  Tree'
  <2>1. /\ UNCHANGED created
        /\ \A q \in Run : run'[q].parent = run[q].parent /\ run'[q].depth = run[q].depth
    BY <1>5, EndStep DEF SameRow
  <2>2. \A q \in Run : run'[q].status \in {"none", "WAITING_APPROVAL"} => Looping(q)
    BY <1>5, EndStep DEF Tree, Idle, Ended
  <2>3. ASSUME NEW q \in Run, NEW s \in Slot
        PROVE  \/ task'[q][s] = task[q][s]
               \/ /\ task[q][s].at # "free"
                  /\ task'[q][s].at \notin {"lookup", "create"}
                  /\ task'[q][s].child \in {NoRun, task[q][s].child}
    BY <1>5, EndStep
  <2> QED
    BY <1>5, <2>1, <2>2, <2>3, SettlingTree
<1>6. ASSUME NEW r \in Run, UNCHANGED shape, Resume(r)
      PROVE  Tree'
  <2>1. /\ UNCHANGED <<created, task>>
        /\ \A q \in Run : /\ run'[q].parent = run[q].parent /\ run'[q].depth = run[q].depth
                          /\ run'[q].status \in {"none", "WAITING_APPROVAL"} =>
                               run'[q].status = run[q].status
    BY <1>6, ResumeStep DEF Driven
  <2> QED
    BY <1>6, <2>1, SettlingTree DEF Tree, Idle
<1> QED
  BY <1>1, <1>2, <1>3, <1>4, <1>5, <1>6, Kinds

LEMMA TreeInit == Init => Tree
<1> SUFFICES ASSUME Init
             PROVE  Tree
  OBVIOUS
<1>1. created = 1 /\ \A r \in Run, t \in Slot : task[r][t].at = "free" /\ task[r][t].child = 0
  BY FixedTasks DEF Init, NoRun
<1> QED
  BY <1>1 DEF Tree, Idle, Looping, Admitted, Parents, DepthBounded

\* The runs form a tree that is no deeper than the deployment allows, whoever
\* is resumed, replaced or abandoned.
THEOREM TreeBounded == Spec => []DepthBounded
<1>1. Tree => DepthBounded
  BY DEF Tree
<1> QED
  BY <1>1, TreeInit, TreeStep, TypeCorrect, PTL DEF Spec

-----------------------------------------------------------------------------
(* Whatever is spawned was charged.                                         *)

Created(b) == {r \in 1..created : run[r].budget = b}
Creating(b) == {p \in (1..created) \X Slot :
                  run[p[1]].budget = b /\ task[p[1]][p[2]].at = "create"}

Paid(b) == Cardinality(Created(b)) + Cardinality(Creating(b)) <= count[b]

\* A run belongs to a CoordinationState that exists.
Budgeted == \A r \in 1..created : run[r].budget <= resumes

Account == Budgeted /\ \A b \in Budget : b <= resumes => Paid(b)

LEMMA AccountsFinite ==
  ASSUME TypeOK, NEW b
  PROVE  /\ IsFiniteSet(Created(b)) /\ Cardinality(Created(b)) \in Nat
         /\ IsFiniteSet(Creating(b)) /\ Cardinality(Creating(b)) \in Nat
<1>1. IsFiniteSet(1..created) /\ IsFiniteSet(Slot)
  BY Existing, FS_Interval, CoordinationAssumption DEF CoordinationAssumption, Slot
<1>2. IsFiniteSet((1..created) \X Slot)
  BY <1>1, FS_Product
<1>3. Created(b) \in SUBSET (1..created) /\ Creating(b) \in SUBSET ((1..created) \X Slot)
  BY DEF Created, Creating
<1>4. IsFiniteSet(Created(b)) /\ IsFiniteSet(Creating(b))
  BY <1>1, <1>2, <1>3, FS_Subset
<1> QED
  BY <1>4, FS_CardinalityType

\* A set that gains at most one element, and one that loses at least one.
LEMMA OneMore ==
  ASSUME NEW S, IsFiniteSet(S), NEW x, NEW T, T \subseteq S \union {x}
  PROVE  /\ Cardinality(S) \in Nat /\ Cardinality(T) \in Nat
         /\ Cardinality(T) <= Cardinality(S) + 1
<1>1. IsFiniteSet(S \union {x}) /\ Cardinality(S) \in Nat
  BY FS_AddElement, FS_CardinalityType
<1>2. Cardinality(S \union {x}) \in {Cardinality(S), Cardinality(S) + 1}
  BY FS_AddElement
<1>3. IsFiniteSet(T) /\ Cardinality(T) <= Cardinality(S \union {x})
  BY <1>1, FS_Subset
<1>4. Cardinality(T) \in Nat
  BY <1>3, FS_CardinalityType
<1> QED
  BY <1>1, <1>2, <1>3, <1>4

LEMMA OneLess ==
  ASSUME NEW S, IsFiniteSet(S), NEW x \in S, NEW T, T \subseteq S \ {x}
  PROVE  /\ Cardinality(S) \in Nat /\ Cardinality(T) \in Nat
         /\ Cardinality(T) <= Cardinality(S) - 1
<1>1. /\ IsFiniteSet(S \ {x}) /\ Cardinality(S) \in Nat
      /\ Cardinality(S \ {x}) = Cardinality(S) - 1
  BY FS_RemoveElement, FS_CardinalityType
<1>2. IsFiniteSet(T) /\ Cardinality(T) <= Cardinality(S \ {x})
  BY <1>1, FS_Subset
<1>3. Cardinality(T) \in Nat
  BY <1>2, FS_CardinalityType
<1> QED
  BY <1>1, <1>2, <1>3

\* An account that covers a set covers every smaller one.
LEMMA NothingSpent ==
  ASSUME TypeOK, TypeOK', UNCHANGED shape, NEW b \in Budget, Paid(b),
         Created(b)' \subseteq Created(b), Creating(b)' \subseteq Creating(b), count'[b] = count[b]
  PROVE  Paid(b)'
<1>1. /\ Cardinality(Created(b)') <= Cardinality(Created(b))
      /\ Cardinality(Creating(b)') <= Cardinality(Creating(b))
  BY AccountsFinite, FS_Subset
<1>2. /\ Cardinality(Created(b)) \in Nat /\ Cardinality(Creating(b)) \in Nat
      /\ count[b] \in Nat
  BY AccountsFinite DEF TypeOK
<1>3. IsFiniteSet(Created(b)') /\ IsFiniteSet(Creating(b)')
  BY AccountsFinite, FS_Subset
<1>4. Cardinality(Created(b)') \in Nat /\ Cardinality(Creating(b)') \in Nat
  BY <1>3, FS_CardinalityType
<1> QED
  BY <1>1, <1>2, <1>4 DEF Paid

\* A step that registers and creates nothing.
LEMMA AccountKept ==
  ASSUME TypeOK, TypeOK', Account, UNCHANGED <<shape, created, count, resumes>>,
         \A q \in Run : run'[q].budget = run[q].budget,
         \A q \in Run, t \in Slot : task'[q][t].at = "create" => task[q][t].at = "create"
  PROVE  Account'
<1>1. \A q \in 1..created : q \in Run
  BY Existing
<1>2. Budget' = Budget
  BY DEF Budget
<1>3. \A b \in Budget : Created(b)' = Created(b) /\ Creating(b)' \subseteq Creating(b)
  BY <1>1 DEF Created, Creating
<1> QED
  BY <1>1, <1>2, <1>3, NothingSpent DEF Account, Budgeted

LEMMA FindAgentAccount ==
  ASSUME TypeOK, TypeOK', Tree, Account, UNCHANGED shape, NEW r \in Run, NEW t \in Slot,
         FindAgent(r, t)
  PROVE  Account'
<1>1. /\ UNCHANGED <<shape, created, resumes, run>>
      /\ \A q \in Run \ {r} : task'[q] = task[q]
      /\ \A s \in Slot \ {t} : task'[r][s] = task[r][s]
      /\ task[r][t].at = "lookup"
  BY FindAgentStep DEF Quiet
<1>2. CASE task'[r][t].at = "done" /\ UNCHANGED count
  BY <1>1, <1>2, AccountKept
<1>3. CASE /\ task'[r][t].at = "create"
           /\ count' = [count EXCEPT ![run[r].budget] = @ + 1]
  <2>1. r \in 1..created
    BY <1>1, Existing DEF Tree, Idle, Looping
  <2>2. Budget' = Budget /\ run[r].budget \in Budget
    BY DEF TypeOK, RunState, Budget
  <2>3. ASSUME NEW b \in Budget, b <= resumes
        PROVE  Paid(b)'
    <3>1. Paid(b) /\ Created(b)' = Created(b)
      BY <1>1, <2>3 DEF Account, Created
    <3>2. CASE b # run[r].budget
      <4>1. Creating(b)' \subseteq Creating(b)
        <5> SUFFICES ASSUME NEW p \in Creating(b)'
                     PROVE  p \in Creating(b)
          OBVIOUS
        <5>1. /\ p \in (1..created) \X Slot /\ p[1] \in Run /\ p[1] # r
              /\ run[p[1]].budget = b /\ task'[p[1]][p[2]].at = "create"
          BY <1>1, <3>2, Existing DEF Creating
        <5> QED
          BY <1>1, <5>1 DEF Creating
      <4>2. count'[b] = count[b]
        BY <1>3, <2>2, <3>2 DEF TypeOK
      <4> QED
        BY <3>1, <4>1, <4>2, NothingSpent
    <3>3. CASE b = run[r].budget
      <4>1. Creating(b)' \subseteq Creating(b) \union {<<r, t>>}
        <5> SUFFICES ASSUME NEW p \in Creating(b)', p # <<r, t>>
                     PROVE  p \in Creating(b)
          OBVIOUS
        <5>1. /\ p \in (1..created) \X Slot /\ p[1] \in Run /\ p[2] \in Slot
              /\ p[1] # r \/ p[2] # t
              /\ run[p[1]].budget = b /\ task'[p[1]][p[2]].at = "create"
          BY <1>1, Existing DEF Creating
        <5>2. task'[p[1]][p[2]] = task[p[1]][p[2]]
          BY <1>1, <5>1
        <5> QED
          BY <5>1, <5>2 DEF Creating
      <4>2. /\ Cardinality(Creating(b)) \in Nat /\ Cardinality(Creating(b)') \in Nat
            /\ Cardinality(Creating(b)') <= Cardinality(Creating(b)) + 1
        BY <4>1, AccountsFinite, OneMore
      <4>3. Cardinality(Created(b)) \in Nat
        BY AccountsFinite
      <4>4. count[b] \in Nat /\ count'[b] = count[b] + 1
        BY <1>3, <2>2, <3>3 DEF TypeOK
      <4> QED
        BY <3>1, <4>2, <4>3, <4>4 DEF Paid
    <3> QED
      BY <3>2, <3>3
  <2>4. Budgeted'
    BY <1>1 DEF Account, Budgeted
  <2> QED
    BY <1>1, <2>2, <2>3, <2>4 DEF Account
<1> QED
  BY <1>2, <1>3, FindAgentStep

LEMMA SpawnAccount ==
  ASSUME TypeOK, TypeOK', Tree, Account, UNCHANGED shape, NEW r \in Run, NEW t \in Slot,
         CreateAgentRun(r, t)
  PROVE  Account'
<1> DEFINE c == created'
<1>1. /\ UNCHANGED <<shape, count, resumes>>
      /\ c = created + 1 /\ c \in Run
      /\ \A q \in Run \ {c} : run'[q] = run[q]
      /\ run'[c].budget = run[r].budget
      /\ task[r][t].at = "create" /\ task'[r][t].at = "announce"
      /\ \A q \in Run \ {r} : task'[q] = task[q]
      /\ \A s \in Slot \ {t} : task'[r][s] = task[r][s]
  BY SpawnStep
<1>2. r \in 1..created
  BY <1>1, Existing DEF Tree, Idle, Looping
<1>3. c \notin 1..created /\ 1..c = (1..created) \union {c} /\ c # r
  BY <1>1, <1>2, Existing
<1>4. \A s \in Slot : task'[c][s].at = "free"
  <2>1. run[c].status = "none"
    BY <1>1, Existing DEF TypeOK
  <2> QED
    BY <1>1, <1>3, <2>1 DEF Tree, Idle, Looping
<1>5. Budget' = Budget
  BY <1>1 DEF Budget
<1>6. Budgeted'
  <2> SUFFICES ASSUME NEW q \in 1..created'
               PROVE  run'[q].budget <= resumes'
    BY DEF Budgeted
  <2>1. CASE q = c
    BY <1>1, <1>2, <2>1 DEF Account, Budgeted
  <2>2. CASE q \in 1..created
    BY <1>1, <1>3, <2>2, Existing DEF Account, Budgeted
  <2> QED
    BY <1>3, <2>1, <2>2
<1>7. ASSUME NEW b \in Budget, NEW p \in Creating(b)'
      PROVE  p \in Creating(b) /\ p # <<r, t>>
  <2>1. /\ p \in (1..c) \X Slot /\ p[1] \in 1..c /\ p[2] \in Slot /\ p = <<p[1], p[2]>>
        /\ run'[p[1]].budget = b /\ task'[p[1]][p[2]].at = "create"
    BY DEF Creating
  <2>2. p[1] # c /\ (p[1] # r \/ p[2] # t)
    BY <1>1, <1>4, <2>1
  <2>3. p[1] \in 1..created /\ p[1] \in Run
    BY <1>3, <2>1, <2>2, Existing
  <2>4. task'[p[1]][p[2]] = task[p[1]][p[2]] /\ run'[p[1]] = run[p[1]]
    BY <1>1, <2>1, <2>2, <2>3
  <2>5. p \in (1..created) \X Slot
    BY <2>1, <2>3
  <2>6. p # <<r, t>>
    BY <1>1, <2>1
  <2> QED
    BY <2>1, <2>4, <2>5, <2>6 DEF Creating
<1>8. ASSUME NEW b \in Budget, b <= resumes
      PROVE  Paid(b)'
  <2>1. Paid(b) /\ count'[b] = count[b] /\ count[b] \in Nat
    BY <1>1, <1>8 DEF Account, TypeOK
  <2>2. CASE b # run[r].budget
    <3>1. Created(b)' \subseteq Created(b)
      BY <1>1, <1>3, <2>2, Existing DEF Created
    <3>2. Creating(b)' \subseteq Creating(b)
      BY <1>7
    <3> QED
      BY <2>1, <3>1, <3>2, NothingSpent
  <2>3. CASE b = run[r].budget
    <3>1. Created(b)' \subseteq Created(b) \union {c}
      BY <1>1, <1>3, Existing DEF Created
    <3>2. <<r, t>> \in Creating(b)
      BY <1>1, <1>2, <2>3 DEF Creating
    <3>3. Creating(b)' \subseteq Creating(b) \ {<<r, t>>}
      BY <1>7
    <3>4. IsFiniteSet(Creating(b)) /\ IsFiniteSet(Created(b))
      BY AccountsFinite
    <3>5. /\ Cardinality(Created(b)) \in Nat /\ Cardinality(Created(b)') \in Nat
          /\ Cardinality(Created(b)') <= Cardinality(Created(b)) + 1
      BY <3>1, <3>4, OneMore
    <3>6. /\ Cardinality(Creating(b)) \in Nat /\ Cardinality(Creating(b)') \in Nat
          /\ Cardinality(Creating(b)') <= Cardinality(Creating(b)) - 1
      BY <3>2, <3>3, <3>4, OneLess
    <3> QED
      BY <2>1, <3>5, <3>6 DEF Paid
  <2> QED
    BY <2>2, <2>3
<1> QED
  BY <1>1, <1>5, <1>6, <1>8 DEF Account

\* A resumed run takes its place from its old account; it has nothing under way.
LEMMA ResumeAccount ==
  ASSUME TypeOK, TypeOK', Tree, Account, UNCHANGED shape, NEW r \in Run, Resume(r)
  PROVE  Account'
<1> DEFINE n == resumes'
<1>1. /\ UNCHANGED <<shape, created, task>>
      /\ n = resumes + 1 /\ n \in Budget
      /\ count' = [count EXCEPT ![n] = 1]
      /\ run[r].status = "WAITING_APPROVAL"
      /\ \A q \in Run \ {r} : run'[q] = run[q]
      /\ run'[r].budget = n
  BY ResumeStep
<1>2. Looping(r) /\ resumes \in Nat
  BY <1>1 DEF Tree, Idle, TypeOK
<1>3. Budget' = Budget
  BY <1>1 DEF Budget
<1>4. Budgeted'
  <2> SUFFICES ASSUME NEW q \in 1..created
               PROVE  run'[q].budget <= n
    BY <1>1 DEF Budgeted
  <2>1. run[q].budget \in Nat /\ q \in Run
    <3>1. q \in Run /\ run[q] \in RunState
      BY Existing
    <3> QED
      BY <3>1 DEF RunState, Budget
  <2> QED
    BY <1>1, <1>2, <2>1 DEF Account, Budgeted, Budget
<1>5. ASSUME NEW b \in Budget, NEW p \in Creating(b)'
      PROVE  p \in Creating(b)
  <2>1. p \in (1..created) \X Slot /\ p[1] \in Run /\ p[2] \in Slot /\ p[1] \in 1..created
    BY <1>1, Existing DEF Creating
  <2>2. p[1] # r
    BY <1>1, <1>2, <2>1 DEF Creating, Looping
  <2> QED
    BY <1>1, <2>1, <2>2 DEF Creating
<1>6. ASSUME NEW b \in Budget, b <= n
      PROVE  Paid(b)'
  <2>1. CASE b = n
    <3>1. Created(b)' \subseteq {} \union {r}
      <4> SUFFICES ASSUME NEW q \in Created(b)', q # r
                   PROVE  FALSE
        OBVIOUS
      <4>1. q \in 1..created /\ q \in Run /\ run[q].budget = n
        BY <1>1, <2>1, Existing DEF Created
      <4> QED
        BY <1>1, <1>2, <4>1 DEF Account, Budgeted
    <3>2. Creating(b) = {}
      <4> SUFFICES ASSUME NEW p \in Creating(b)
                   PROVE  FALSE
        OBVIOUS
      <4>1. p[1] \in 1..created /\ run[p[1]].budget = n
        BY <2>1 DEF Creating
      <4> QED
        BY <1>1, <1>2, <4>1 DEF Account, Budgeted
    <3>3. Creating(b)' = {}
      BY <1>5, <3>2
    <3>4. Cardinality(Created(b)') \in Nat /\ Cardinality(Created(b)') <= 1
      <4>1. Cardinality(Created(b)') \in Nat /\ Cardinality(Created(b)') <= Cardinality({}) + 1
        BY <3>1, FS_EmptySet, OneMore
      <4> QED
        BY <4>1, FS_EmptySet
    <3>5. count'[b] = 1
      BY <1>1, <2>1 DEF TypeOK
    <3> QED
      BY <3>3, <3>4, <3>5, FS_EmptySet DEF Paid
  <2>2. CASE b # n
    <3>1. b <= resumes
      BY <1>1, <1>2, <1>6, <2>2 DEF Budget
    <3>2. Created(b)' \subseteq Created(b)
      BY <1>1, <2>2, Existing DEF Created
    <3>3. count'[b] = count[b]
      BY <1>1, <2>2 DEF TypeOK
    <3> QED
      BY <1>1, <1>5, <3>1, <3>2, <3>3, NothingSpent DEF Account
  <2> QED
    BY <2>1, <2>2
<1> QED
  BY <1>1, <1>3, <1>4, <1>6 DEF Account

LEMMA AccountStep == TypeOK /\ TypeOK' /\ Tree /\ Account /\ [Next]_vars => Account'
<1> SUFFICES ASSUME TypeOK, TypeOK', Tree, Account, [Next]_vars
             PROVE  Account'
  OBVIOUS
<1>1. CASE UNCHANGED vars
  <2>1. UNCHANGED <<shape, created, count, resumes, run, task>>
    BY <1>1 DEF vars
  <2> QED
    BY <2>1, AccountKept
<1>2. ASSUME NEW r \in Run, UNCHANGED shape, Working(r)
      PROVE  Account'
  <2>1. /\ UNCHANGED <<shape, created, count, resumes>>
        /\ \A q \in Run : run'[q].budget = run[q].budget
        /\ \A q \in Run, t \in Slot : task'[q][t].at = "create" => task[q][t].at = "create"
    BY <1>2, WorkingStep DEF Quiet, SameRow, NoneRegistered
  <2> QED
    BY <2>1, AccountKept
<1>3. ASSUME NEW r \in Run, NEW t \in Slot, UNCHANGED shape, FindAgent(r, t)
      PROVE  Account'
  BY <1>3, FindAgentAccount
<1>4. ASSUME NEW r \in Run, NEW t \in Slot, UNCHANGED shape, CreateAgentRun(r, t)
      PROVE  Account'
  BY <1>4, SpawnAccount
<1>5. ASSUME NEW r \in Run, UNCHANGED shape, Ending(r) \/ \E t \in Slot : Announce(r, t)
      PROVE  Account'
  <2>1. /\ UNCHANGED <<shape, created, count, resumes>>
        /\ \A q \in Run : run'[q].budget = run[q].budget
    BY <1>5, EndStep, AnnounceStep DEF SameRow
  <2>2. ASSUME NEW q \in Run, NEW s \in Slot
        PROVE  task'[q][s].at = "create" => task[q][s].at = "create"
    <3>1. CASE Ending(r)
      BY <1>5, <3>1, EndStep
    <3>2. ASSUME NEW t \in Slot, Announce(r, t)
          PROVE  task'[q][s].at = "create" => task[q][s].at = "create"
      BY <1>5, <3>2, AnnounceStep
    <3> QED
      BY <1>5, <3>1, <3>2
  <2> QED
    BY <2>1, <2>2, AccountKept
<1>6. ASSUME NEW r \in Run, UNCHANGED shape, Resume(r)
      PROVE  Account'
  BY <1>6, ResumeAccount
<1> QED
  BY <1>1, <1>2, <1>3, <1>4, <1>5, <1>6, Kinds

LEMMA AccountInit == Init => Account
<1> SUFFICES ASSUME Init
             PROVE  Account
  OBVIOUS
<1>1. TypeOK
  BY TypeInit
<1>2. created = 1 /\ resumes = 0 /\ run[1].budget = 0
  BY CoordinationAssumption DEF CoordinationAssumption, Init, Root, Run, NewRun
<1>3. \A r \in Run, t \in Slot : task[r][t].at = "free"
  BY FixedTasks DEF Init
<1>4. Budgeted
  BY <1>2 DEF Budgeted
<1>5. ASSUME NEW b \in Budget, b <= resumes
      PROVE  Paid(b)
  <2>1. b = 0
    BY <1>2, <1>5, CoordinationAssumption, <1>1 DEF Budget
  <2>2. Creating(b) = {}
    BY <1>3, Existing, <1>1 DEF Creating
  <2>3. Created(b) \subseteq {} \union {1}
    BY <1>2 DEF Created
  <2>4. Cardinality(Created(b)) \in Nat /\ Cardinality(Created(b)) <= Cardinality({}) + 1
    BY <2>3, FS_EmptySet, OneMore
  <2>5. count[b] = 1
    BY <2>1 DEF Init, Budget
  <2> QED
    BY <2>2, <2>4, <2>5, FS_EmptySet DEF Paid
<1> QED
  BY <1>4, <1>5 DEF Account

\* Every row that exists, and every row that is about to, was counted by the
\* CoordinationState it belongs to, for which the limit was checked.
THEOREM SpawnsCharged == Spec => []Charged
<1>1. Account => Charged
  BY DEF Account, Paid, Created, Creating, Charged
<1> QED
  BY <1>1, TreeInit, TreeStep, AccountInit, AccountStep, TypeCorrect, PTL DEF Spec

-----------------------------------------------------------------------------
(* Who is driven is awaited.                                                *)

\* A run that is yet to be announced belongs to one task, and does nothing.
Unannounced(q, t, c) ==
  /\ c \in Run /\ run[c].parent = q /\ run[c].via = run[q].via \union {q}
  /\ run[c].status = "RUNNING" /\ run[c].hold = "stopped" /\ Looping(c)
  /\ \A s \in Slot \ {t} : task[q][s].at \in {"announce", "child"} => task[q][s].child # c

\* The events of r climb through its parent, which is driven and waits for them.
Above(r) ==
  /\ run[r].parent \in Run /\ Driven(run[r].parent)
  /\ run[r].via = run[run[r].parent].via \union {run[r].parent}
  /\ \E t \in Slot : task[run[r].parent][t].at = "child" /\ task[run[r].parent][t].child = r

\* What a task of r waits for is driven through r.
Below(r, c) == c \in Run /\ Driven(c) /\ run[c].via = run[r].via \union {r}

Chains ==
  /\ \A q \in Run, t \in Slot : task[q][t].at = "announce" => Unannounced(q, t, task[q][t].child)
  /\ \A r \in Run : Driven(r) =>
       /\ run[r].via # {} => Above(r)
       /\ \A t \in Slot : task[r][t].at = "child" => Below(r, task[r][t].child)

LEMMA QuietChains ==
  ASSUME TypeOK, TypeOK', Chains, NEW r \in Run, Quiet(r)
  PROVE  Chains'
<1>1. \A q \in Run : /\ SameRow(q) /\ run'[q].status = run[q].status
                     /\ Driven(q)' <=> Driven(q)
                     /\ run[q].hold = "stopped" => run'[q].hold = "stopped"
  BY DEF Quiet, Driven
<1>2. \A q \in Run, t \in Slot :
        /\ task'[q][t].at \in {"announce", "child"} => task'[q][t] = task[q][t]
        /\ task[q][t].at = "child" => task'[q][t] = task[q][t]
  BY DEF Quiet, Refilled
<1>3. \A q \in Run : Looping(q) /\ run[q].hold = "stopped" => Looping(q)'
  BY DEF Quiet, Looping, Alive
<1>4. ASSUME NEW q \in Run, NEW t \in Slot, task'[q][t].at = "announce"
      PROVE  Unannounced(q, t, task[q][t].child)'
  <2>1. task'[q][t] = task[q][t] /\ Unannounced(q, t, task[q][t].child)
    BY <1>2, <1>4 DEF Chains
  <2> QED
    BY <1>1, <1>2, <1>3, <2>1 DEF Unannounced, SameRow
<1>5. ASSUME NEW q \in Run, Driven(q)', run'[q].via # {}
      PROVE  Above(q)'
  <2>1. Driven(q) /\ Above(q)
    BY <1>1, <1>5 DEF Chains, SameRow
  <2> QED
    BY <1>1, <1>2, <2>1 DEF Above, SameRow
<1>6. ASSUME NEW q \in Run, Driven(q)', NEW t \in Slot, task'[q][t].at = "child"
      PROVE  Below(q, task[q][t].child)'
  <2>1. Driven(q) /\ task'[q][t] = task[q][t] /\ Below(q, task[q][t].child)
    BY <1>1, <1>2, <1>6 DEF Chains
  <2> QED
    BY <1>1, <2>1 DEF Below, SameRow
<1> QED
  BY <1>4, <1>5, <1>6 DEF Chains

LEMMA SpawnChains ==
  ASSUME TypeOK, TypeOK', Tree, Chains, UNCHANGED shape, NEW r \in Run, NEW t \in Slot,
         CreateAgentRun(r, t)
  PROVE  Chains'
<1>0. PICK n \in Run : n = created'
  BY SpawnStep
<1>1. /\ n = created + 1 /\ n \in Run
      /\ \A q \in Run \ {n} : run'[q] = run[q]
      /\ run'[n].parent = r /\ run'[n].via = run[r].via \union {r}
      /\ run'[n].status = "RUNNING" /\ run'[n].hold = "stopped"
      /\ task[r][t].at = "create" /\ task'[r][t].at = "announce" /\ task'[r][t].child = n
      /\ \A q \in Run \ {r} : task'[q] = task[q]
      /\ \A s \in Slot \ {t} : task'[r][s] = task[r][s]
  BY <1>0, SpawnStep
<1>2. run[n].status = "none" /\ Looping(n)
  <2>1. run[n].status = "none"
    BY <1>1, Existing DEF TypeOK
  <2> QED
    BY <1>1, <2>1 DEF Tree, Idle
<1>3. ~Looping(r) /\ r # n
  BY <1>1, <1>2 DEF Looping
<1>4. /\ ~Driven(n) /\ ~Driven(n)'
      /\ \A q \in Run : Driven(q)' <=> Driven(q)
  BY <1>1, <1>2 DEF Driven
<1>5. \A q \in Run, s \in Slot : task[q][s].child # n
  BY <1>1, Existing DEF Tree, Admitted
<1>6. \A q \in Run \ {r} : Looping(q) => Looping(q)'
  BY <1>1 DEF Looping
<1>7. ASSUME NEW q \in Run, NEW s \in Slot, task'[q][s].at = "announce"
      PROVE  Unannounced(q, s, task[q][s].child)'
  <2>1. CASE q = r /\ s = t
    BY <1>1, <1>2, <1>3, <1>5, <1>6, <2>1 DEF Unannounced
  <2>2. CASE ~(q = r /\ s = t)
    <3>1. task'[q][s] = task[q][s] /\ Unannounced(q, s, task[q][s].child)
      BY <1>1, <1>7, <2>2 DEF Chains
    <3> DEFINE c == task[q][s].child
    <3>2. c \in Run /\ c # n /\ c # r /\ run'[c] = run[c] /\ Looping(c)'
      BY <1>1, <1>3, <1>5, <1>6, <3>1 DEF Unannounced
    <3>3. q # n
      BY <1>2, <1>7, <3>1 DEF Looping
    <3>4. ASSUME NEW u \in Slot \ {s}, task'[q][u].at \in {"announce", "child"}
          PROVE  task'[q][u].child # c
      <4>1. CASE q = r /\ u = t
        BY <1>1, <3>2, <4>1
      <4>2. CASE ~(q = r /\ u = t)
        <5>1. task'[q][u] = task[q][u]
          BY <1>1, <4>2
        <5> QED
          BY <3>1, <3>4, <5>1 DEF Unannounced
      <4> QED
        BY <4>1, <4>2
    <3>5. task'[q][s].child = c /\ run'[q] = run[q]
      BY <1>1, <3>1, <3>3
    <3>6. /\ run'[c].parent = q /\ run'[c].via = run'[q].via \union {q}
          /\ run'[c].status = "RUNNING" /\ run'[c].hold = "stopped"
      BY <3>1, <3>2, <3>5 DEF Unannounced
    <3>7. Unannounced(q, s, c)'
      BY <3>2, <3>4, <3>5, <3>6 DEF Unannounced
    <3> QED
      BY <3>5, <3>7
  <2> QED
    BY <2>1, <2>2
<1>8. ASSUME NEW q \in Run, Driven(q)', run'[q].via # {}
      PROVE  Above(q)'
  <2>1. q # n /\ Driven(q) /\ Above(q)
    BY <1>1, <1>4, <1>8 DEF Chains
  <2>2. run[q].parent \in Run \ {n}
    BY <1>4, <2>1 DEF Above
  <2>3. \A s \in Slot : task[run[q].parent][s].at = "child" =>
                          task'[run[q].parent][s] = task[run[q].parent][s]
    <3> SUFFICES ASSUME NEW s \in Slot, task[run[q].parent][s].at = "child"
                 PROVE  task'[run[q].parent][s] = task[run[q].parent][s]
      OBVIOUS
    <3>1. CASE run[q].parent = r
      <4>1. s # t
        BY <1>1, <3>1
      <4> QED
        BY <1>1, <3>1, <4>1
    <3>2. CASE run[q].parent # r
      <4>1. task'[run[q].parent] = task[run[q].parent]
        BY <1>1, <2>2, <3>2
      <4> QED
        BY <4>1
    <3> QED
      BY <3>1, <3>2
  <2>4. run'[q] = run[q] /\ run'[run[q].parent] = run[run[q].parent]
    BY <1>1, <2>1, <2>2
  <2>5. Driven(run[q].parent)'
    BY <1>4, <2>1, <2>2, <2>4 DEF Above, Driven
  <2> QED
    BY <2>1, <2>2, <2>3, <2>4, <2>5 DEF Above
<1>9. ASSUME NEW q \in Run, Driven(q)', NEW s \in Slot, task'[q][s].at = "child"
      PROVE  Below(q, task[q][s].child)'
  <2>1. q # n /\ Driven(q) /\ task'[q][s] = task[q][s] /\ Below(q, task[q][s].child)
    BY <1>1, <1>4, <1>9 DEF Chains
  <2>2. task[q][s].child \in Run \ {n}
    BY <1>4, <2>1 DEF Below
  <2> QED
    <3> DEFINE c == task[q][s].child
    <3>1. run'[c] = run[c] /\ run'[q] = run[q] /\ task'[q][s].child = c
      BY <1>1, <2>1, <2>2
    <3>2. c \in Run /\ Driven(c) /\ run[c].via = run[q].via \union {q}
      BY <2>1 DEF Below
    <3> QED
      BY <3>1, <3>2 DEF Below, Driven
<1> QED
  BY <1>7, <1>8, <1>9 DEF Chains

LEMMA AnnounceChains ==
  ASSUME TypeOK, TypeOK', Chains, UNCHANGED shape, NEW r \in Run, NEW t \in Slot, Announce(r, t)
  PROVE  Chains'
<1>0. PICK n \in Run : n = task[r][t].child /\ Unannounced(r, t, n)
  BY AnnounceStep DEF Chains, Unannounced
<1>1. /\ \A q \in Run : SameRow(q) /\ run'[q].status = run[q].status
      /\ \A q \in Run :
           IF Driven(r) /\ q = n THEN run'[q].hold = "driven"
           ELSE \/ run'[q].hold = run[q].hold
                \/ run[q].hold = "drifting" /\ run'[q].hold = "stopped"
      /\ task[r][t].at = "announce" /\ task'[r][t].at = "child" /\ task'[r][t].child = n
      /\ \A q \in Run \ {r} : task'[q] = task[q]
      /\ \A s \in Slot \ {t} : task'[r][s] = task[r][s]
  BY <1>0, AnnounceStep
<1>2. Unannounced(r, t, n) /\ n \in Run
  BY <1>0
<1>3. ~Driven(n) /\ Looping(n) /\ ~Looping(r) /\ n # r
  BY <1>1, <1>2 DEF Unannounced, Driven, Looping
<1>4. \A q \in Run : Driven(q)' <=> Driven(q) \/ (Driven(r) /\ q = n)
  BY <1>1, <1>2 DEF Driven, Unannounced
<1>5. \A q \in Run \ {r} : Looping(q) => Looping(q)'
  BY <1>1 DEF Looping
<1>6. \A q \in Run, s \in Slot : ~(q = r /\ s = t) => task'[q][s] = task[q][s]
  BY <1>1
<1>7. ASSUME NEW q \in Run, NEW s \in Slot, task'[q][s].at = "announce"
      PROVE  Unannounced(q, s, task[q][s].child)'
  <2> DEFINE c == task[q][s].child
  <2>1. ~(q = r /\ s = t) /\ task'[q][s] = task[q][s] /\ Unannounced(q, s, c)
    BY <1>1, <1>6, <1>7 DEF Chains
  <2>2. c # n
    BY <1>1, <1>2, <1>7, <2>1 DEF Unannounced
  <2>3. c \in Run /\ c # r /\ Looping(c)' /\ run'[c].hold = "stopped"
    BY <1>1, <1>3, <1>5, <2>1, <2>2 DEF Unannounced
  <2>4. \A u \in Slot \ {s} : task'[q][u].at \in {"announce", "child"} => task'[q][u].child # c
    BY <1>1, <1>6, <2>1, <2>2 DEF Unannounced
  <2> QED
    BY <1>1, <2>1, <2>3, <2>4 DEF Unannounced, SameRow
<1>8. ASSUME NEW q \in Run, Driven(q)', run'[q].via # {}
      PROVE  Above(q)'
  <2>1. CASE Driven(q)
    <3>1. Above(q)
      BY <1>1, <1>8, <2>1 DEF Chains, SameRow
    <3>2. \A s \in Slot : task[run[q].parent][s].at = "child" =>
                            task'[run[q].parent][s] = task[run[q].parent][s]
      BY <1>1, <1>6, <3>1 DEF Above
    <3> QED
      BY <1>1, <1>4, <3>1, <3>2 DEF Above, SameRow
  <2>2. CASE Driven(r) /\ q = n
    <3>1. run'[n].parent = r /\ run'[n].via = run'[r].via \union {r} /\ Driven(r)'
      BY <1>1, <1>2, <1>4, <2>2 DEF Unannounced, SameRow
    <3> QED
      BY <1>1, <2>2, <3>1 DEF Above
  <2> QED
    BY <1>4, <1>8, <2>1, <2>2
<1>9. ASSUME NEW q \in Run, Driven(q)', NEW s \in Slot, task'[q][s].at = "child"
      PROVE  Below(q, task[q][s].child)'
  <2>1. CASE q = r /\ s = t
    <3>1. Driven(n)' /\ run'[n].via = run'[r].via \union {r}
      BY <1>1, <1>2, <1>3, <1>4, <1>9, <2>1 DEF Unannounced, SameRow
    <3> QED
      BY <1>1, <1>2, <2>1, <3>1 DEF Below
  <2>2. CASE ~(q = r /\ s = t)
    <3>1. task'[q][s] = task[q][s] /\ q # n
      BY <1>3, <1>6, <1>9, <2>2 DEF Looping
    <3>2. Below(q, task[q][s].child)
      BY <1>4, <1>9, <3>1 DEF Chains
    <3> QED
      BY <1>1, <1>4, <3>1, <3>2 DEF Below, SameRow
  <2> QED
    BY <2>1, <2>2
<1> QED
  BY <1>7, <1>8, <1>9 DEF Chains

LEMMA EndChains ==
  ASSUME TypeOK, TypeOK', Chains, UNCHANGED shape, NEW r \in Run, Ending(r)
  PROVE  Chains'
<1>1. /\ Alive(r)
      /\ \A q \in Run : SameRow(q)
      /\ \A q \in Run \ {r} :
           /\ run'[q].status = run[q].status
           /\ Driven(q)' => Driven(q) /\ r \notin run[q].via
           /\ Driven(q) /\ r \notin run[q].via => Driven(q)'
           /\ run[q].hold = "stopped" => run'[q].hold = "stopped"
  BY EndStep
<1>2. ~Driven(r)'
  BY EndStep DEF Driven, Ended
<1>3. ASSUME NEW q \in Run, NEW t \in Slot
      PROVE  /\ task'[q][t].at \in {"announce", "child"} =>
                  /\ task'[q][t] = task[q][t]
                  /\ task[q][t].at = "child" => task[q][t].child # r
             /\ task[q][t].at = "child" /\ task[q][t].child # r /\ q # r =>
                  task'[q][t] = task[q][t]
             /\ task[q][t].at = "free" => task'[q][t] = task[q][t]
  BY EndStep
<1>4. ASSUME NEW q \in Run, NEW t \in Slot, task'[q][t].at = "announce"
      PROVE  Unannounced(q, t, task[q][t].child)' /\ task'[q][t] = task[q][t]
  <2>1. task'[q][t] = task[q][t] /\ Unannounced(q, t, task[q][t].child)
    BY <1>3, <1>4 DEF Chains
  <2> DEFINE c == task[q][t].child
  <2>2. c \in Run /\ c # r
    BY <1>1, <2>1 DEF Unannounced, Alive
  <2>3. \A s \in Slot : task'[c][s].at = "free"
    BY <1>3, <2>1, <2>2 DEF Unannounced, Looping
  <2>4. \A u \in Slot \ {t} : task'[q][u].at \in {"announce", "child"} => task'[q][u].child # c
    BY <1>3, <2>1 DEF Unannounced
  <2> QED
    BY <1>1, <2>1, <2>2, <2>3, <2>4 DEF Unannounced, SameRow, Looping
<1>5. ASSUME NEW q \in Run, Driven(q)', run'[q].via # {}
      PROVE  Above(q)'
  <2>1. q # r /\ Driven(q) /\ r \notin run[q].via /\ Above(q)
    BY <1>1, <1>2, <1>5 DEF Chains, SameRow
  <2> DEFINE p == run[q].parent
  <2>2. p \in Run /\ p # r /\ r \notin run[p].via /\ Driven(p) /\ run'[q].parent = p
    BY <1>1, <2>1 DEF Above, SameRow
  <2>3. Driven(p)' /\ run'[q].via = run'[p].via \union {p}
    BY <1>1, <2>1, <2>2 DEF Above, SameRow
  <2>4. PICK t \in Slot : task[p][t].at = "child" /\ task[p][t].child = q
    BY <2>1 DEF Above
  <2>5. task'[p][t] = task[p][t]
    BY <1>3, <2>1, <2>2, <2>4
  <2> QED
    BY <2>2, <2>3, <2>4, <2>5 DEF Above
<1>6. ASSUME NEW q \in Run, Driven(q)', NEW t \in Slot, task'[q][t].at = "child"
      PROVE  Below(q, task[q][t].child)' /\ task'[q][t] = task[q][t]
  <2> DEFINE c == task[q][t].child
  <2>1. /\ q # r /\ Driven(q) /\ r \notin run[q].via
        /\ task'[q][t] = task[q][t] /\ c # r
        /\ Below(q, c)
    BY <1>1, <1>2, <1>3, <1>6 DEF Chains
  <2>2. c \in Run /\ Driven(c) /\ run[c].via = run[q].via \union {q} /\ r \notin run[c].via
    BY <2>1 DEF Below
  <2>3. Driven(c)' /\ run'[c].via = run'[q].via \union {q}
    BY <1>1, <2>1, <2>2 DEF SameRow
  <2> QED
    BY <2>1, <2>2, <2>3 DEF Below
<1> QED
  BY <1>4, <1>5, <1>6 DEF Chains

LEMMA ResumeChains ==
  ASSUME TypeOK, TypeOK', Tree, Chains, UNCHANGED shape, NEW r \in Run, Resume(r)
  PROVE  Chains'
<1>1. /\ UNCHANGED task
      /\ run[r].status = "WAITING_APPROVAL"
      /\ \A q \in Run \ {r} : run'[q] = run[q]
      /\ run'[r].via = {}
  BY ResumeStep
<1>2. Looping(r) /\ ~Driven(r)
  BY <1>1 DEF Tree, Idle, Driven
<1>3. \A q \in Run \ {r} : Driven(q)' <=> Driven(q)
  BY <1>1 DEF Driven
<1>4. ASSUME NEW q \in Run, NEW t \in Slot, task'[q][t].at = "announce"
      PROVE  Unannounced(q, t, task[q][t].child)'
  <2>1. Unannounced(q, t, task[q][t].child) /\ q # r
    BY <1>1, <1>2, <1>4 DEF Chains, Looping
  <2>2. task[q][t].child \in Run \ {r}
    BY <1>1, <2>1 DEF Unannounced
  <2> QED
    BY <1>1, <2>1, <2>2 DEF Unannounced, Looping
<1>5. ASSUME NEW q \in Run, Driven(q)', run'[q].via # {}
      PROVE  Above(q)'
  <2>1. q # r /\ Driven(q) /\ Above(q)
    BY <1>1, <1>3, <1>5 DEF Chains
  <2>2. run[q].parent \in Run \ {r}
    BY <1>2, <2>1 DEF Above
  <2> QED
    BY <1>1, <1>3, <2>1, <2>2 DEF Above
<1>6. ASSUME NEW q \in Run, Driven(q)', NEW t \in Slot, task'[q][t].at = "child"
      PROVE  Below(q, task[q][t].child)'
  <2>1. q # r /\ Driven(q) /\ Below(q, task[q][t].child)
    BY <1>1, <1>2, <1>3, <1>6 DEF Chains, Looping
  <2> DEFINE c == task[q][t].child
  <2>2. c \in Run \ {r} /\ run[c].via = run[q].via \union {q} /\ Driven(c)
    BY <1>2, <2>1 DEF Below
  <2>3. Driven(c)' /\ run'[c].via = run'[q].via \union {q}
    BY <1>1, <1>3, <2>1, <2>2
  <2> QED
    BY <1>1, <2>2, <2>3 DEF Below
<1> QED
  BY <1>1, <1>4, <1>5, <1>6 DEF Chains

LEMMA ChainsStep == TypeOK /\ TypeOK' /\ Tree /\ Chains /\ [Next]_vars => Chains'
<1> SUFFICES ASSUME TypeOK, TypeOK', Tree, Chains, [Next]_vars
             PROVE  Chains'
  OBVIOUS
<1>1. CASE UNCHANGED vars
  <2>1. run' = run /\ task' = task
    BY <1>1 DEF vars
  <2>2. \A r \in Run : /\ Driven(r)' <=> Driven(r)
                       /\ Looping(r)' <=> Looping(r)
                       /\ Above(r)' <=> Above(r)
    BY <2>1 DEF Driven, Looping, Above
  <2>3. \A q \in Run, t \in Slot :
          /\ Unannounced(q, t, task[q][t].child)' <=> Unannounced(q, t, task[q][t].child)
          /\ Below(q, task[q][t].child)' <=> Below(q, task[q][t].child)
    BY <2>1, <2>2 DEF Driven, Looping, Unannounced, Below
  <2> QED
    BY <2>1, <2>2, <2>3 DEF Chains
<1>2. ASSUME NEW r \in Run, UNCHANGED shape, Working(r)
      PROVE  Chains'
  BY <1>2, WorkingStep, QuietChains
<1>3. ASSUME NEW r \in Run, NEW t \in Slot, UNCHANGED shape, FindAgent(r, t)
      PROVE  Chains'
  BY <1>3, FindAgentStep, QuietChains
<1>4. ASSUME NEW r \in Run, NEW t \in Slot, UNCHANGED shape, CreateAgentRun(r, t)
      PROVE  Chains'
  BY <1>4, SpawnChains
<1>5. ASSUME NEW r \in Run, NEW t \in Slot, UNCHANGED shape, Announce(r, t)
      PROVE  Chains'
  BY <1>5, AnnounceChains
<1>6. ASSUME NEW r \in Run, UNCHANGED shape, Ending(r)
      PROVE  Chains'
  BY <1>6, EndChains
<1>7. ASSUME NEW r \in Run, UNCHANGED shape, Resume(r)
      PROVE  Chains'
  BY <1>7, ResumeChains
<1>8. CASE ~UNCHANGED vars
  <2>1. UNCHANGED shape
    BY <1>8, Kinds
  <2>2. PICK r \in Run :
          \/ Working(r) \/ Ending(r) \/ Resume(r)
          \/ \E t \in Slot : FindAgent(r, t) \/ CreateAgentRun(r, t) \/ Announce(r, t)
    BY <1>8, Kinds
  <2>3. CASE Working(r) \/ Ending(r) \/ Resume(r)
    BY <1>2, <1>6, <1>7, <2>1, <2>3
  <2>4. CASE \E t \in Slot : FindAgent(r, t) \/ CreateAgentRun(r, t) \/ Announce(r, t)
    BY <1>3, <1>4, <1>5, <2>1, <2>4
  <2> QED
    BY <2>2, <2>3, <2>4
<1> QED
  BY <1>1, <1>8

LEMMA ChainsInit == Init => Chains
<1> SUFFICES ASSUME Init
             PROVE  Chains
  OBVIOUS
<1>1. \A r \in Run, t \in Slot : task[r][t].at = "free"
  BY FixedTasks DEF Init
<1>2. \A r \in Run : Driven(r) => run[r].via = {}
  BY DEF Init, NewRun, Absent, Driven
<1> QED
  BY <1>1, <1>2 DEF Chains

\* A generator that is driven is awaited by its parent, which is driven too,
\* and what a driven generator waits for is driven: no event is lost on the way
\* up, whatever ends, fails or is resumed elsewhere in the tree.
THEOREM DrivenAwaited == Spec => []Awaited
<1>1. TypeOK /\ Chains => Awaited
  BY Existing DEF Chains, Above, Below, Awaited
<1> QED
  BY <1>1, TreeInit, TreeStep, ChainsInit, ChainsStep, TypeCorrect, PTL DEF Spec

-----------------------------------------------------------------------------
(* By how much a tree outgrows its limit.  Every run that is at work has a   *)
(* place, the path of slots that leads to it from the root of its tree; of   *)
(* two places that one path leads to, the slot between them is taken.        *)

\* A slot whose task waits for a run, or through which an abort went or will go.
Taken(r, t) ==
  \/ task[r][t].at \in {"announce", "child", "aborted"}
  \/ task[r][t].at = "done" /\ run[r].status = "TIMED_OUT"

Busy(r) == run[r].status = "RUNNING" \/ ~Looping(r)

Together(r, s) == run[r].budget = run[s].budget

\* The path to r is the beginning of that to s; it goes on through slot t.
Agree(place, r, s) == \A i \in 1..run[r].depth : place[r][i] = place[s][i]

Beneath(place, r, t, s) ==
  /\ Together(r, s) /\ run[r].depth < run[s].depth
  /\ Agree(place, r, s) /\ place[s][run[r].depth + 1] = t

Held(place, r, s) == \E t \in Slot : Beneath(place, r, t, s) /\ Taken(r, t)

\* No two runs have one place.
Apart(place) ==
  \A r, s \in Run :
    /\ Busy(r) /\ Busy(s) /\ r # s
    /\ Together(r, s) /\ run[r].depth <= run[s].depth /\ Agree(place, r, s)
    => Held(place, r, s)

\* A run that another delegated to is in one of its slots.
Nested(place) ==
  \A c \in Run : Busy(c) /\ run[c].via # {} =>
    /\ run[c].parent \in Run /\ run[c].depth = run[run[c].parent].depth + 1
    /\ Held(place, run[c].parent, c)

\* A task that waits for a run is in the slot of its place.
Linked(place, q, t, c) ==
  /\ c \in Run /\ run[c].status = "RUNNING" /\ run[c].via # {} /\ run[c].parent = q
  /\ place[c][run[c].depth] = t

Waiting(q, t) == task[q][t].at \in {"announce", "child"}

Places(place) ==
  /\ place \in [Run -> Path]
  /\ Apart(place) /\ Nested(place)
  /\ \A q \in Run, t \in Slot : Waiting(q, t) => Linked(place, q, t, task[q][t].child)

\* A run begins nothing and keeps its row, but for its status and hold; a slot that is
\* taken no more had nobody beneath it.
Vacated(place, q, t) == \A s \in Run : Busy(s)' => ~Beneath(place, q, t, s)

LEMMA PlacesKept ==
  ASSUME TypeOK, UNCHANGED shape, NEW place, Places(place),
         \A q \in Run : SameRow(q) /\ (Busy(q)' => Busy(q)),
         \A q \in Run, t \in Slot : Taken(q, t) => Taken(q, t)' \/ Vacated(place, q, t),
         \A q \in Run, t \in Slot : Waiting(q, t)' =>
           /\ Waiting(q, t) /\ task'[q][t].child = task[q][t].child
           /\ run'[task[q][t].child].status = "RUNNING"
  PROVE  Places(place)'
<1>1. (place \in [Run -> Path])'
  BY DEF Places, Path
<1>2. ASSUME NEW r \in Run, NEW s \in Run
      PROVE  /\ Together(r, s)' <=> Together(r, s)
             /\ Agree(place, r, s)' <=> Agree(place, r, s)
             /\ \A t \in Slot : Beneath(place, r, t, s)' <=> Beneath(place, r, t, s)
  BY DEF SameRow, Together, Agree, Beneath
<1>3. ASSUME NEW r \in Run, NEW s \in Run, Busy(s)', Held(place, r, s)
      PROVE  Held(place, r, s)'
  <2>1. PICK t \in Slot : Beneath(place, r, t, s) /\ Taken(r, t)
    BY <1>3 DEF Held
  <2>2. Taken(r, t)'
    BY <1>3, <2>1 DEF Vacated
  <2> QED
    BY <1>2, <2>1, <2>2 DEF Held
<1>4. Apart(place)'
  <2> SUFFICES ASSUME NEW r \in Run, NEW s \in Run, Busy(r)', Busy(s)', r # s,
                      Together(r, s)', run'[r].depth <= run'[s].depth, Agree(place, r, s)'
               PROVE  Held(place, r, s)'
    BY DEF Apart
  <2>1. Busy(r) /\ Busy(s) /\ Together(r, s) /\ run[r].depth <= run[s].depth
        /\ Agree(place, r, s)
    BY <1>2 DEF SameRow
  <2>2. Held(place, r, s)
    BY <2>1 DEF Places, Apart
  <2> QED
    BY <1>3, <2>2
<1>5. Nested(place)'
  <2> SUFFICES ASSUME NEW c \in Run, Busy(c)', run'[c].via # {}
               PROVE  /\ run'[c].parent \in Run
                      /\ run'[c].depth = run'[run'[c].parent].depth + 1
                      /\ Held(place, run[c].parent, c)' /\ run'[c].parent = run[c].parent
    BY DEF Nested
  <2>1. Busy(c) /\ run[c].via # {}
    BY DEF SameRow
  <2>2. /\ run[c].parent \in Run /\ run[c].depth = run[run[c].parent].depth + 1
        /\ Held(place, run[c].parent, c)
    BY <2>1 DEF Places, Nested
  <2> QED
    BY <1>3, <2>2 DEF SameRow
<1>6. ASSUME NEW q \in Run, NEW t \in Slot, Waiting(q, t)'
      PROVE  Linked(place, q, t, task[q][t].child)'
  <2>1. /\ Waiting(q, t) /\ task'[q][t].child = task[q][t].child
        /\ run'[task[q][t].child].status = "RUNNING"
    BY <1>6
  <2>2. Linked(place, q, t, task[q][t].child)
    BY <2>1 DEF Places
  <2>3. task[q][t].child \in Run /\ SameRow(task[q][t].child)
    BY <2>2 DEF Linked
  <2> QED
    BY <2>1, <2>2, <2>3 DEF Linked, SameRow
<1> QED
  BY <1>1, <1>4, <1>5, <1>6 DEF Places

\* An agent at work takes up slots that nothing went through.
LEMMA WorkingTakes ==
  ASSUME TypeOK, UNCHANGED shape, NEW r \in Run,
         Working(r) \/ \E s \in Slot : FindAgent(r, s)
  PROVE  /\ Busy(r)
         /\ \A t \in Slot : Taken(r, t) \/ Waiting(r, t)' => task'[r][t] = task[r][t]
<1>0. Tasks
  BY DEF TypeOK, Tasks
<1>1. Busy(r)
  BY DEF Working, Delegate, NextBatch, EndBatch, Drift, Collect, Retry, GiveUp, FindAgent,
         Alive, Busy, Looping
<1>2. ASSUME NEW t \in Slot, Taken(r, t)
      PROVE  task'[r][t] = task[r][t]
  <2>1. ~Delegate(r)
    BY <1>2 DEF Delegate, Looping, Taken
  <2>2. ~NextBatch(r) /\ ~EndBatch(r)
    BY <1>2 DEF NextBatch, EndBatch, Returned, Alive, Taken
  <2>3. CASE Drift(r)
    BY <2>3 DEF Drift
  <2>4. ASSUME NEW s \in Slot, Collect(r, s) \/ Retry(r, s) \/ GiveUp(r, s) \/ FindAgent(r, s)
        PROVE  task'[r][t] = task[r][t]
    <3>1. s # t
      BY <1>2, <2>4 DEF Collect, Retry, GiveUp, FindAgent, Taken
    <3> QED
      BY <1>0, <2>4, <3>1 DEF Collect, Retry, GiveUp, FindAgent, Tasks
  <2> QED
    BY <2>1, <2>2, <2>3, <2>4 DEF Working
<1>3. ASSUME NEW t \in Slot, Waiting(r, t)'
      PROVE  task'[r][t] = task[r][t]
  <2>1. Quiet(r)
    BY WorkingStep, FindAgentStep
  <2> QED
    BY <1>3, <2>1 DEF Quiet, Refilled, Waiting
<1> QED
  BY <1>1, <1>2, <1>3

LEMMA WorkingPlaces ==
  ASSUME TypeOK, UNCHANGED shape, NEW place, Places(place), NEW r \in Run,
         Working(r) \/ \E s \in Slot : FindAgent(r, s)
  PROVE  Places(place)'
<1>1. Quiet(r)
  BY WorkingStep, FindAgentStep
<1>2. ASSUME NEW q \in Run
      PROVE  /\ SameRow(q) /\ run'[q].status = run[q].status /\ (Busy(q)' => Busy(q))
             /\ \A t \in Slot : Taken(q, t) \/ Waiting(q, t)' => task'[q][t] = task[q][t]
  <2>1. SameRow(q) /\ run'[q].status = run[q].status
    BY <1>1 DEF Quiet
  <2>2. CASE q = r
    BY <2>1, <2>2, WorkingTakes
  <2>3. CASE q # r
    <3>1. task'[q] = task[q]
      BY <1>1, <2>3 DEF Quiet
    <3> QED
      BY <2>1, <3>1 DEF Busy, Looping
  <2> QED
    BY <2>2, <2>3
<1>3. \A q \in Run, t \in Slot : Taken(q, t) => Taken(q, t)'
  BY <1>2 DEF Taken
<1>4. ASSUME NEW q \in Run, NEW t \in Slot, Waiting(q, t)'
      PROVE  /\ Waiting(q, t) /\ task'[q][t].child = task[q][t].child
             /\ run'[task[q][t].child].status = "RUNNING"
  <2>1. Waiting(q, t) /\ task'[q][t] = task[q][t]
    BY <1>2, <1>4 DEF Waiting
  <2> QED
    BY <1>2, <2>1 DEF Places, Linked
<1> QED
  BY <1>2, <1>3, <1>4, PlacesKept

LEMMA AnnouncePlaces ==
  ASSUME TypeOK, UNCHANGED shape, NEW place, Places(place), NEW r \in Run, NEW t \in Slot,
         Announce(r, t)
  PROVE  Places(place)'
<1>1. /\ \A q \in Run : SameRow(q) /\ run'[q].status = run[q].status
      /\ task[r][t].at = "announce" /\ task'[r][t].at = "child"
      /\ task'[r][t].child = task[r][t].child
      /\ \A q \in Run \ {r} : task'[q] = task[q]
      /\ \A s \in Slot \ {t} : task'[r][s] = task[r][s]
  BY AnnounceStep
<1>2. \A q \in Run : Busy(q)' => Busy(q)
  BY <1>1 DEF Busy, Looping
<1>3. \A q \in Run, s \in Slot : Taken(q, s) => Taken(q, s)'
  BY <1>1 DEF Taken
<1>4. ASSUME NEW q \in Run, NEW s \in Slot, Waiting(q, s)'
      PROVE  /\ Waiting(q, s) /\ task'[q][s].child = task[q][s].child
             /\ run'[task[q][s].child].status = "RUNNING"
  <2>1. Waiting(q, s) /\ task'[q][s].child = task[q][s].child
    BY <1>1, <1>4 DEF Waiting
  <2> QED
    BY <1>1, <2>1 DEF Places, Linked
<1> QED
  BY <1>1, <1>2, <1>3, <1>4, PlacesKept

\* What is yet to be announced is not at work.
LEMMA AnnouncedIdles ==
  ASSUME Chains, NEW q \in Run, NEW t \in Slot, task[q][t].at = "announce"
  PROVE  ~Alive(task[q][t].child)
BY DEF Chains, Unannounced, Alive

\* A loop that ends by itself has nobody beneath the slot that it leaves.
LEMMA FinishPlaces ==
  ASSUME TypeOK, Chains, UNCHANGED shape, NEW place, Places(place), NEW r \in Run, Finish(r)
  PROVE  Places(place)'
<1>0. Looping(r)
  BY DEF Finish
<1>1. /\ \A q \in Run : SameRow(q)
      /\ \A q \in Run \ {r} : run'[q].status = run[q].status
      /\ run[r].status = "RUNNING" /\ run'[r].status # "RUNNING"
      /\ \A q \in Run, t \in Slot :
           \/ task'[q][t] = task[q][t] /\ ~(task[q][t].at = "child" /\ task[q][t].child = r)
           \/ /\ task[q][t].at = "child" /\ task[q][t].child = r
              /\ task'[q][t].at \in {"answered", "failed", "aborted"}
  BY <1>0, EndStep DEF Ending, Alive, Looping, Ended
<1>2. ~Busy(r)' /\ \A q \in Run : Busy(q)' => Busy(q)
  <2>1. Looping(r)'
    BY <1>0, <1>1 DEF Looping
  <2> QED
    BY <1>1, <2>1 DEF Busy, Looping
<1>3. ASSUME NEW q \in Run, NEW t \in Slot, task[q][t].at = "child", task[q][t].child = r
      PROVE  Vacated(place, q, t)
  <2> SUFFICES ASSUME NEW s \in Run, Busy(s)', Beneath(place, q, t, s)
               PROVE  FALSE
    BY DEF Vacated
  <2>1. Linked(place, q, t, r)
    BY <1>3 DEF Places, Waiting
  <2>2. Busy(r) /\ Busy(s) /\ s # r
    BY <1>1, <1>2 DEF Busy
  <2>3. /\ run[r].parent = q /\ run[r].depth = run[q].depth + 1
        /\ Held(place, q, r) /\ place[r][run[r].depth] = t
    BY <2>1, <2>2 DEF Places, Nested, Linked
  <2>4. Agree(place, q, r) /\ Together(q, r)
    BY <2>3 DEF Held, Beneath
  <2>5. run[q].depth \in Nat /\ run[s].depth \in Nat
    BY Existing
  <2>6. Agree(place, r, s)
    <3> SUFFICES ASSUME NEW i \in 1..run[r].depth
                 PROVE  place[r][i] = place[s][i]
      BY DEF Agree
    <3>1. CASE i \in 1..run[q].depth
      BY <2>4, <3>1 DEF Agree, Beneath
    <3>2. CASE i = run[q].depth + 1
      BY <2>3, <3>2 DEF Beneath
    <3> QED
      BY <2>3, <2>5, <3>1, <3>2
  <2>7. Together(r, s) /\ run[r].depth <= run[s].depth
    BY <2>3, <2>4, <2>5 DEF Beneath, Together
  <2>8. Held(place, r, s)
    BY <2>2, <2>6, <2>7 DEF Places, Apart
  <2> QED
    BY <1>0, <1>1, <2>8 DEF Held, Taken, Looping
<1>4. \A q \in Run, t \in Slot : Taken(q, t) => Taken(q, t)' \/ Vacated(place, q, t)
  <2> SUFFICES ASSUME NEW q \in Run, NEW t \in Slot, Taken(q, t), ~Vacated(place, q, t)
               PROVE  Taken(q, t)'
    OBVIOUS
  <2>1. task'[q][t] = task[q][t]
    BY <1>1, <1>3
  <2>2. q # r
    BY <1>0, <1>1 DEF Taken, Looping
  <2> QED
    BY <1>1, <2>1, <2>2 DEF Taken
<1>5. ASSUME NEW q \in Run, NEW t \in Slot, Waiting(q, t)'
      PROVE  /\ Waiting(q, t) /\ task'[q][t].child = task[q][t].child
             /\ run'[task[q][t].child].status = "RUNNING"
  <2>1. /\ Waiting(q, t) /\ task'[q][t] = task[q][t]
        /\ ~(task[q][t].at = "child" /\ task[q][t].child = r)
    BY <1>1, <1>5 DEF Waiting
  <2>2. Linked(place, q, t, task[q][t].child)
    BY <2>1 DEF Places
  <2>3. task[q][t].child # r
    BY <2>1, AnnouncedIdles DEF Waiting, Finish
  <2> QED
    BY <1>1, <2>1, <2>2, <2>3 DEF Linked
<1> QED
  BY <1>1, <1>2, <1>4, <1>5, PlacesKept

\* What drifts after an abort stays beneath slots that the abort went through.
LEMMA PropagatePlaces ==
  ASSUME TypeOK, Chains, UNCHANGED shape, NEW place, Places(place), NEW r \in Run,
         NEW t \in Slot, Propagate(r, t)
  PROVE  Places(place)'
<1>0. Tasks /\ Rows /\ Alive(r) /\ task[r][t].at = "aborted" /\ Ending(r)
  BY DEF TypeOK, Tasks, Rows, Propagate, Ending
<1>1. /\ \A q \in Run : SameRow(q)
      /\ \A q \in Run \ {r} : run'[q].status = run[q].status
      /\ run[r].status = "RUNNING"
  BY <1>0, EndStep DEF Alive
<1> DEFINE tasks == [task EXCEPT ![r][t] = Settled]
<1>2. /\ tasks \in [Run -> [Slot -> Task]] /\ tasks[r][t] = Settled
      /\ \A q \in Run, s \in Slot : ~(q = r /\ s = t) => tasks[q][s] = task[q][s]
  BY <1>0, FixedTasksTyped DEF Tasks
<1>3. End(r, "TIMED_OUT", tasks)
  BY DEF Propagate
<1> HIDE DEF tasks
<1>4. run'[r].status = "TIMED_OUT"
  BY <1>0, <1>2, <1>3, Ends DEF Ended
<1>5. Outcome("TIMED_OUT") = "aborted"
  BY DEF Outcome
<1>6. ASSUME NEW q \in Run, NEW s \in Slot
      PROVE  \/ task'[q][s] = task[q][s] /\ ~(task[q][s].at = "child" /\ task[q][s].child = r)
             \/ /\ task[q][s].at = "child" /\ task[q][s].child = r
                /\ task'[q][s].at = "aborted"
             \/ q = r /\ s = t /\ task'[q][s].at = "done"
  <2> DEFINE k == tasks[q][s]
             new == [k EXCEPT !.at = "aborted"]
  <2>1. k \in Task
    BY <1>2
  <2>2. new.at = "aborted"
    BY <2>1, TaskAtTyped DEF TaskAt
  <2>3. task'[q][s] = IF k.at = "child" /\ k.child = r THEN new ELSE k
    BY <1>3, <1>5 DEF End
  <2>4. k = task[q][s] \/ (q = r /\ s = t /\ k = Settled)
    BY <1>2
  <2> HIDE DEF k, new
  <2> QED
    BY <2>2, <2>3, <2>4, FixedTasks
<1>7. \A q \in Run : Busy(q)' => Busy(q)
  BY <1>0, <1>1, <1>6 DEF Busy, Looping
<1>8. \A q \in Run, s \in Slot : Taken(q, s) => Taken(q, s)'
  BY <1>1, <1>4, <1>6 DEF Taken
<1>9. ASSUME NEW q \in Run, NEW s \in Slot, Waiting(q, s)'
      PROVE  /\ Waiting(q, s) /\ task'[q][s].child = task[q][s].child
             /\ run'[task[q][s].child].status = "RUNNING"
  <2>1. /\ Waiting(q, s) /\ task'[q][s] = task[q][s]
        /\ ~(task[q][s].at = "child" /\ task[q][s].child = r)
    BY <1>6, <1>9 DEF Waiting
  <2>2. Linked(place, q, s, task[q][s].child)
    BY <2>1 DEF Places
  <2>3. task[q][s].child # r
    BY <1>0, <2>1, AnnouncedIdles DEF Waiting
  <2> QED
    BY <1>1, <2>1, <2>2, <2>3 DEF Linked
<1> QED
  BY <1>1, <1>7, <1>8, <1>9, PlacesKept

\* A run that is resumed is alone with its new CoordinationState.
LEMMA ResumedAlone ==
  ASSUME TypeOK, Account, UNCHANGED shape, NEW r \in Run, Resume(r)
  PROVE  \A q \in 1..created : q # r => run'[q].budget # run'[r].budget
<1>1. /\ resumes' = resumes + 1 /\ run'[r].budget = resumes'
      /\ \A q \in Run \ {r} : run'[q] = run[q]
  BY ResumeStep
<1>2. resumes \in Nat
  BY DEF TypeOK
<1>3. ASSUME NEW q \in 1..created, q # r
      PROVE  run'[q].budget # run'[r].budget
  <2>1. q \in Run /\ run'[q] = run[q]
    BY <1>1, <1>3, Existing
  <2>2. run[q].budget <= resumes
    BY DEF Account, Budgeted
  <2> QED
    BY <1>1, <1>2, <2>1, <2>2
<1> QED
  BY <1>3

LEMMA ResumePlaces ==
  ASSUME TypeOK, TypeOK', Tree, Account, UNCHANGED shape, NEW place, Places(place), NEW r \in Run,
         Resume(r)
  PROVE  Places(place)'
<1>1. /\ UNCHANGED task /\ created' = created
      /\ run[r].status = "WAITING_APPROVAL"
      /\ \A q \in Run \ {r} : run'[q] = run[q]
      /\ run'[r].via = {}
  BY ResumeStep
<1>2. Looping(r) /\ \A t \in Slot : ~Taken(r, t)
  BY <1>1 DEF Tree, Idle, Looping, Taken
<1>3. \A q \in Run \ {r} : /\ Busy(q)' <=> Busy(q)
                           /\ \A t \in Slot : Taken(q, t)' <=> Taken(q, t)
  BY <1>1 DEF Busy, Looping, Taken
<1>4. ASSUME NEW q \in Run \ {r}, Busy(q)
      PROVE  ~Together(q, r)' /\ ~Together(r, q)'
  <2>1. q \in 1..created
    BY <1>4, Existing DEF Tree, Idle, Busy
  <2> QED
    BY <2>1, ResumedAlone DEF Together
<1>5. ASSUME NEW q \in Run \ {r}, NEW s \in Run \ {r}
      PROVE  /\ Together(q, s)' <=> Together(q, s)
             /\ Agree(place, q, s)' <=> Agree(place, q, s)
             /\ Held(place, q, s) => Held(place, q, s)'
  BY <1>1, <1>3 DEF Together, Agree, Beneath, Held
<1>6. (place \in [Run -> Path])'
  BY DEF Places, Path
<1>7. Apart(place)'
  <2> SUFFICES ASSUME NEW q \in Run, NEW s \in Run, Busy(q)', Busy(s)', q # s,
                      Together(q, s)', run'[q].depth <= run'[s].depth, Agree(place, q, s)'
               PROVE  Held(place, q, s)'
    BY DEF Apart
  <2>1. q # r /\ s # r
    BY <1>3, <1>4
  <2> QED
    BY <1>1, <1>3, <1>5, <2>1 DEF Places, Apart
<1>8. Nested(place)'
  <2> SUFFICES ASSUME NEW c \in Run, Busy(c)', run'[c].via # {}
               PROVE  /\ run'[c].parent \in Run
                      /\ run'[c].depth = run'[run'[c].parent].depth + 1
                      /\ run'[c].parent = run[c].parent /\ Held(place, run[c].parent, c)'
    BY DEF Nested
  <2>1. c # r /\ Busy(c) /\ run'[c] = run[c]
    BY <1>1, <1>3
  <2>2. /\ run[c].parent \in Run /\ run[c].depth = run[run[c].parent].depth + 1
        /\ Held(place, run[c].parent, c)
    BY <2>1 DEF Places, Nested
  <2>3. run[c].parent # r
    BY <1>2, <2>2 DEF Held
  <2> QED
    BY <1>1, <1>5, <2>1, <2>2, <2>3
<1>9. ASSUME NEW q \in Run, NEW t \in Slot, Waiting(q, t)'
      PROVE  Linked(place, q, t, task[q][t].child)' /\ task'[q][t].child = task[q][t].child
  <2>1. Waiting(q, t) /\ Linked(place, q, t, task[q][t].child)
    BY <1>1, <1>9 DEF Waiting, Places
  <2> QED
    BY <1>1, <2>1 DEF Linked
<1> QED
  BY <1>6, <1>7, <1>8, <1>9 DEF Places
\* The new place is that of the parent, and the slot of the task.
LEMMA Extended ==
  ASSUME TypeOK, Tree, NEW place \in [Run -> Path], NEW r \in Run, NEW t \in Slot,
         NEW c \in Run \ {r}, run[r].depth + 1 <= shape.depth
  PROVE  \E new \in [Run -> Path] :
           /\ \A q \in Run \ {c} : new[q] = place[q]
           /\ \A i \in 1..run[r].depth : new[c][i] = place[r][i]
           /\ new[c][run[r].depth + 1] = t
<1> DEFINE path == [place[r] EXCEPT ![run[r].depth + 1] = t]
<1>1. run[r].depth \in Nat /\ shape.depth \in Nat
  BY Existing, CoordinationAssumption DEF CoordinationAssumption, TypeOK
<1>2. run[r].depth + 1 \in 1..shape.depth
  BY <1>1
<1>3. /\ path \in Path /\ path[run[r].depth + 1] = t
      /\ \A i \in 1..run[r].depth : path[i] = place[r][i]
  BY <1>1, <1>2 DEF Path
<1> HIDE DEF path
<1> DEFINE new == [place EXCEPT ![c] = path]
<1>4. /\ new \in [Run -> Path] /\ new[c] = path
      /\ \A q \in Run \ {c} : new[q] = place[q]
  BY <1>3
<1> HIDE DEF new
<1>5. new \in [Run -> Path]
  BY <1>4
<1>6. /\ \A i \in 1..run[r].depth : new[c][i] = place[r][i]
      /\ new[c][run[r].depth + 1] = t
  BY <1>3, <1>4
<1> WITNESS new \in [Run -> Path]
<1> QED
  BY <1>4, <1>6

LEMMA SpawnPlaces ==
  ASSUME TypeOK, TypeOK', Tree, UNCHANGED shape, NEW place, Places(place), NEW r \in Run,
         NEW t \in Slot, CreateAgentRun(r, t)
  PROVE  \E new : Places(new)'
<1> DEFINE d == run[r].depth
<1>0. PICK c \in Run : c = created'
  BY SpawnStep
<1>1. /\ c = created + 1
      /\ \A q \in Run \ {c} : run'[q] = run[q]
      /\ run'[c].parent = r /\ run'[c].depth = d + 1 /\ run'[c].budget = run[r].budget
      /\ run'[c].via # {} /\ run'[c].status = "RUNNING"
      /\ task[r][t].at = "create" /\ task'[r][t].at = "announce" /\ task'[r][t].child = c
      /\ \A q \in Run \ {r} : task'[q] = task[q]
      /\ \A s \in Slot \ {t} : task'[r][s] = task[r][s]
  BY <1>0, SpawnStep
<1>2. run[c].status = "none" /\ Looping(c)
  <2>1. run[c].status = "none"
    BY <1>1, Existing DEF TypeOK
  <2> QED
    BY <2>1 DEF Tree, Idle
<1>3. ~Looping(r) /\ ~Looping(r)' /\ c # r /\ ~Taken(r, t) /\ Taken(r, t)' /\ Busy(r)
  BY <1>1, <1>2 DEF Looping, Taken, Busy
<1>4. d \in Nat /\ d + 1 <= shape.depth /\ shape.depth \in Nat
  BY <1>1, Existing, CoordinationAssumption DEF CoordinationAssumption, TypeOK, Tree, Admitted
<1>5. place \in [Run -> Path]
  BY DEF Places
<1>6. PICK new \in [Run -> Path] :
        /\ \A q \in Run \ {c} : new[q] = place[q]
        /\ \A i \in 1..d : new[c][i] = place[r][i]
        /\ new[c][d + 1] = t
  <2>1. c \in Run \ {r} /\ run[r].depth + 1 <= shape.depth
    BY <1>3, <1>4
  <2> HIDE DEF d
  <2>2. \E new \in [Run -> Path] :
          /\ \A q \in Run \ {c} : new[q] = place[q]
          /\ \A i \in 1..run[r].depth : new[c][i] = place[r][i]
          /\ new[c][run[r].depth + 1] = t
    BY <1>5, <2>1, Extended
  <2> QED
    BY <2>2 DEF d
<1> HIDE DEF d
<1>7. ASSUME NEW q \in Run \ {c}
      PROVE  /\ run'[q] = run[q] /\ (Busy(q)' <=> Busy(q))
             /\ \A s \in Slot : Taken(q, s) => Taken(q, s)'
  <2>1. CASE q = r
    BY <1>1, <1>3, <2>1 DEF Busy, Taken
  <2>2. CASE q # r
    <3>1. task'[q] = task[q] /\ run'[q] = run[q]
      BY <1>1, <2>2
    <3> QED
      BY <3>1 DEF Busy, Looping, Taken
  <2> QED
    BY <2>1, <2>2
<1>8. ASSUME NEW q \in Run \ {c}, NEW s \in Run \ {c}
      PROVE  /\ Together(q, s)' <=> Together(q, s)
             /\ Agree(new, q, s)' <=> Agree(place, q, s)
             /\ Held(place, q, s) => Held(new, q, s)'
  BY <1>1, <1>6, <1>7 DEF Together, Agree, Beneath, Held
<1>9. \A q \in Run : run[q].depth \in Nat
  BY Existing
<1>10. Held(new, r, c)'
  <2>1. Beneath(new, r, t, c)'
    BY <1>1, <1>3, <1>4, <1>6 DEF Beneath, Agree, Together, d
  <2> QED
    BY <1>3, <2>1 DEF Held
<1>11. ASSUME NEW s \in Run \ {c}, Busy(s), Beneath(place, r, t, s)
       PROVE  FALSE
  <2>1. s # r /\ Together(r, s) /\ run[r].depth <= run[s].depth /\ Agree(place, r, s)
    BY <1>9, <1>11 DEF Beneath
  <2>2. PICK u \in Slot : Beneath(place, r, u, s) /\ Taken(r, u)
    BY <1>3, <1>11, <2>1 DEF Places, Apart, Held
  <2>3. u = t
    BY <1>11, <2>2 DEF Beneath
  <2> QED
    BY <1>3, <2>2, <2>3
<1>12. ASSUME NEW s \in Run \ {c}, Busy(s), Together(c, s)', run'[c].depth <= run'[s].depth,
              Agree(new, c, s)'
       PROVE  FALSE
  <2>1. run[s].depth >= d + 1 /\ Together(r, s)
    BY <1>1, <1>12 DEF Together
  <2>2. Agree(place, r, s) /\ place[s][d + 1] = t
    BY <1>1, <1>4, <1>6, <1>12 DEF Agree, d
  <2>3. Beneath(place, r, t, s)
    BY <1>4, <1>9, <2>1, <2>2 DEF Beneath, d
  <2> QED
    BY <1>11, <1>12, <2>3
<1>13. ASSUME NEW s \in Run \ {c}, Busy(s), Together(s, c)', run'[s].depth <= run'[c].depth,
              Agree(new, s, c)'
       PROVE  Held(new, s, c)'
  <2>1. Together(s, r) /\ Together(c, s)' /\ run[s].depth <= d + 1 /\ run[s].depth \in Nat
    BY <1>1, <1>9, <1>13 DEF Together
  <2>2. CASE s = r
    BY <1>10, <2>2
  <2>3. CASE s # r /\ run[s].depth <= d
    <3>1. Agree(place, s, r)
      BY <1>1, <1>4, <1>6, <1>13, <2>1, <2>3 DEF Agree
    <3>2. PICK u \in Slot : Beneath(place, s, u, r) /\ Taken(s, u)
      BY <1>3, <1>13, <2>1, <2>3, <3>1 DEF Places, Apart, Held, d
    <3>3. run[s].depth < d /\ place[r][run[s].depth + 1] = u
      BY <3>2 DEF Beneath, d
    <3>4. new[c][run[s].depth + 1] = u /\ run'[s] = run[s]
      BY <1>4, <1>6, <1>7, <2>1, <3>3
    <3>5. Beneath(new, s, u, c)'
      BY <1>1, <1>4, <1>13, <2>1, <3>3, <3>4 DEF Beneath
    <3> QED
      BY <1>7, <3>2, <3>5 DEF Held
  <2>4. CASE run[s].depth = d + 1
    <3>1. Agree(new, c, s)'
      BY <1>1, <1>13, <2>4 DEF Agree
    <3> QED
      BY <1>1, <1>4, <1>12, <1>13, <2>1, <2>4, <3>1
  <2> QED
    BY <1>4, <2>1, <2>2, <2>3, <2>4
<1>14. Apart(new)'
  <2> SUFFICES ASSUME NEW q \in Run, NEW s \in Run, Busy(q)', Busy(s)', q # s,
                      Together(q, s)', run'[q].depth <= run'[s].depth, Agree(new, q, s)'
               PROVE  Held(new, q, s)'
    BY DEF Apart
  <2>1. CASE q # c /\ s # c
    BY <1>7, <1>8, <2>1 DEF Places, Apart
  <2>2. CASE q = c
    BY <1>7, <1>12, <2>2
  <2>3. CASE s = c
    BY <1>7, <1>13, <2>3
  <2> QED
    BY <2>1, <2>2, <2>3
<1>15. Nested(new)'
  <2> SUFFICES ASSUME NEW q \in Run, Busy(q)', run'[q].via # {}
               PROVE  /\ run'[q].parent \in Run
                      /\ run'[q].depth = run'[run'[q].parent].depth + 1
                      /\ Held(new, run[q].parent, q)'
    BY DEF Nested
  <2>1. CASE q = c
    <3>1. run'[q].parent = r /\ run'[q].depth = run[r].depth + 1 /\ run'[r] = run[r]
      BY <1>1, <1>3, <2>1 DEF d
    <3>2. Held(new, run[q].parent, q)'
      BY <1>10, <2>1, <3>1
    <3> QED
      BY <3>1, <3>2
  <2>2. CASE q # c
    <3>1. Busy(q) /\ run'[q] = run[q]
      BY <1>7, <2>2
    <3>2. /\ run[q].parent \in Run /\ run[q].depth = run[run[q].parent].depth + 1
          /\ Held(place, run[q].parent, q)
      BY <3>1 DEF Places, Nested
    <3>3. run[q].parent # c
      BY <1>2, <3>2 DEF Held, Taken, Looping
    <3>4. Held(new, run[q].parent, q)'
      BY <1>8, <2>2, <3>1, <3>2, <3>3
    <3> QED
      BY <1>7, <3>1, <3>2, <3>3, <3>4
  <2> QED
    BY <2>1, <2>2
<1>16. ASSUME NEW q \in Run, NEW s \in Slot, Waiting(q, s)'
       PROVE  Linked(new, q, s, task[q][s].child)'
  <2>1. CASE q = r /\ s = t
    BY <1>1, <1>6, <2>1 DEF Linked
  <2>2. CASE ~(q = r /\ s = t)
    <3>1. task'[q][s] = task[q][s] /\ Waiting(q, s)
      BY <1>1, <1>16, <2>2 DEF Waiting
    <3>2. Linked(place, q, s, task[q][s].child)
      BY <3>1 DEF Places
    <3>3. task[q][s].child \in Run \ {c}
      BY <1>2, <3>2 DEF Linked
    <3> QED
      BY <1>6, <1>7, <3>1, <3>2, <3>3 DEF Linked
  <2> QED
    BY <2>1, <2>2
<1>17. (new \in [Run -> Path])'
  BY <1>6 DEF Path
<1>18. Places(new)'
  BY <1>14, <1>15, <1>16, <1>17 DEF Places
<1> QED
  BY <1>18
\* A CoordinationState has one run that nobody delegated to.
Roots ==
  \A r, s \in 1..created : run[r].via = {} /\ run[s].via = {} /\ Together(r, s) => r = s

LEMMA RootsKept ==
  ASSUME TypeOK, Roots, UNCHANGED created, \A q \in Run : SameRow(q)
  PROVE  Roots'
<1>1. \A q \in 1..created : q \in Run
  BY Existing
<1> QED
  BY <1>1 DEF Roots, SameRow, Together

LEMMA RootsStep == TypeOK /\ Account /\ Roots /\ [Next]_vars => Roots'
<1> SUFFICES ASSUME TypeOK, Account, Roots, [Next]_vars
             PROVE  Roots'
  OBVIOUS
<1>1. CASE UNCHANGED vars
  BY <1>1, RootsKept DEF vars, SameRow
<1>2. ASSUME NEW r \in Run, NEW t \in Slot, UNCHANGED shape,
             Working(r) \/ FindAgent(r, t) \/ Announce(r, t) \/ Ending(r)
      PROVE  Roots'
  <2>1. UNCHANGED created /\ \A q \in Run : SameRow(q)
    <3>1. CASE Working(r) \/ FindAgent(r, t)
      BY <1>2, <3>1, WorkingStep, FindAgentStep DEF Quiet
    <3>2. CASE Announce(r, t)
      BY <1>2, <3>2, AnnounceStep
    <3>3. CASE Ending(r)
      BY <1>2, <3>3, EndStep
    <3> QED
      BY <1>2, <3>1, <3>2, <3>3
  <2> QED
    BY <2>1, RootsKept
<1>3. ASSUME NEW r \in Run, NEW t \in Slot, UNCHANGED shape, CreateAgentRun(r, t)
      PROVE  Roots'
  <2>0. PICK c \in Run : c = created'
    BY <1>3, SpawnStep
  <2>1. /\ c = created + 1 /\ run'[c].via # {}
        /\ \A q \in Run \ {c} : run'[q] = run[q]
    BY <1>3, <2>0, SpawnStep
  <2>2. ASSUME NEW q \in 1..c, run'[q].via = {}
        PROVE  q \in 1..created /\ run'[q] = run[q]
    BY <2>1, <2>2, Existing
  <2> QED
    BY <2>0, <2>2 DEF Roots, Together
<1>4. ASSUME NEW r \in Run, UNCHANGED shape, Resume(r)
      PROVE  Roots'
  <2>1. created' = created /\ \A q \in Run \ {r} : run'[q] = run[q]
    BY <1>4, ResumeStep
  <2>2. \A q \in 1..created : q # r => run'[q].budget # run'[r].budget
    BY <1>4, ResumedAlone
  <2> SUFFICES ASSUME NEW q \in 1..created, NEW s \in 1..created, run'[q].via = {},
                      run'[s].via = {}, run'[q].budget = run'[s].budget, q # s
               PROVE  FALSE
    BY <2>1 DEF Roots, Together
  <2>3. q # r /\ s # r
    BY <2>2
  <2> QED
    BY <2>1, <2>3, Existing DEF Roots, Together
<1>5. CASE ~UNCHANGED vars
  <2>0. 1 \in Slot
    BY CoordinationAssumption DEF CoordinationAssumption, Slot
  <2>1. UNCHANGED shape
    BY <1>5, Kinds
  <2>2. PICK r \in Run :
          \/ Working(r) \/ Ending(r) \/ Resume(r)
          \/ \E t \in Slot : FindAgent(r, t) \/ CreateAgentRun(r, t) \/ Announce(r, t)
    BY <1>5, Kinds
  <2>3. CASE Working(r) \/ Ending(r) \/ Resume(r)
    BY <1>2, <1>4, <2>0, <2>1, <2>3
  <2>4. CASE \E t \in Slot : FindAgent(r, t) \/ CreateAgentRun(r, t) \/ Announce(r, t)
    BY <1>2, <1>3, <2>1, <2>4
  <2> QED
    BY <2>2, <2>3, <2>4
<1> QED
  BY <1>1, <1>5

\* The agents that are looked up before they are registered.
Lookups(b) == {p \in Run \X Slot : run[p[1]].budget = b /\ task[p[1]][p[2]].at = "lookup"}

TakenIn(b) == {p \in Run \X Slot : run[p[1]].budget = b /\ Taken(p[1], p[2])}

BusyIn(b) == {r \in Run : Busy(r) /\ run[r].budget = b}

LEMMA PathsFinite ==
  ASSUME TypeOK
  PROVE  /\ IsFiniteSet(Path) /\ Cardinality(Path) \in Nat
         /\ Cardinality(Path) >= 1
<1>1. IsFiniteSet(Slot) /\ shape.depth \in Nat /\ 1 \in Slot
  <2>1. MaxParallel \in Nat \ {0} /\ shape.depth \in Nat
    BY CoordinationAssumption DEF CoordinationAssumption, TypeOK
  <2> QED
    BY <2>1, FS_Interval DEF Slot
<1> DEFINE D == 1..shape.depth
<1>2. IsFiniteSet(D)
  BY <1>1, FS_Interval
<1>3. IsFiniteSet(SUBSET (D \X Slot))
  BY <1>1, <1>2, FS_Product, FS_SUBSET
<1> DEFINE graph == [p \in Path |-> {x \in D \X Slot : x[2] = p[x[1]]}]
<1>4. graph \in [Path -> SUBSET (D \X Slot)]
  OBVIOUS
<1>5. ASSUME NEW p \in Path, NEW q \in Path, graph[p] = graph[q]
      PROVE  p = q
  <2>1. p \in [D -> Slot] /\ q \in [D -> Slot]
    BY DEF Path
  <2>2. ASSUME NEW i \in D
        PROVE  p[i] = q[i]
    <3>1. <<i, p[i]>> \in D \X Slot
      BY <2>1
    <3>2. <<i, p[i]>> \in graph[p]
      BY <3>1
    <3>3. <<i, p[i]>> \in graph[q]
      BY <1>5, <3>2
    <3> QED
      BY <3>3
  <2> HIDE DEF D, graph
  <2> QED
    BY <2>1, <2>2
<1> HIDE DEF graph
<1>6. graph \in Injection(Path, SUBSET (D \X Slot))
  BY <1>4, <1>5 DEF Injection, IsInjective
<1>7. IsFiniteSet(Path)
  BY <1>3, <1>6, FS_Injection
<1>8. [i \in D |-> 1] \in Path
  BY <1>1 DEF Path
<1>9. Cardinality(Path) \in Nat /\ Cardinality(Path) # 0
  BY <1>7, <1>8, FS_CardinalityType, FS_EmptySet
<1> QED
  BY <1>7, <1>9

\* Two agents that are looked up are on two paths.
LEMMA ByPaths ==
  ASSUME TypeOK, Tree, NEW place, Places(place), NEW b
  PROVE  IsFiniteSet(Lookups(b)) /\ Cardinality(Lookups(b)) <= Cardinality(Path)
<1> DEFINE leaf(p) == [place[p[1]] EXCEPT ![run[p[1]].depth + 1] = p[2]]
<1>0. shape.depth \in Nat /\ place \in [Run -> Path] /\ \A r \in Run : run[r].depth \in Nat
  BY Existing, CoordinationAssumption DEF CoordinationAssumption, TypeOK, Places
<1>1. ASSUME NEW p \in Lookups(b)
      PROVE  /\ p[1] \in Run /\ p[2] \in Slot /\ p = <<p[1], p[2]>>
             /\ run[p[1]].budget = b /\ Busy(p[1]) /\ ~Taken(p[1], p[2])
             /\ run[p[1]].depth + 1 <= shape.depth
  <2>1. /\ p[1] \in Run /\ p[2] \in Slot /\ p = <<p[1], p[2]>>
        /\ run[p[1]].budget = b /\ task[p[1]][p[2]].at = "lookup"
    BY DEF Lookups
  <2> QED
    BY <2>1 DEF Tree, Admitted, Busy, Looping, Taken
<1>2. ASSUME NEW p \in Lookups(b)
      PROVE  /\ leaf(p) \in Path /\ leaf(p)[run[p[1]].depth + 1] = p[2]
             /\ \A i \in 1..run[p[1]].depth : leaf(p)[i] = place[p[1]][i]
  BY <1>0, <1>1 DEF Path
<1> HIDE DEF leaf
<1>3. ASSUME NEW p \in Lookups(b), NEW q \in Lookups(b), leaf(p) = leaf(q),
             run[p[1]].depth <= run[q[1]].depth
      PROVE  p = q
  <2>1. CASE p[1] = q[1]
    BY <1>1, <1>2, <1>3, <2>1
  <2>2. CASE p[1] # q[1]
    <3>1. Agree(place, p[1], q[1])
      <4> SUFFICES ASSUME NEW i \in 1..run[p[1]].depth
                   PROVE  place[p[1]][i] = place[q[1]][i]
        BY DEF Agree
      <4>1. i \in 1..run[q[1]].depth
        BY <1>0, <1>1, <1>3
      <4> QED
        BY <1>2, <1>3, <4>1
    <3>2. PICK u \in Slot : Beneath(place, p[1], u, q[1]) /\ Taken(p[1], u)
      BY <1>1, <1>3, <2>2, <3>1 DEF Places, Apart, Held, Together
    <3>3. run[p[1]].depth + 1 \in 1..run[q[1]].depth /\ place[q[1]][run[p[1]].depth + 1] = u
      BY <1>0, <1>1, <3>2 DEF Beneath
    <3>4. u = p[2]
      BY <1>2, <1>3, <3>3
    <3> QED
      BY <1>1, <3>2, <3>4
  <2> QED
    BY <2>1, <2>2
<1>4. \A p, q \in Lookups(b) : leaf(p) = leaf(q) => p = q
  <2> SUFFICES ASSUME NEW p \in Lookups(b), NEW q \in Lookups(b), leaf(p) = leaf(q)
               PROVE  p = q
    OBVIOUS
  <2>1. run[p[1]].depth \in Nat /\ run[q[1]].depth \in Nat
    BY <1>0, <1>1
  <2>2. run[p[1]].depth <= run[q[1]].depth \/ run[q[1]].depth <= run[p[1]].depth
    BY <2>1
  <2> QED
    BY <1>3, <2>2
<1> DEFINE leaves == [p \in Lookups(b) |-> leaf(p)]
<1>5. leaves \in [Lookups(b) -> Path]
  BY <1>2
<1>6. \A p, q \in Lookups(b) : leaves[p] = leaves[q] => p = q
  BY <1>4
<1> HIDE DEF leaves
<1>7. leaves \in Injection(Lookups(b), Path)
  BY <1>5, <1>6 DEF Injection, IsInjective
<1> QED
  BY <1>7, PathsFinite, FS_Injection
\* Of w agents with m slots each, all but one are in a slot that is taken.
LEMMA FreeSlots ==
  ASSUME NEW free \in Nat, NEW taken \in Nat, NEW w \in Nat, NEW n \in Nat, NEW m \in Nat \ {0},
         free + taken <= w * m, w <= taken + 1, w <= n
  PROVE  free <= n * (m - 1) + 1
<1> DEFINE k == m - 1
<1>1. k \in Nat /\ w * m = w * k + w
  OBVIOUS
<1>2. n * k = w * k + (n - w) * k /\ (n - w) * k >= 0
  BY <1>1
<1>3. w * k \in Nat /\ n * k \in Nat
  BY <1>1
<1> HIDE DEF k
<1>4. free <= w * k + 1
  BY <1>1, <1>3
<1>5. w * k <= n * k
  <2> DEFINE x == w * k
             y == n * k
             z == (n - w) * k
  <2>1. y = x + z /\ z >= 0 /\ x \in Nat /\ z \in Int
    BY <1>1, <1>2, <1>3
  <2> HIDE DEF x, y, z
  <2>2. x <= y
    BY <2>1
  <2> QED
    BY <2>2 DEF x, y
<1>6. free <= n * k + 1
  BY <1>3, <1>4, <1>5
<1> QED
  BY <1>6 DEF k

\* A run at work that was delegated to is in a slot of its own.
LEMMA NestedTaken ==
  ASSUME TypeOK, Tree, NEW place, Places(place), NEW b
  PROVE  /\ IsFiniteSet(TakenIn(b))
         /\ Cardinality({c \in BusyIn(b) : run[c].via # {}}) <= Cardinality(TakenIn(b))
<1> DEFINE N == {c \in BusyIn(b) : run[c].via # {}}
           slot(c) == <<run[c].parent, place[c][run[c].depth]>>
<1>1. IsFiniteSet(TakenIn(b))
  <2>1. MaxRuns \in Nat /\ MaxParallel \in Nat
    BY CoordinationAssumption DEF CoordinationAssumption
  <2>2. IsFiniteSet(Run) /\ IsFiniteSet(Slot)
    BY <2>1, FS_Interval DEF Run, Slot
  <2>3. IsFiniteSet(Run \X Slot)
    BY <2>2, FS_Product
  <2> QED
    BY <2>3, FS_Subset DEF TakenIn
<1>2. ASSUME NEW c \in N
      PROVE  /\ c \in Run /\ Busy(c) /\ run[c].budget = b
             /\ run[c].depth = run[run[c].parent].depth + 1 /\ run[c].depth \in Nat
             /\ run[c].parent \in Run /\ run[run[c].parent].depth \in Nat
             /\ Agree(place, run[c].parent, c)
             /\ slot(c) \in TakenIn(b)
  <2>1. c \in Run /\ Busy(c) /\ run[c].budget = b /\ run[c].via # {}
    BY DEF BusyIn
  <2>2. /\ run[c].parent \in Run /\ run[c].depth = run[run[c].parent].depth + 1
        /\ Held(place, run[c].parent, c)
    BY <2>1 DEF Places, Nested
  <2>3. PICK u \in Slot : Beneath(place, run[c].parent, u, c) /\ Taken(run[c].parent, u)
    BY <2>2 DEF Held
  <2>4. place[c][run[c].depth] = u
    BY <2>2, <2>3 DEF Beneath
  <2>5. run[run[c].parent].budget = b /\ Agree(place, run[c].parent, c)
    BY <2>1, <2>3 DEF Beneath, Together
  <2>6. slot(c) \in TakenIn(b)
    BY <2>2, <2>3, <2>4, <2>5 DEF TakenIn
  <2> QED
    BY <2>1, <2>2, <2>5, <2>6, Existing
<1> HIDE DEF N, slot
<1>3. ASSUME NEW c \in N, NEW e \in N, slot(c) = slot(e), c # e
      PROVE  FALSE
  <2>1. run[c].parent = run[e].parent /\ run[c].depth = run[e].depth
        /\ place[c][run[c].depth] = place[e][run[c].depth]
    <3>1. /\ run[c].parent = run[e].parent
          /\ place[c][run[c].depth] = place[e][run[e].depth]
      BY <1>3 DEF slot
    <3> QED
      BY <1>2, <3>1
  <2>2. Agree(place, c, e)
    <3> SUFFICES ASSUME NEW i \in 1..run[c].depth
                 PROVE  place[c][i] = place[e][i]
      BY DEF Agree
    <3>1. CASE i = run[c].depth
      BY <2>1, <3>1
    <3>2. CASE i # run[c].depth
      <4>1. i \in 1..run[run[c].parent].depth
        BY <1>2, <3>2
      <4> QED
        BY <1>2, <2>1, <4>1 DEF Agree
    <3> QED
      BY <3>1, <3>2
  <2>3. Together(c, e) /\ run[c].depth <= run[e].depth
    BY <1>2, <2>1 DEF Together
  <2>4. Held(place, c, e)
    BY <1>2, <1>3, <2>2, <2>3 DEF Places, Apart
  <2> QED
    BY <1>2, <2>1, <2>4 DEF Held, Beneath
<1> DEFINE slots == [c \in N |-> slot(c)]
<1>4. slots \in [N -> TakenIn(b)] /\ \A c, e \in N : slots[c] = slots[e] => c = e
  BY <1>2, <1>3
<1> HIDE DEF slots
<1>5. slots \in Injection(N, TakenIn(b))
  BY <1>4 DEF Injection, IsInjective
<1>6. Cardinality(N) <= Cardinality(TakenIn(b))
  BY <1>1, <1>5, FS_Injection
<1> QED
  BY <1>1, <1>6 DEF N

LEMMA BusyCounted ==
  ASSUME TypeOK, Tree, Account, NEW b \in Budget, b <= resumes
  PROVE  /\ IsFiniteSet(BusyIn(b)) /\ Cardinality(BusyIn(b)) \in Nat
         /\ Cardinality(BusyIn(b)) <= count[b]
<1>1. BusyIn(b) \in SUBSET Created(b)
  <2> SUFFICES ASSUME NEW r \in BusyIn(b)
               PROVE  r \in Created(b)
    OBVIOUS
  <2>1. r \in Run /\ Busy(r) /\ run[r].budget = b
    BY DEF BusyIn
  <2>2. run[r].status # "none"
    BY <2>1 DEF Tree, Idle, Busy
  <2> QED
    BY <2>1, <2>2, Existing DEF Created
<1>2. IsFiniteSet(BusyIn(b)) /\ Cardinality(BusyIn(b)) <= Cardinality(Created(b))
  BY <1>1, AccountsFinite, FS_Subset
<1>3. Cardinality(BusyIn(b)) \in Nat
  BY <1>2, FS_CardinalityType
<1>4. /\ Paid(b) /\ count[b] \in Nat
      /\ Cardinality(Created(b)) \in Nat /\ Cardinality(Creating(b)) \in Nat
  BY AccountsFinite DEF Account, TypeOK
<1> QED
  BY <1>2, <1>3, <1>4 DEF Paid

\* Few agents have few slots that nothing went through.
LEMMA ByRuns ==
  ASSUME TypeOK, Tree, Account, Roots, NEW place, Places(place), NEW b \in Budget, b <= resumes,
         count[b] <= MaxAgents - 1
  PROVE  Cardinality(Lookups(b)) <= (MaxAgents - 1) * (MaxParallel - 1) + 1
<1> DEFINE N == {c \in BusyIn(b) : run[c].via # {}}
<1>1. /\ MaxParallel \in Nat \ {0} /\ MaxAgents - 1 \in Nat
      /\ IsFiniteSet(Slot) /\ Cardinality(Slot) = MaxParallel
  <2>1. MaxParallel \in Nat \ {0} /\ MaxAgents \in Nat \ {0}
    BY CoordinationAssumption DEF CoordinationAssumption
  <2> QED
    BY <2>1, FS_Interval DEF Slot
<1>2. /\ IsFiniteSet(BusyIn(b)) /\ Cardinality(BusyIn(b)) \in Nat
      /\ Cardinality(BusyIn(b)) <= count[b] /\ count[b] \in Nat
  BY BusyCounted DEF TypeOK
<1>3. /\ IsFiniteSet(TakenIn(b)) /\ Cardinality(TakenIn(b)) \in Nat
      /\ Cardinality(N) <= Cardinality(TakenIn(b))
  BY NestedTaken, FS_CardinalityType
<1>4. IsFiniteSet(Lookups(b)) /\ Cardinality(Lookups(b)) \in Nat
  BY ByPaths, FS_CardinalityType
<1>5. IsFiniteSet(N)
  BY <1>2, FS_Subset
<1>6. \E x : BusyIn(b) \subseteq N \union {x}
  <2>1. ASSUME NEW r \in BusyIn(b) \ N, NEW s \in BusyIn(b) \ N
        PROVE  r = s
    <3>1. /\ r \in Run /\ s \in Run /\ Busy(r) /\ Busy(s) /\ Together(r, s)
          /\ run[r].via = {} /\ run[s].via = {}
      BY DEF BusyIn, Together
    <3>2. r \in 1..created /\ s \in 1..created
      BY <3>1, Existing DEF Tree, Idle, Busy
    <3> QED
      BY <3>1, <3>2 DEF Roots
  <2> HIDE DEF N
  <2>2. CASE BusyIn(b) \subseteq N
    BY <2>2
  <2>3. CASE \E x : x \in BusyIn(b) \ N
    BY <2>1, <2>3
  <2> QED
    BY <2>2, <2>3
<1> HIDE DEF N
<1>7. Cardinality(BusyIn(b)) <= Cardinality(TakenIn(b)) + 1
  <2>1. Cardinality(N) \in Nat /\ Cardinality(BusyIn(b)) <= Cardinality(N) + 1
    BY <1>5, <1>6, OneMore
  <2> QED
    BY <1>2, <1>3, <2>1
<1>8. /\ IsFiniteSet(BusyIn(b) \X Slot)
      /\ Cardinality(BusyIn(b) \X Slot) = Cardinality(BusyIn(b)) * MaxParallel
  BY <1>1, <1>2, FS_Product
<1>9. Lookups(b) \union TakenIn(b) \in SUBSET (BusyIn(b) \X Slot)
  <2> SUFFICES ASSUME NEW p \in Lookups(b) \union TakenIn(b)
               PROVE  p \in BusyIn(b) \X Slot
    OBVIOUS
  <2>1. /\ p \in Run \X Slot /\ p[1] \in Run /\ p[2] \in Slot /\ p = <<p[1], p[2]>>
        /\ run[p[1]].budget = b
    BY DEF Lookups, TakenIn
  <2>2. task[p[1]][p[2]].at # "free"
    BY DEF Lookups, TakenIn, Taken
  <2>3. Busy(p[1])
    BY <2>1, <2>2 DEF Busy, Looping
  <2> QED
    BY <2>1, <2>3 DEF BusyIn
<1>10. Lookups(b) \intersect TakenIn(b) = {}
  BY DEF Lookups, TakenIn, Taken
<1>11. Cardinality(Lookups(b)) + Cardinality(TakenIn(b)) <= Cardinality(BusyIn(b)) * MaxParallel
  <2>1. Cardinality(Lookups(b) \union TakenIn(b))
          = Cardinality(Lookups(b)) + Cardinality(TakenIn(b)) - 0
    BY <1>3, <1>4, <1>10, FS_Union, FS_EmptySet
  <2>2. Cardinality(Lookups(b) \union TakenIn(b)) <= Cardinality(BusyIn(b) \X Slot)
    BY <1>8, <1>9, FS_Subset
  <2> QED
    BY <1>3, <1>4, <1>8, <2>1, <2>2
<1>12. Cardinality(BusyIn(b)) <= MaxAgents - 1
  BY <1>1, <1>2
<1> QED
  BY <1>1, <1>2, <1>3, <1>4, <1>7, <1>11, <1>12, FreeSlots
\* As many as are looked up may yet be registered.
Limit == Smaller(Cardinality(Path), (MaxAgents - 1) * (MaxParallel - 1) + 1)

Room(b) == count[b] + Cardinality(Lookups(b)) <= MaxAgents - 1 + Limit

Rooms ==
  \A b \in Budget : /\ b <= resumes => Room(b)
                    /\ b > resumes => count[b] = 0

LEMMA LimitNatural ==
  ASSUME TypeOK
  PROVE  Limit \in Nat /\ Limit >= 1 /\ MaxAgents - 1 \in Nat
<1>1. MaxParallel - 1 \in Nat /\ MaxAgents - 1 \in Nat
  <2>1. MaxParallel \in Nat \ {0} /\ MaxAgents \in Nat \ {0}
    BY CoordinationAssumption DEF CoordinationAssumption
  <2> QED
    BY <2>1
<1> DEFINE x == (MaxAgents - 1) * (MaxParallel - 1)
<1>2. x \in Nat
  BY <1>1
<1> HIDE DEF x
<1>3. Cardinality(Path) \in Nat /\ Cardinality(Path) >= 1 /\ x + 1 \in Nat /\ x + 1 >= 1
  BY <1>2, PathsFinite
<1>4. Limit = Smaller(Cardinality(Path), x + 1)
  BY DEF Limit, x
<1> QED
  BY <1>1, <1>3, <1>4 DEF Smaller

LEMMA LookupsFinite ==
  ASSUME TypeOK, NEW b
  PROVE  IsFiniteSet(Lookups(b)) /\ Cardinality(Lookups(b)) \in Nat
<1>1. MaxRuns \in Nat /\ MaxParallel \in Nat
  BY CoordinationAssumption DEF CoordinationAssumption
<1>2. IsFiniteSet(Run) /\ IsFiniteSet(Slot)
  BY <1>1, FS_Interval DEF Run, Slot
<1>3. IsFiniteSet(Run \X Slot)
  BY <1>2, FS_Product
<1>4. IsFiniteSet(Lookups(b))
  BY <1>3, FS_Subset DEF Lookups
<1> QED
  BY <1>4, FS_CardinalityType

\* While one agent is left, whoever is looked up fits under the limit.
RoomLeft == \A b \in Budget : b <= resumes /\ count[b] < MaxAgents => Room(b)

LEMMA PlacesLeaveRoom ==
  ASSUME TypeOK, Tree, Account, Roots, NEW place, Places(place)
  PROVE  RoomLeft
<1> SUFFICES ASSUME NEW b \in Budget, b <= resumes, count[b] < MaxAgents
             PROVE  Room(b)
  BY DEF RoomLeft
<1>1. count[b] \in Nat /\ MaxAgents - 1 \in Nat /\ MaxAgents \in Nat
  BY CoordinationAssumption DEF CoordinationAssumption, TypeOK
<1>2. count[b] <= MaxAgents - 1
  BY <1>1
<1>3. /\ Cardinality(Lookups(b)) <= (MaxAgents - 1) * (MaxParallel - 1) + 1
      /\ Cardinality(Lookups(b)) <= Cardinality(Path)
  BY <1>2, ByRuns, ByPaths
<1>4. Cardinality(Lookups(b)) <= Limit
  BY <1>3 DEF Limit, Smaller
<1> QED
  BY <1>1, <1>2, <1>4, LimitNatural, LookupsFinite DEF Room

LEMMA RoomKept ==
  ASSUME TypeOK, TypeOK', UNCHANGED shape, NEW b \in Budget, Room(b), count'[b] = count[b],
         Lookups(b)' \subseteq Lookups(b)
  PROVE  Room(b)'
<1>1. Cardinality(Lookups(b)') <= Cardinality(Lookups(b))
  BY LookupsFinite, FS_Subset
<1>2. /\ Cardinality(Lookups(b)') \in Nat /\ Cardinality(Lookups(b)) \in Nat
      /\ count[b] \in Nat
  <2>1. IsFiniteSet(Lookups(b)')
    BY LookupsFinite, FS_Subset
  <2> QED
    BY <2>1, LookupsFinite, FS_CardinalityType DEF TypeOK
<1>3. Limit' = Limit
  BY DEF Limit, Path
<1>4. count'[b] + Cardinality(Lookups(b)') <= MaxAgents - 1 + Limit
  BY <1>1, <1>2, LimitNatural DEF Room
<1> QED
  BY <1>3, <1>4 DEF Room

\* A step that begins to look nobody up, and registers nobody.
LEMMA RoomsKept ==
  ASSUME TypeOK, TypeOK', Rooms, UNCHANGED <<shape, count, resumes>>,
         \A b \in Budget : Lookups(b)' \subseteq Lookups(b)
  PROVE  Rooms'
<1>1. Budget' = Budget
  BY DEF Budget
<1> QED
  BY <1>1, RoomKept DEF Rooms

LEMMA NoneLookedUp ==
  ASSUME \A q \in Run : run'[q].budget = run[q].budget,
         \A q \in Run, t \in Slot : task'[q][t].at = "lookup" => task[q][t].at = "lookup"
  PROVE  \A b : Lookups(b)' \subseteq Lookups(b)
  BY DEF Lookups

LEMMA WorkingRooms ==
  ASSUME TypeOK, TypeOK', Rooms, RoomLeft', UNCHANGED shape, NEW r \in Run, Working(r)
  PROVE  Rooms'
<1>1. Quiet(r) /\ UNCHANGED <<count, resumes>>
  BY WorkingStep DEF Quiet
<1>2. Budget' = Budget
  BY DEF Budget
<1>3. ASSUME NEW b \in Budget, b <= resumes
      PROVE  Room(b)'
  <2>1. CASE \A t \in Slot : task'[r][t].at = "lookup" => task[r][t].at = "lookup"
    <3>1. \A q \in Run : run'[q].budget = run[q].budget
      BY <1>1 DEF Quiet, SameRow
    <3>2. \A q \in Run, t \in Slot : task'[q][t].at = "lookup" => task[q][t].at = "lookup"
      BY <1>1, <2>1 DEF Quiet
    <3> QED
      BY <1>1, <1>3, <3>1, <3>2, NoneLookedUp, RoomKept DEF Rooms
  <2>2. CASE b # run[r].budget
    <3>1. Lookups(b)' \subseteq Lookups(b)
      <4> SUFFICES ASSUME NEW p \in Lookups(b)'
                   PROVE  p \in Lookups(b)
        OBVIOUS
      <4>1. /\ p \in Run \X Slot /\ p[1] \in Run
            /\ run'[p[1]].budget = b /\ task'[p[1]][p[2]].at = "lookup"
        BY DEF Lookups
      <4>2. run[p[1]].budget = b /\ p[1] # r
        BY <1>1, <2>2, <4>1 DEF Quiet, SameRow
      <4>3. task'[p[1]] = task[p[1]]
        BY <1>1, <4>1, <4>2 DEF Quiet
      <4> QED
        BY <4>1, <4>2, <4>3 DEF Lookups
    <3> QED
      BY <1>1, <1>3, <3>1, RoomKept DEF Rooms
  <2>3. CASE /\ b = run[r].budget
             /\ \E t \in Slot : task'[r][t].at = "lookup" /\ task[r][t].at # "lookup"
    <3>1. CanSpawn(r)
      BY <1>1, <2>3 DEF Quiet, Refilled
    <3>2. count'[b] < MaxAgents
      BY <1>1, <2>3, <3>1 DEF CanSpawn
    <3> QED
      BY <1>1, <1>2, <1>3, <3>2 DEF RoomLeft
  <2> QED
    BY <2>1, <2>2, <2>3
<1> QED
  BY <1>1, <1>2, <1>3 DEF Rooms

LEMMA FindAgentRooms ==
  ASSUME TypeOK, TypeOK', Tree, Account, Rooms, UNCHANGED shape, NEW r \in Run, NEW t \in Slot,
         FindAgent(r, t)
  PROVE  Rooms'
<1>1. /\ UNCHANGED <<shape, resumes, run>>
      /\ \A q \in Run \ {r} : task'[q] = task[q]
      /\ \A s \in Slot \ {t} : task'[r][s] = task[r][s]
      /\ task[r][t].at = "lookup" /\ task'[r][t].at # "lookup"
  BY FindAgentStep DEF Quiet
<1>2. \A b \in Budget : Lookups(b)' \subseteq Lookups(b) \ {<<r, t>>}
  <2> SUFFICES ASSUME NEW b \in Budget, NEW p \in Lookups(b)'
               PROVE  p \in Lookups(b) /\ p # <<r, t>>
    OBVIOUS
  <2>1. /\ p \in Run \X Slot /\ p[1] \in Run /\ p[2] \in Slot /\ p = <<p[1], p[2]>>
        /\ run[p[1]].budget = b /\ task'[p[1]][p[2]].at = "lookup"
    BY <1>1 DEF Lookups
  <2>2. p[1] # r \/ p[2] # t
    BY <1>1, <2>1
  <2>3. task'[p[1]][p[2]] = task[p[1]][p[2]]
    BY <1>1, <2>1, <2>2
  <2> QED
    BY <1>1, <2>1, <2>3 DEF Lookups
<1>3. CASE UNCHANGED count
  BY <1>1, <1>2, <1>3, RoomsKept
<1>4. CASE count' = [count EXCEPT ![run[r].budget] = @ + 1]
  <2>0. run[r].budget \in Budget
    BY DEF TypeOK, RunState
  <2> PICK a \in Budget : a = run[r].budget
    BY <2>0
  <2>1. a <= resumes /\ Budget' = Budget /\ resumes \in Nat
    <3>1. r \in 1..created
      BY <1>1, Existing DEF Tree, Idle, Looping
    <3> QED
      BY <1>1, <3>1 DEF Account, Budgeted, TypeOK, Budget
  <2>2. /\ count'[a] = count[a] + 1 /\ count[a] \in Nat
        /\ \A b \in Budget \ {a} : count'[b] = count[b]
    BY <1>4, <2>1 DEF TypeOK
  <2>3. <<r, t>> \in Lookups(a)
    BY <1>1 DEF Lookups
  <2>4. Room(a)'
    <3>1. /\ Cardinality(Lookups(a)) \in Nat /\ Cardinality(Lookups(a)') \in Nat
          /\ Cardinality(Lookups(a)') <= Cardinality(Lookups(a)) - 1
      BY <1>2, <2>1, <2>3, LookupsFinite, OneLess
    <3>2. Room(a) /\ Limit' = Limit
      BY <2>1 DEF Rooms, Limit, Path
    <3>3. count'[a] + Cardinality(Lookups(a)') <= MaxAgents - 1 + Limit
      BY <2>2, <3>1, <3>2, LimitNatural DEF Room
    <3> QED
      BY <3>2, <3>3 DEF Room
  <2>5. \A b \in Budget \ {a} : b <= resumes => Room(b)'
    BY <1>2, <2>2, RoomKept DEF Rooms
  <2>6. \A b \in Budget \ {a} : b > resumes => count'[b] = 0
    BY <2>2 DEF Rooms
  <2>7. ~(a > resumes)
    BY <2>1 DEF Budget
  <2> QED
    BY <1>1, <2>1, <2>4, <2>5, <2>6, <2>7 DEF Rooms
<1> QED
  BY <1>3, <1>4, FindAgentStep

LEMMA SpawnRooms ==
  ASSUME TypeOK, TypeOK', Tree, Rooms, UNCHANGED shape, NEW r \in Run, NEW t \in Slot,
         CreateAgentRun(r, t)
  PROVE  Rooms'
<1>0. PICK c \in Run : c = created'
  BY SpawnStep
<1>1. /\ UNCHANGED <<count, resumes>> /\ c = created + 1
      /\ \A q \in Run \ {c} : run'[q] = run[q]
      /\ task[r][t].at = "create" /\ task'[r][t].at = "announce"
      /\ \A q \in Run \ {r} : task'[q] = task[q]
      /\ \A s \in Slot \ {t} : task'[r][s] = task[r][s]
  BY <1>0, SpawnStep
<1>2. Looping(c)
  <2>1. run[c].status = "none"
    BY <1>1, Existing DEF TypeOK
  <2> QED
    BY <2>1 DEF Tree, Idle
<1>3. \A q \in Run, s \in Slot : task'[q][s].at = "lookup" => task[q][s].at = "lookup" /\ q # c
  BY <1>1, <1>2 DEF Looping
<1>4. ASSUME NEW b \in Budget, NEW p \in Lookups(b)'
      PROVE  p \in Lookups(b)
  <2>1. /\ p \in Run \X Slot /\ p[1] \in Run /\ p[2] \in Slot
        /\ run'[p[1]].budget = b /\ task'[p[1]][p[2]].at = "lookup"
    BY DEF Lookups
  <2>2. task[p[1]][p[2]].at = "lookup" /\ run'[p[1]] = run[p[1]]
    BY <1>1, <1>3, <2>1
  <2> QED
    BY <2>1, <2>2 DEF Lookups
<1> QED
  BY <1>1, <1>4, RoomsKept

LEMMA ResumeRooms ==
  ASSUME TypeOK, TypeOK', Tree, Account, Rooms, UNCHANGED shape, NEW r \in Run, Resume(r)
  PROVE  Rooms'
<1>0. PICK n \in Budget : n = resumes'
  BY ResumeStep
<1>1. /\ UNCHANGED <<created, task>> /\ n = resumes + 1
      /\ count' = [count EXCEPT ![n] = 1]
      /\ run[r].status = "WAITING_APPROVAL"
      /\ \A q \in Run \ {r} : run'[q] = run[q]
  BY <1>0, ResumeStep
<1>2. Looping(r) /\ resumes \in Nat /\ Budget' = Budget
  BY <1>1 DEF Tree, Idle, TypeOK, Budget
<1>3. /\ count'[n] = 1
      /\ \A b \in Budget \ {n} : count'[b] = count[b]
  BY <1>1 DEF TypeOK
<1>4. \A b \in Budget : Lookups(b)' \subseteq Lookups(b)
  <2>1. \A q \in Run, s \in Slot : task'[q][s].at = "lookup" => q # r
    BY <1>1, <1>2 DEF Looping
  <2> QED
    BY <1>1, <2>1 DEF Lookups
<1>5. Lookups(n) = {}
  <2> SUFFICES ASSUME NEW p \in Lookups(n)
               PROVE  FALSE
    OBVIOUS
  <2>1. p[1] \in Run /\ p[2] \in Slot /\ task[p[1]][p[2]].at = "lookup" /\ run[p[1]].budget = n
    BY DEF Lookups
  <2>2. p[1] \in 1..created
    BY <2>1, Existing DEF Tree, Idle, Looping
  <2> QED
    BY <1>1, <1>2, <2>1, <2>2 DEF Account, Budgeted
<1>6. Room(n)'
  <2>1. Lookups(n)' = {}
    BY <1>1, <1>4, <1>5
  <2>2. Limit' = Limit
    BY DEF Limit, Path
  <2>3. count'[n] + Cardinality(Lookups(n)') <= MaxAgents - 1 + Limit
    BY <1>3, <2>1, FS_EmptySet, LimitNatural
  <2> QED
    BY <2>2, <2>3 DEF Room
<1>7. ASSUME NEW b \in Budget, b # n
      PROVE  /\ b <= n => Room(b)'
             /\ b > n => count'[b] = 0
  <2>1. b \in Nat /\ (b <= n => b <= resumes) /\ (b > n => b > resumes)
    BY <1>1, <1>2, <1>7 DEF Budget
  <2>2. count'[b] = count[b] /\ Lookups(b)' \subseteq Lookups(b)
    BY <1>3, <1>4, <1>7
  <2> QED
    BY <2>1, <2>2, RoomKept DEF Rooms
<1>8. ~(n > n)
  BY <1>1, <1>2
<1> QED
  BY <1>0, <1>2, <1>6, <1>7, <1>8 DEF Rooms

-----------------------------------------------------------------------------
(* The places, the room that they leave, and the bound.                      *)

LEMMA PlacesStep ==
  ASSUME TypeOK, TypeOK', Tree, Account, Chains, faults' = 0, [Next]_vars,
         NEW place, Places(place)
  PROVE  \E new : Places(new)'
<1>1. CASE UNCHANGED vars
  <2>1. UNCHANGED <<shape, created, run, task>>
    BY <1>1 DEF vars
  <2>2. \A q \in Run : SameRow(q) /\ (Busy(q)' => Busy(q))
    BY <2>1 DEF SameRow, Busy, Looping
  <2>3. \A q \in Run, t \in Slot : Taken(q, t) => Taken(q, t)'
    BY <2>1 DEF Taken
  <2>4. \A q \in Run, t \in Slot : Waiting(q, t)' =>
          /\ Waiting(q, t) /\ task'[q][t].child = task[q][t].child
          /\ run'[task[q][t].child].status = "RUNNING"
    BY <2>1 DEF Waiting, Places, Linked
  <2> QED
    BY <2>1, <2>2, <2>3, <2>4, PlacesKept
<1>2. ASSUME NEW r \in Run, UNCHANGED shape,
             Working(r) \/ Ending(r) \/ Resume(r) \/ \E t \in Slot : FindAgent(r, t)
      PROVE  Places(place)'
  <2>1. CASE Working(r) \/ \E t \in Slot : FindAgent(r, t)
    BY <1>2, <2>1, WorkingPlaces
  <2>2. CASE Ending(r)
    <3>1. faults \in Nat
      BY CoordinationAssumption DEF CoordinationAssumption, TypeOK
    <3>2. \A t \in Slot : ~TaskFails(r, t)
      BY <3>1 DEF TaskFails
    <3> QED
      BY <1>2, <2>2, <3>2, FinishPlaces, PropagatePlaces DEF Ending
  <2>3. CASE Resume(r)
    BY <1>2, <2>3, ResumePlaces
  <2> QED
    BY <1>2, <2>1, <2>2, <2>3
<1>3. ASSUME NEW r \in Run, NEW t \in Slot, UNCHANGED shape, CreateAgentRun(r, t)
      PROVE  \E new : Places(new)'
  BY <1>3, SpawnPlaces
<1>4. ASSUME NEW r \in Run, NEW t \in Slot, UNCHANGED shape, Announce(r, t)
      PROVE  Places(place)'
  BY <1>4, AnnouncePlaces
<1> QED
  BY <1>1, <1>2, <1>3, <1>4, Kinds

LEMMA RoomsStep ==
  ASSUME TypeOK, TypeOK', Tree, Account, Rooms, RoomLeft', [Next]_vars
  PROVE  Rooms'
<1>1. CASE UNCHANGED vars
  <2>1. UNCHANGED <<shape, count, resumes, run, task>>
    BY <1>1 DEF vars
  <2> QED
    BY <2>1, NoneLookedUp, RoomsKept
<1>2. ASSUME NEW r \in Run, UNCHANGED shape, Working(r) \/ Resume(r)
      PROVE  Rooms'
  BY <1>2, WorkingRooms, ResumeRooms
<1>3. ASSUME NEW r \in Run, NEW t \in Slot, UNCHANGED shape,
             FindAgent(r, t) \/ CreateAgentRun(r, t)
      PROVE  Rooms'
  BY <1>3, FindAgentRooms, SpawnRooms
<1>4. ASSUME NEW r \in Run, NEW t \in Slot, UNCHANGED shape, Announce(r, t)
      PROVE  Rooms'
  <2>1. UNCHANGED <<count, resumes>> /\ \A q \in Run : run'[q].budget = run[q].budget
    BY <1>4, AnnounceStep DEF SameRow
  <2>2. \A q \in Run, s \in Slot : task'[q][s].at = "lookup" => task[q][s].at = "lookup"
    BY <1>4, AnnounceStep
  <2> QED
    BY <1>4, <2>1, <2>2, NoneLookedUp, RoomsKept
<1>5. ASSUME NEW r \in Run, UNCHANGED shape, Ending(r)
      PROVE  Rooms'
  <2>1. UNCHANGED <<count, resumes>> /\ \A q \in Run : run'[q].budget = run[q].budget
    BY <1>5, EndStep DEF SameRow
  <2>2. \A q \in Run, s \in Slot : task'[q][s].at = "lookup" => task[q][s].at = "lookup"
    BY <1>5, EndStep
  <2> QED
    BY <1>5, <2>1, <2>2, NoneLookedUp, RoomsKept
<1> QED
  BY <1>1, <1>2, <1>3, <1>4, <1>5, Kinds

\* Until a task fails, the runs have places.
Placed == faults = 0 => \E place : Places(place)

Roomy == faults = 0 => Rooms

LEMMA FaultsCounted == TypeOK /\ [Next]_vars /\ faults' = 0 => faults = 0
<1> SUFFICES ASSUME TypeOK, [Next]_vars, faults' = 0
             PROVE  faults = 0
  OBVIOUS
<1>1. faults \in Nat
  BY CoordinationAssumption DEF CoordinationAssumption, TypeOK
<1>2. CASE UNCHANGED vars
  BY <1>2 DEF vars
<1>3. ASSUME NEW r \in Run, Working(r) \/ Finish(r) \/ Resume(r)
      PROVE  faults' = faults
  BY <1>3 DEF Working, Delegate, NextBatch, EndBatch, Drift, Collect, Retry, GiveUp, Finish, Resume
<1>4. ASSUME NEW r \in Run, NEW t \in Slot,
             FindAgent(r, t) \/ CreateAgentRun(r, t) \/ Announce(r, t) \/ Propagate(r, t)
      PROVE  faults' = faults
  BY <1>4 DEF FindAgent, CreateAgentRun, Announce, Propagate
<1>5. ASSUME NEW r \in Run, NEW t \in Slot, TaskFails(r, t)
      PROVE  FALSE
  BY <1>1, <1>5 DEF TaskFails
<1> QED
  BY <1>2, <1>3, <1>4, <1>5, Kinds DEF Ending

LEMMA PlacedStep ==
  TypeOK /\ TypeOK' /\ Tree /\ Account /\ Chains /\ Placed /\ [Next]_vars => Placed'
<1> SUFFICES ASSUME TypeOK, TypeOK', Tree, Account, Chains, Placed, [Next]_vars, faults' = 0
             PROVE  \E new : Places(new)'
  BY DEF Placed
<1>1. PICK place : Places(place)
  BY FaultsCounted DEF Placed
<1> QED
  BY <1>1, PlacesStep

LEMMA PlacedRoom ==
  TypeOK /\ Tree /\ Account /\ Roots /\ Placed => (faults = 0 => RoomLeft)
BY PlacesLeaveRoom DEF Placed

LEMMA RoomyStep ==
  TypeOK /\ TypeOK' /\ Tree /\ Account /\ (faults = 0 => RoomLeft)' /\ Roomy /\ [Next]_vars
    => Roomy'
BY FaultsCounted, RoomsStep DEF Roomy

LEMMA PlacesInit == Init => Roots /\ Placed /\ Roomy
<1> SUFFICES ASSUME Init
             PROVE  Roots /\ Placed /\ Roomy
  OBVIOUS
<1>1. TypeOK /\ Tree
  BY TypeInit, TreeInit
<1>2. created = 1 /\ resumes = 0 /\ faults = 0 /\ 1 \in Slot /\ \A r \in Run : r # 1 => ~Busy(r)
  <2>1. MaxParallel \in Nat \ {0}
    BY CoordinationAssumption DEF CoordinationAssumption
  <2>2. created = 1 /\ resumes = 0 /\ faults = 0
    BY DEF Init
  <2>3. \A r \in Run : Looping(r)
    BY FixedTasks DEF Init, Looping
  <2>4. \A r \in Run : r # 1 => run[r].status = "none"
    BY DEF Init, Root, Absent, NewRun
  <2> QED
    BY <2>1, <2>2, <2>3, <2>4 DEF Busy, Slot
<1>3. \A r \in Run, t \in Slot : task[r][t].at = "free"
  BY FixedTasks DEF Init
<1>4. Roots
  BY <1>2 DEF Roots
<1>5. Placed
  <2> DEFINE place == [r \in Run |-> [i \in 1..shape.depth |-> 1]]
  <2>1. place \in [Run -> Path]
    BY <1>2 DEF Path
  <2> HIDE DEF place
  <2>2. Apart(place)
    BY <1>2 DEF Apart
  <2>3. run[1].via = {}
    BY CoordinationAssumption DEF CoordinationAssumption, Init, NewRun, Root, Run
  <2>4. Nested(place)
    BY <1>2, <2>3 DEF Nested
  <2>5. Places(place)
    BY <1>3, <2>1, <2>2, <2>4 DEF Places, Waiting
  <2> QED
    BY <2>5 DEF Placed
<1>6. Rooms
  <2>1. ASSUME NEW b \in Budget
        PROVE  Lookups(b) = {}
    BY <1>3 DEF Lookups
  <2>2. ASSUME NEW b \in Budget
        PROVE  count[b] = IF b = 0 THEN 1 ELSE 0
    BY DEF Init
  <2>3. \A b \in Budget : b \in Nat
    BY DEF Budget
  <2> QED
    BY <1>1, <1>2, <2>1, <2>2, <2>3, FS_EmptySet, LimitNatural DEF Rooms, Room
<1> QED
  BY <1>4, <1>5, <1>6 DEF Roomy

\* Until a task fails, a tree outgrows the agents allowed it by no more than the
\* tasks that can be between the check and the registration at once: one for
\* every path of slots to the deepest agents, or those that agents within the
\* limit have free, if these are fewer.
THEOREM OvershootLimited == Spec => []OvershootBounded
<1>1. TypeOK /\ Roomy => OvershootBounded
  <2> SUFFICES ASSUME TypeOK, Rooms, NEW b \in Budget
               PROVE  count[b] <= MaxAgents - 1 + Limit
    BY DEF Roomy, OvershootBounded, Limit
  <2>1. b \in Nat /\ resumes \in Nat /\ count[b] \in Nat
    BY DEF Budget, TypeOK
  <2> QED
    BY <2>1, LimitNatural, LookupsFinite DEF Rooms, Room
<1> QED
  BY <1>1, PlacesInit, PlacedStep, PlacedRoom, RoomyStep, RootsStep, TreeInit, TreeStep,
     AccountInit, AccountStep, ChainsInit, ChainsStep, TypeCorrect, PTL DEF Spec
================================================================================
