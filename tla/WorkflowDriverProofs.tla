-------------------------- MODULE WorkflowDriverProofs --------------------------
(***************************************************************************)
(* Theorems about a run that one driver at a time drives, whatever requests *)
(* and crashes come in between: what the driver believes of the steps is    *)
(* true, so a run that succeeds is whole, a rollback undoes what was built  *)
(* last first, and the engine implements RunLifecycle.                      *)
(***************************************************************************)
EXTENDS WorkflowEngineProofs

\* Where a step's generator has not returned yet, and where those of a wave are
\* out or their outputs being merged.
Running == {"mark", "exec", "hit", "ask", "park", "save"}
Gathering == {"merge", "reread", "remerge", "merged"}
Waving == Gathering \union {"wave"}

\* The driver has read the steps' rows.
Surveyed(pc) == pc \notin Early \union {"claimed", "list"}

\* The driver has the output of s, or has thrown it away to make it again.
Held(state, steps, s) ==
  \/ state.work[s] \in {"save", "succeeded", "merging"}
  \/ state.work[s] = "mark" /\ steps[s] = "SUCCEEDED"

\* What a driver's position says of its own state.
Placed(state) ==
  /\ state.pc \notin Waving => \A s \in Step : state.work[s] = "none"
  /\ state.pc \in Gathering => \A s \in Step : state.work[s] \notin Running
  /\ \A s, t \in Step : state.work[s] = "merging" /\ state.work[t] = "merging" =>
       s = t /\ state.pc \in {"reread", "remerge"}
  /\ state.pc \in Waving \union {"reconcile"} =>
       \A s \in state.todo : state.work[s] = "none" /\ state.view[s] = "WAITING_APPROVAL"
  /\ state.pc = "loop" => state.todo = {}
  /\ state.pc = "complete" => \A s \in Step : state.view[s] \in TerminalStep
  /\ state.pc = "park" => \E s \in Step : state.view[s] = "WAITING_APPROVAL"

\* retryRun may reset what the driver saw fail.
Alike(known, status) == known = status \/ (known = "FAILED" /\ status = "PENDING")

Result(work) == IF work = "merging" THEN "SUCCEEDED" ELSE Recorded[work]

\* The success of s is being recorded, or could not be and is on its row still.
Unrecorded(state, steps, s) ==
  /\ state.work[s] \in {"mark", "save"} /\ steps[s] = "SUCCEEDED"
  /\ state.work[s] = "mark" => MaxFaults > 0

\* What a driver knows of the steps is so; what depends on a step at work has not
\* been taken up.
Reflects(state, steps) ==
  Surveyed(state.pc) => \A s \in Step :
    /\ state.work[s] = "none" \/ state.pc \in Gathering => Alike(state.view[s], steps[s])
    /\ state.work[s] \in Running =>
         /\ steps[s] \in TerminalStep => Unrecorded(state, steps, s)
         /\ state.work[s] = "save" => steps[s] = "SUCCEEDED"
         /\ \A t \in DependsOn[s] : steps[t] \in SatisfiedStep
         /\ \A t \in Step : s \in DependsOn[t] => steps[t] = "PENDING" /\ state.work[t] = "none"
    /\ state.work[s] \notin Running \union {"none"} => Alike(Result(state.work[s]), steps[s])

\* Steps were taken up after what they depend on was done, and bear a later stamp but
\* when the clock was behind.
Ordered(steps, stamps, events) ==
  \A s \in Step :
    /\ steps[s] # "PENDING" => \A t \in DependsOn[s] : steps[t] \in SatisfiedStep
    /\ steps[s] = "SUCCEEDED" =>
         /\ <<"succeeded", s>> \in events
         /\ \A t \in DependsOn[s] : steps[t] = "SUCCEEDED" =>
              <<"behind", s>> \in events \/ stamps[t] < stamps[s]

\* The output of a step that succeeded is in one place: merged, dropped, or in
\* the driver's hands.
Gathered(state, steps, context, events) ==
  \A s \in Step :
    /\ steps[s] = "SUCCEEDED" <=>
         s \in context \/ <<"dropped", s>> \in events \/ Held(state, steps, s)
    /\ s \in context => <<"dropped", s>> \notin events
    /\ Held(state, steps, s) => s \notin context /\ <<"dropped", s>> \notin events

\* A run that succeeded has nothing left to do, and nobody does anything.
Closed(state, steps, status) ==
  status = "SUCCEEDED" =>
    /\ \A s \in Step : steps[s] \in TerminalStep
    /\ state.pc \notin Waving \union {"rollback", "undo", "fail"}

\* Who comes between the driver and the row has paused or cancelled the run; who
\* comes between a second time can only have cancelled it.
Timely(state, row) ==
  /\ state.pc \notin Early => row.status \notin {"PENDING", "WAITING_APPROVAL"}
  /\ state.pc \in {"list", "reconcile", "loop", "wave", "merge"} =>
       state.copy.version = row.version \/ row.status \in {"PAUSED", "CANCELLED"}
  /\ state.pc = "reread" => row.status \in {"PAUSED", "CANCELLED"}
  /\ state.pc = "remerge" =>
       /\ state.copy.status \in {"PAUSED", "CANCELLED"}
       /\ state.copy.version = row.version \/ row.status = "CANCELLED"

Undoing(state, steps, events) ==
  state.pc = "undo" => \A s \in state.todo :
    /\ s \in CompensatedStep /\ steps[s] = "SUCCEEDED"
    /\ <<"behind", s>> \notin events =>
         \A t \in DependsOn[s] :
           t \in CompensatedStep /\ steps[t] = "SUCCEEDED" => t \in state.todo

DriverInv(d) ==
  /\ Placed(drv[d])
  /\ Reflects(drv[d], stepStatus)
  /\ Ordered(stepStatus, completedAt, seen)
  /\ Gathered(drv[d], stepStatus, run.context, seen)
  /\ Closed(drv[d], stepStatus, run.status)
  /\ Timely(drv[d], run)
  /\ Undoing(drv[d], stepStatus, seen)

Alone(d) == RowInv /\ Driver = {d} /\ DriverInv(d)

-----------------------------------------------------------------------------
LEMMA DependsOnSteps == \A s \in Step : DependsOn[s] \subseteq Step
BY DefinitionAssumption

LEMMA AloneState ==
  ASSUME NEW d \in Driver, Alone(d)
  PROVE  /\ run \in RunRow /\ drv[d] \in DriverState /\ drv[d] \in LocalState
         /\ stepStatus \in [Step -> StepStatus]
         /\ drv[d].copy.version = run.version => drv[d].copy = run
         /\ drv[d].copy.version <= run.version
BY DEF Alone, RowInv, TypeOK, DriverState, CopiesAreCurrent, Current

LEMMA BecomeState ==
  ASSUME NEW d \in Driver, Alone(d), NEW state, Become(d, state)
  PROVE  drv'[d] = state
BY DEF Alone, RowInv, TypeOK, Become

\* Before the steps' rows are read there is nothing to know.
LEMMA Fresh ==
  ASSUME NEW state, \A s \in Step : state.work[s] = "none", state.pc \in Early,
         NEW steps, NEW row, NEW events
  PROVE  /\ Placed(state) /\ Reflects(state, steps) /\ Timely(state, row)
         /\ Undoing(state, steps, events) /\ \A s \in Step : ~Held(state, steps, s)
         /\ state.pc \notin Waving \union {"rollback", "undo", "fail"}
BY DEF Placed, Reflects, Surveyed, Timely, Undoing, Held, Early, Waving, Gathering

LEMMA IdleFresh ==
  /\ Idle.pc = "off" /\ \A s \in Step : Idle.work[s] = "none"
  /\ \A st : LET state == [Idle EXCEPT !.pc = "load", !.streaming = st]
             IN  state.pc = "load" /\ \A s \in Step : state.work[s] = "none"
BY DEF Idle

\* Nothing happens to the steps or to what was gathered.
Steady ==
  /\ UNCHANGED <<stepStatus, completedAt>>
  /\ run'.context = run.context
  /\ seen \subseteq seen'
  /\ \A s \in Step : <<"dropped", s>> \in seen' <=> <<"dropped", s>> \in seen

LEMMA SteadyKept ==
  ASSUME NEW d \in Driver, Alone(d), Steady,
         \A s \in Step : Held(drv'[d], stepStatus, s) <=> Held(drv[d], stepStatus, s),
         Placed(drv'[d]), Reflects(drv'[d], stepStatus), Timely(drv'[d], run'),
         Undoing(drv'[d], stepStatus, seen), Closed(drv'[d], stepStatus, run'.status)
  PROVE  DriverInv(d)'
<1>1. Ordered(stepStatus', completedAt', seen')
  BY DEF Alone, DriverInv, Ordered, Steady
<1>2. Gathered(drv'[d], stepStatus', run'.context, seen')
  BY DEF Alone, DriverInv, Gathered, Steady
<1>3. Undoing(drv'[d], stepStatus', seen')
  BY DEF Undoing, Steady
<1> QED
  BY <1>1, <1>2, <1>3 DEF DriverInv, Steady

\* The driver's call ends, or begins.
LEMMA FreshKept ==
  ASSUME NEW d \in Driver, Alone(d), Steady, drv'[d].pc \in Early,
         \A s \in Step : drv'[d].work[s] = "none" /\ ~Held(drv[d], stepStatus, s),
         run'.status = "SUCCEEDED" => \A s \in Step : stepStatus[s] \in TerminalStep
  PROVE  DriverInv(d)'
<1>1. /\ Placed(drv'[d]) /\ Reflects(drv'[d], stepStatus) /\ Timely(drv'[d], run')
      /\ Undoing(drv'[d], stepStatus, seen) /\ \A s \in Step : ~Held(drv'[d], stepStatus, s)
      /\ drv'[d].pc \notin Waving \union {"rollback", "undo", "fail"}
  BY Fresh
<1>2. Closed(drv'[d], stepStatus, run'.status)
  BY <1>1 DEF Closed
<1> QED
  BY <1>1, <1>2, SteadyKept

\* Somebody else writes the row, or nobody does, while the driver stays where it is
\* but for the abort of its executors.
Untouched(old, new) ==
  /\ new.pc = old.pc /\ new.copy = old.copy /\ new.view = old.view /\ new.todo = old.todo
  /\ \A s \in Step : \/ new.work[s] = old.work[s]
                     \/ new.work[s] = "hit" /\ old.work[s] = "exec"

LEMMA UntouchedKept ==
  ASSUME NEW d \in Driver, Alone(d), Steady, Untouched(drv[d], drv'[d]),
         \/ run' = run
         \/ /\ run'.version = run.version + 1
            /\ \/ run'.status = "CANCELLED"
               \/ run'.status = "PAUSED" /\ run.status \notin {"PAUSED", "CANCELLED"}
  PROVE  DriverInv(d)'
<1>0. DriverInv(d) /\ run.version \in Nat /\ drv[d].copy.version <= run.version
      /\ drv[d].copy.version \in Nat /\ (drv[d].copy.version = run.version => drv[d].copy = run)
  BY AloneState DEF Alone, DriverState, LocalState, RunRow
<1>1. \A s \in Step : /\ Held(drv'[d], stepStatus, s) <=> Held(drv[d], stepStatus, s)
                      /\ drv'[d].work[s] = "none" <=> drv[d].work[s] = "none"
                      /\ drv'[d].work[s] # drv[d].work[s] => stepStatus[s] \notin TerminalStep
                      /\ drv'[d].work[s] \in Running <=> drv[d].work[s] \in Running
                      /\ drv'[d].work[s] = drv[d].work[s] \/ drv'[d].work[s] \in Running
                      /\ drv'[d].work[s] = "merging" <=> drv[d].work[s] = "merging"
  <2>1. \A s \in Step : drv[d].work[s] = "exec" => stepStatus[s] \notin TerminalStep
    BY <1>0 DEF DriverInv, Placed, Reflects, Unrecorded, Surveyed, Running, Waving, Gathering, Early
  <2> QED
    BY <2>1 DEF Untouched, Held, Running
<1>2. Placed(drv'[d])
  <2>1. /\ drv'[d].pc = drv[d].pc /\ drv'[d].view = drv[d].view /\ drv'[d].todo = drv[d].todo
        /\ Placed(drv[d])
    BY <1>0 DEF DriverInv, Untouched
  <2>2. \A s \in Step : s \in drv[d].todo /\ drv[d].pc \in Waving \union {"reconcile"} =>
                          drv'[d].work[s] = "none" /\ drv'[d].view[s] = "WAITING_APPROVAL"
    BY <1>1, <2>1 DEF Placed
  <2> QED
    BY <1>1, <2>1, <2>2, AloneState DEF Placed, LocalState
<1>3. Reflects(drv'[d], stepStatus)
  BY <1>0, <1>1 DEF DriverInv, Reflects, Unrecorded, Untouched, Running
<1>4. Undoing(drv'[d], stepStatus, seen)
  BY <1>0 DEF DriverInv, Undoing, Untouched
<1>5. Closed(drv'[d], stepStatus, run'.status)
  BY <1>0 DEF DriverInv, Closed, Untouched
<1>6. Timely(drv'[d], run')
  <2>1. CASE run' = run
    BY <1>0, <2>1 DEF DriverInv, Timely, Untouched
  <2>2. CASE run'.status = "CANCELLED"
    BY <1>0, <2>2 DEF DriverInv, Timely, Untouched
  <2>3. CASE run'.status = "PAUSED" /\ run.status \notin {"PAUSED", "CANCELLED"}
    <3>1. drv[d].pc # "remerge"
      BY <1>0, <2>3 DEF DriverInv, Timely
    <3> QED
      BY <1>0, <2>3, <3>1 DEF Timely, Untouched
  <2> QED
    BY <2>1, <2>2, <2>3
<1> QED
  BY <1>1, <1>2, <1>3, <1>4, <1>5, <1>6, SteadyKept

LEMMA BeginKept ==
  ASSUME NEW d \in Driver, Alone(d), Steady, run'.status # "SUCCEEDED" \/ run' = run,
         NEW st \in BOOLEAN, Begin(d, st)
  PROVE  DriverInv(d)'
<1> DEFINE state == [Idle EXCEPT !.pc = "load", !.streaming = st]
<1>1. drv'[d] = state /\ drv[d].pc = "off"
  BY BecomeState DEF Begin
<1>2. state.pc = "load" /\ \A s \in Step : state.work[s] = "none"
  BY IdleFresh
<1>3. \A s \in Step : ~Held(drv[d], stepStatus, s)
  BY <1>1 DEF Alone, DriverInv, Placed, Held, Waving, Gathering
<1>4. run'.status = "SUCCEEDED" => \A s \in Step : stepStatus[s] \in TerminalStep
  BY DEF Alone, DriverInv, Closed
<1> QED
  BY <1>1, <1>2, <1>3, <1>4, FreshKept DEF Early

\* A call ends when nothing is left in its hands.
LEMMA LeaveKept ==
  ASSUME NEW d \in Driver, Alone(d), Steady, Leave(d), drv[d].pc \notin Waving,
         run'.status = "SUCCEEDED" => \A s \in Step : stepStatus[s] \in TerminalStep
  PROVE  DriverInv(d)'
<1>1. drv'[d] = Idle
  BY BecomeState DEF Leave
<1>2. \A s \in Step : ~Held(drv[d], stepStatus, s)
  BY DEF Alone, DriverInv, Placed, Held
<1> QED
  BY <1>1, <1>2, IdleFresh, FreshKept DEF Early

LEMMA ResetKept ==
  ASSUME NEW d \in Driver, Alone(d), RetryReset
  PROVE  DriverInv(d)'
<1>0. DriverInv(d) /\ run.status = "FAILED" /\ UNCHANGED <<run, completedAt, drv, seen>>
  BY DEF Alone, RetryReset
<1>1. \A s \in Step : \/ stepStatus'[s] = stepStatus[s]
                      \/ stepStatus[s] = "FAILED" /\ stepStatus'[s] = "PENDING"
  BY DEF RetryReset
<1>2. \A s \in Step : /\ stepStatus'[s] = "SUCCEEDED" <=> stepStatus[s] = "SUCCEEDED"
                      /\ stepStatus'[s] \in SatisfiedStep <=> stepStatus[s] \in SatisfiedStep
                      /\ stepStatus'[s] \in TerminalStep <=> stepStatus[s] \in TerminalStep
                      /\ stepStatus'[s] # "PENDING" => stepStatus[s] # "PENDING"
                      /\ \A known : Alike(known, stepStatus[s]) => Alike(known, stepStatus'[s])
  BY <1>1 DEF SatisfiedStep, TerminalStep, Alike
<1>3. Placed(drv'[d]) /\ Timely(drv'[d], run') /\ Closed(drv'[d], stepStatus', run'.status)
  BY <1>0 DEF DriverInv, Closed
<1>4. Reflects(drv'[d], stepStatus')
  BY <1>0, <1>1, <1>2, DependsOnSteps DEF DriverInv, Reflects, Unrecorded
<1>5. Ordered(stepStatus', completedAt', seen')
  BY <1>0, <1>2, DependsOnSteps DEF DriverInv, Ordered
<1>6. Gathered(drv'[d], stepStatus', run'.context, seen')
  BY <1>0, <1>2 DEF DriverInv, Gathered, Held
<1>7. Undoing(drv'[d], stepStatus', seen')
  BY <1>0, <1>2, AloneState, DependsOnSteps DEF DriverInv, Undoing, LocalState
<1> QED
  BY <1>3, <1>4, <1>5, <1>6, <1>7 DEF DriverInv

LEMMA AbortedUntouched ==
  ASSUME NEW d \in Driver, Alone(d), NEW i \in Instance
  PROVE  Untouched(drv[d], AbortedIn(i)[d]) /\ AbortedIn(i)[d] \in LocalState
<1>1. drv[d] \in LocalState
  BY AloneState
<1>2. Untouched(drv[d], Aborted(drv[d]))
  BY <1>1 DEF Untouched, Aborted, LocalState
<1>3. AbortedIn(i)[d] \in LocalState
  BY AbortType DEF Alone, RowInv, DriverState
<1> QED
  BY <1>2, <1>3 DEF AbortedIn, Untouched

LEMMA UserKept ==
  ASSUME NEW d \in Driver, Alone(d), User
  PROVE  DriverInv(d)'
<1> USE DEF rowVars
<1>a. run \in RunRow /\ \A e \in Driver : e = d
  BY AloneState DEF Alone
<1>b. Untouched(drv[d], drv[d])
  BY DEF Untouched
<1>1. ASSUME \/ RunWorkflow(d) \/ ResumeRun(d) \/ RunWorkflowStream(d) \/ ResumeRunStream(d)
      PROVE  DriverInv(d)'
  <2>1. Steady /\ run' = run /\ \E st \in BOOLEAN : Begin(d, st)
    BY <1>1 DEF RunWorkflow, ResumeRun, RunWorkflowStream, ResumeRunStream, Steady
  <2> QED
    BY <2>1, BeginKept
<1>2. ASSUME Disconnect(d)
      PROVE  DriverInv(d)'
  <2>1. Home[d] \in Instance
    BY DeploymentAssumption
  <2>2. drv'[d] = [AbortedIn(Home[d])[d] EXCEPT !.streaming = FALSE]
    BY <1>2 DEF Disconnect, AbortedIn
  <2>3. Untouched(drv[d], drv'[d])
    BY <2>1, <2>2, AbortedUntouched DEF Untouched, LocalState
  <2> QED
    BY <1>2, <2>3, UntouchedKept DEF Disconnect, Steady
<1>3. ASSUME PauseRun
      PROVE  DriverInv(d)'
  BY <1>3, <1>a, <1>b, UntouchedKept DEF PauseRun, Moved, Steady, RunRow
<1>4. ASSUME NEW i \in Instance, CancelRun(i)
      PROVE  DriverInv(d)'
  BY <1>4, <1>a, <1>b, UntouchedKept DEF CancelRun, Moved, Steady, RunRow
<1>5. ASSUME NEW s \in ApprovalStep, DecideCheck(s)
      PROVE  DriverInv(d)'
  BY <1>5, <1>b, UntouchedKept DEF DecideCheck, Steady
<1> QED
  BY <1>a, <1>1, <1>2, <1>3, <1>4, <1>5, ResetKept DEF User

LEMMA HandlerKept ==
  ASSUME NEW d \in Driver, Alone(d), Handler
  PROVE  DriverInv(d)'
<1> USE DEF rowVars
<1>a. run \in RunRow /\ \A e \in Driver : e = d
  BY AloneState DEF Alone
<1>b. Untouched(drv[d], drv[d])
  BY DEF Untouched
<1>1. ASSUME NEW i \in Instance, CancelInProcess(i)
      PROVE  DriverInv(d)'
  BY <1>1, AbortedUntouched, UntouchedKept DEF CancelInProcess, Steady
<1>2. ASSUME RetryRelease(d)
      PROVE  DriverInv(d)'
  <2>1. PICK v \in retrying :
          IF v = run.version
            THEN /\ run' = Moved(run, "PAUSED")
                 /\ IF Inline THEN Begin(d, FALSE) ELSE UNCHANGED drv
            ELSE UNCHANGED <<run, drv>>
    BY <1>2 DEF RetryRelease
  <2>2. CASE v = run.version
    <3>1. run.status = "FAILED"
      BY <2>2 DEF Alone, RowInv
    <3>2. run' = [run EXCEPT !.status = "PAUSED", !.version = run.version + 1]
      BY <2>1, <2>2 DEF Moved
    <3>3. run'.status = "PAUSED" /\ run'.version = run.version + 1 /\ run'.context = run.context
      BY <1>a, <3>2 DEF RunRow
    <3>4. Steady
      BY <1>2, <3>3 DEF RetryRelease, Steady
    <3>5. CASE Inline
      BY <2>1, <2>2, <3>3, <3>4, <3>5, BeginKept
    <3>6. CASE ~Inline
      BY <1>b, <2>1, <2>2, <3>1, <3>3, <3>4, <3>6, UntouchedKept
    <3> QED
      BY <3>5, <3>6
  <2>3. CASE v # run.version
    BY <1>2, <1>b, <2>1, <2>3, UntouchedKept DEF RetryRelease, Steady
  <2> QED
    BY <2>2, <2>3
<1>3. ASSUME DecideApproval(d)
      PROVE  DriverInv(d)'
  <2>1. /\ UNCHANGED <<run, stepStatus, completedAt>>
        /\ IF Inline THEN Begin(d, FALSE) ELSE UNCHANGED drv
        /\ \E s : seen' \in {seen, seen \union {<<"approved", s>>}}
    BY <1>3 DEF DecideApproval
  <2>2. Steady
    BY <2>1 DEF Steady
  <2>3. CASE Inline
    BY <2>1, <2>2, <2>3, BeginKept
  <2>4. CASE ~Inline
    BY <1>b, <2>1, <2>2, <2>4, UntouchedKept
  <2> QED
    BY <2>3, <2>4
<1> QED
  BY <1>a, <1>1, <1>2, <1>3 DEF Handler

\* A call ends with outputs in its hands: they are gone.
LEMMA DropKept ==
  ASSUME NEW d \in Driver, Alone(d), UNCHANGED <<run, stepStatus, completedAt>>,
         Drop({d}), drv'[d] = Idle
  PROVE  DriverInv(d)'
<1>0. DriverInv(d)
  BY DEF Alone
<1>1. /\ seen \subseteq seen'
      /\ \A s \in Step : <<"dropped", s>> \in seen' <=>
                           <<"dropped", s>> \in seen \/ Held(drv[d], stepStatus, s)
  BY DEF Drop, Unmerged, Held
<1>2. /\ Placed(drv'[d]) /\ Reflects(drv'[d], stepStatus') /\ Timely(drv'[d], run')
      /\ Undoing(drv'[d], stepStatus', seen') /\ \A s \in Step : ~Held(drv'[d], stepStatus', s)
      /\ drv'[d].pc \notin Waving \union {"rollback", "undo", "fail"}
  BY Fresh, IdleFresh DEF Early
<1>3. Ordered(stepStatus', completedAt', seen')
  BY <1>0, <1>1 DEF DriverInv, Ordered
<1>4. Gathered(drv'[d], stepStatus', run'.context, seen')
  BY <1>0, <1>1, <1>2 DEF DriverInv, Gathered
<1>5. Closed(drv'[d], stepStatus', run'.status)
  BY <1>0, <1>2 DEF DriverInv, Closed
<1> QED
  BY <1>2, <1>3, <1>4, <1>5 DEF DriverInv

LEMMA CrashKept ==
  ASSUME NEW d \in Driver, Alone(d), NEW i \in Instance, Crash(i)
  PROVE  DriverInv(d)'
<1>1. Driver = {d} /\ UNCHANGED <<run, stepStatus, completedAt>>
  BY DEF Alone, Crash, rowVars
<1>2. CASE Home[d] = i
  <2>1. {e \in Driver : Home[e] = i} = {d}
    BY <1>1, <1>2
  <2> QED
    BY <1>1, <1>2, <2>1, DropKept DEF Crash
<1>3. CASE Home[d] # i
  <2>1. {e \in Driver : Home[e] = i} = {}
    BY <1>1, <1>3
  <2>2. seen' = seen /\ drv'[d] = drv[d]
    BY <1>3, <2>1 DEF Crash, Drop
  <2> QED
    BY <1>1, <2>2, UntouchedKept DEF Untouched, Steady
<1> QED
  BY <1>2, <1>3

-----------------------------------------------------------------------------
(* The steps' generators.                                                   *)

\* The success of s is stamped with what its clock reads.
Stamped(s) ==
  \E now \in Clock :
    /\ completedAt' = [completedAt EXCEPT ![s] = now]
    /\ seen' = seen \union {<<"succeeded", s>>}
                   \union (IF Behind(s, now) THEN {<<"behind", s>>} ELSE {})

\* Where the generator of s goes from a place, and what its row says then.
Turns(from, old, w, status) ==
  \/ w \in {"ask", "park"} /\ from \in {"exec", "ask"} /\ status = old
  \/ w = "mark" /\ status = old
  \/ w = "exec" /\ status \in {"RUNNING", "RETRYING"}
  \/ w = "save" /\ from \in {"exec", "hit"} /\ status = "SUCCEEDED"
  \/ w = "succeeded" /\ from = "save" /\ status = old
  \/ w = "failed" /\ status = "FAILED"
  \/ w \in {"cancelled", "waiting"} /\ from \in {"hit", "park"} /\ status = Recorded[w]

\* The generator of s goes from one place to another, and its row may follow.
StepMoved(d, s, w, status) ==
  /\ drv[d].pc = "wave" /\ drv[d].work[s] \in Running
  /\ drv'[d].pc = drv[d].pc /\ drv'[d].copy = drv[d].copy
  /\ drv'[d].view = drv[d].view /\ drv'[d].todo = drv[d].todo
  /\ \A t \in Step : drv'[d].work[t] = IF t = s THEN w ELSE drv[d].work[t]
  /\ stepStatus'[s] = status /\ \A t \in Step \ {s} : stepStatus'[t] = stepStatus[t]
  /\ Turns(drv[d].work[s], stepStatus[s], w, status)
  /\ drv[d].work[s] = "save" /\ w # "succeeded" => MaxFaults > 0
  /\ run' = run
  /\ IF w = "save" THEN Stamped(s) ELSE UNCHANGED <<completedAt, seen>>

LEMMA StepKept ==
  ASSUME NEW d \in Driver, Alone(d), NEW s \in Step, NEW w, NEW status, StepMoved(d, s, w, status)
  PROVE  DriverInv(d)'
<1>0. DriverInv(d) /\ drv[d].pc = "wave" /\ drv[d].work[s] \in Running /\ Surveyed("wave")
  BY DEF Alone, StepMoved, Surveyed, Early
<1>1. /\ stepStatus[s] \in TerminalStep => Unrecorded(drv[d], stepStatus, s)
      /\ drv[d].work[s] = "save" => stepStatus[s] = "SUCCEEDED"
      /\ \A t \in DependsOn[s] : stepStatus[t] \in SatisfiedStep /\ t # s
      /\ \A t \in Step : s \in DependsOn[t] =>
           stepStatus[t] = "PENDING" /\ drv[d].work[t] = "none" /\ t # s
  BY <1>0 DEF DriverInv, Reflects, Running
<1>2. /\ w # "none" /\ w # "merging"
      /\ w \in Running => /\ status \in TerminalStep => Unrecorded(drv'[d], stepStatus', s)
                          /\ w = "save" => status = "SUCCEEDED"
      /\ w \notin Running => w \in Outcome /\ Alike(Result(w), status)
      /\ Held(drv'[d], stepStatus', s) <=> status = "SUCCEEDED"
      /\ status = "SUCCEEDED" => stepStatus[s] = "SUCCEEDED" \/ w = "save"
  BY <1>0, <1>1
  DEF StepMoved, Turns, Unrecorded, Held, Running, Outcome, Recorded, TerminalStep, Alike, Result
<1>3. /\ \A r \in Step : \A t \in DependsOn[r] : t \in Step
      /\ \A r \in Step : r # s => stepStatus'[r] = stepStatus[r]
      /\ seen \subseteq seen'
      /\ \A r \in Step : /\ r # s => (<<"succeeded", r>> \in seen' <=> <<"succeeded", r>> \in seen)
                         /\ <<"dropped", r>> \in seen' <=> <<"dropped", r>> \in seen
  BY DependsOnSteps DEF StepMoved, Stamped
<1>4. Placed(drv'[d])
  <2>1. s \notin drv[d].todo /\ drv[d].todo \subseteq Step
    BY <1>0, AloneState DEF DriverInv, Placed, Waving, Running, LocalState
  <2> QED
    BY <1>0, <1>2, <2>1 DEF DriverInv, Placed, StepMoved, Waving, Gathering
<1>5. Reflects(drv'[d], stepStatus')
  <2> SUFFICES ASSUME NEW r \in Step
               PROVE  /\ drv'[d].work[r] = "none" => Alike(drv'[d].view[r], stepStatus'[r])
                      /\ drv'[d].work[r] \in Running =>
                           /\ stepStatus'[r] \in TerminalStep => Unrecorded(drv'[d], stepStatus', r)
                           /\ drv'[d].work[r] = "save" => stepStatus'[r] = "SUCCEEDED"
                           /\ \A t \in DependsOn[r] : stepStatus'[t] \in SatisfiedStep
                           /\ \A t \in Step : r \in DependsOn[t] =>
                                stepStatus'[t] = "PENDING" /\ drv'[d].work[t] = "none"
                      /\ drv'[d].work[r] \notin Running \union {"none"} =>
                           Alike(Result(drv'[d].work[r]), stepStatus'[r])
    BY <1>0 DEF Reflects, StepMoved, Gathering
  <2>1. CASE r = s
    BY <1>1, <1>2, <1>3, <2>1 DEF StepMoved
  <2>2. CASE r # s
    <3>1. drv'[d].work[r] = drv[d].work[r] /\ stepStatus'[r] = stepStatus[r]
      BY <2>2 DEF StepMoved
    <3>2. drv[d].work[r] \in Running => s \notin DependsOn[r] /\ r \notin DependsOn[s]
      <4>1. "none" \notin Running
        BY DEF Running
      <4> QED
        BY <1>0, <1>1, <4>1 DEF DriverInv, Reflects
    <3>3. drv[d].work[r] \in Running /\ stepStatus[r] \in TerminalStep =>
            Unrecorded(drv'[d], stepStatus', r)
      BY <1>0, <3>1 DEF DriverInv, Reflects, Unrecorded
    <3>4. drv[d].work[r] \in Running => \A t \in Step : r \in DependsOn[t] =>
            t # s /\ stepStatus'[t] = "PENDING" /\ drv'[d].work[t] = "none"
      BY <1>0, <1>3, <3>2 DEF DriverInv, Reflects, StepMoved
    <3>5. drv[d].work[r] \in Running => \A t \in DependsOn[r] : stepStatus'[t] \in SatisfiedStep
      BY <1>0, <1>3, <3>2 DEF DriverInv, Reflects
    <3> QED
      BY <1>0, <3>1, <3>3, <3>4, <3>5 DEF DriverInv, Reflects, StepMoved, Gathering
  <2> QED
    BY <2>1, <2>2
<1>6. Ordered(stepStatus', completedAt', seen')
  <2> SUFFICES ASSUME NEW r \in Step, stepStatus'[r] # "PENDING"
               PROVE  /\ \A t \in DependsOn[r] : stepStatus'[t] \in SatisfiedStep
                      /\ stepStatus'[r] = "SUCCEEDED" =>
                           /\ <<"succeeded", r>> \in seen'
                           /\ \A t \in DependsOn[r] : stepStatus'[t] = "SUCCEEDED" =>
                                <<"behind", r>> \in seen' \/ completedAt'[t] < completedAt'[r]
    BY DEF Ordered
  <2>1. \A t \in DependsOn[r] : t \in Step /\ t # s /\ stepStatus'[t] = stepStatus[t]
    BY <1>1, <1>3
  <2>2. stepStatus[r] # "PENDING" \/ r = s
    BY <1>3
  <2>3. \A t \in DependsOn[r] : stepStatus'[t] \in SatisfiedStep
    BY <1>0, <1>1, <2>1, <2>2 DEF DriverInv, Ordered
  <2>4. ASSUME r = s, w = "save"
        PROVE  /\ <<"succeeded", r>> \in seen'
               /\ \A t \in DependsOn[r] :
                    <<"behind", r>> \in seen' \/ completedAt'[t] < completedAt'[r]
    <3>1. PICK now \in Clock :
            /\ completedAt' = [completedAt EXCEPT ![s] = now]
            /\ seen' = seen \union {<<"succeeded", s>>}
                           \union (IF Behind(s, now) THEN {<<"behind", s>>} ELSE {})
      BY <2>4 DEF StepMoved, Stamped
    <3>2. completedAt \in [Step -> Nat] /\ now \in Nat
      BY DeploymentAssumption DEF Alone, RowInv, TypeOK
    <3>3. CASE Behind(s, now)
      BY <2>4, <3>1, <3>3
    <3>4. CASE ~Behind(s, now)
      <4>1. \A t \in DependsOn[s] : completedAt[t] < now
        BY <2>1, <2>4, <3>2, <3>4 DEF Behind
      <4> QED
        BY <2>1, <2>4, <3>1, <3>2, <4>1
    <3> QED
      BY <3>3, <3>4
  <2>5. ASSUME ~(r = s /\ w = "save"), stepStatus'[r] = "SUCCEEDED"
        PROVE  /\ <<"succeeded", r>> \in seen'
               /\ \A t \in DependsOn[r] : stepStatus'[t] = "SUCCEEDED" =>
                    <<"behind", r>> \in seen' \/ completedAt'[t] < completedAt'[r]
    <3>1. stepStatus[r] = "SUCCEEDED"
      BY <1>2, <1>3, <2>5 DEF StepMoved
    <3>2. \A t \in Step : (t = s /\ w = "save") \/ completedAt'[t] = completedAt[t]
      BY DEF Alone, RowInv, TypeOK, StepMoved, Stamped
    <3> QED
      BY <1>0, <1>3, <2>1, <2>5, <3>1, <3>2 DEF DriverInv, Ordered
  <2> QED
    BY <2>3, <2>4, <2>5
<1>7. Gathered(drv'[d], stepStatus', run'.context, seen')
  <2> SUFFICES ASSUME NEW r \in Step
               PROVE  /\ stepStatus'[r] = "SUCCEEDED" <=>
                           \/ r \in run.context \/ <<"dropped", r>> \in seen
                           \/ Held(drv'[d], stepStatus', r)
                      /\ r \in run.context => <<"dropped", r>> \notin seen
                      /\ Held(drv'[d], stepStatus', r) =>
                           r \notin run.context /\ <<"dropped", r>> \notin seen
    <3>1. run'.context = run.context
      BY DEF StepMoved
    <3> QED
      BY <1>3, <3>1 DEF Gathered
  <2>1. CASE r = s
    <3>1. s \notin run.context /\ <<"dropped", s>> \notin seen
      BY <1>0, <1>1 DEF DriverInv, Gathered, Held, Unrecorded, TerminalStep
    <3> QED
      BY <1>2, <1>3, <2>1, <3>1 DEF StepMoved
  <2>2. CASE r # s
    <3>1. Held(drv'[d], stepStatus', r) <=> Held(drv[d], stepStatus, r)
      BY <1>3, <2>2 DEF StepMoved, Held
    <3> QED
      BY <1>0, <1>3, <2>2, <3>1 DEF DriverInv, Gathered
  <2> QED
    BY <2>1, <2>2
<1>8. Closed(drv'[d], stepStatus', run'.status)
  BY <1>0 DEF DriverInv, Closed, StepMoved, Waving
<1>9. Timely(drv'[d], run')
  BY <1>0 DEF DriverInv, Timely, StepMoved
<1>10. Undoing(drv'[d], stepStatus', seen')
  BY <1>0 DEF Undoing, StepMoved
<1> QED
  BY <1>4, <1>5, <1>6, <1>7, <1>8, <1>9, <1>10 DEF DriverInv

\* The generator of s turns to another place.
TurnedTo(d, s, w) ==
  /\ drv'[d].pc = drv[d].pc /\ drv'[d].copy = drv[d].copy
  /\ drv'[d].view = drv[d].view /\ drv'[d].todo = drv[d].todo
  /\ \A t \in Step : drv'[d].work[t] = IF t = s THEN w ELSE drv[d].work[t]

LEMMA TurnMoved ==
  ASSUME NEW d \in Driver, Alone(d), NEW s \in Step, NEW w, Turn(d, s, w)
  PROVE  TurnedTo(d, s, w)
<1> DEFINE state == [drv[d] EXCEPT !.work[s] = w]
<1>1. drv'[d] = state
  BY BecomeState DEF Turn
<1>2. drv[d] \in LocalState
  BY AloneState
<1> QED
  BY <1>1, <1>2 DEF TurnedTo, LocalState

\* The generator turns to another place, and nothing is stamped.
LEMMA TurnSteps ==
  ASSUME NEW d \in Driver, Alone(d), NEW s \in Step, NEW w, w # "save",
         Working(d, s, Running), TurnedTo(d, s, w), UNCHANGED <<run, completedAt, seen>>,
         \A t \in Step \ {s} : stepStatus'[t] = stepStatus[t],
         Turns(drv[d].work[s], stepStatus[s], w, stepStatus'[s]),
         drv[d].work[s] = "save" /\ w # "succeeded" => MaxFaults > 0
  PROVE  StepMoved(d, s, w, stepStatus'[s])
BY DEF StepMoved, TurnedTo, Working

StepMoves(d, s) == \E w, status : StepMoved(d, s, w, status)

LEMMA SucceedsMoves ==
  ASSUME NEW d \in Driver, Alone(d), NEW s \in Step, Working(d, s, {"exec", "hit"}),
         StepSucceeds(d, s), run' = run
  PROVE  StepMoves(d, s)
<1>1. stepStatus \in [Step -> StepStatus] /\ Turn(d, s, "save")
  BY AloneState DEF StepSucceeds
<1>2. TurnedTo(d, s, "save") /\ Stamped(s)
  BY <1>1, TurnMoved DEF StepSucceeds, Stamped
<1>3. stepStatus' = [stepStatus EXCEPT ![s] = "SUCCEEDED"]
  BY DEF StepSucceeds
<1>4. StepMoved(d, s, "save", "SUCCEEDED")
  BY <1>1, <1>2, <1>3 DEF StepMoved, TurnedTo, Turns, Working, Running
<1> QED
  BY <1>4 DEF StepMoves

LEMMA ErrsMoves ==
  ASSUME NEW d \in Driver, Alone(d), NEW s \in Step, Working(d, s, Running),
         StepErrs(d, s), run' = run, drv[d].work[s] = "save" => MaxFaults > 0
  PROVE  StepMoves(d, s)
<1>0. stepStatus \in [Step -> StepStatus] /\ UNCHANGED <<completedAt, seen>>
  BY AloneState DEF StepErrs
<1>1. CASE Turn(d, s, "mark") /\ UNCHANGED stepStatus
  BY <1>0, <1>1, TurnMoved, TurnSteps DEF Turns, StepMoves
<1>2. CASE Turn(d, s, "failed") /\ stepStatus' = [stepStatus EXCEPT ![s] = "FAILED"]
  BY <1>0, <1>2, TurnMoved, TurnSteps DEF Turns, StepMoves
<1> QED
  BY <1>1, <1>2 DEF StepErrs

LEMMA BeginAttemptMoves ==
  ASSUME NEW d \in Driver, Alone(d), NEW s \in Step, BeginAttempt(d, s)
  PROVE  StepMoves(d, s)
<1> DEFINE state == [drv[d] EXCEPT !.work[s] = "exec", !.attempt[s] = @ + 1]
<1>1. drv[d] \in LocalState /\ stepStatus \in [Step -> StepStatus]
  BY AloneState
<1>2. drv'[d] = state
  BY BecomeState DEF BeginAttempt
<1>3. TurnedTo(d, s, "exec")
  BY <1>1, <1>2 DEF TurnedTo, LocalState
<1>4. StepMoved(d, s, "exec", stepStatus'[s])
  BY <1>1, <1>3, TurnSteps DEF BeginAttempt, Working, Running, Turns
<1> QED
  BY <1>4 DEF StepMoves

LEMMA StepWorkMoves ==
  ASSUME NEW d \in Driver, Alone(d), NEW s \in Step, StepWork(d, s)
  PROVE  StepMoves(d, s)
<1>0. stepStatus \in [Step -> StepStatus]
  BY AloneState
<1>a. ASSUME NEW from \in Running, Working(d, s, {from}), NEW w, w # "save", Turn(d, s, w),
             UNCHANGED <<run, completedAt, seen>>,
             \A t \in Step \ {s} : stepStatus'[t] = stepStatus[t],
             Turns(from, stepStatus[s], w, stepStatus'[s]),
             from = "save" /\ w # "succeeded" => MaxFaults > 0
      PROVE  StepMoves(d, s)
  BY <1>a, TurnMoved, TurnSteps DEF Working, StepMoves
<1>1. CASE ExecuteSucceeds(d, s)
  BY <1>1, SucceedsMoves DEF ExecuteSucceeds
<1>2. CASE ExecuteErrs(d, s)
  BY <1>2, ErrsMoves DEF ExecuteErrs, Working, Running
<1>3. CASE ExecuteAborts(d, s)
  BY <1>0, <1>3, <1>a DEF ExecuteAborts, Running, Turns, Recorded
<1>4. CASE ConsultApproval(d, s)
  <2>1. Working(d, s, {"exec"}) /\ run' = run
    BY <1>4 DEF ConsultApproval
  <2>2. CASE StepSucceeds(d, s)
    BY <2>1, <2>2, SucceedsMoves DEF Working
  <2>3. CASE StepErrs(d, s)
    BY <2>1, <2>3, ErrsMoves DEF Working, Running
  <2>4. ASSUME NEW w \in {"ask", "park"}, Turn(d, s, w),
               UNCHANGED <<stepStatus, completedAt, seen>>
        PROVE  StepMoves(d, s)
    BY <1>a, <2>1, <2>4 DEF Running, Turns
  <2> QED
    BY <1>4, <2>2, <2>3, <2>4 DEF ConsultApproval
<1>5. CASE AskApproval(d, s)
  BY <1>5, <1>a DEF AskApproval, Running, Turns
<1>6. CASE ParkStep(d, s)
  BY <1>0, <1>6, <1>a DEF ParkStep, Running, Turns, Recorded
<1>7. CASE SaveStep(d, s)
  BY <1>7, <1>a DEF SaveStep, Running, Turns, rowVars
<1>8. CASE CallFails(d, s)
  <2>1. MaxFaults > 0
    BY <1>8, DeploymentAssumption DEF CallFails, Alone, RowInv, TypeOK
  <2>2. Working(d, s, Running)
    BY <1>8 DEF CallFails, Working, Running
  <2> QED
    BY <1>8, <2>1, <2>2, ErrsMoves DEF CallFails
<1> QED
  BY <1>1, <1>2, <1>3, <1>4, <1>5, <1>6, <1>7, <1>8, BeginAttemptMoves DEF StepWork

LEMMA StepWorkKept ==
  ASSUME NEW d \in Driver, Alone(d), NEW s \in Step, StepWork(d, s)
  PROVE  DriverInv(d)'
BY StepWorkMoves, StepKept DEF StepMoves

-----------------------------------------------------------------------------
(* The driver's own moves.                                                  *)

\* The driver is at pc with what it held of the steps.
WentTo(d, pc) ==
  /\ drv'[d].pc = pc /\ drv'[d].work = drv[d].work /\ drv'[d].view = drv[d].view
  /\ drv'[d].todo = drv[d].todo

LEMMA RegisterKept ==
  ASSUME NEW d \in Driver, Alone(d), Register(d)
  PROVE  DriverInv(d)'
<1>1. WentTo(d, "find") /\ drv[d].pc = "load" /\ Steady /\ run' = run
  BY AloneState, BecomeState DEF Register, At, Goto, WentTo, LocalState, Steady, rowVars
<1>2. \A s \in Step : drv[d].work[s] = "none"
  BY <1>1 DEF Alone, DriverInv, Placed, Waving, Gathering
<1>3. run'.status = "SUCCEEDED" => \A s \in Step : stepStatus[s] \in TerminalStep
  BY <1>1 DEF Alone, DriverInv, Closed
<1> QED
  BY <1>1, <1>2, <1>3, FreshKept DEF WentTo, Early, Held

LEMMA FindRunKept ==
  ASSUME NEW d \in Driver, Alone(d), FindRun(d)
  PROVE  DriverInv(d)'
<1> DEFINE pc == IF run.status \in {"PENDING", "PAUSED", "WAITING_APPROVAL"} THEN "claim"
                                                                             ELSE "list"
<1>a. Become(d, [drv[d] EXCEPT !.copy = run, !.pc = pc])
  BY DEF FindRun
<1>b. drv'[d] = [drv[d] EXCEPT !.copy = run, !.pc = pc] /\ drv[d] \in LocalState
  BY <1>a, AloneState, BecomeState
<1>c. WentTo(d, pc) /\ drv'[d].copy = run
  <2> HIDE DEF pc
  <2> QED
    BY <1>b DEF WentTo, LocalState
<1>1. WentTo(d, pc) /\ drv'[d].copy = run /\ drv[d].pc = "find" /\ Steady /\ run' = run
  BY <1>c DEF FindRun, At, Steady, rowVars
<1>2. \A s \in Step : drv[d].work[s] = "none"
  BY <1>1 DEF Alone, DriverInv, Placed, Waving, Gathering
<1>3. Closed(drv[d], stepStatus, run.status)
  BY DEF Alone, DriverInv
<1>4. CASE pc = "claim"
  BY <1>1, <1>2, <1>3, <1>4, FreshKept DEF WentTo, Early, Held, Closed
<1>5. CASE pc = "list"
  <2>1. run.status \notin {"PENDING", "WAITING_APPROVAL"}
    BY <1>5
  <2>2. drv'[d].pc = "list" /\ drv'[d].work = drv[d].work
    BY <1>1, <1>5 DEF WentTo
  <2>3. Placed(drv'[d]) /\ Reflects(drv'[d], stepStatus) /\ Undoing(drv'[d], stepStatus, seen)
    BY <1>2, <2>2 DEF Placed, Reflects, Surveyed, Undoing, Waving, Gathering
  <2>4. Timely(drv'[d], run') /\ Closed(drv'[d], stepStatus, run'.status)
    BY <1>1, <1>3, <2>1, <2>2 DEF Timely, Closed, Waving, Gathering
  <2> QED
    BY <1>1, <2>2, <2>3, <2>4, SteadyKept DEF Held
<1> QED
  BY <1>4, <1>5

LEMMA ClaimRunKept ==
  ASSUME NEW d \in Driver, Alone(d), ClaimRun(d)
  PROVE  DriverInv(d)'
<1>1. drv[d].pc = "claim" /\ UNCHANGED <<stepStatus, completedAt, seen>> /\ run \in RunRow
  BY AloneState DEF ClaimRun, At
<1>2. CASE run' = Moved(run, "RUNNING") /\ Goto(d, "claimed")
  <2>1. run'.status = "RUNNING" /\ Steady
    BY <1>1, <1>2 DEF Moved, RunRow, Steady
  <2>2. drv'[d].pc = "claimed" /\ drv'[d].work = drv[d].work
    BY <1>2, AloneState, BecomeState DEF Goto, LocalState
  <2>3. \A s \in Step : drv[d].work[s] = "none"
    BY <1>1 DEF Alone, DriverInv, Placed, Waving, Gathering
  <2>4. Placed(drv'[d]) /\ Reflects(drv'[d], stepStatus) /\ Undoing(drv'[d], stepStatus, seen)
    BY <2>2, <2>3 DEF Placed, Reflects, Surveyed, Undoing, Waving, Gathering
  <2>5. Timely(drv'[d], run') /\ Closed(drv'[d], stepStatus, run'.status)
    BY <2>1, <2>2 DEF Timely, Closed
  <2> QED
    BY <2>1, <2>2, <2>4, <2>5, SteadyKept DEF Held
<1>3. CASE Leave(d) /\ UNCHANGED run
  BY <1>1, <1>3, LeaveKept DEF Alone, DriverInv, Closed, Steady, Waving, Gathering
<1> QED
  BY <1>2, <1>3 DEF ClaimRun

LEMMA ReloadKept ==
  ASSUME NEW d \in Driver, Alone(d), Reload(d)
  PROVE  DriverInv(d)'
<1> DEFINE pc == IF drv[d].pc = "claimed" THEN "list" ELSE "merge"
<1>0. DriverInv(d)
  BY DEF Alone
<1>a. Become(d, [drv[d] EXCEPT !.copy = run, !.pc = pc])
  BY DEF Reload
<1>b. drv'[d] = [drv[d] EXCEPT !.copy = run, !.pc = pc] /\ drv[d] \in LocalState
  BY <1>a, AloneState, BecomeState
<1>c. WentTo(d, pc) /\ drv'[d].copy = run
  <2> HIDE DEF pc
  <2> QED
    BY <1>b DEF WentTo, LocalState
<1>1. WentTo(d, pc) /\ drv'[d].copy = run /\ Steady /\ run' = run
  BY <1>c DEF Reload, Steady, rowVars
<1>2. \A s \in Step : Held(drv'[d], stepStatus, s) <=> Held(drv[d], stepStatus, s)
  BY <1>1 DEF WentTo, Held
<1>3. Timely(drv'[d], run')
  BY <1>0, <1>1 DEF DriverInv, Timely, Reload, WentTo, Early
<1>4. CASE drv[d].pc = "claimed"
  <2>1. drv'[d].pc = "list" /\ \A s \in Step : drv'[d].work[s] = "none"
    BY <1>0, <1>1, <1>4 DEF WentTo, DriverInv, Placed, Waving, Gathering
  <2>2. Placed(drv'[d]) /\ Reflects(drv'[d], stepStatus) /\ Undoing(drv'[d], stepStatus, seen)
    BY <2>1 DEF Placed, Reflects, Surveyed, Undoing, Waving, Gathering
  <2>3. Closed(drv'[d], stepStatus, run'.status)
    BY <1>0, <1>1, <2>1 DEF DriverInv, Closed, Waving, Gathering
  <2> QED
    BY <1>1, <1>2, <1>3, <2>2, <2>3, SteadyKept
<1>5. CASE drv[d].pc = "merged"
  <2>1. drv'[d].pc = "merge" /\ drv'[d].work = drv[d].work
    BY <1>1, <1>5 DEF WentTo
  <2>2. Placed(drv'[d])
    BY <1>0, <1>1, <1>5, <2>1 DEF DriverInv, Placed, WentTo, Waving, Gathering
  <2>3. Reflects(drv'[d], stepStatus) /\ Undoing(drv'[d], stepStatus, seen)
    BY <1>0, <1>1, <1>5, <2>1
    DEF DriverInv, Reflects, Unrecorded, Surveyed, Undoing, WentTo, Gathering, Early
  <2>4. Closed(drv'[d], stepStatus, run'.status)
    BY <1>0, <1>1, <1>5 DEF DriverInv, Closed, Waving, Gathering
  <2> QED
    BY <1>1, <1>2, <1>3, <2>2, <2>3, <2>4, SteadyKept
<1> QED
  BY <1>4, <1>5 DEF Reload

LEMMA ListStepsKept ==
  ASSUME NEW d \in Driver, Alone(d), ListSteps(d)
  PROVE  DriverInv(d)'
<1>0. DriverInv(d) /\ drv[d].pc = "list"
  BY DEF Alone, ListSteps, At
<1>1. /\ drv'[d].pc = "reconcile" /\ drv'[d].work = drv[d].work /\ drv'[d].copy = drv[d].copy
      /\ drv'[d].view = stepStatus
      /\ drv'[d].todo = {s \in Step : stepStatus[s] = "WAITING_APPROVAL"}
      /\ Steady /\ run' = run
  <2> DEFINE todo == {s \in Step : stepStatus[s] = "WAITING_APPROVAL"}
  <2>1. drv'[d] = [drv[d] EXCEPT !.view = stepStatus, !.todo = todo, !.pc = "reconcile"]
    BY BecomeState DEF ListSteps
  <2>2. drv[d] \in LocalState /\ Steady /\ run' = run
    BY AloneState DEF ListSteps, Steady, rowVars
  <2> HIDE DEF todo
  <2>3. /\ drv'[d].pc = "reconcile" /\ drv'[d].work = drv[d].work
        /\ drv'[d].copy = drv[d].copy /\ drv'[d].view = stepStatus /\ drv'[d].todo = todo
    BY <2>1, <2>2 DEF LocalState
  <2> QED
    BY <2>2, <2>3 DEF todo
<1>2. \A s \in Step : drv[d].work[s] = "none"
  BY <1>0 DEF DriverInv, Placed, Waving, Gathering
<1>3. Placed(drv'[d])
  BY <1>1, <1>2 DEF Placed, Waving, Gathering
<1>4. Reflects(drv'[d], stepStatus) /\ Undoing(drv'[d], stepStatus, seen)
  BY <1>1, <1>2 DEF Reflects, Undoing, Alike, Running
<1>5. Timely(drv'[d], run') /\ Closed(drv'[d], stepStatus, run'.status)
  BY <1>0, <1>1 DEF DriverInv, Timely, Closed, Early, Waving, Gathering
<1> QED
  BY <1>1, <1>3, <1>4, <1>5, SteadyKept DEF Held

\* A parked approval is re-entered: its generator begins, the others have none.
LEMMA ReenterKept ==
  ASSUME NEW d \in Driver, Alone(d), NEW s \in drv[d].todo, drv[d].pc = "reconcile",
         Become(d, [drv[d] EXCEPT !.todo = @ \ {s}, !.work = Wave({s}), !.attempt[s] = 0,
                                  !.pc = "wave"]),
         Steady, run' = run
  PROVE  DriverInv(d)'
<1>0. DriverInv(d) /\ drv[d] \in LocalState /\ s \in Step
  BY AloneState DEF Alone, LocalState
<1> DEFINE attempt == [drv[d].attempt EXCEPT ![s] = 0]
           todo == drv[d].todo \ {s}
<1>a. drv'[d] = [drv[d] EXCEPT !.todo = todo, !.work = Wave({s}), !.attempt = attempt,
                               !.pc = "wave"]
  BY <1>0, BecomeState DEF LocalState
<1>1. /\ drv'[d].pc = "wave" /\ drv'[d].copy = drv[d].copy /\ drv'[d].view = drv[d].view
      /\ drv'[d].todo = drv[d].todo \ {s} /\ drv'[d].work = Wave({s})
  <2> HIDE DEF attempt
  <2> QED
    BY <1>0, <1>a DEF LocalState
<1>2. \A t \in Step : /\ drv[d].work[t] = "none"
                      /\ drv'[d].work[t] = IF t = s THEN "mark" ELSE "none"
  BY <1>0, <1>1 DEF DriverInv, Placed, Wave, Waving, Gathering
<1>3. /\ stepStatus[s] = "WAITING_APPROVAL"
      /\ \A t \in DependsOn[s] : stepStatus[t] \in SatisfiedStep
      /\ \A t \in Step : Alike(drv[d].view[t], stepStatus[t])
  <2>1. \A t \in Step : Alike(drv[d].view[t], stepStatus[t])
    BY <1>0, <1>2 DEF DriverInv, Reflects, Surveyed, Early
  <2>2. stepStatus[s] = "WAITING_APPROVAL"
    BY <1>0, <2>1 DEF DriverInv, Placed, Alike
  <2> QED
    BY <1>0, <2>1, <2>2 DEF DriverInv, Ordered
<1>b. \A t \in Step : s \in DependsOn[t] => stepStatus[t] = "PENDING" /\ t # s
  BY <1>0, <1>3 DEF DriverInv, Ordered, SatisfiedStep
<1>4. Placed(drv'[d])
  <2>0. \A t \in drv[d].todo : t \in Step /\ drv[d].view[t] = "WAITING_APPROVAL"
    BY <1>0 DEF DriverInv, Placed, LocalState
  <2>1. \A t \in drv'[d].todo : /\ drv'[d].work[t] = "none"
                                /\ drv'[d].view[t] = "WAITING_APPROVAL"
    BY <1>1, <1>2, <2>0
  <2> QED
    BY <1>1, <1>2, <2>1 DEF Placed, Waving, Gathering
<1>5. Reflects(drv'[d], stepStatus) /\ Undoing(drv'[d], stepStatus, seen)
  BY <1>0, <1>b, <1>1, <1>2, <1>3 DEF Reflects, Undoing, Running, Gathering, TerminalStep
<1>6. Timely(drv'[d], run')
  BY <1>0, <1>1 DEF DriverInv, Timely, Early
<1>7. Closed(drv'[d], stepStatus, run'.status)
  BY <1>0, <1>3 DEF DriverInv, Closed, TerminalStep
<1> QED
  BY <1>2, <1>3, <1>4, <1>5, <1>6, <1>7, SteadyKept DEF Held

LEMMA ReconcileKept ==
  ASSUME NEW d \in Driver, Alone(d), Reconcile(d)
  PROVE  DriverInv(d)'
<1>0. DriverInv(d) /\ drv[d].pc = "reconcile" /\ Steady /\ run' = run
  BY DEF Alone, Reconcile, At, Steady, rowVars
<1>1. CASE drv[d].todo = {} /\ Goto(d, "loop")
  <2>1. WentTo(d, "loop") /\ drv'[d].copy = drv[d].copy
    BY <1>1, AloneState, BecomeState DEF Goto, WentTo, LocalState
  <2>2. \A s \in Step : drv[d].work[s] = "none"
    BY <1>0 DEF DriverInv, Placed, Waving, Gathering
  <2>3. Placed(drv'[d]) /\ Undoing(drv'[d], stepStatus, seen)
    BY <1>1, <2>1, <2>2 DEF WentTo, Placed, Undoing, Waving, Gathering
  <2>4. Reflects(drv'[d], stepStatus)
    BY <1>0, <2>1, <2>2 DEF WentTo, DriverInv, Reflects, Surveyed, Early, Running
  <2>5. Timely(drv'[d], run') /\ Closed(drv'[d], stepStatus, run'.status)
    BY <1>0, <2>1 DEF WentTo, DriverInv, Timely, Closed, Early, Waving, Gathering
  <2> QED
    BY <1>0, <2>1, <2>3, <2>4, <2>5, SteadyKept DEF WentTo, Held
<1>2. ASSUME NEW s \in drv[d].todo,
             Become(d, [drv[d] EXCEPT !.todo = @ \ {s}, !.work = Wave({s}), !.attempt[s] = 0,
                                      !.pc = "wave"])
      PROVE  DriverInv(d)'
  BY <1>0, <1>2, ReenterKept
<1> QED
  BY <1>1, <1>2 DEF Reconcile

LEMMA EndWaveKept ==
  ASSUME NEW d \in Driver, Alone(d), EndWave(d)
  PROVE  DriverInv(d)'
<1> DEFINE view == [s \in Step |-> IF drv[d].work[s] = "none" THEN drv[d].view[s]
                                   ELSE Recorded[drv[d].work[s]]]
<1>0. DriverInv(d) /\ drv[d].pc = "wave" /\ Steady /\ run' = run
  BY DEF Alone, EndWave, At, Steady, rowVars
<1>1. \A s \in Step : drv[d].work[s] \in Outcome \union {"none"}
  BY DEF EndWave
<1>a. Become(d, [drv[d] EXCEPT !.view = view, !.pc = "merge"])
  BY DEF EndWave
<1>2. /\ drv'[d].pc = "merge" /\ drv'[d].copy = drv[d].copy /\ drv'[d].view = view
      /\ drv'[d].todo = drv[d].todo /\ drv'[d].work = drv[d].work
  <2> HIDE DEF view
  <2>2. drv'[d] = [drv[d] EXCEPT !.view = view, !.pc = "merge"]
    BY <1>a, BecomeState
  <2>3. drv[d] \in LocalState
    BY AloneState
  <2> QED
    BY <2>2, <2>3 DEF LocalState
<1>3. \A s \in Step : /\ drv[d].work[s] = "none" => drv'[d].view[s] = drv[d].view[s]
                      /\ drv[d].work[s] # "none" =>
                           drv'[d].view[s] = Result(drv[d].work[s])
  BY <1>1, <1>2 DEF Result, Outcome
<1>4. Placed(drv'[d])
  <2>1. \A s \in Step : drv[d].work[s] \notin Running \union {"merging"}
    BY <1>1 DEF Running, Outcome
  <2>2. drv[d].todo \subseteq Step
    BY AloneState DEF LocalState
  <2> QED
    BY <1>0, <1>2, <1>3, <2>1, <2>2 DEF DriverInv, Placed, Waving, Gathering
<1>5. Reflects(drv'[d], stepStatus)
  <2>1. \A s \in Step : drv[d].work[s] \notin Running
    BY <1>1 DEF Running, Outcome
  <2> QED
    BY <1>0, <1>2, <1>3, <2>1 DEF DriverInv, Reflects, Surveyed, Early
<1>6. Undoing(drv'[d], stepStatus, seen)
  BY <1>2 DEF Undoing
<1>7. Timely(drv'[d], run') /\ Closed(drv'[d], stepStatus, run'.status)
  BY <1>0, <1>2 DEF DriverInv, Timely, Closed, Early, Waving, Gathering
<1> QED
  BY <1>0, <1>2, <1>4, <1>5, <1>6, <1>7, SteadyKept DEF Held

\* The driver moves on with the output of s.
MovesOn(d, s, w, pc) == Become(d, [drv[d] EXCEPT !.work[s] = w, !.pc = pc])

LEMMA WorkMoved ==
  ASSUME NEW d \in Driver, Alone(d), NEW s \in Step, NEW w, NEW pc, MovesOn(d, s, w, pc)
  PROVE  /\ drv'[d].pc = pc /\ drv'[d].copy = drv[d].copy /\ drv'[d].view = drv[d].view
         /\ drv'[d].todo = drv[d].todo
         /\ \A t \in Step : drv'[d].work[t] = IF t = s THEN w ELSE drv[d].work[t]
<1> DEFINE work == [drv[d].work EXCEPT ![s] = w]
<1>1. drv[d] \in LocalState
  BY AloneState
<1>2. drv'[d] = [drv[d] EXCEPT !.work = work, !.pc = pc]
  BY <1>1, BecomeState DEF MovesOn, LocalState
<1>3. \A t \in Step : work[t] = IF t = s THEN w ELSE drv[d].work[t]
  BY <1>1 DEF LocalState
<1> HIDE DEF work
<1> QED
  BY <1>1, <1>2, <1>3 DEF LocalState

\* The output of s is merged into the row's own context.
LEMMA MergedKept ==
  ASSUME NEW d \in Driver, Alone(d), NEW s \in Step, Held(drv[d], stepStatus, s),
         Current(drv[d].copy),
         drv[d].pc \in {"merge", "remerge"},
         \A t \in Step : drv[d].work[t] = "merging" => t = s,
         run' = Merged(drv[d].copy, s), UNCHANGED <<stepStatus, completedAt, seen>>,
         MovesOn(d, s, "none", "merged")
  PROVE  DriverInv(d)'
<1>0. DriverInv(d) /\ drv[d] \in LocalState /\ run \in RunRow /\ drv[d].copy = run
  BY AloneState DEF Alone, Current
<1>1. run'.context = run.context \union {s} /\ run'.status = run.status
  BY <1>0 DEF Merged, RunRow
<1>2. /\ drv'[d].pc = "merged" /\ drv'[d].view = drv[d].view /\ drv'[d].todo = drv[d].todo
      /\ \A t \in Step : drv'[d].work[t] = IF t = s THEN "none" ELSE drv[d].work[t]
  BY WorkMoved
<1>3. Placed(drv'[d])
  <2>1. s \notin drv[d].todo /\ drv[d].todo \subseteq Step
    BY <1>0 DEF DriverInv, Placed, Held, Waving, Gathering, LocalState
  <2> QED
    BY <1>0, <1>2, <2>1 DEF DriverInv, Placed, Waving, Gathering, Running
<1>4. Reflects(drv'[d], stepStatus')
  BY <1>0, <1>2 DEF DriverInv, Reflects, Unrecorded, Surveyed, Early, Gathering, Running
<1>5. Ordered(stepStatus', completedAt', seen')
  BY <1>0 DEF DriverInv, Ordered
<1>6. Gathered(drv'[d], stepStatus', run'.context, seen')
  <2> SUFFICES ASSUME NEW r \in Step
               PROVE  /\ stepStatus[r] = "SUCCEEDED" <=>
                           \/ r \in run'.context \/ <<"dropped", r>> \in seen
                           \/ Held(drv'[d], stepStatus', r)
                      /\ r \in run'.context => <<"dropped", r>> \notin seen
                      /\ Held(drv'[d], stepStatus', r) =>
                           r \notin run'.context /\ <<"dropped", r>> \notin seen
    BY DEF Gathered
  <2>1. CASE r = s
    BY <1>0, <1>1, <1>2, <2>1 DEF DriverInv, Gathered, Held
  <2>2. CASE r # s
    BY <1>0, <1>1, <1>2, <2>2 DEF DriverInv, Gathered, Held
  <2> QED
    BY <2>1, <2>2
<1>7. Closed(drv'[d], stepStatus', run'.status)
  BY <1>0, <1>1 DEF DriverInv, Closed, Waving, Gathering
<1>8. Timely(drv'[d], run') /\ Undoing(drv'[d], stepStatus', seen')
  BY <1>0, <1>1, <1>2 DEF DriverInv, Timely, Undoing, Early
<1> QED
  BY <1>3, <1>4, <1>5, <1>6, <1>7, <1>8 DEF DriverInv

LEMMA MergeOutputKept ==
  ASSUME NEW d \in Driver, Alone(d), MergeOutput(d)
  PROVE  DriverInv(d)'
<1>0. /\ DriverInv(d) /\ drv[d] \in LocalState /\ drv[d].pc = "merge"
      /\ UNCHANGED <<stepStatus, completedAt, seen>>
  BY AloneState DEF Alone, MergeOutput, At
<1>1. \A t \in Step : drv[d].work[t] # "merging"
  BY <1>0 DEF DriverInv, Placed
<1>2. PICK s \in Step :
        /\ drv[d].work[s] = "succeeded"
        /\ IF Current(drv[d].copy)
             THEN /\ run' = Merged(drv[d].copy, s)
                  /\ MovesOn(d, s, "none", "merged")
             ELSE MovesOn(d, s, "merging", "reread") /\ UNCHANGED run
  BY DEF MergeOutput, MovesOn
<1>3. CASE Current(drv[d].copy)
  BY <1>0, <1>1, <1>2, <1>3, MergedKept DEF Held
<1>4. CASE ~Current(drv[d].copy)
  <2>1. /\ drv'[d].pc = "reread" /\ drv'[d].view = drv[d].view
        /\ drv'[d].copy = drv[d].copy /\ drv'[d].todo = drv[d].todo
        /\ \A t \in Step : drv'[d].work[t] = IF t = s THEN "merging" ELSE drv[d].work[t]
    BY <1>2, <1>4, WorkMoved
  <2>2. run' = run /\ Steady
    BY <1>0, <1>2, <1>4 DEF Steady
  <2>3. Placed(drv'[d])
    <3>1. s \notin drv[d].todo /\ drv[d].todo \subseteq Step
      BY <1>0, <1>2 DEF DriverInv, Placed, Waving, Gathering, LocalState
    <3> QED
      BY <1>0, <1>1, <2>1, <3>1 DEF DriverInv, Placed, Waving, Gathering, Running
  <2>4. Reflects(drv'[d], stepStatus)
    <3>1. Result("merging") = "SUCCEEDED" /\ Result("succeeded") = "SUCCEEDED"
      BY DEF Result, Recorded
    <3> QED
      BY <1>0, <1>2, <2>1, <3>1
      DEF DriverInv, Reflects, Unrecorded, Surveyed, Early, Gathering, Running
  <2>5. Timely(drv'[d], run') /\ Undoing(drv'[d], stepStatus, seen)
    BY <1>0, <1>4, <2>1, <2>2 DEF DriverInv, Timely, Undoing, Early, Current
  <2>6. Closed(drv'[d], stepStatus, run'.status)
    BY <1>0, <2>2 DEF DriverInv, Closed, Waving, Gathering
  <2> QED
    BY <1>2, <2>1, <2>2, <2>3, <2>4, <2>5, <2>6, SteadyKept DEF Held
<1> QED
  BY <1>3, <1>4

LEMMA RereadRunKept ==
  ASSUME NEW d \in Driver, Alone(d), RereadRun(d)
  PROVE  DriverInv(d)'
<1>0. DriverInv(d) /\ drv[d].pc = "reread" /\ Steady /\ run' = run
  BY DEF Alone, RereadRun, At, Steady, rowVars
<1>1. WentTo(d, "remerge") /\ drv'[d].copy = run
  <2>1. drv'[d] = [drv[d] EXCEPT !.copy = run, !.pc = "remerge"]
    BY BecomeState DEF RereadRun
  <2>2. drv[d] \in LocalState
    BY AloneState
  <2> QED
    BY <2>1, <2>2 DEF WentTo, LocalState
<1>2. Placed(drv'[d])
  BY <1>0, <1>1 DEF WentTo, DriverInv, Placed, Waving, Gathering
<1>3. Reflects(drv'[d], stepStatus) /\ Undoing(drv'[d], stepStatus, seen)
  BY <1>0, <1>1 DEF WentTo, DriverInv, Reflects, Undoing, Unrecorded, Surveyed, Early, Gathering
<1>4. Timely(drv'[d], run') /\ Closed(drv'[d], stepStatus, run'.status)
  BY <1>0, <1>1 DEF WentTo, DriverInv, Timely, Closed, Early, Waving, Gathering
<1> QED
  BY <1>0, <1>1, <1>2, <1>3, <1>4, SteadyKept DEF WentTo, Held

LEMMA RemergeOutputKept ==
  ASSUME NEW d \in Driver, Alone(d), RemergeOutput(d)
  PROVE  DriverInv(d)'
<1>0. DriverInv(d) /\ drv[d].pc = "remerge" /\ UNCHANGED <<stepStatus, completedAt>>
  BY DEF Alone, RemergeOutput, At
<1>1. PICK s \in Step :
        /\ drv[d].work[s] = "merging"
        /\ IF Current(drv[d].copy)
             THEN /\ run' = Merged(drv[d].copy, s)
                  /\ MovesOn(d, s, "none", "merged")
                  /\ UNCHANGED <<controller, seen>>
             ELSE Leave(d) /\ Drop({d}) /\ UNCHANGED run
  BY DEF RemergeOutput, MovesOn
<1>2. CASE Current(drv[d].copy)
  <2>1. \A t \in Step : drv[d].work[t] = "merging" => t = s
    BY <1>0, <1>1 DEF DriverInv, Placed
  <2> QED
    BY <1>0, <1>1, <1>2, <2>1, MergedKept DEF Held
<1>3. CASE ~Current(drv[d].copy)
  BY <1>0, <1>1, <1>3, BecomeState, DropKept DEF Leave
<1> QED
  BY <1>2, <1>3

LEMMA AfterWaveKept ==
  ASSUME NEW d \in Driver, Alone(d), AfterWave(d)
  PROVE  DriverInv(d)'
<1> DEFINE pc == IF \E s \in Step : drv[d].work[s] = "failed" THEN "rollback" ELSE "reconcile"
<1>0. DriverInv(d) /\ drv[d].pc = "merge" /\ Steady /\ run' = run
  BY DEF Alone, AfterWave, At, Steady, rowVars
<1>a. Become(d, [drv[d] EXCEPT !.work = Wave({}), !.pc = pc])
  BY DEF AfterWave
<1>1. /\ drv'[d].pc = pc /\ drv'[d].copy = drv[d].copy /\ drv'[d].view = drv[d].view
      /\ drv'[d].todo = drv[d].todo /\ drv'[d].work = Wave({})
  <2> HIDE DEF pc
  <2>2. drv'[d] = [drv[d] EXCEPT !.work = Wave({}), !.pc = pc]
    BY <1>a, BecomeState
  <2>3. drv[d] \in LocalState
    BY AloneState
  <2> QED
    BY <2>2, <2>3 DEF LocalState
<1>2. \A s \in Step : drv'[d].work[s] = "none"
  BY <1>1 DEF Wave
<1>3. \A s \in Step : ~Held(drv[d], stepStatus, s)
  BY <1>0 DEF DriverInv, Placed, Held, Gathering, Running, AfterWave
<1>4. pc \in {"rollback", "reconcile"}
  OBVIOUS
<1> HIDE DEF pc
<1>5. Placed(drv'[d])
  <2>1. drv[d].todo \subseteq Step
    BY AloneState DEF LocalState
  <2> QED
    BY <1>0, <1>1, <1>2, <1>4, <2>1 DEF DriverInv, Placed, Waving, Gathering
<1>6. Reflects(drv'[d], stepStatus) /\ Undoing(drv'[d], stepStatus, seen)
  BY <1>0, <1>1, <1>2, <1>4
  DEF DriverInv, Reflects, Undoing, Surveyed, Early, Gathering, Running
<1>7. Timely(drv'[d], run') /\ Closed(drv'[d], stepStatus, run'.status)
  BY <1>0, <1>1, <1>4 DEF DriverInv, Timely, Closed, Early, Waving, Gathering
<1> QED
  BY <1>0, <1>2, <1>3, <1>5, <1>6, <1>7, SteadyKept DEF Held

LEMMA QuitKept ==
  ASSUME NEW d \in Driver, Alone(d), StopLoop(d) \/ GiveUp(d)
  PROVE  DriverInv(d)'
<1>1. drv[d].pc \in {"loop", "stuck"} /\ Leave(d) /\ Steady /\ run' = run
  BY DEF StopLoop, GiveUp, At, Steady, rowVars
<1> QED
  BY <1>1, LeaveKept DEF Alone, DriverInv, Closed, Waving, Gathering

LEMMA ConcludeKept ==
  ASSUME NEW d \in Driver, Alone(d), Conclude(d)
  PROVE  DriverInv(d)'
<1> DEFINE pc == Course(drv[d])
<1>0. DriverInv(d) /\ drv[d].pc = "loop" /\ Steady /\ run' = run
  BY DEF Alone, Conclude, At, Steady, rowVars
<1>1. WentTo(d, pc) /\ drv'[d].copy = run
  <2>1. Become(d, [drv[d] EXCEPT !.copy = run, !.pc = pc])
    BY DEF Conclude
  <2> HIDE DEF pc
  <2>2. drv'[d] = [drv[d] EXCEPT !.copy = run, !.pc = pc]
    BY <2>1, BecomeState
  <2>3. drv[d] \in LocalState
    BY AloneState
  <2> QED
    BY <2>2, <2>3 DEF WentTo, LocalState
<1>2. /\ pc \in {"cancel", "complete", "park", "stuck"}
      /\ pc = "complete" => \A s \in Step : drv[d].view[s] \in TerminalStep
      /\ pc = "park" => \E s \in Step : drv[d].view[s] = "WAITING_APPROVAL"
  BY DEF Conclude, Course
<1> HIDE DEF pc
<1>3. \A s \in Step : drv[d].work[s] = "none"
  BY <1>0 DEF DriverInv, Placed, Waving, Gathering
<1>4. Placed(drv'[d])
  BY <1>1, <1>2, <1>3 DEF WentTo, Placed, Waving, Gathering
<1>5. Reflects(drv'[d], stepStatus) /\ Undoing(drv'[d], stepStatus, seen)
  BY <1>0, <1>1, <1>2, <1>3
  DEF WentTo, DriverInv, Reflects, Undoing, Surveyed, Early, Running
<1>6. Timely(drv'[d], run') /\ Closed(drv'[d], stepStatus, run'.status)
  BY <1>0, <1>1, <1>2 DEF WentTo, DriverInv, Timely, Closed, Early, Waving, Gathering
<1> QED
  BY <1>0, <1>1, <1>4, <1>5, <1>6, SteadyKept DEF WentTo, Held

\* What a lone driver schedules is as its map has it: not done, and what it
\* depends on is.
LEMMA ReadyAlone ==
  ASSUME NEW d \in Driver, Alone(d), drv[d].pc = "loop", NEW s \in Ready(drv[d].view)
  PROVE  /\ s \in Step /\ stepStatus[s] \in {"PENDING", "FAILED"}
         /\ \A t \in DependsOn[s] : /\ t \in Step /\ t \notin Ready(drv[d].view)
                                    /\ stepStatus[t] \in SatisfiedStep
<1>1. \A t \in Step : Alike(drv[d].view[t], stepStatus[t])
  BY DEF Alone, DriverInv, Placed, Reflects, Surveyed, Early, Waving, Gathering
<1>2. s \in Step /\ \A t \in DependsOn[s] : t \in Step
  BY DependsOnSteps DEF Ready
<1> QED
  BY <1>1, <1>2 DEF Ready, Alike, SatisfiedStep

LEMMA StartWaveKept ==
  ASSUME NEW d \in Driver, Alone(d), StartWave(d)
  PROVE  DriverInv(d)'
<1> DEFINE ready == Ready(drv[d].view)
<1>0. /\ DriverInv(d) /\ drv[d].pc = "loop" /\ ready # {} /\ drv[d] \in LocalState
      /\ UNCHANGED <<run, completedAt>>
  BY AloneState DEF Alone, StartWave, At, Course
<1>1. PICK skipped \in SUBSET (ready \intersect ConditionalStep) :
        /\ stepStatus' = Skipping(stepStatus, skipped)
        /\ seen' = seen \union ({"skipped"} \X skipped)
        /\ Become(d, [drv[d] EXCEPT !.copy = run,
                                    !.view = Skipping(drv[d].view, skipped),
                                    !.work = Wave(ready \ skipped),
                                    !.attempt = [s \in Step |-> 0],
                                    !.pc = IF skipped = ready THEN "loop" ELSE "wave"])
  BY DEF StartWave
<1> DEFINE pc == IF skipped = ready THEN "loop" ELSE "wave"
           view == Skipping(drv[d].view, skipped)
           work == Wave(ready \ skipped)
           attempt == [s \in Step |-> 0]
<1>2. /\ drv'[d].pc = pc /\ drv'[d].copy = run /\ drv'[d].todo = drv[d].todo
      /\ drv'[d].view = view /\ drv'[d].work = work
  <2>1. Become(d, [drv[d] EXCEPT !.copy = run, !.view = view, !.work = work,
                                 !.attempt = attempt, !.pc = pc])
    BY <1>1
  <2> HIDE DEF pc, view, work, attempt
  <2>2. drv'[d] = [drv[d] EXCEPT !.copy = run, !.view = view,
                            !.work = work, !.attempt = attempt, !.pc = pc]
    BY <2>1, BecomeState
  <2>3. drv[d] \in LocalState
    BY AloneState
  <2> QED
    BY <2>2, <2>3 DEF LocalState
<1>3. \A s \in ready : /\ s \in Step /\ stepStatus[s] \in {"PENDING", "FAILED"}
                       /\ \A t \in DependsOn[s] : /\ t \in Step /\ t \notin ready
                                                  /\ stepStatus[t] \in SatisfiedStep
  BY <1>0, ReadyAlone
<1>4. \A s \in Step : /\ drv[d].work[s] = "none" /\ Alike(drv[d].view[s], stepStatus[s])
                      /\ drv[d].todo = {}
  BY <1>0 DEF DriverInv, Placed, Reflects, Surveyed, Early, Waving, Gathering
<1> HIDE DEF ready
<1>5. \A s \in Step :
        /\ stepStatus'[s] = IF s \in skipped THEN "SKIPPED" ELSE stepStatus[s]
        /\ drv'[d].view[s] = IF s \in skipped THEN "SKIPPED" ELSE drv[d].view[s]
        /\ drv'[d].work[s] = IF s \in ready \ skipped THEN "mark" ELSE "none"
        /\ s \in skipped => s \in ready
  BY <1>1, <1>2 DEF Skipping, Wave
<1>6. /\ pc \in {"loop", "wave"}
      /\ pc = "loop" => skipped = ready
  OBVIOUS
<1> HIDE DEF pc
<1>7. Placed(drv'[d])
  BY <1>0, <1>2, <1>4, <1>5, <1>6 DEF DriverInv, Placed, Waving, Gathering, Running
<1>8. Reflects(drv'[d], stepStatus')
  <2> SUFFICES ASSUME NEW s \in Step
               PROVE  /\ drv'[d].work[s] = "none" => Alike(drv'[d].view[s], stepStatus'[s])
                      /\ drv'[d].work[s] # "none" =>
                           /\ drv'[d].work[s] = "mark"
                           /\ stepStatus'[s] \notin TerminalStep
                           /\ \A t \in DependsOn[s] : stepStatus'[t] \in SatisfiedStep
                           /\ \A t \in Step : s \in DependsOn[t] =>
                                stepStatus'[t] = "PENDING" /\ drv'[d].work[t] = "none"
    BY <1>2, <1>6 DEF Reflects, Gathering, Running
  <2>1. drv'[d].work[s] = "none" => Alike(drv'[d].view[s], stepStatus'[s])
    BY <1>4, <1>5 DEF Alike
  <2>2. ASSUME drv'[d].work[s] # "none"
        PROVE  /\ drv'[d].work[s] = "mark" /\ stepStatus'[s] \notin TerminalStep
               /\ \A t \in DependsOn[s] : stepStatus'[t] \in SatisfiedStep
               /\ \A t \in Step : s \in DependsOn[t] =>
                    stepStatus'[t] = "PENDING" /\ drv'[d].work[t] = "none"
    <3>1. stepStatus[s] \notin SatisfiedStep /\ s \in ready /\ drv'[d].work[s] = "mark"
      BY <1>3, <1>5, <2>2 DEF SatisfiedStep
    <3>2. \A t \in Step : s \in DependsOn[t] => stepStatus[t] = "PENDING" /\ t \notin ready
      BY <1>0, <1>3, <3>1 DEF DriverInv, Ordered
    <3> QED
      BY <1>3, <1>5, <2>2, <3>1, <3>2 DEF TerminalStep, SatisfiedStep
  <2> QED
    BY <2>1, <2>2
<1>9. Ordered(stepStatus', completedAt', seen')
  <2> SUFFICES ASSUME NEW s \in Step, stepStatus'[s] # "PENDING"
               PROVE  /\ \A t \in DependsOn[s] : stepStatus'[t] \in SatisfiedStep
                      /\ stepStatus'[s] = "SUCCEEDED" =>
                           /\ <<"succeeded", s>> \in seen
                           /\ \A t \in DependsOn[s] :
                                stepStatus'[t] = "SUCCEEDED" =>
                                  <<"behind", s>> \in seen \/ completedAt[t] < completedAt[s]
    BY <1>0, <1>1 DEF Ordered
  <2>1. \A t \in DependsOn[s] : t \in Step
    BY DependsOnSteps
  <2>2. CASE s \in skipped
    BY <1>3, <1>5, <2>1, <2>2 DEF SatisfiedStep
  <2>3. CASE s \notin skipped
    BY <1>0, <1>5, <2>1, <2>3 DEF DriverInv, Ordered, SatisfiedStep
  <2> QED
    BY <2>2, <2>3
<1>10. Gathered(drv'[d], stepStatus', run'.context, seen')
  <2>1. \A s \in Step : /\ <<"dropped", s>> \in seen' <=> <<"dropped", s>> \in seen
                        /\ ~Held(drv[d], stepStatus, s) /\ ~Held(drv'[d], stepStatus', s)
                        /\ stepStatus'[s] = "SUCCEEDED" <=> stepStatus[s] = "SUCCEEDED"
    BY <1>1, <1>3, <1>4, <1>5 DEF Held
  <2> QED
    BY <1>0, <2>1 DEF DriverInv, Gathered
<1>11. Closed(drv'[d], stepStatus', run'.status)
  BY <1>0, <1>3 DEF DriverInv, Closed, TerminalStep
<1>12. Timely(drv'[d], run') /\ Undoing(drv'[d], stepStatus', seen')
  BY <1>0, <1>2, <1>6 DEF DriverInv, Timely, Undoing, Early
<1> QED
  BY <1>7, <1>8, <1>9, <1>10, <1>11, <1>12 DEF DriverInv

LEMMA ListSucceededKept ==
  ASSUME NEW d \in Driver, Alone(d), ListSucceeded(d)
  PROVE  DriverInv(d)'
<1> DEFINE todo == {s \in CompensatedStep : stepStatus[s] = "SUCCEEDED"}
<1>0. DriverInv(d) /\ drv[d].pc = "rollback" /\ Steady /\ run' = run
  BY DEF Alone, ListSucceeded, At, Steady, rowVars
<1>1. /\ drv'[d].pc = "undo" /\ drv'[d].copy = drv[d].copy /\ drv'[d].view = drv[d].view
      /\ drv'[d].todo = todo /\ drv'[d].work = drv[d].work
  <2>1. Become(d, [drv[d] EXCEPT !.todo = todo, !.pc = "undo"])
    BY DEF ListSucceeded
  <2> HIDE DEF todo
  <2>2. drv'[d] = [drv[d] EXCEPT !.todo = todo, !.pc = "undo"]
    BY <2>1, BecomeState
  <2>3. drv[d] \in LocalState
    BY AloneState
  <2> QED
    BY <2>2, <2>3 DEF LocalState
<1>2. Placed(drv'[d])
  BY <1>0, <1>1 DEF DriverInv, Placed, Waving, Gathering
<1>3. Reflects(drv'[d], stepStatus) /\ Undoing(drv'[d], stepStatus, seen)
  BY <1>0, <1>1 DEF DriverInv, Reflects, Undoing, Unrecorded, Surveyed, Early, Gathering
<1>4. Timely(drv'[d], run') /\ Closed(drv'[d], stepStatus, run'.status)
  BY <1>0, <1>1 DEF DriverInv, Timely, Closed, Early
<1> QED
  BY <1>0, <1>1, <1>2, <1>3, <1>4, SteadyKept DEF Held

LEMMA CompensateKept ==
  ASSUME NEW d \in Driver, Alone(d), Compensate(d)
  PROVE  DriverInv(d)'
<1>0. DriverInv(d) /\ drv[d].pc = "undo" /\ run' = run
  BY DEF Alone, Compensate, At, rowVars
<1>a. Steady
  BY DEF Compensate, Steady, rowVars
<1>b. \A s \in Step : drv[d].work[s] = "none"
  BY <1>0 DEF DriverInv, Placed, Waving, Gathering
<1>1. CASE Goto(d, "fail")
  <2>1. WentTo(d, "fail") /\ drv'[d].copy = drv[d].copy
    BY <1>1, AloneState, BecomeState DEF Goto, WentTo, LocalState
  <2>2. Placed(drv'[d]) /\ Undoing(drv'[d], stepStatus, seen)
    BY <1>b, <2>1 DEF WentTo, Placed, Undoing, Waving, Gathering
  <2>3. Reflects(drv'[d], stepStatus)
    BY <1>0, <2>1 DEF WentTo, DriverInv, Reflects, Unrecorded, Surveyed, Early, Gathering
  <2>4. Timely(drv'[d], run') /\ Closed(drv'[d], stepStatus, run'.status)
    BY <1>0, <2>1 DEF WentTo, DriverInv, Timely, Closed, Early
  <2> QED
    BY <1>a, <2>1, <2>2, <2>3, <2>4, SteadyKept DEF WentTo, Held
<1>2. ASSUME NEW s \in drv[d].todo, \A t \in drv[d].todo : completedAt[t] <= completedAt[s],
             Become(d, [drv[d] EXCEPT !.todo = @ \ {s}])
      PROVE  DriverInv(d)'
  <2>1. /\ drv'[d].pc = drv[d].pc /\ drv'[d].copy = drv[d].copy /\ drv'[d].view = drv[d].view
        /\ drv'[d].todo = drv[d].todo \ {s} /\ drv'[d].work = drv[d].work
    BY <1>2, AloneState, BecomeState DEF LocalState
  <2>2. Placed(drv'[d])
    BY <1>0, <1>b, <2>1 DEF Placed, Waving, Gathering
  <2>3. Reflects(drv'[d], stepStatus)
    BY <1>0, <2>1 DEF DriverInv, Reflects, Unrecorded
  <2>4. Undoing(drv'[d], stepStatus, seen)
    <3>1. ASSUME NEW r \in drv[d].todo, NEW t \in DependsOn[r], t \in CompensatedStep,
                 stepStatus[t] = "SUCCEEDED", <<"behind", r>> \notin seen
          PROVE  t \in drv[d].todo /\ t # s
      <4>1. /\ t \in drv[d].todo /\ r \in Step /\ t \in Step /\ s \in Step
            /\ stepStatus[r] = "SUCCEEDED"
        BY <1>0, <1>2, <3>1, AloneState DEF DriverInv, Undoing, LocalState
      <4>2. completedAt[t] < completedAt[r]
        BY <1>0, <3>1, <4>1 DEF DriverInv, Ordered
      <4>3. completedAt \in [Step -> Nat]
        BY DEF Alone, RowInv, TypeOK
      <4> QED
        BY <1>2, <4>1, <4>2, <4>3
    <3> QED
      BY <1>0, <2>1, <3>1 DEF DriverInv, Undoing
  <2>5. Timely(drv'[d], run') /\ Closed(drv'[d], stepStatus, run'.status)
    BY <1>0, <2>1 DEF DriverInv, Timely, Closed, Early
  <2> QED
    BY <1>a, <2>1, <2>2, <2>3, <2>4, <2>5, SteadyKept DEF Held
<1> QED
  BY <1>1, <1>2 DEF Compensate, Latest

LEMMA SettleKept ==
  ASSUME NEW d \in Driver, Alone(d), Settle(d)
  PROVE  DriverInv(d)'
<1>0. /\ DriverInv(d) /\ drv[d].pc \in {"cancel", "complete", "park", "fail"} /\ Leave(d)
      /\ UNCHANGED <<stepStatus, completedAt, seen>> /\ run \in RunRow
      /\ run' = IF Current(drv[d].copy) THEN Moved(run, Verdicts[drv[d].pc]) ELSE run
  BY AloneState DEF Alone, Settle, Verdicts
<1>1. Steady
  BY <1>0 DEF Steady, Moved, RunRow
<1>2. run'.status = "SUCCEEDED" => run.status = "SUCCEEDED" \/ drv[d].pc = "complete"
  BY <1>0 DEF Moved, RunRow, Verdicts
<1>3. drv[d].pc = "complete" => \A s \in Step : stepStatus[s] \in TerminalStep
  BY <1>0
  DEF DriverInv, Placed, Reflects, Surveyed, Early, Waving, Gathering, Alike, TerminalStep
<1>4. drv[d].pc \notin Waving
  BY <1>0 DEF Waving, Gathering
<1> QED
  BY <1>0, <1>1, <1>2, <1>3, <1>4, LeaveKept DEF DriverInv, Closed

LEMMA DriveKept ==
  ASSUME NEW d \in Driver, Alone(d), Drive(d)
  PROVE  DriverInv(d)'
BY RegisterKept, FindRunKept, ClaimRunKept, ReloadKept, ListStepsKept, ReconcileKept,
   StepWorkKept, EndWaveKept, MergeOutputKept, RereadRunKept, RemergeOutputKept,
   AfterWaveKept, QuitKept, ConcludeKept, StartWaveKept, ListSucceededKept,
   CompensateKept, SettleKept
DEF Drive

LEMMA AloneInit == ASSUME NEW d \in Driver, Driver = {d}, Init PROVE Alone(d)
<1>1. RowInv
  BY RowInvInit
<1>2. /\ drv[d] = Idle /\ stepStatus = [s \in Step |-> "PENDING"] /\ run = NewRun
      /\ seen = {} /\ run.context = {} /\ run.status = "PENDING"
  BY DEF Init, NewRun
<1>3. /\ Placed(drv[d]) /\ Reflects(drv[d], stepStatus) /\ Timely(drv[d], run)
      /\ Undoing(drv[d], stepStatus, seen) /\ \A s \in Step : ~Held(drv[d], stepStatus, s)
  BY <1>2, Fresh, IdleFresh DEF Early
<1> QED
  BY <1>1, <1>2, <1>3 DEF Alone, DriverInv, Ordered, Gathered, Closed

LEMMA AloneStep == ASSUME NEW d \in Driver, Alone(d), [Next]_vars PROVE Alone(d)'
<1>1. RowInv' /\ Driver = {d}
  BY RowInvStep DEF Alone
<1>2. DriverInv(d)'
  <2>1. CASE UNCHANGED vars
    BY <2>1 DEF vars, Alone, DriverInv
  <2>2. CASE Next
    <3>1. \A e \in Driver : e = d
      BY <1>1
    <3> QED
      BY <2>2, <3>1, DriveKept, HandlerKept, UserKept, CrashKept DEF Next
  <2> QED
    BY <2>1, <2>2
<1> QED
  BY <1>1, <1>2 DEF Alone

LEMMA AloneInvariant == ASSUME NEW d \in Driver, Driver = {d} PROVE Spec => []Alone(d)
BY AloneInit, AloneStep, PTL DEF Spec

-----------------------------------------------------------------------------
(* What follows.                                                            *)

\* While one driver at a time drives the run, a run that is SUCCEEDED has every
\* step over, and every output of a step that succeeded in its context, but those
\* that were dropped (runLoop's completion, mergeContext); whatever crashes.
THEOREM RunIsWhole ==
  ASSUME NEW d \in Driver, Driver = {d}
  PROVE  Spec => []CompletedRunIsWhole
<1>1. ASSUME Alone(d), run.status = "SUCCEEDED"
      PROVE  Over = Step /\ run.context = Succeeded \ Dropped
  <2>1. \A s \in Step : stepStatus[s] \in TerminalStep /\ ~Held(drv[d], stepStatus, s)
    BY <1>1 DEF Alone, DriverInv, Closed, Placed, Held
  <2>2. run.context \subseteq Step
    BY <1>1, AloneState DEF RunRow
  <2>3. \A s \in Step :
          s \in run.context <=> stepStatus[s] = "SUCCEEDED" /\ <<"dropped", s>> \notin seen
    BY <1>1, <2>1 DEF Alone, DriverInv, Gathered
  <2> QED
    BY <2>1, <2>2, <2>3 DEF Over, Succeeded, Dropped, Happened, TerminalStep, SatisfiedStep
<1>2. Alone(d) => CompletedRunIsWhole
  BY <1>1 DEF CompletedRunIsWhole
<1> QED
  BY <1>2, AloneInvariant, PTL

\* While one driver at a time drives the run, failRun rolls a step back only when
\* whatever was built on it and can be rolled back has been visited, but for steps
\* that were stamped by a clock that was behind, or in the same millisecond.
THEOREM RollbackReversed ==
  ASSUME NEW d \in Driver, Driver = {d}
  PROVE  Spec => []RollbackInReverse
<1>1. Alone(d) => RollbackInReverse
  <2> SUFFICES ASSUME Alone(d) PROVE RollbackInReverse
    OBVIOUS
  <2>1. \A e \in Driver : e = d
    BY DEF Alone
  <2>2. At(d, "undo") =>
          \A s \in drv[d].todo, t \in Step :
            (/\ t \in DependsOn[s] /\ t \in CompensatedStep
             /\ stepStatus[t] = "SUCCEEDED" /\ ~Happened("behind", s))
              => t \in drv[d].todo
    BY DEF Alone, DriverInv, Undoing, At, Happened
  <2> QED
    BY <2>1, <2>2 DEF RollbackInReverse
<1> QED
  BY <1>1, AloneInvariant, PTL

-----------------------------------------------------------------------------
(* Without crashes, a step that is RUNNING has a generator, so the driver    *)
(* has nothing left to schedule only when a step was aborted.               *)

Busy(d) ==
  /\ \A s \in Step : stepStatus[s] \in {"RUNNING", "RETRYING"} => drv[d].work[s] \in Running
  /\ drv[d].pc = "stuck" => AbortedStep

\* What somebody else's request may do to the driver and to the steps.
Asked(d) ==
  /\ (drv[d].pc = "off" /\ drv'[d].pc = "load") \/ Untouched(drv[d], drv'[d])
  /\ \A s \in Step : \/ stepStatus'[s] = stepStatus[s]
                     \/ stepStatus[s] = "FAILED" /\ stepStatus'[s] = "PENDING"

LEMMA BeginAsked ==
  ASSUME NEW d \in Driver, Alone(d), NEW st \in BOOLEAN, Begin(d, st), stepStatus' = stepStatus
  PROVE  Asked(d)
<1> DEFINE state == [Idle EXCEPT !.pc = "load", !.streaming = st]
<1>1. drv'[d] = state /\ drv[d].pc = "off" /\ state.pc = "load"
  BY BecomeState, IdleFresh DEF Begin
<1> QED
  BY <1>1 DEF Asked

LEMMA UserAsked ==
  ASSUME NEW d \in Driver, Alone(d), User
  PROVE  Asked(d)
<1> USE DEF rowVars
<1>a. \A e \in Driver : e = d
  BY DEF Alone
<1>b. drv' = drv => Untouched(drv[d], drv'[d])
  BY DEF Untouched
<1>1. ASSUME \/ RunWorkflow(d) \/ ResumeRun(d) \/ RunWorkflowStream(d) \/ ResumeRunStream(d)
      PROVE  Asked(d)
  BY <1>1, BeginAsked DEF RunWorkflow, ResumeRun, RunWorkflowStream, ResumeRunStream
<1>2. ASSUME Disconnect(d)
      PROVE  Asked(d)
  <2>1. Home[d] \in Instance
    BY DeploymentAssumption
  <2>2. drv'[d] = [AbortedIn(Home[d])[d] EXCEPT !.streaming = FALSE]
    BY <1>2 DEF Disconnect, AbortedIn
  <2>3. Untouched(drv[d], drv'[d])
    BY <2>1, <2>2, AbortedUntouched DEF Untouched, LocalState
  <2> QED
    BY <1>2, <2>3 DEF Disconnect, Asked
<1>3. ASSUME PauseRun \/ (\E i \in Instance : CancelRun(i)) \/ RetryReset
             \/ \E s \in ApprovalStep : DecideCheck(s)
      PROVE  Asked(d)
  BY <1>3, <1>b DEF PauseRun, CancelRun, RetryReset, DecideCheck, Asked
<1> QED
  BY <1>a, <1>1, <1>2, <1>3 DEF User

LEMMA HandlerAsked ==
  ASSUME NEW d \in Driver, Alone(d), Handler
  PROVE  Asked(d)
<1> USE DEF rowVars
<1>a. \A e \in Driver : e = d
  BY DEF Alone
<1>b. drv' = drv => Untouched(drv[d], drv'[d])
  BY DEF Untouched
<1>1. ASSUME NEW i \in Instance, CancelInProcess(i)
      PROVE  Asked(d)
  BY <1>1, AbortedUntouched DEF CancelInProcess, Asked
<1>2. ASSUME RetryRelease(d) \/ DecideApproval(d)
      PROVE  Asked(d)
  <2>1. stepStatus' = stepStatus /\ (Begin(d, FALSE) \/ drv' = drv)
    BY <1>2 DEF RetryRelease, DecideApproval
  <2> QED
    BY <1>b, <2>1, BeginAsked DEF Asked
<1> QED
  BY <1>a, <1>1, <1>2 DEF Handler

LEMMA AskedBusy ==
  ASSUME NEW d \in Driver, Alone(d), Busy(d), Asked(d)
  PROVE  Busy(d)'
<1>1. CASE drv[d].pc = "off" /\ drv'[d].pc = "load"
  <2>1. \A s \in Step : drv[d].work[s] \notin Running
    BY <1>1 DEF Alone, DriverInv, Placed, Waving, Gathering, Running
  <2> QED
    BY <1>1, <2>1 DEF Busy, Asked
<1>2. CASE Untouched(drv[d], drv'[d])
  <2>1. AbortedStep => AbortedStep'
    BY DEF Asked, AbortedStep
  <2> QED
    BY <1>2, <2>1 DEF Busy, Asked, Untouched, Running
<1> QED
  BY <1>1, <1>2 DEF Asked

\* No generator is out outside a wave.
LEMMA QuietBusy ==
  ASSUME NEW d \in Driver, Alone(d), Busy(d),
         drv[d].pc # "wave" \/ EndWave(d),
         \A s \in Step : stepStatus'[s] \in {stepStatus[s], "SKIPPED"}, drv'[d].pc # "stuck"
  PROVE  Busy(d)'
<1>1. \A s \in Step : drv[d].work[s] \notin Running
  BY DEF Alone, DriverInv, Placed, Waving, EndWave, Running, Outcome
<1> QED
  BY <1>1 DEF Busy

\* Acyclic dependencies leave something ready unless something waits or was aborted.
LEMMA ConcludeBusy ==
  ASSUME NEW d \in Driver, Alone(d), Busy(d), Conclude(d)
  PROVE  Busy(d)'
<1> DEFINE pc == Course(drv[d])
           view == drv[d].view
           left == {s \in Step : view[s] \in {"PENDING", "FAILED"}}
<1>1. stepStatus' = stepStatus /\ drv'[d].pc = pc
  <2>1. Become(d, [drv[d] EXCEPT !.copy = run, !.pc = pc]) /\ stepStatus' = stepStatus
    BY DEF Conclude, rowVars
  <2> HIDE DEF pc
  <2>2. drv'[d] = [drv[d] EXCEPT !.copy = run, !.pc = pc]
    BY <2>1, BecomeState
  <2>3. drv[d] \in LocalState
    BY AloneState
  <2> QED
    BY <2>1, <2>2, <2>3 DEF LocalState
<1>2. \A s \in Step : /\ drv[d].work[s] = "none" /\ Alike(view[s], stepStatus[s])
                      /\ view[s] \in StepStatus
                      /\ stepStatus[s] \notin {"RUNNING", "RETRYING"}
  <2>1. \A s \in Step : drv[d].work[s] = "none" /\ Alike(view[s], stepStatus[s])
    BY DEF Alone, DriverInv, Placed, Reflects, Surveyed, Conclude, At, Early, Waving, Gathering
  <2> QED
    BY <2>1, AloneState DEF Busy, Running, LocalState
<1>3. ASSUME pc = "stuck"
      PROVE  AbortedStep
  <2> SUFFICES ASSUME ~AbortedStep PROVE FALSE
    OBVIOUS
  <2>1. /\ Ready(view) = {} /\ \A s \in Step : view[s] # "WAITING_APPROVAL"
        /\ \E s \in Step : view[s] \notin TerminalStep
    BY <1>3 DEF Course
  <2>2. \A s \in Step : view[s] \in {"PENDING", "FAILED", "SUCCEEDED", "SKIPPED"}
    BY <1>2, <2>1 DEF AbortedStep, Alike, StepStatus
  <2>3. left # {} /\ left \in SUBSET Step
    BY <2>1, <2>2 DEF TerminalStep
  <2>4. PICK s \in left : DependsOn[s] \intersect left = {}
    BY <2>3, AcyclicAssumption
  <2>5. \A t \in DependsOn[s] : view[t] \in SatisfiedStep
    BY <2>2, <2>4, DependsOnSteps DEF SatisfiedStep
  <2>6. s \in Ready(view)
    BY <2>4, <2>5 DEF Ready
  <2> QED
    BY <2>1, <2>6
<1> QED
  BY <1>1, <1>2, <1>3 DEF Busy, AbortedStep

LEMMA StepWorkBusy ==
  ASSUME NEW d \in Driver, Alone(d), Busy(d), NEW s \in Step, StepWork(d, s)
  PROVE  Busy(d)'
<1>1. PICK w, status : StepMoved(d, s, w, status)
  BY StepWorkMoves DEF StepMoves
<1>2. status \in {"RUNNING", "RETRYING"} => w \in Running
  BY <1>1 DEF Alone, DriverInv, Reflects, Surveyed, Early, StepMoved, Turns, Running, Recorded
<1>3. drv'[d].pc = "wave"
  BY <1>1 DEF StepMoved
<1> QED
  BY <1>1, <1>2, <1>3 DEF Busy, StepMoved

LEMMA DriveBusy ==
  ASSUME NEW d \in Driver, Alone(d), Busy(d), Drive(d)
  PROVE  Busy(d)'
<1> USE DEF rowVars
<1>a. drv[d] \in LocalState
  BY AloneState
<1>b. Leave(d) => drv'[d].pc # "stuck"
  BY BecomeState, IdleFresh DEF Leave
<1>c. ASSUME NEW pc, Goto(d, pc)
      PROVE  drv'[d].pc = pc
  BY <1>a, <1>c, BecomeState DEF Goto, LocalState
<1>1. CASE Register(d)
  BY <1>1, <1>c, QuietBusy DEF Register, At
<1>2. CASE FindRun(d)
  <2> DEFINE pc == IF run.status \in {"PENDING", "PAUSED", "WAITING_APPROVAL"} THEN "claim"
                                                                               ELSE "list"
  <2>1. Become(d, [drv[d] EXCEPT !.copy = run, !.pc = pc]) /\ pc # "stuck"
    BY <1>2 DEF FindRun
  <2>2. drv'[d].pc # "stuck"
    <3> HIDE DEF pc
    <3> QED
      BY <1>a, <2>1, BecomeState DEF LocalState
  <2> QED
    BY <1>2, <2>2, QuietBusy DEF FindRun, At
<1>3. CASE ClaimRun(d)
  BY <1>3, <1>b, <1>c, QuietBusy DEF ClaimRun, At
<1>4. CASE Reload(d)
  <2> DEFINE pc == IF drv[d].pc = "claimed" THEN "list" ELSE "merge"
  <2>1. Become(d, [drv[d] EXCEPT !.copy = run, !.pc = pc]) /\ pc # "stuck"
    BY <1>4 DEF Reload
  <2>2. drv'[d].pc # "stuck"
    <3> HIDE DEF pc
    <3> QED
      BY <1>a, <2>1, BecomeState DEF LocalState
  <2> QED
    BY <1>4, <2>2, QuietBusy DEF Reload
<1>5. CASE ListSteps(d)
  BY <1>5, <1>a, BecomeState, QuietBusy DEF ListSteps, At, LocalState
<1>6. CASE Reconcile(d)
  <2>1. drv'[d].pc # "stuck"
    <3>1. ASSUME NEW s \in drv[d].todo,
                 Become(d, [drv[d] EXCEPT !.todo = @ \ {s}, !.work = Wave({s}),
                                          !.attempt[s] = 0, !.pc = "wave"])
          PROVE  drv'[d].pc # "stuck"
      <4> DEFINE attempt == [drv[d].attempt EXCEPT ![s] = 0]
      <4>1. drv'[d] = [drv[d] EXCEPT !.todo = @ \ {s}, !.work = Wave({s}),
                                     !.attempt = attempt, !.pc = "wave"]
        BY <1>a, <3>1, BecomeState DEF LocalState
      <4> HIDE DEF attempt
      <4> QED
        BY <1>a, <4>1 DEF LocalState
    <3> QED
      BY <1>6, <1>c, <3>1 DEF Reconcile
  <2> QED
    BY <1>6, <2>1, QuietBusy DEF Reconcile, At
<1>7. CASE EndWave(d)
  <2>1. drv'[d].pc = "merge"
    <3> DEFINE view == [s \in Step |-> IF drv[d].work[s] = "none" THEN drv[d].view[s]
                                       ELSE Recorded[drv[d].work[s]]]
    <3>1. Become(d, [drv[d] EXCEPT !.view = view, !.pc = "merge"])
      BY <1>7 DEF EndWave
    <3> HIDE DEF view
    <3> QED
      BY <1>a, <3>1, BecomeState DEF LocalState
  <2>2. stepStatus' = stepStatus
    BY <1>7 DEF EndWave
  <2> QED
    BY <1>7, <2>1, <2>2, QuietBusy
<1>8. CASE MergeOutput(d)
  <2>1. \E s \in Step : MovesOn(d, s, "none", "merged") \/ MovesOn(d, s, "merging", "reread")
    BY <1>8 DEF MergeOutput, MovesOn
  <2>2. drv'[d].pc # "stuck"
    BY <2>1, WorkMoved
  <2> QED
    BY <1>8, <2>2, QuietBusy DEF MergeOutput, At
<1>9. CASE RereadRun(d)
  BY <1>9, <1>a, BecomeState, QuietBusy DEF RereadRun, At, LocalState
<1>10. CASE RemergeOutput(d)
  <2>1. \E s \in Step : MovesOn(d, s, "none", "merged") \/ Leave(d)
    BY <1>10 DEF RemergeOutput, MovesOn
  <2>2. drv'[d].pc # "stuck"
    BY <1>b, <2>1, WorkMoved
  <2> QED
    BY <1>10, <2>2, QuietBusy DEF RemergeOutput, At
<1>11. CASE AfterWave(d)
  <2> DEFINE pc == IF \E s \in Step : drv[d].work[s] = "failed" THEN "rollback" ELSE "reconcile"
  <2>1. Become(d, [drv[d] EXCEPT !.work = Wave({}), !.pc = pc]) /\ pc # "stuck"
    BY <1>11 DEF AfterWave
  <2>2. drv'[d].pc # "stuck"
    <3> HIDE DEF pc
    <3> QED
      BY <1>a, <2>1, BecomeState DEF LocalState
  <2> QED
    BY <1>11, <2>2, QuietBusy DEF AfterWave, At
<1>12. CASE StopLoop(d)
  BY <1>12, <1>b, QuietBusy DEF StopLoop, At
<1>13. CASE StartWave(d)
  <2>1. PICK skipped \in SUBSET (Ready(drv[d].view) \intersect ConditionalStep) :
          /\ stepStatus' = Skipping(stepStatus, skipped)
          /\ Become(d, [drv[d] EXCEPT !.copy = run,
                          !.view = Skipping(drv[d].view, skipped),
                          !.work = Wave(Ready(drv[d].view) \ skipped),
                          !.attempt = [s \in Step |-> 0],
                          !.pc = IF skipped = Ready(drv[d].view) THEN "loop" ELSE "wave"])
    BY <1>13 DEF StartWave
  <2> DEFINE pc == IF skipped = Ready(drv[d].view) THEN "loop" ELSE "wave"
             view == Skipping(drv[d].view, skipped)
             work == Wave(Ready(drv[d].view) \ skipped)
             attempt == [s \in Step |-> 0]
  <2>2. /\ Become(d, [drv[d] EXCEPT !.copy = run, !.view = view, !.work = work,
                                    !.attempt = attempt, !.pc = pc])
        /\ pc # "stuck"
    BY <2>1
  <2>3. drv'[d].pc # "stuck"
    <3> HIDE DEF pc, view, work, attempt
    <3> QED
      BY <1>a, <2>2, BecomeState DEF LocalState
  <2>4. \A s \in Step : stepStatus'[s] \in {stepStatus[s], "SKIPPED"}
    BY <2>1 DEF Skipping
  <2> QED
    BY <1>13, <2>3, <2>4, QuietBusy DEF StartWave, At
<1>14. CASE GiveUp(d)
  <2>1. drv'[d].pc # "stuck" /\ drv[d].pc = "stuck" /\ stepStatus' = stepStatus
    BY <1>14, <1>b DEF GiveUp, At
  <2> QED
    BY <2>1, QuietBusy
<1>15. CASE ListSucceeded(d)
  <2> DEFINE todo == {s \in CompensatedStep : stepStatus[s] = "SUCCEEDED"}
  <2>1. Become(d, [drv[d] EXCEPT !.todo = todo, !.pc = "undo"])
    BY <1>15 DEF ListSucceeded
  <2>2. drv'[d].pc = "undo"
    <3> HIDE DEF todo
    <3> QED
      BY <1>a, <2>1, BecomeState DEF LocalState
  <2> QED
    BY <1>15, <2>2, QuietBusy DEF ListSucceeded, At
<1>16. CASE Compensate(d)
  <2>1. ASSUME NEW s \in drv[d].todo, Become(d, [drv[d] EXCEPT !.todo = @ \ {s}])
        PROVE  drv'[d].pc = drv[d].pc
    BY <1>a, <2>1, BecomeState DEF LocalState
  <2>2. drv'[d].pc # "stuck"
    BY <1>16, <1>c, <2>1 DEF Compensate, Latest, At
  <2> QED
    BY <1>16, <2>2, QuietBusy DEF Compensate, At
<1>17. CASE Settle(d)
  BY <1>17, <1>b, QuietBusy DEF Settle, Verdicts
<1> QED
  BY <1>1, <1>2, <1>3, <1>4, <1>5, <1>6, <1>7, <1>8, <1>9, <1>10, <1>11, <1>12, <1>13, <1>14,
     <1>15, <1>16, <1>17, StepWorkBusy, ConcludeBusy DEF Drive

LEMMA BusyStep ==
  ASSUME NEW d \in Driver, Alone(d), Busy(d), MaxCrashes = 0, [Next]_vars
  PROVE  Busy(d)'
<1>1. CASE UNCHANGED vars
  BY <1>1 DEF vars, Busy, AbortedStep
<1>2. CASE Next
  <2>1. \A i \in Instance : ~Crash(i)
    BY DEF Crash, Alone, RowInv, TypeOK
  <2>2. \A e \in Driver : e = d
    BY DEF Alone
  <2> QED
    BY <1>2, <2>1, <2>2, DriveBusy, UserAsked, HandlerAsked, AskedBusy DEF Next
<1> QED
  BY <1>1, <1>2

\* While one driver at a time drives the run and no process crashes, runLoop finds
\* nothing to do with an unfinished run only after a step was aborted.
THEOREM OnlyAbortsStick ==
  ASSUME NEW d \in Driver, Driver = {d}, MaxCrashes = 0
  PROVE  Spec => []OnlyAbortsDeadlock
<1>1. Init => Busy(d)
  <2> SUFFICES ASSUME Init PROVE Busy(d)
    OBVIOUS
  <2>1. drv[d].pc = "off" /\ \A s \in Step : stepStatus[s] = "PENDING"
    BY DEF Init, Idle
  <2> QED
    BY <2>1 DEF Busy
<1>2. Alone(d) /\ Busy(d) /\ [Next]_vars => Busy(d)'
  BY BusyStep
<1>3. Alone(d) /\ Busy(d) => OnlyAbortsDeadlock
  <2>1. \A e \in Driver : e = d
    OBVIOUS
  <2> QED
    BY <2>1 DEF Busy, OnlyAbortsDeadlock, NeverDeadlocked, At
<1> QED
  BY <1>1, <1>2, <1>3, AloneInvariant, PTL DEF Spec

-----------------------------------------------------------------------------
(* The engine implements RunLifecycle: every step of it moves the row as a   *)
(* step of the lifecycle does, or leaves it.                                *)

Implements == [Lifecycle!Next]_(Lifecycle!vars)

\* Neither what is over nor what was dropped changes.
Settled ==
  /\ \A s \in Step : /\ stepStatus'[s] \in SatisfiedStep \union {"CANCELLED"} <=>
                          stepStatus[s] \in SatisfiedStep \union {"CANCELLED"}
                     /\ stepStatus'[s] = "SUCCEEDED" <=> stepStatus[s] = "SUCCEEDED"
                     /\ <<"dropped", s>> \in seen' <=> <<"dropped", s>> \in seen

LEMMA SettledSame ==
  ASSUME Settled
  PROVE  Over' = Over /\ Succeeded' = Succeeded /\ Dropped' = Dropped
BY DEF Settled, Over, Succeeded, Dropped, Happened

LEMMA StayImplements ==
  ASSUME Settled, run' = run
  PROVE  Implements
BY SettledSame DEF Implements, Lifecycle!vars

\* The moves of the lifecycle that change the status alone.
StatusMoves(from, to) ==
  \/ from = to
  \/ from \in {"PENDING", "PAUSED", "WAITING_APPROVAL"} /\ to = "RUNNING"
  \/ from = "RUNNING" /\ to = "PAUSED"
  \/ from \in {"RUNNING", "FAILED"} /\ to = "WAITING_APPROVAL"
  \/ from # "CANCELLED" /\ to = "CANCELLED"
  \/ from = "FAILED" /\ to = "PAUSED"
  \/ from \in {"RUNNING", "PAUSED", "CANCELLED"} /\ to = "FAILED"
  \/ /\ from \in {"RUNNING", "FAILED"} /\ to = "SUCCEEDED"
     /\ Over = Step /\ run.context = Succeeded \ Dropped

LEMMA StatusImplements ==
  ASSUME Settled, run \in RunRow, run'.context = run.context,
         StatusMoves(run.status, run'.status)
  PROVE  Implements
<1>1. /\ Over' = Over /\ Succeeded' = Succeeded /\ Dropped' = Dropped
      /\ run.status \in RunStatus
  BY SettledSame DEF RunRow
<1>2. CASE run'.status = run.status
  BY <1>1, <1>2 DEF Implements, Lifecycle!vars
<1>3. CASE run'.status # run.status
  BY <1>1, <1>3
  DEF StatusMoves, RunStatus, Implements, Lifecycle!Next, Lifecycle!Start, Lifecycle!Pause,
      Lifecycle!Park, Lifecycle!Cancel, Lifecycle!Retry, Lifecycle!Fail, Lifecycle!Complete,
      Lifecycle!To
<1> QED
  BY <1>2, <1>3

\* Outputs in hand are lost.
LEMMA DropImplements ==
  ASSUME NEW d \in Driver, Alone(d), UNCHANGED <<run, stepStatus>>, Drop({d}),
         MaxCrashes > 0 \/ run.status = "CANCELLED"
  PROVE  Implements
<1>1. DriverInv(d) /\ Unmerged(d) \in SUBSET Step
      /\ \A s \in Step : s \in Unmerged(d) <=> Held(drv[d], stepStatus, s)
  BY DEF Alone, Unmerged, Held
<1>2. Dropped' = Dropped \union Unmerged(d) /\ Over' = Over /\ Succeeded' = Succeeded
  BY <1>1 DEF Drop, Dropped, Happened, Over, Succeeded
<1>3. CASE Unmerged(d) = {}
  BY <1>2, <1>3 DEF Implements, Lifecycle!vars
<1>4. CASE Unmerged(d) # {}
  <2>1. run.status \notin {"PENDING", "SUCCEEDED"}
    BY <1>1, <1>4
    DEF DriverInv, Placed, Timely, Closed, Held, Waving, Gathering, Early
  <2>2. Unmerged(d) \subseteq Succeeded \ (run.context \union Dropped)
    BY <1>1 DEF DriverInv, Gathered, Succeeded, Dropped, Happened
  <2>3. Lifecycle!Lose(Unmerged(d))
    BY <1>2, <2>1, <2>2 DEF Lifecycle!Lose
  <2> QED
    BY <1>1, <2>3 DEF Implements, Lifecycle!Next
<1> QED
  BY <1>3, <1>4

LEMMA CrashImplements ==
  ASSUME NEW d \in Driver, Alone(d), NEW i \in Instance, Crash(i)
  PROVE  Implements
<1>1. Driver = {d} /\ UNCHANGED <<run, stepStatus>>
  BY DEF Alone, Crash, rowVars
<1>2. MaxCrashes > 0
  BY DeploymentAssumption DEF Crash, Alone, RowInv, TypeOK
<1>3. CASE Home[d] = i
  <2>1. {e \in Driver : Home[e] = i} = {d}
    BY <1>1, <1>3
  <2> QED
    BY <1>1, <1>2, <2>1, DropImplements DEF Crash
<1>4. CASE Home[d] # i
  <2>1. {e \in Driver : Home[e] = i} = {}
    BY <1>1, <1>4
  <2> QED
    BY <1>1, <2>1, StayImplements DEF Crash, Drop, Settled
<1> QED
  BY <1>3, <1>4

\* What a request may do to the row, and to the history of what was dropped.
RequestWrites ==
  /\ \/ run' = run
     \/ run' = Moved(run, "CANCELLED") /\ run.status # "CANCELLED"
     \/ run' = Moved(run, "PAUSED") /\ run.status \in {"RUNNING", "FAILED"}
  /\ \A s \in Step : <<"dropped", s>> \in seen' <=> <<"dropped", s>> \in seen

LEMMA UserWrites == User => RequestWrites
<1> SUFFICES ASSUME User PROVE RequestWrites
  OBVIOUS
<1>1. ASSUME NEW d \in Driver, \/ RunWorkflow(d) \/ ResumeRun(d) \/ RunWorkflowStream(d)
                               \/ ResumeRunStream(d) \/ Disconnect(d)
      PROVE  RequestWrites
  BY <1>1 DEF RunWorkflow, ResumeRun, RunWorkflowStream, ResumeRunStream, Disconnect, rowVars,
              RequestWrites
<1>2. CASE PauseRun
  BY <1>2 DEF PauseRun, RequestWrites
<1>3. ASSUME NEW i \in Instance, CancelRun(i)
      PROVE  RequestWrites
  BY <1>3 DEF CancelRun, TerminalRun, RequestWrites
<1>4. CASE RetryReset
  BY <1>4 DEF RetryReset, RequestWrites
<1>5. ASSUME NEW s \in ApprovalStep, DecideCheck(s)
      PROVE  RequestWrites
  BY <1>5 DEF DecideCheck, rowVars, RequestWrites
<1> QED
  BY <1>1, <1>2, <1>3, <1>4, <1>5 DEF User

LEMMA HandlerWrites == RowInv /\ Handler => RequestWrites
<1> SUFFICES ASSUME RowInv, Handler PROVE RequestWrites
  OBVIOUS
<1>1. ASSUME NEW i \in Instance, CancelInProcess(i)
      PROVE  RequestWrites
  BY <1>1 DEF CancelInProcess, rowVars, RequestWrites
<1>2. ASSUME NEW d \in Driver, RetryRelease(d)
      PROVE  RequestWrites
  <2>1. UNCHANGED seen /\ \E v \in retrying : run' = IF v = run.version THEN Moved(run, "PAUSED")
                                                                       ELSE run
    BY <1>2 DEF RetryRelease
  <2> QED
    BY <2>1 DEF RowInv, RequestWrites
<1>3. ASSUME NEW d \in Driver, DecideApproval(d)
      PROVE  RequestWrites
  <2>1. run' = run /\ \E s : seen' \in {seen, seen \union {<<"approved", s>>}}
    BY <1>3 DEF DecideApproval
  <2> QED
    BY <2>1 DEF RequestWrites
<1> QED
  BY <1>1, <1>2, <1>3 DEF Handler

LEMMA RequestImplements ==
  ASSUME NEW d \in Driver, Alone(d), User \/ Handler
  PROVE  Implements
<1>a. run \in RunRow /\ RequestWrites
  BY AloneState, UserWrites, HandlerWrites DEF Alone
<1>b. Settled
  BY <1>a, UserAsked, HandlerAsked DEF RequestWrites, Asked, Settled, SatisfiedStep
<1>1. CASE run' = run
  BY <1>1, <1>b, StayImplements
<1>2. CASE run' # run
  <2>1. run'.context = run.context /\ StatusMoves(run.status, run'.status)
    BY <1>2, <1>a DEF RequestWrites, Moved, RunRow, StatusMoves
  <2> QED
    BY <1>a, <1>b, <2>1, StatusImplements
<1> QED
  BY <1>1, <1>2

LEMMA StepWorkImplements ==
  ASSUME NEW d \in Driver, Alone(d), NEW s \in Step, StepWork(d, s)
  PROVE  Implements
<1>1. PICK w, status : StepMoved(d, s, w, status)
  BY StepWorkMoves DEF StepMoves
<1>2. /\ DriverInv(d) /\ drv[d].pc = "wave" /\ run' = run /\ stepStatus'[s] = status
      /\ stepStatus[s] \in TerminalStep => Unrecorded(drv[d], stepStatus, s)
      /\ drv[d].work[s] = "save" => stepStatus[s] = "SUCCEEDED"
      /\ \A t \in DependsOn[s] : stepStatus[t] \in SatisfiedStep
      /\ \A t \in Step \ {s} : stepStatus'[t] = stepStatus[t]
      /\ \A t \in Step : <<"dropped", t>> \in seen' <=> <<"dropped", t>> \in seen
  BY <1>1 DEF Alone, DriverInv, StepMoved, Stamped, Reflects, Surveyed, Early
<1>3. /\ status \in {stepStatus[s], "RUNNING", "RETRYING", "SUCCEEDED", "FAILED", "CANCELLED",
                    "WAITING_APPROVAL"}
      /\ stepStatus[s] = "SUCCEEDED" => /\ status \in {"SUCCEEDED", "RUNNING", "RETRYING", "FAILED"}
                                        /\ status # "SUCCEEDED" => MaxFaults > 0
                                        /\ Held(drv[d], stepStatus, s)
      /\ stepStatus[s] \in TerminalStep => stepStatus[s] = "SUCCEEDED"
  BY <1>1, <1>2 DEF StepMoved, Turns, Unrecorded, Held, Recorded, Running, TerminalStep
<1>4. run.status \notin {"PENDING", "SUCCEEDED"} /\ Dropped' = Dropped
  BY <1>2 DEF DriverInv, Timely, Closed, Early, Waving, Dropped, Happened
<1>5. CASE stepStatus[s] # "SUCCEEDED" /\ status \in {"SUCCEEDED", "CANCELLED"}
  <2>1. /\ Over' = Over \union {s}
        /\ Succeeded' = Succeeded \union IF status = "SUCCEEDED" THEN {s} ELSE {}
    BY <1>2, <1>5 DEF Over, Succeeded, SatisfiedStep, TerminalStep
  <2>2. s \notin Over /\ DependsOn[s] \subseteq Over
    BY <1>2, <1>3, <1>5, DependsOnSteps DEF Over, SatisfiedStep, TerminalStep
  <2>3. Lifecycle!Finish({s}, IF status = "SUCCEEDED" THEN {s} ELSE {})
    BY <1>2, <1>4, <2>1, <2>2 DEF Lifecycle!Finish
  <2>4. CASE status = "SUCCEEDED"
    BY <2>3, <2>4 DEF Implements, Lifecycle!Next
  <2>5. CASE status # "SUCCEEDED"
    <3>1. Lifecycle!Finish({s}, {}) /\ {s} \in SUBSET Step
      BY <2>3, <2>5
    <3> QED
      BY <3>1 DEF Implements, Lifecycle!Next
  <2> QED
    BY <2>4, <2>5
<1>6. CASE stepStatus[s] = "SUCCEEDED" /\ status # "SUCCEEDED"
  <2>1. Over' = Over \ {s} /\ Succeeded' = Succeeded \ {s} /\ MaxFaults > 0
    BY <1>2, <1>3, <1>6 DEF Over, Succeeded, SatisfiedStep
  <2>2. s \in Succeeded \ (run.context \union Dropped)
    BY <1>2, <1>3, <1>6 DEF DriverInv, Gathered, Succeeded, Dropped, Happened
  <2>3. Lifecycle!TakeBack(s)
    BY <1>2, <1>4, <2>1, <2>2 DEF Lifecycle!TakeBack
  <2> QED
    BY <2>3 DEF Implements, Lifecycle!Next
<1>7. CASE \/ stepStatus[s] = "SUCCEEDED" /\ status = "SUCCEEDED"
           \/ stepStatus[s] # "SUCCEEDED" /\ status \notin {"SUCCEEDED", "CANCELLED"}
  <2>1. Settled
    BY <1>2, <1>3, <1>7 DEF Settled, SatisfiedStep, TerminalStep
  <2> QED
    BY <1>2, <2>1, StayImplements
<1> QED
  BY <1>5, <1>6, <1>7

LEMMA MergeImplements ==
  ASSUME NEW d \in Driver, Alone(d), NEW s \in Step, Held(drv[d], stepStatus, s),
         Current(drv[d].copy),
         run' = Merged(drv[d].copy, s), UNCHANGED <<stepStatus, seen>>
  PROVE  Implements
<1>1. DriverInv(d) /\ run \in RunRow /\ drv[d].copy = run
  BY AloneState DEF Alone, Current
<1>2. run'.context = run.context \union {s} /\ run'.status = run.status
  BY <1>1 DEF Merged, RunRow
<1>3. Over' = Over /\ Succeeded' = Succeeded /\ Dropped' = Dropped
  BY DEF Over, Succeeded, Dropped, Happened
<1>4. s \in Succeeded \ (run.context \union Dropped)
  BY <1>1 DEF DriverInv, Gathered, Succeeded, Dropped, Happened
<1>5. run.status \notin {"PENDING", "SUCCEEDED"}
  BY <1>1 DEF DriverInv, Placed, Timely, Closed, Held, Waving, Gathering, Early
<1>6. Lifecycle!Gather(s)
  BY <1>2, <1>3, <1>4, <1>5 DEF Lifecycle!Gather
<1> QED
  BY <1>6 DEF Implements, Lifecycle!Next

LEMMA StartWaveImplements ==
  ASSUME NEW d \in Driver, Alone(d), StartWave(d)
  PROVE  Implements
<1> DEFINE ready == Ready(drv[d].view)
<1>1. DriverInv(d) /\ drv[d].pc = "loop" /\ ready # {} /\ run' = run
  BY DEF Alone, StartWave, At, Course
<1>2. PICK skipped \in SUBSET (ready \intersect ConditionalStep) :
        stepStatus' = Skipping(stepStatus, skipped) /\ seen' = seen \union ({"skipped"} \X skipped)
  BY DEF StartWave
<1>3. \A s \in ready : /\ s \in Step /\ stepStatus[s] \in {"PENDING", "FAILED"}
                       /\ \A t \in DependsOn[s] : t \in Step /\ stepStatus[t] \in SatisfiedStep
  BY <1>1, ReadyAlone
<1> HIDE DEF ready
<1>4. skipped \in SUBSET Step /\ skipped \subseteq ready
  BY <1>2, <1>3
<1>5. \A s \in Step : /\ stepStatus'[s] = IF s \in skipped THEN "SKIPPED" ELSE stepStatus[s]
                      /\ <<"dropped", s>> \in seen' <=> <<"dropped", s>> \in seen
  BY <1>2 DEF Skipping
<1>6. Over' = Over \union skipped /\ Dropped' = Dropped
  BY <1>4, <1>5 DEF Over, Dropped, Happened, SatisfiedStep
<1>7. Succeeded' = Succeeded
  BY <1>3, <1>4, <1>5 DEF Succeeded
<1>8. run.status \notin {"PENDING", "SUCCEEDED"}
  BY <1>1, <1>3 DEF DriverInv, Timely, Closed, Early, TerminalStep
<1>9. skipped \intersect Over = {} /\ \A s \in skipped : DependsOn[s] \subseteq Over
  BY <1>3, <1>4 DEF Over, SatisfiedStep
<1>10. Lifecycle!Finish(skipped, {})
  BY <1>1, <1>6, <1>7, <1>8, <1>9 DEF Lifecycle!Finish
<1> QED
  BY <1>4, <1>10 DEF Implements, Lifecycle!Next

LEMMA SettleImplements ==
  ASSUME NEW d \in Driver, Alone(d), Settle(d)
  PROVE  Implements
<1>0. /\ DriverInv(d) /\ drv[d].pc \in {"cancel", "complete", "park", "fail"}
      /\ UNCHANGED <<stepStatus, seen>> /\ run \in RunRow
      /\ run' = IF Current(drv[d].copy) THEN Moved(run, Verdicts[drv[d].pc]) ELSE run
      /\ \A s \in Step : drv[d].work[s] = "none"
  BY AloneState DEF Alone, DriverInv, Placed, Settle, Verdicts, Waving, Gathering
<1>1. Settled
  BY <1>0 DEF Settled
<1>2. CASE ~Current(drv[d].copy)
  BY <1>0, <1>1, <1>2, StayImplements
<1>3. CASE Current(drv[d].copy)
  <2>1. run'.context = run.context /\ run'.status = Verdicts[drv[d].pc]
    BY <1>0, <1>3 DEF Moved, RunRow
  <2>2. /\ drv[d].copy = run /\ run.status \notin {"PENDING", "WAITING_APPROVAL"}
        /\ drv[d].pc # "fail" => run.status \notin {"CANCELLED", "PAUSED"}
    BY <1>0, <1>3, AloneState DEF Alone, RowInv, Coherent, Current, DriverInv, Timely, Early
  <2>3. \A s \in Step : Alike(drv[d].view[s], stepStatus[s])
    BY <1>0 DEF DriverInv, Reflects, Surveyed, Early
  <2>4. CASE drv[d].pc = "complete"
    <3>1. \A s \in Step : stepStatus[s] \in TerminalStep /\ ~Held(drv[d], stepStatus, s)
      BY <1>0, <2>3, <2>4 DEF DriverInv, Placed, Alike, TerminalStep, Held
    <3>2. Over = Step
      BY <3>1 DEF Over, SatisfiedStep, TerminalStep
    <3>3. run.context = Succeeded \ Dropped
      BY <1>0, <3>1 DEF DriverInv, Gathered, RunRow, Succeeded, Dropped, Happened
    <3> QED
      BY <1>0, <1>1, <2>1, <2>2, <2>4, <3>2, <3>3, StatusImplements
      DEF Verdicts, StatusMoves, RunRow, RunStatus
  <2>5. CASE drv[d].pc = "park"
    <3>1. run.status # "SUCCEEDED"
      BY <1>0, <2>3, <2>5 DEF DriverInv, Placed, Closed, Alike, TerminalStep
    <3> QED
      BY <1>0, <1>1, <2>1, <2>2, <2>5, <3>1, StatusImplements
      DEF Verdicts, StatusMoves, RunRow, RunStatus
  <2>6. CASE drv[d].pc = "fail"
    <3>1. run.status # "SUCCEEDED"
      BY <1>0, <2>6 DEF DriverInv, Closed
    <3> QED
      BY <1>0, <1>1, <2>1, <2>2, <2>6, <3>1, StatusImplements
      DEF Verdicts, StatusMoves, RunRow, RunStatus
  <2>7. CASE drv[d].pc = "cancel"
    BY <1>0, <1>1, <2>1, <2>2, <2>7, StatusImplements DEF Verdicts, StatusMoves
  <2> QED
    BY <1>0, <2>4, <2>5, <2>6, <2>7
<1> QED
  BY <1>2, <1>3

LEMMA DriveImplements ==
  ASSUME NEW d \in Driver, Alone(d), Drive(d)
  PROVE  Implements
<1>1. ASSUME run' = run, UNCHANGED <<stepStatus, seen>>
      PROVE  Implements
  BY <1>1, StayImplements DEF Settled
<1>2. CASE \/ Register(d) \/ FindRun(d) \/ Reload(d) \/ ListSteps(d) \/ Reconcile(d)
           \/ EndWave(d) \/ RereadRun(d) \/ AfterWave(d) \/ StopLoop(d) \/ Conclude(d)
           \/ GiveUp(d) \/ ListSucceeded(d)
  BY <1>1, <1>2
  DEF Register, FindRun, Reload, ListSteps, Reconcile, EndWave, RereadRun, AfterWave, StopLoop,
      Conclude, GiveUp, ListSucceeded, rowVars
<1>3. CASE ClaimRun(d)
  <2>1. CASE Current(drv[d].copy) /\ run' = Moved(run, "RUNNING")
    <3>1. run \in RunRow /\ drv[d].copy = run /\ run.status \in Claimable
      BY <1>3, <2>1, AloneState DEF ClaimRun, At, Current, Alone, RowInv, Coherent
    <3>2. run'.context = run.context /\ StatusMoves(run.status, run'.status)
      BY <2>1, <3>1 DEF Moved, RunRow, StatusMoves, Claimable
    <3>3. Settled
      BY <1>3 DEF ClaimRun, Settled
    <3> QED
      BY <3>1, <3>2, <3>3, StatusImplements
  <2>2. CASE run' = run
    BY <1>1, <1>3, <2>2 DEF ClaimRun
  <2> QED
    BY <1>3, <2>1, <2>2 DEF ClaimRun
<1>4. CASE MergeOutput(d)
  <2>1. CASE Current(drv[d].copy)
    BY <1>4, <2>1, MergeImplements DEF MergeOutput, Held
  <2>2. CASE ~Current(drv[d].copy)
    BY <1>1, <1>4, <2>2 DEF MergeOutput
  <2> QED
    BY <2>1, <2>2
<1>5. CASE RemergeOutput(d)
  <2>1. CASE Current(drv[d].copy)
    BY <1>5, <2>1, MergeImplements DEF RemergeOutput, Held
  <2>2. CASE ~Current(drv[d].copy)
    <3>1. run.status = "CANCELLED"
      BY <1>5, <2>2 DEF RemergeOutput, At, Current, Alone, DriverInv, Timely
    <3> QED
      BY <1>5, <2>2, <3>1, DropImplements DEF RemergeOutput
  <2> QED
    BY <2>1, <2>2
<1>6. CASE Compensate(d)
  <2>1. run' = run /\ stepStatus' = stepStatus
        /\ \A s \in Step : <<"dropped", s>> \in seen' <=> <<"dropped", s>> \in seen
    BY <1>6 DEF Compensate, rowVars
  <2> QED
    BY <2>1, StayImplements DEF Settled
<1> QED
  BY <1>2, <1>3, <1>4, <1>5, <1>6, StepWorkImplements, StartWaveImplements, SettleImplements
  DEF Drive

\* While one driver at a time drives the run, whatever is requested of it and
\* whatever crashes, executeRun keeps the promises of RunLifecycle: the run's status
\* takes only the steps listed there; a step is over never before what it depends on, and
\* once, but for one whose success could not be recorded, which is taken back before its
\* output is; its output is gathered or dropped once, and a run succeeds only with
\* every step over and every other output in its context.
THEOREM EngineImplementsLifecycle ==
  ASSUME NEW d \in Driver, Driver = {d}
  PROVE  Spec => LifecycleImplemented
<1>1. Init => Lifecycle!Init
  BY DEF Init, NewRun, Lifecycle!Init, Over, Succeeded, Dropped, Happened, SatisfiedStep
<1>2. Alone(d) /\ [Next]_vars => Implements
  <2> SUFFICES ASSUME Alone(d), [Next]_vars PROVE Implements
    OBVIOUS
  <2>1. CASE UNCHANGED vars
    BY <2>1, StayImplements DEF vars, Settled
  <2>2. CASE Next
    <3>1. \A e \in Driver : e = d
      OBVIOUS
    <3> QED
      BY <2>2, <3>1, DriveImplements, RequestImplements, CrashImplements DEF Next
  <2> QED
    BY <2>1, <2>2
<1> QED
  BY <1>1, <1>2, AloneInvariant, PTL DEF Spec, LifecycleImplemented, Lifecycle!Spec, Implements
================================================================================
