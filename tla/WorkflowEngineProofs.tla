------------------------- MODULE WorkflowEngineProofs -------------------------
(* Theorems about WorkflowEngine, for every definition and deployment.      *)
EXTENDS WorkflowEngine, SequenceTheorems, TLAPS

LEMMA RowType == NewRun \in RunRow
BY DEF NewRun, RunRow, RunStatus

LEMMA MovedType ==
  ASSUME NEW row \in RunRow, NEW status \in RunStatus
  PROVE  Moved(row, status) \in RunRow
<1>1. row.version \in Nat /\ row.version + 1 \in Nat
  BY DEF RunRow
<1> QED
  BY <1>1 DEF Moved, RunRow

LEMMA MergedType ==
  ASSUME run \in RunRow, NEW row \in RunRow, NEW s \in Step
  PROVE  Merged(row, s) \in RunRow
<1>1. run.version \in Nat /\ run.version + 1 \in Nat
  BY DEF RunRow
<1> QED
  BY <1>1 DEF Merged, RunRow

LEMMA IdleType == Idle \in DriverState
<1>1. MaxAttempts \in Nat /\ 0 \in 0..MaxAttempts
  BY DefinitionAssumption
<1>2. [s \in Step |-> "PENDING"] \in [Step -> StepStatus]
  BY DEF StepStatus
<1>3. [s \in Step |-> "none"] \in [Step -> Work]
  BY DEF Work
<1>4. [s \in Step |-> 0] \in [Step -> 0..MaxAttempts]
  BY <1>1
<1> QED
  BY <1>2, <1>3, <1>4, RowType DEF Idle, DriverState, LocalState, Pc

LEMMA BecomeType ==
  ASSUME TypeOK, NEW d \in Driver, NEW state \in DriverState, Become(d, state)
  PROVE  drv' \in [Driver -> DriverState]
BY DEF TypeOK, Become

LEMMA BeginType ==
  ASSUME TypeOK, NEW d \in Driver, NEW st \in BOOLEAN, Begin(d, st)
  PROVE  drv' \in [Driver -> DriverState]
<1>1. [Idle EXCEPT !.pc = "load", !.streaming = st] \in DriverState
  BY IdleType DEF DriverState, LocalState, Pc
<1> QED
  BY <1>1, BecomeType DEF Begin

LEMMA LeaveType ==
  ASSUME TypeOK, NEW d \in Driver, Leave(d)
  PROVE  /\ drv' \in [Driver -> DriverState]
         /\ controller' \in [Instance -> Driver \union {NoDriver}]
BY IdleType, BecomeType DEF TypeOK, Leave

LEMMA AbortType ==
  ASSUME TypeOK, NEW i \in Instance
  PROVE  AbortedIn(i) \in [Driver -> DriverState]
<1>1. ASSUME NEW state \in DriverState
      PROVE  Aborted(state) \in DriverState
  <2> DEFINE work == [s \in Step |-> IF state.work[s] = "exec" /\ s \notin ApprovalStep
                                     THEN "hit" ELSE state.work[s]]
  <2>1. work \in [Step -> Work]
    BY DEF DriverState, LocalState, Work
  <2>2. Aborted(state) = [state EXCEPT !.aborted = TRUE, !.work = work]
    BY DEF Aborted, DriverState, LocalState
  <2>3. \A s \in Step : work[s] = "mark" => state.work[s] = "mark"
    OBVIOUS
  <2> HIDE DEF work
  <2>4. [state EXCEPT !.aborted = TRUE, !.work = work] \in DriverState
    BY <2>1, <2>3 DEF DriverState, LocalState
  <2> QED
    BY <2>2, <2>4
<1> QED
  BY <1>1 DEF AbortedIn, TypeOK

LEMMA OverwriteType ==
  ASSUME NEW S, NEW q \in Seq(S), NEW n, NEW e \in S
  PROVE  [q EXCEPT ![n] = e] \in Seq(S)
<1>1. CASE n \in 1..Len(q)
  BY <1>1, ExceptSeq
<1>2. CASE n \notin 1..Len(q)
  <2>1. q \in [1..Len(q) -> S]
    OBVIOUS
  <2>2. [q EXCEPT ![n] = e] = [i \in 1..Len(q) |-> q[i]]
    BY <1>2, <2>1
  <2>3. q = [i \in 1..Len(q) |-> q[i]]
    BY <2>1, Zenon
  <2> QED
    BY <2>2, <2>3
<1> QED
  BY <1>1, <1>2

LEMMA RequestType ==
  ASSUME TypeOK, NEW kind, Request(kind)
  PROVE  budget' \in [requests : Nat, crashes : Nat, faults : Nat]
<1>1. budget.requests \in Nat /\ budget.requests + 1 \in Nat
  BY DEF TypeOK
<1> QED
  BY <1>1 DEF TypeOK, Request

LEMMA UserType ==
  ASSUME TypeOK, User
  PROVE  TypeOK'
<1>1. ASSUME NEW d \in Driver, \/ RunWorkflow(d) \/ ResumeRun(d)
                               \/ RunWorkflowStream(d) \/ ResumeRunStream(d)
      PROVE  TypeOK'
  <2>1. drv' \in [Driver -> DriverState]
    BY <1>1, BeginType DEF RunWorkflow, ResumeRun, RunWorkflowStream, ResumeRunStream
  <2>2. budget' \in [requests : Nat, crashes : Nat, faults : Nat]
    BY <1>1, RequestType DEF RunWorkflow, ResumeRun, RunWorkflowStream, ResumeRunStream
  <2> QED
    BY <1>1, <2>1, <2>2
    DEF RunWorkflow, ResumeRun, RunWorkflowStream, ResumeRunStream, TypeOK, rowVars
<1>2. ASSUME NEW d \in Driver, Disconnect(d)
      PROVE  TypeOK'
  <2>1. drv' \in [Driver -> DriverState]
    <3>1. Home[d] \in Instance
      BY DeploymentAssumption
    <3>2. AbortedIn(Home[d]) \in [Driver -> DriverState]
      BY <3>1, AbortType
    <3>3. ASSUME NEW state \in DriverState
          PROVE  [state EXCEPT !.streaming = FALSE] \in DriverState
      BY DEF DriverState, LocalState
    <3> QED
      BY <1>2, <3>2, <3>3 DEF Disconnect
  <2> QED
    BY <1>2, <2>1, RequestType DEF Disconnect, TypeOK, rowVars
<1>3. ASSUME PauseRun
      PROVE  TypeOK'
  <2>1. run' \in RunRow
    BY <1>3, MovedType DEF PauseRun, TypeOK, RunStatus
  <2> QED
    BY <1>3, <2>1, RequestType DEF PauseRun, TypeOK
<1>4. ASSUME NEW i \in Instance, CancelRun(i)
      PROVE  TypeOK'
  <2>1. run' \in RunRow
    BY <1>4, MovedType DEF CancelRun, TypeOK, RunStatus
  <2> QED
    BY <1>4, <2>1, RequestType DEF CancelRun, TypeOK
<1>5. ASSUME RetryReset
      PROVE  TypeOK'
  <2>1. stepStatus' \in [Step -> StepStatus]
    BY <1>5 DEF RetryReset, TypeOK, StepStatus
  <2>2. run.version \in Nat
    BY DEF TypeOK, RunRow
  <2> QED
    BY <1>5, <2>1, <2>2, RequestType DEF RetryReset, TypeOK
<1>6. ASSUME NEW s \in ApprovalStep, DecideCheck(s)
      PROVE  TypeOK'
  <2> PICK kind \in DOMAIN Verdict, n \in DOMAIN approval[s] :
        /\ Request(kind)
        /\ deciding' = deciding \union {<<s, n, Verdict[kind]>>}
        /\ UNCHANGED <<rowVars, drv, controller, retrying, cancelling, seen>>
    BY <1>6 DEF DecideCheck
  <2>1. n \in Nat
    BY DEF TypeOK
  <2>2. Verdict[kind] \in {"APPROVED", "REJECTED"}
    BY DEF Verdict
  <2> QED
    BY <2>1, <2>2, RequestType DEF TypeOK, rowVars
<1> QED
  BY <1>1, <1>2, <1>3, <1>4, <1>5, <1>6 DEF User

LEMMA HandlerType ==
  ASSUME TypeOK, Handler
  PROVE  TypeOK'
<1>1. ASSUME NEW i \in Instance, CancelInProcess(i)
      PROVE  TypeOK'
  BY <1>1, AbortType DEF CancelInProcess, TypeOK, rowVars
<1>2. ASSUME NEW d \in Driver, RetryRelease(d)
      PROVE  TypeOK'
  <2>1. drv' \in [Driver -> DriverState]
    BY <1>2, BeginType DEF RetryRelease, TypeOK
  <2>2. run' \in RunRow
    BY <1>2, MovedType DEF RetryRelease, TypeOK, RunStatus
  <2> QED
    BY <1>2, <2>1, <2>2 DEF RetryRelease, TypeOK
<1>3. ASSUME NEW d \in Driver, DecideApproval(d)
      PROVE  TypeOK'
  <2>0. PICK r \in deciding :
        /\ deciding' = deciding \ {r}
        /\ approval' = [approval EXCEPT ![r[1]][r[2]] = r[3]]
        /\ seen' = IF r[3] = "APPROVED" THEN seen \union {<<"approved", r[1]>>} ELSE seen
        /\ IF Inline THEN Begin(d, FALSE) ELSE UNCHANGED drv
        /\ UNCHANGED <<run, stepStatus, completedAt, controller, retrying, cancelling, budget>>
    BY <1>3 DEF DecideApproval
  <2>1. drv' \in [Driver -> DriverState]
    BY <2>0, BeginType DEF TypeOK
  <2>2. approval' \in [ApprovalStep -> Seq(ApprovalStatus)]
    <3>1. r[1] \in ApprovalStep /\ r[3] \in ApprovalStatus
      BY DEF TypeOK, ApprovalStatus
    <3>2. approval[r[1]] \in Seq(ApprovalStatus)
      BY <3>1 DEF TypeOK
    <3>3. [approval[r[1]] EXCEPT ![r[2]] = r[3]] \in Seq(ApprovalStatus)
      BY <3>1, <3>2, OverwriteType
    <3> QED
      BY <2>0, <3>3 DEF TypeOK
  <2>3. seen' \in SUBSET (Event \X Step)
    BY <2>0, DefinitionAssumption DEF TypeOK, Event
  <2> QED
    BY <2>0, <2>1, <2>2, <2>3 DEF TypeOK
<1> QED
  BY <1>1, <1>2, <1>3 DEF Handler

\* Replacing fields of a driver's state by values of their types keeps its type.
LEMMA PcType ==
  ASSUME NEW state \in DriverState, NEW pc \in Pc
  PROVE  [state EXCEPT !.pc = pc] \in DriverState
BY DEF DriverState, LocalState

LEMMA CopyType ==
  ASSUME NEW state \in DriverState, NEW copy \in RunRow, NEW pc \in Pc
  PROVE  [state EXCEPT !.copy = copy, !.pc = pc] \in DriverState
BY DEF DriverState, LocalState

LEMMA WorkType ==
  ASSUME NEW state \in DriverState, NEW s \in Step, NEW w \in Work,
         w = "mark" => state.attempt[s] < MaxAttempts
  PROVE  /\ [state EXCEPT !.work[s] = w] \in DriverState
         /\ \A pc \in Pc : [state EXCEPT !.work[s] = w, !.pc = pc] \in DriverState
<1> DEFINE work == [state.work EXCEPT ![s] = w]
<1>1. work \in [Step -> Work]
  BY DEF DriverState, LocalState
<1>2. \A t \in Step : work[t] = "mark" => state.attempt[t] < MaxAttempts
  BY DEF DriverState, LocalState
<1> HIDE DEF work
<1>3. [state EXCEPT !.work = work] \in DriverState
  BY <1>1, <1>2 DEF DriverState, LocalState
<1>4. \A pc \in Pc : [state EXCEPT !.work = work, !.pc = pc] \in DriverState
  BY <1>1, <1>2 DEF DriverState, LocalState
<1> QED
  BY <1>3, <1>4 DEF work

LEMMA TurnType ==
  ASSUME TypeOK, NEW d \in Driver, NEW s \in Step, NEW w \in Work, Turn(d, s, w),
         w = "mark" => drv[d].attempt[s] < MaxAttempts
  PROVE  drv' \in [Driver -> DriverState]
<1>1. drv[d] \in DriverState
  BY DEF TypeOK
<1> QED
  BY <1>1, WorkType, BecomeType DEF Turn

LEMMA DropType ==
  ASSUME TypeOK, NEW drivers \in SUBSET Driver, Drop(drivers)
  PROVE  seen' \in SUBSET (Event \X Step)
<1>1. UNION {Unmerged(d) : d \in drivers} \subseteq Step
  BY DEF Unmerged
<1> QED
  BY <1>1 DEF Drop, TypeOK, Event

LEMMA StepSucceedsType ==
  ASSUME TypeOK, NEW d \in Driver, NEW s \in Step, StepSucceeds(d, s)
  PROVE  /\ drv' \in [Driver -> DriverState]
         /\ stepStatus' \in [Step -> StepStatus]
         /\ completedAt' \in [Step -> Nat]
         /\ seen' \in SUBSET (Event \X Step)
<1> PICK now \in Clock :
      /\ stepStatus' = [stepStatus EXCEPT ![s] = "SUCCEEDED"]
      /\ completedAt' = [completedAt EXCEPT ![s] = now]
      /\ seen' = seen \union {<<"succeeded", s>>}
                     \union (IF Behind(s, now) THEN {<<"behind", s>>} ELSE {})
      /\ Turn(d, s, "save")
  BY DEF StepSucceeds
<1>1. drv' \in [Driver -> DriverState]
  BY TurnType DEF Work
<1>2. stepStatus' \in [Step -> StepStatus]
  BY DEF TypeOK, StepStatus
<1>3. completedAt' \in [Step -> Nat]
  BY DeploymentAssumption DEF TypeOK
<1>4. seen' \in SUBSET (Event \X Step)
  BY DEF TypeOK, Event
<1> QED
  BY <1>1, <1>2, <1>3, <1>4

LEMMA StepErrsType ==
  ASSUME TypeOK, NEW d \in Driver, NEW s \in Step, StepErrs(d, s)
  PROVE  /\ drv' \in [Driver -> DriverState]
         /\ stepStatus' \in [Step -> StepStatus]
         /\ completedAt' \in [Step -> Nat]
         /\ seen' \in SUBSET (Event \X Step)
<1>1. drv' \in [Driver -> DriverState]
  BY TurnType DEF StepErrs, Work, Outcome
<1>2. stepStatus' \in [Step -> StepStatus]
  BY DEF StepErrs, TypeOK, StepStatus
<1> QED
  BY <1>1, <1>2 DEF StepErrs, TypeOK

\* A step past its last attempt is never begun again, so attempt is bounded.
LEMMA StepWorkType ==
  ASSUME TypeOK, NEW d \in Driver, NEW s \in Step, StepWork(d, s)
  PROVE  TypeOK'
<1> USE DEF rowVars, requestVars
<1>1. CASE BeginAttempt(d, s)
  <2> DEFINE attempt == [drv[d].attempt EXCEPT ![s] = drv[d].attempt[s] + 1]
             work == [drv[d].work EXCEPT ![s] = "exec"]
  <2>1. drv[d] \in DriverState
    BY DEF TypeOK
  <2>2. drv[d].attempt[s] \in 0..MaxAttempts /\ drv[d].attempt[s] < MaxAttempts
    BY <1>1, <2>1 DEF BeginAttempt, Working, DriverState, LocalState
  <2>3. attempt \in [Step -> 0..MaxAttempts]
    BY <2>1, <2>2, DefinitionAssumption DEF DriverState, LocalState
  <2>4. work \in [Step -> Work]
    BY <2>1 DEF DriverState, LocalState, Work
  <2>5. \A t \in Step : work[t] = "mark" => attempt[t] < MaxAttempts
    BY <2>1 DEF DriverState, LocalState
  <2> HIDE DEF attempt, work
  <2>6. [drv[d] EXCEPT !.work = work, !.attempt = attempt] \in DriverState
    BY <2>1, <2>3, <2>4, <2>5 DEF DriverState, LocalState
  <2>7. drv' \in [Driver -> DriverState]
    BY <1>1, <2>6, BecomeType DEF BeginAttempt, attempt, work
  <2>8. stepStatus' \in [Step -> StepStatus]
    BY <1>1 DEF BeginAttempt, TypeOK, StepStatus
  <2> QED
    BY <1>1, <2>7, <2>8 DEF BeginAttempt, TypeOK
<1>2. CASE ExecuteSucceeds(d, s)
  BY <1>2, StepSucceedsType DEF ExecuteSucceeds, TypeOK
<1>3. CASE ExecuteErrs(d, s)
  BY <1>3, StepErrsType DEF ExecuteErrs, TypeOK
<1>4. CASE ExecuteAborts(d, s)
  <2>1. drv' \in [Driver -> DriverState]
    BY <1>4, TurnType DEF ExecuteAborts, Work, Outcome
  <2>2. stepStatus' \in [Step -> StepStatus]
    BY <1>4 DEF ExecuteAborts, TypeOK, StepStatus
  <2> QED
    BY <1>4, <2>1, <2>2 DEF ExecuteAborts, TypeOK
<1>5. CASE ConsultApproval(d, s)
  <2>1. CASE Turn(d, s, "ask") /\ UNCHANGED <<stepStatus, completedAt, seen>>
    BY <1>5, <2>1, TurnType DEF ConsultApproval, TypeOK, Work
  <2>2. CASE Turn(d, s, "park") /\ UNCHANGED <<stepStatus, completedAt, seen>>
    BY <1>5, <2>2, TurnType DEF ConsultApproval, TypeOK, Work
  <2>3. CASE StepSucceeds(d, s)
    BY <1>5, <2>3, StepSucceedsType DEF ConsultApproval, TypeOK
  <2>4. CASE StepErrs(d, s)
    BY <1>5, <2>4, StepErrsType DEF ConsultApproval, TypeOK
  <2> QED
    BY <1>5, <2>1, <2>2, <2>3, <2>4 DEF ConsultApproval
<1>6. CASE AskApproval(d, s)
  <2>1. drv' \in [Driver -> DriverState]
    BY <1>6, TurnType DEF AskApproval, Work
  <2>2. approval' \in [ApprovalStep -> Seq(ApprovalStatus)]
    <3>1. CASE s \in ApprovalStep
      <4>1. Append(approval[s], "PENDING") \in Seq(ApprovalStatus)
        BY <3>1 DEF TypeOK, ApprovalStatus
      <4> QED
        BY <1>6, <4>1 DEF AskApproval, TypeOK
    <3>2. CASE s \notin ApprovalStep
      BY <1>6, <3>2 DEF AskApproval, TypeOK
    <3> QED
      BY <3>1, <3>2
  <2> QED
    BY <1>6, <2>1, <2>2 DEF AskApproval, TypeOK
<1>7. CASE ParkStep(d, s)
  <2>1. drv' \in [Driver -> DriverState]
    BY <1>7, TurnType DEF ParkStep, Work, Outcome
  <2>2. stepStatus' \in [Step -> StepStatus]
    BY <1>7 DEF ParkStep, TypeOK, StepStatus
  <2> QED
    BY <1>7, <2>1, <2>2 DEF ParkStep, TypeOK
<1>8. CASE SaveStep(d, s)
  BY <1>8, TurnType DEF SaveStep, TypeOK, Work, Outcome
<1>9. CASE CallFails(d, s)
  <2>1. budget' \in [requests : Nat, crashes : Nat, faults : Nat]
    <3>1. budget.faults \in Nat /\ budget.faults + 1 \in Nat
      BY DEF TypeOK
    <3> QED
      BY <1>9, <3>1 DEF CallFails, TypeOK
  <2> QED
    BY <1>9, <2>1, StepErrsType DEF CallFails, TypeOK
<1> QED
  BY <1>1, <1>2, <1>3, <1>4, <1>5, <1>6, <1>7, <1>8, <1>9 DEF StepWork

LEMMA DriveType ==
  ASSUME TypeOK, NEW d \in Driver, Drive(d)
  PROVE  TypeOK'
<1> USE DEF rowVars, requestVars
<1>a. drv[d] \in DriverState /\ run \in RunRow
  BY DEF TypeOK
<1>1. CASE Register(d)
  <2>1. drv' \in [Driver -> DriverState]
    BY <1>1, <1>a, PcType, BecomeType DEF Register, Goto, Pc
  <2>2. controller' \in [Instance -> Driver \union {NoDriver}]
    BY <1>1 DEF Register, TypeOK
  <2> QED
    BY <1>1, <2>1, <2>2 DEF Register, TypeOK
<1>2. CASE FindRun(d)
  <2>1. drv' \in [Driver -> DriverState]
    BY <1>2, <1>a, CopyType, BecomeType DEF FindRun, Pc
  <2> QED
    BY <1>2, <2>1 DEF FindRun, TypeOK
<1>3. CASE ClaimRun(d)
  <2>1. CASE run' = Moved(run, "RUNNING") /\ Goto(d, "claimed") /\ UNCHANGED controller
    <3>1. run' \in RunRow
      BY <2>1, <1>a, MovedType DEF RunStatus
    <3>2. drv' \in [Driver -> DriverState]
      BY <2>1, <1>a, PcType, BecomeType DEF Goto, Pc
    <3> QED
      BY <1>3, <2>1, <3>1, <3>2 DEF ClaimRun, TypeOK
  <2>2. CASE Leave(d) /\ UNCHANGED run
    BY <1>3, <2>2, LeaveType DEF ClaimRun, TypeOK
  <2> QED
    BY <1>3, <2>1, <2>2 DEF ClaimRun
<1>4. CASE Reload(d)
  <2>1. drv' \in [Driver -> DriverState]
    BY <1>4, <1>a, CopyType, BecomeType DEF Reload, Pc
  <2> QED
    BY <1>4, <2>1 DEF Reload, TypeOK
<1>5. CASE ListSteps(d)
  <2>1. [drv[d] EXCEPT !.view = stepStatus,
                       !.todo = {s \in Step : stepStatus[s] = "WAITING_APPROVAL"},
                       !.pc = "reconcile"] \in DriverState
    BY <1>a DEF TypeOK, DriverState, LocalState, Pc
  <2>2. drv' \in [Driver -> DriverState]
    BY <1>5, <2>1, BecomeType DEF ListSteps
  <2> QED
    BY <1>5, <2>2 DEF ListSteps, TypeOK
<1>6. CASE Reconcile(d)
  <2>1. CASE Goto(d, "loop")
    BY <1>6, <2>1, <1>a, PcType, BecomeType DEF Reconcile, Goto, TypeOK, Pc
  <2>2. ASSUME NEW s \in drv[d].todo,
               Become(d, [drv[d] EXCEPT !.todo = @ \ {s}, !.work = Wave({s}),
                                        !.attempt[s] = 0, !.pc = "wave"])
        PROVE  drv' \in [Driver -> DriverState]
    <3> DEFINE attempt == [drv[d].attempt EXCEPT ![s] = 0]
               todo == drv[d].todo \ {s}
    <3>1. s \in Step /\ todo \in SUBSET Step
      BY <1>a DEF DriverState, LocalState
    <3>2. MaxAttempts \in Nat \ {0} /\ 0 \in 0..MaxAttempts
      BY DefinitionAssumption
    <3>3. attempt \in [Step -> 0..MaxAttempts]
      BY <3>1, <3>2, <1>a DEF DriverState, LocalState
    <3>4. Wave({s}) \in [Step -> Work]
      BY DEF Wave, Work
    <3>5. \A t \in Step : Wave({s})[t] = "mark" => attempt[t] < MaxAttempts
      BY <1>a, <3>1, <3>2 DEF DriverState, LocalState, Wave
    <3> HIDE DEF attempt, todo
    <3>6. [drv[d] EXCEPT !.todo = todo, !.work = Wave({s}), !.attempt = attempt,
                         !.pc = "wave"] \in DriverState
      BY <1>a, <3>1, <3>3, <3>4, <3>5 DEF DriverState, LocalState, Pc
    <3> QED
      BY <2>2, <3>6, BecomeType DEF attempt, todo
  <2> QED
    BY <1>6, <2>1, <2>2 DEF Reconcile, TypeOK
<1>7. ASSUME NEW s \in Step, StepWork(d, s)
      PROVE  TypeOK'
  BY <1>7, StepWorkType
<1>8. CASE EndWave(d)
  <2> DEFINE view == [s \in Step |-> IF drv[d].work[s] = "none"
                                       THEN drv[d].view[s] ELSE Recorded[drv[d].work[s]]]
  <2>1. view \in [Step -> StepStatus]
    <3>1. \A s \in Step : drv[d].work[s] \in Outcome \union {"none"}
      BY <1>8 DEF EndWave
    <3>2. \A w \in Outcome : Recorded[w] \in StepStatus
      BY DEF Outcome, Recorded, StepStatus
    <3> QED
      BY <1>a, <3>1, <3>2 DEF DriverState, LocalState
  <2> HIDE DEF view
  <2>2. [drv[d] EXCEPT !.view = view, !.pc = "merge"] \in DriverState
    BY <1>a, <2>1 DEF DriverState, LocalState, Pc
  <2>3. drv' \in [Driver -> DriverState]
    BY <1>8, <2>2, BecomeType DEF EndWave, view
  <2> QED
    BY <1>8, <2>3 DEF EndWave, TypeOK
<1>9. CASE MergeOutput(d)
  <2> PICK s \in Step :
        IF Current(drv[d].copy)
          THEN /\ run' = Merged(drv[d].copy, s)
               /\ Become(d, [drv[d] EXCEPT !.work[s] = "none", !.pc = "merged"])
          ELSE /\ Become(d, [drv[d] EXCEPT !.work[s] = "merging", !.pc = "reread"])
               /\ UNCHANGED run
    BY <1>9 DEF MergeOutput
  <2>1. run' \in RunRow
    BY <1>a, MergedType DEF DriverState, LocalState
  <2>2. [drv[d] EXCEPT !.work[s] = "none", !.pc = "merged"] \in DriverState
    BY <1>a, WorkType DEF Work, Pc
  <2>3. [drv[d] EXCEPT !.work[s] = "merging", !.pc = "reread"] \in DriverState
    BY <1>a, WorkType DEF Work, Pc
  <2>4. drv' \in [Driver -> DriverState]
    BY <2>2, <2>3, BecomeType
  <2> QED
    BY <1>9, <2>1, <2>4 DEF MergeOutput, TypeOK
<1>10. CASE RereadRun(d)
  <2>1. drv' \in [Driver -> DriverState]
    BY <1>10, <1>a, CopyType, BecomeType DEF RereadRun, Pc
  <2> QED
    BY <1>10, <2>1 DEF RereadRun, TypeOK
<1>11. CASE RemergeOutput(d)
  <2> PICK s \in Step :
        IF Current(drv[d].copy)
          THEN /\ run' = Merged(drv[d].copy, s)
               /\ Become(d, [drv[d] EXCEPT !.work[s] = "none", !.pc = "merged"])
               /\ UNCHANGED <<controller, seen>>
          ELSE Leave(d) /\ Drop({d}) /\ UNCHANGED run
    BY <1>11 DEF RemergeOutput
  <2>1. run' \in RunRow
    BY <1>a, MergedType DEF DriverState, LocalState
  <2>2. [drv[d] EXCEPT !.work[s] = "none", !.pc = "merged"] \in DriverState
    BY <1>a, WorkType DEF Work, Pc
  <2>3. /\ drv' \in [Driver -> DriverState]
        /\ controller' \in [Instance -> Driver \union {NoDriver}]
    BY <2>2, BecomeType, LeaveType DEF TypeOK
  <2>4. seen' \in SUBSET (Event \X Step)
    BY DropType DEF TypeOK
  <2> QED
    BY <1>11, <2>1, <2>3, <2>4 DEF RemergeOutput, TypeOK
<1>12. CASE AfterWave(d)
  <2>1. ASSUME NEW pc \in Pc
        PROVE  [drv[d] EXCEPT !.work = Wave({}), !.pc = pc] \in DriverState
    <3>1. Wave({}) \in [Step -> Work] /\ \A s \in Step : Wave({})[s] # "mark"
      BY DEF Wave, Work
    <3> QED
      BY <1>a, <3>1 DEF DriverState, LocalState
  <2>2. drv' \in [Driver -> DriverState]
    BY <1>12, <2>1, BecomeType DEF AfterWave, Pc
  <2> QED
    BY <1>12, <2>2 DEF AfterWave, TypeOK
<1>13. CASE StopLoop(d)
  BY <1>13, LeaveType DEF StopLoop, TypeOK
<1>14. CASE Conclude(d)
  <2>1. Course(drv[d]) \in Pc
    BY DEF Course, Pc
  <2>2. drv' \in [Driver -> DriverState]
    BY <1>14, <1>a, <2>1, CopyType, BecomeType DEF Conclude
  <2> QED
    BY <1>14, <2>2 DEF Conclude, TypeOK
<1>15. CASE StartWave(d)
  <2> PICK skipped \in SUBSET (Ready(drv[d].view) \intersect ConditionalStep) :
        /\ stepStatus' = Skipping(stepStatus, skipped)
        /\ seen' = seen \union ({"skipped"} \X skipped)
        /\ Become(d, [drv[d] EXCEPT !.copy = run,
                                    !.view = Skipping(@, skipped),
                                    !.work = Wave(Ready(drv[d].view) \ skipped),
                                    !.attempt = [s \in Step |-> 0],
                                    !.pc = IF skipped = Ready(drv[d].view) THEN "loop"
                                                                           ELSE "wave"])
    BY <1>15 DEF StartWave
  <2> DEFINE work == Wave(Ready(drv[d].view) \ skipped)
             attempt == [s \in Step |-> 0]
             view == Skipping(drv[d].view, skipped)
             pc == IF skipped = Ready(drv[d].view) THEN "loop" ELSE "wave"
  <2>1. \A map \in [Step -> StepStatus] : Skipping(map, skipped) \in [Step -> StepStatus]
    BY DEF Skipping, StepStatus
  <2>2. stepStatus' \in [Step -> StepStatus] /\ view \in [Step -> StepStatus]
    BY <1>a, <2>1 DEF TypeOK, DriverState, LocalState
  <2>3. seen' \in SUBSET (Event \X Step)
    BY DEF TypeOK, Event, Ready
  <2>4. work \in [Step -> Work] /\ pc \in Pc
    BY DEF Wave, Work, Pc
  <2>5. attempt \in [Step -> 0..MaxAttempts] /\ \A s \in Step : attempt[s] < MaxAttempts
    BY DefinitionAssumption
  <2>6. Become(d, [drv[d] EXCEPT !.copy = run, !.view = view, !.work = work,
                                 !.attempt = attempt, !.pc = pc])
    OBVIOUS
  <2> HIDE DEF work, attempt, view, pc
  <2>7. [drv[d] EXCEPT !.copy = run, !.view = view, !.work = work,
                       !.attempt = attempt, !.pc = pc] \in DriverState
    BY <1>a, <2>2, <2>4, <2>5 DEF DriverState, LocalState
  <2>8. drv' \in [Driver -> DriverState]
    BY <2>6, <2>7, BecomeType
  <2> QED
    BY <1>15, <2>2, <2>3, <2>8 DEF StartWave, TypeOK
<1>16. CASE GiveUp(d)
  BY <1>16, LeaveType DEF GiveUp, TypeOK
<1>17. CASE ListSucceeded(d)
  <2>1. [drv[d] EXCEPT !.todo = {s \in CompensatedStep : stepStatus[s] = "SUCCEEDED"},
                       !.pc = "undo"] \in DriverState
    BY <1>a, DefinitionAssumption DEF DriverState, LocalState, Pc
  <2>2. drv' \in [Driver -> DriverState]
    BY <1>17, <2>1, BecomeType DEF ListSucceeded
  <2> QED
    BY <1>17, <2>2 DEF ListSucceeded, TypeOK
<1>18. CASE Compensate(d)
  <2>1. CASE Goto(d, "fail") /\ UNCHANGED seen
    BY <1>18, <2>1, <1>a, PcType, BecomeType DEF Compensate, Goto, TypeOK, Pc
  <2>2. ASSUME NEW s \in drv[d].todo, Become(d, [drv[d] EXCEPT !.todo = @ \ {s}]),
               seen' \in {seen \union {<<"compensated", s>>}, seen}
        PROVE  TypeOK'
    <3>1. [drv[d] EXCEPT !.todo = @ \ {s}] \in DriverState /\ s \in Step
      BY <1>a DEF DriverState, LocalState
    <3>2. drv' \in [Driver -> DriverState]
      BY <2>2, <3>1, BecomeType
    <3>3. seen' \in SUBSET (Event \X Step)
      BY <2>2, <3>1 DEF TypeOK, Event
    <3> QED
      BY <1>18, <3>2, <3>3 DEF Compensate, TypeOK
  <2> QED
    BY <1>18, <2>1, <2>2 DEF Compensate, Latest
<1>19. CASE Settle(d)
  <2>1. Verdicts[drv[d].pc] \in RunStatus
    BY <1>19 DEF Settle, Verdicts, RunStatus
  <2>2. run' \in RunRow
    BY <1>19, <1>a, <2>1, MovedType DEF Settle
  <2> QED
    BY <1>19, <2>2, LeaveType DEF Settle, TypeOK
<1> QED
  BY <1>1, <1>2, <1>3, <1>4, <1>5, <1>6, <1>7, <1>8, <1>9, <1>10, <1>11, <1>12, <1>13,
     <1>14, <1>15, <1>16, <1>17, <1>18, <1>19 DEF Drive

LEMMA CrashType ==
  ASSUME TypeOK, NEW i \in Instance, Crash(i)
  PROVE  TypeOK'
<1>1. drv' \in [Driver -> DriverState]
  BY IdleType DEF Crash, TypeOK
<1>2. controller' \in [Instance -> Driver \union {NoDriver}]
  BY DEF Crash, TypeOK
<1>3. budget.crashes \in Nat /\ budget.crashes + 1 \in Nat
  BY DEF TypeOK
<1>4. budget' \in [requests : Nat, crashes : Nat, faults : Nat]
  BY <1>3 DEF Crash, TypeOK
<1>5. seen' \in SUBSET (Event \X Step)
  BY DropType DEF Crash
<1> QED
  BY <1>1, <1>2, <1>4, <1>5 DEF Crash, TypeOK, rowVars

LEMMA TypeInit == Init => TypeOK
<1> SUFFICES ASSUME Init PROVE TypeOK
  OBVIOUS
<1> QED
  BY IdleType, RowType DEF Init, TypeOK, StepStatus

LEMMA TypeStep == TypeOK /\ [Next]_vars => TypeOK'
<1> SUFFICES ASSUME TypeOK, [Next]_vars PROVE TypeOK'
  OBVIOUS
<1>1. CASE UNCHANGED vars
  BY <1>1 DEF vars, TypeOK
<1> QED
  BY <1>1, DriveType, HandlerType, UserType, CrashType DEF Next

\* Every variable always holds a value of its type, and no step is ever tried
\* more often than its retry policy allows (runStepWithRetry).
THEOREM TypeCorrect == Spec => []TypeOK
BY TypeInit, TypeStep, PTL DEF Spec

-----------------------------------------------------------------------------
(* The run row and the copies drivers hold of it: the optimistic version    *)
(* loses no output and resurrects no cancelled run.                         *)

\* Where a driver has not claimed the run yet.
Early == {"off", "load", "find", "claim"}

Claimable == {"PENDING", "PAUSED", "WAITING_APPROVAL"}

\* What a driver's position says of its copy and of the row's status.
Coherent(state, status) ==
  /\ state.pc = "claim" => state.copy.status \in Claimable
  /\ state.pc \in {"cancel", "complete", "park"} => state.copy.status \notin {"CANCELLED", "PAUSED"}
  /\ state.pc \notin Early => status # "PENDING"

RowInv ==
  /\ TypeOK
  /\ CopiesAreCurrent
  /\ run.version = 0 => run = NewRun
  /\ \A d \in Driver : Coherent(drv[d], run.status)
  /\ \A v \in retrying : v <= run.version /\ (v = run.version => run.status = "FAILED")

-----------------------------------------------------------------------------
(* What a step may do to the row and to a copy of it.                       *)

RowWritten ==
  /\ run'.version = run.version + 1
  /\ run.context \subseteq run'.context
  /\ run'.status # "PENDING"
  /\ run.status = "PENDING" => run'.status \in {"RUNNING", "CANCELLED"}
  /\ run.status = "CANCELLED" => run'.status \in {"CANCELLED", "FAILED"}

RowStep == run' = run \/ RowWritten

CopyKept(copy, new) == \/ new \in {copy, NewRun}
                       \/ new = run /\ run' = run

\* A driver stays where it was as far as Coherent can tell, or gets to a place
\* that Coherent allows in the row's new status.
Follows(state, next) ==
  /\ CopyKept(state.copy, next.copy)
  /\ \/ next.pc = state.pc /\ next.copy = state.copy
     \/ Coherent(next, run'.status)

DriversFollow == \A d \in Driver : Follows(drv[d], drv'[d])

LEMMA WriteStep ==
  ASSUME RowInv, NEW status \in RunStatus \ {"PENDING"}, run' = Moved(run, status),
         run.status = "PENDING" => status \in {"RUNNING", "CANCELLED"},
         run.status = "CANCELLED" => status \in {"CANCELLED", "FAILED"}
  PROVE  RowWritten
<1>1. run \in RunRow
  BY DEF RowInv, TypeOK
<1> QED
  BY <1>1 DEF Moved, RowWritten, RunRow

LEMMA OtherFollows ==
  ASSUME NEW d \in Driver, drv'[d] = drv[d]
  PROVE  Follows(drv[d], drv'[d])
BY DEF Follows, CopyKept

LEMMA BecomeFollows ==
  ASSUME TypeOK, NEW d \in Driver, NEW state, Become(d, state), Follows(drv[d], state)
  PROVE  DriversFollow
<1>1. drv'[d] = state /\ \A e \in Driver \ {d} : drv'[e] = drv[e]
  BY DEF TypeOK, Become
<1> QED
  BY <1>1, OtherFollows DEF DriversFollow

LEMMA IdleFollows ==
  ASSUME NEW d \in Driver
  PROVE  Follows(drv[d], Idle)
BY DEF Follows, CopyKept, Coherent, Idle, Early

LEMMA BeginFollows ==
  ASSUME TypeOK, NEW d \in Driver, NEW st \in BOOLEAN, Begin(d, st)
  PROVE  DriversFollow
<1> DEFINE state == [Idle EXCEPT !.pc = "load", !.streaming = st]
<1>1. state.pc = "load" /\ state.copy = NewRun
  BY DEF Idle
<1>2. Follows(drv[d], state)
  BY <1>1 DEF Follows, CopyKept, Coherent, Early
<1> QED
  BY <1>2, BecomeFollows DEF Begin

LEMMA LeaveFollows ==
  ASSUME TypeOK, NEW d \in Driver, Leave(d)
  PROVE  DriversFollow
BY IdleFollows, BecomeFollows DEF Leave

LEMMA AbortFollows ==
  ASSUME TypeOK, NEW i \in Instance, NEW d \in Driver
  PROVE  /\ AbortedIn(i)[d].pc = drv[d].pc
         /\ AbortedIn(i)[d].copy = drv[d].copy
<1>1. drv[d] \in DriverState
  BY DEF TypeOK
<1> QED
  BY <1>1 DEF AbortedIn, Aborted, DriverState, LocalState

LEMMA UserStep ==
  ASSUME RowInv, User
  PROVE  RowStep /\ DriversFollow
<1> USE DEF rowVars
<1>a. TypeOK /\ run \in RunRow
  BY DEF RowInv, TypeOK
<1>b. (drv' = drv) => DriversFollow
  BY OtherFollows DEF DriversFollow
<1>1. ASSUME NEW d \in Driver, \/ RunWorkflow(d) \/ ResumeRun(d)
                               \/ RunWorkflowStream(d) \/ ResumeRunStream(d)
      PROVE  RowStep /\ DriversFollow
  BY <1>1, <1>a, BeginFollows
  DEF RunWorkflow, ResumeRun, RunWorkflowStream, ResumeRunStream, RowStep
<1>2. ASSUME NEW d \in Driver, Disconnect(d)
      PROVE  RowStep /\ DriversFollow
  <2>1. Home[d] \in Instance
    BY DeploymentAssumption
  <2>2. AbortedIn(Home[d]) \in [Driver -> DriverState]
    BY <1>a, <2>1, AbortType
  <2>3. ASSUME NEW e \in Driver
        PROVE  drv'[e].pc = drv[e].pc /\ drv'[e].copy = drv[e].copy
    <3>1. AbortedIn(Home[d])[e].pc = drv[e].pc /\ AbortedIn(Home[d])[e].copy = drv[e].copy
      BY <1>a, <2>1, AbortFollows
    <3> QED
      BY <1>2, <2>2, <3>1 DEF Disconnect, DriverState, LocalState
  <2> QED
    BY <1>2, <2>3 DEF Disconnect, RowStep, DriversFollow, Follows, CopyKept
<1>3. ASSUME PauseRun
      PROVE  RowStep /\ DriversFollow
  BY <1>3, <1>b, WriteStep DEF PauseRun, RowStep, RunStatus
<1>4. ASSUME NEW i \in Instance, CancelRun(i)
      PROVE  RowStep /\ DriversFollow
  BY <1>4, <1>b, WriteStep DEF CancelRun, RowStep, RunStatus
<1>5. ASSUME RetryReset
      PROVE  RowStep /\ DriversFollow
  BY <1>5, <1>b DEF RetryReset, RowStep
<1>6. ASSUME NEW s \in ApprovalStep, DecideCheck(s)
      PROVE  RowStep /\ DriversFollow
  BY <1>6, <1>b DEF DecideCheck, RowStep
<1> QED
  BY <1>1, <1>2, <1>3, <1>4, <1>5, <1>6 DEF User

LEMMA HandlerStep ==
  ASSUME RowInv, Handler
  PROVE  RowStep /\ DriversFollow
<1> USE DEF rowVars
<1>a. TypeOK /\ run \in RunRow
  BY DEF RowInv, TypeOK
<1>b. (drv' = drv) => DriversFollow
  BY OtherFollows DEF DriversFollow
<1>1. ASSUME NEW i \in Instance, CancelInProcess(i)
      PROVE  RowStep /\ DriversFollow
  BY <1>1, <1>a, AbortFollows
  DEF CancelInProcess, RowStep, DriversFollow, Follows, CopyKept
<1>2. ASSUME NEW d \in Driver, RetryRelease(d)
      PROVE  RowStep /\ DriversFollow
  <2>1. DriversFollow
    BY <1>2, <1>a, <1>b, BeginFollows DEF RetryRelease
  <2>2. CASE run' = Moved(run, "PAUSED") /\ run.status = "FAILED"
    BY <2>1, <2>2, WriteStep DEF RowStep, RunStatus
  <2> QED
    BY <1>2, <2>1, <2>2 DEF RetryRelease, RowStep, RowInv
<1>3. ASSUME NEW d \in Driver, DecideApproval(d)
      PROVE  RowStep /\ DriversFollow
  BY <1>3, <1>a, <1>b, BeginFollows DEF DecideApproval, RowStep
<1> QED
  BY <1>1, <1>2, <1>3 DEF Handler

LEMMA CrashStep ==
  ASSUME RowInv, NEW i \in Instance, Crash(i)
  PROVE  RowStep /\ DriversFollow
BY IdleFollows, OtherFollows DEF Crash, RowStep, DriversFollow, rowVars

\* The steps' generators leave the row, the copy and the position alone.
LEMMA TurnFollows ==
  ASSUME TypeOK, NEW d \in Driver, NEW s \in Step, NEW w, Turn(d, s, w)
  PROVE  DriversFollow
<1>1. drv[d] \in DriverState
  BY DEF TypeOK
<1>2. Follows(drv[d], [drv[d] EXCEPT !.work[s] = w])
  BY <1>1 DEF Follows, CopyKept, DriverState, LocalState
<1> QED
  BY <1>2, BecomeFollows DEF Turn

LEMMA StepWorkStep ==
  ASSUME RowInv, NEW d \in Driver, NEW s \in Step, StepWork(d, s)
  PROVE  RowStep /\ DriversFollow
<1>a. TypeOK /\ drv[d] \in DriverState
  BY DEF RowInv, TypeOK
<1>1. CASE BeginAttempt(d, s)
  <2> DEFINE state == [drv[d] EXCEPT !.work[s] = "exec",
                                     !.attempt[s] = drv[d].attempt[s] + 1]
  <2>1. state.pc = drv[d].pc /\ state.copy = drv[d].copy
    BY <1>a DEF DriverState, LocalState
  <2>2. Become(d, state)
    BY <1>1 DEF BeginAttempt
  <2> HIDE DEF state
  <2> QED
    BY <1>1, <1>a, <2>1, <2>2, BecomeFollows DEF BeginAttempt, Follows, CopyKept, RowStep
<1>2. (\E w : Turn(d, s, w)) /\ UNCHANGED run => RowStep /\ DriversFollow
  BY <1>a, TurnFollows DEF RowStep
<1>3. CASE ~BeginAttempt(d, s)
  <2>1. UNCHANGED run
    BY <1>3 DEF StepWork, ExecuteSucceeds, ExecuteErrs, ExecuteAborts, ConsultApproval,
                AskApproval, ParkStep, SaveStep, CallFails, rowVars
  <2>2. \E w : Turn(d, s, w)
    BY <1>3 DEF StepWork, ExecuteSucceeds, ExecuteErrs, ExecuteAborts, ConsultApproval,
                AskApproval, ParkStep, SaveStep, CallFails, StepSucceeds, StepErrs
  <2> QED
    BY <2>1, <2>2, <1>2
<1> QED
  BY <1>1, <1>3

LEMMA MergedStep ==
  ASSUME RowInv, NEW d \in Driver, NEW s \in Step, Current(drv[d].copy),
         drv[d].pc \notin Early, run' = Merged(drv[d].copy, s)
  PROVE  RowWritten
<1>1. run \in RunRow /\ drv[d].copy = run
  BY DEF RowInv, TypeOK, CopiesAreCurrent
<1>2. run.status # "PENDING"
  BY DEF RowInv, Coherent
<1> QED
  BY <1>1, <1>2 DEF Merged, RowWritten, RunRow

\* A verdict reached on a copy is written only while the copy is the row.
LEMMA SettleStep ==
  ASSUME RowInv, NEW d \in Driver, Settle(d)
  PROVE  RowStep
<1>1. CASE ~Current(drv[d].copy)
  BY <1>1 DEF Settle, RowStep
<1>2. CASE Current(drv[d].copy)
  <2>1. drv[d].copy = run /\ Coherent(drv[d], run.status)
    BY <1>2 DEF RowInv, CopiesAreCurrent
  <2>2. drv[d].pc \in {"cancel", "complete", "park", "fail"}
    BY DEF Settle, Verdicts
  <2>3. run.status # "PENDING"
    BY <2>1, <2>2 DEF Coherent, Early
  <2>4. run.status = "CANCELLED" => Verdicts[drv[d].pc] \in {"CANCELLED", "FAILED"}
    BY <2>1, <2>2 DEF Coherent, Verdicts
  <2>5. Verdicts[drv[d].pc] \in RunStatus \ {"PENDING"}
    BY <2>2 DEF Verdicts, RunStatus
  <2> QED
    BY <1>2, <2>3, <2>4, <2>5, WriteStep DEF Settle, RowStep
<1> QED
  BY <1>1, <1>2

\* Moving from one place to another past the claim, with the same copy.
LEMMA MoveFollows ==
  ASSUME RowInv, NEW d \in Driver, NEW state, Become(d, state), state.copy = drv[d].copy,
         drv[d].pc \notin Early,
         state.pc \notin {"claim", "cancel", "complete", "park"}, run' = run
  PROVE  DriversFollow
<1>1. Coherent(drv[d], run.status)
  BY DEF RowInv
<1>2. Coherent(state, run'.status)
  BY <1>1 DEF Coherent
<1> QED
  BY <1>2, BecomeFollows DEF RowInv, Follows, CopyKept

LEMMA MergedFollows ==
  ASSUME RowInv, NEW d \in Driver, NEW s \in Step, RowWritten,
         Become(d, [drv[d] EXCEPT !.work[s] = "none", !.pc = "merged"])
  PROVE  DriversFollow
<1> DEFINE state == [drv[d] EXCEPT !.work[s] = "none", !.pc = "merged"]
<1>1. drv[d] \in LocalState
  BY DEF RowInv, TypeOK, DriverState
<1>2. state.pc = "merged" /\ state.copy = drv[d].copy
  BY <1>1 DEF LocalState
<1>3. Follows(drv[d], state)
  BY <1>2 DEF Follows, CopyKept, Coherent, RowWritten
<1> QED
  BY <1>3, BecomeFollows DEF RowInv

LEMMA DriveStep ==
  ASSUME RowInv, NEW d \in Driver, Drive(d)
  PROVE  RowStep /\ DriversFollow
<1> USE DEF rowVars, requestVars
<1>a. TypeOK /\ run \in RunRow /\ drv[d] \in DriverState /\ Coherent(drv[d], run.status)
  BY DEF RowInv, TypeOK
<1>b. drv[d] \in LocalState
  BY <1>a DEF DriverState
<1>1. CASE Register(d)
  <2> DEFINE state == [drv[d] EXCEPT !.pc = "find"]
  <2>1. state.pc = "find" /\ state.copy = drv[d].copy
    BY <1>b DEF LocalState
  <2>2. Follows(drv[d], state)
    BY <2>1 DEF Follows, CopyKept, Coherent, Early
  <2> QED
    BY <1>1, <1>a, <2>2, BecomeFollows DEF Register, Goto, RowStep
<1>2. CASE FindRun(d)
  <2> DEFINE pc == IF run.status \in Claimable THEN "claim" ELSE "list"
             state == [drv[d] EXCEPT !.copy = run, !.pc = pc]
  <2>1. state.pc = pc /\ state.copy = run
    BY <1>b DEF LocalState
  <2>2. Coherent(state, run.status)
    BY <2>1 DEF Coherent, Early, Claimable
  <2>3. run' = run /\ Become(d, state)
    BY <1>2 DEF FindRun, Claimable
  <2>4. Follows(drv[d], state)
    BY <2>1, <2>2, <2>3 DEF Follows, CopyKept
  <2> HIDE DEF state
  <2> QED
    BY <1>a, <2>3, <2>4, BecomeFollows DEF RowStep
<1>3. CASE ClaimRun(d)
  <2>1. CASE Current(drv[d].copy) /\ run' = Moved(run, "RUNNING") /\ Goto(d, "claimed")
    <3> DEFINE state == [drv[d] EXCEPT !.pc = "claimed"]
    <3>1. run.status \in Claimable
      BY <1>3, <2>1 DEF ClaimRun, At, RowInv, CopiesAreCurrent, Coherent
    <3>2. RowWritten
      BY <2>1, <3>1, WriteStep DEF RunStatus, Claimable
    <3>3. state.pc = "claimed" /\ state.copy = drv[d].copy
      BY <1>b DEF LocalState
    <3>4. Follows(drv[d], state)
      BY <3>2, <3>3 DEF Follows, CopyKept, Coherent, RowWritten
    <3> QED
      BY <1>a, <2>1, <3>2, <3>4, BecomeFollows DEF Goto, RowStep
  <2>2. CASE Leave(d) /\ UNCHANGED run
    BY <1>a, <2>2, LeaveFollows DEF RowStep
  <2> QED
    BY <1>3, <2>1, <2>2 DEF ClaimRun
<1>4. CASE Reload(d)
  <2> DEFINE pc == IF drv[d].pc = "claimed" THEN "list" ELSE "merge"
             state == [drv[d] EXCEPT !.copy = run, !.pc = pc]
  <2>1. state.pc = pc /\ state.copy = run
    BY <1>b DEF LocalState
  <2>2. run' = run /\ Become(d, state)
    BY <1>4 DEF Reload
  <2>3. Follows(drv[d], state)
    BY <1>4, <1>a, <2>1, <2>2 DEF Reload, Follows, CopyKept, Coherent, Early
  <2> HIDE DEF state
  <2> QED
    BY <1>a, <2>2, <2>3, BecomeFollows DEF RowStep
<1>5. CASE ListSteps(d)
  <2> DEFINE state == [drv[d] EXCEPT !.view = stepStatus,
                                     !.todo = {s \in Step : stepStatus[s] = "WAITING_APPROVAL"},
                                     !.pc = "reconcile"]
  <2>1. state.pc = "reconcile" /\ state.copy = drv[d].copy
    BY <1>b DEF LocalState
  <2>2. Become(d, state) /\ run' = run /\ drv[d].pc = "list"
    BY <1>5 DEF ListSteps, At
  <2> HIDE DEF state
  <2> QED
    BY <2>1, <2>2, MoveFollows DEF RowStep, Early
<1>6. CASE Reconcile(d)
  <2> DEFINE loop == [drv[d] EXCEPT !.pc = "loop"]
             wave(s) == [drv[d] EXCEPT !.todo = @ \ {s}, !.work = Wave({s}),
                                       !.attempt[s] = 0, !.pc = "wave"]
  <2>1. loop.pc = "loop" /\ loop.copy = drv[d].copy
    BY <1>b DEF LocalState
  <2>2. \A s : wave(s).pc = "wave" /\ wave(s).copy = drv[d].copy
    BY <1>b DEF LocalState
  <2>3. run' = run /\ drv[d].pc = "reconcile"
    BY <1>6 DEF Reconcile, At
  <2>4. Become(d, loop) \/ \E s : Become(d, wave(s))
    BY <1>6 DEF Reconcile, Goto
  <2> HIDE DEF loop, wave
  <2> QED
    BY <2>1, <2>2, <2>3, <2>4, MoveFollows DEF RowStep, Early
<1>7. ASSUME NEW s \in Step, StepWork(d, s)
      PROVE  RowStep /\ DriversFollow
  BY <1>7, StepWorkStep
<1>8. CASE EndWave(d)
  <2> DEFINE state == [drv[d] EXCEPT !.view = [s \in Step |-> IF drv[d].work[s] = "none"
                                         THEN drv[d].view[s] ELSE Recorded[drv[d].work[s]]],
                                     !.pc = "merge"]
  <2>1. state.pc = "merge" /\ state.copy = drv[d].copy
    BY <1>b DEF LocalState
  <2>2. Become(d, state) /\ run' = run /\ drv[d].pc = "wave"
    BY <1>8 DEF EndWave, At
  <2> HIDE DEF state
  <2> QED
    BY <2>1, <2>2, MoveFollows DEF RowStep, Early
<1>9. CASE MergeOutput(d)
  <2> PICK s \in Step :
        IF Current(drv[d].copy)
          THEN /\ run' = Merged(drv[d].copy, s)
               /\ Become(d, [drv[d] EXCEPT !.work[s] = "none", !.pc = "merged"])
          ELSE /\ Become(d, [drv[d] EXCEPT !.work[s] = "merging", !.pc = "reread"])
               /\ UNCHANGED run
    BY <1>9 DEF MergeOutput
  <2>1. drv[d].pc = "merge"
    BY <1>9 DEF MergeOutput, At
  <2>2. CASE Current(drv[d].copy)
    <3>1. RowWritten
      BY <2>1, <2>2, MergedStep DEF Early
    <3>2. DriversFollow
      BY <1>a, <2>2, <3>1, MergedFollows
    <3> QED
      BY <3>1, <3>2 DEF RowStep
  <2>3. CASE ~Current(drv[d].copy)
    <3> DEFINE state == [drv[d] EXCEPT !.work[s] = "merging", !.pc = "reread"]
    <3>1. state.pc = "reread" /\ state.copy = drv[d].copy
      BY <1>b DEF LocalState
    <3>2. Become(d, state) /\ run' = run
      BY <2>3
    <3> HIDE DEF state
    <3> QED
      BY <2>1, <3>1, <3>2, MoveFollows DEF RowStep, Early
  <2> QED
    BY <2>2, <2>3
<1>10. CASE RereadRun(d)
  <2> DEFINE state == [drv[d] EXCEPT !.copy = run, !.pc = "remerge"]
  <2>1. state.pc = "remerge" /\ state.copy = run
    BY <1>b DEF LocalState
  <2>2. run' = run /\ Become(d, state) /\ drv[d].pc = "reread"
    BY <1>10 DEF RereadRun, At
  <2>3. Follows(drv[d], state)
    BY <1>a, <2>1, <2>2 DEF Follows, CopyKept, Coherent, Early
  <2> HIDE DEF state
  <2> QED
    BY <1>a, <2>2, <2>3, BecomeFollows DEF RowStep
<1>11. CASE RemergeOutput(d)
  <2> PICK s \in Step :
        IF Current(drv[d].copy)
          THEN /\ run' = Merged(drv[d].copy, s)
               /\ Become(d, [drv[d] EXCEPT !.work[s] = "none", !.pc = "merged"])
               /\ UNCHANGED <<controller, seen>>
          ELSE Leave(d) /\ Drop({d}) /\ UNCHANGED run
    BY <1>11 DEF RemergeOutput
  <2>1. drv[d].pc = "remerge"
    BY <1>11 DEF RemergeOutput, At
  <2>2. CASE Current(drv[d].copy)
    <3>1. RowWritten
      BY <2>1, <2>2, MergedStep DEF Early
    <3>2. DriversFollow
      BY <1>a, <2>2, <3>1, MergedFollows
    <3> QED
      BY <3>1, <3>2 DEF RowStep
  <2>3. CASE ~Current(drv[d].copy)
    BY <1>a, <2>3, LeaveFollows DEF RowStep
  <2> QED
    BY <2>2, <2>3
<1>12. CASE AfterWave(d)
  <2> DEFINE pc == IF \E s \in Step : drv[d].work[s] = "failed" THEN "rollback" ELSE "reconcile"
             state == [drv[d] EXCEPT !.work = Wave({}), !.pc = pc]
  <2>1. state.pc = pc /\ state.copy = drv[d].copy
    BY <1>b DEF LocalState
  <2>2. Become(d, state) /\ run' = run /\ drv[d].pc = "merge"
    BY <1>12 DEF AfterWave, At
  <2>3. pc \in {"rollback", "reconcile"}
    OBVIOUS
  <2> HIDE DEF state, pc
  <2> QED
    BY <2>1, <2>2, <2>3, MoveFollows DEF RowStep, Early
<1>13. CASE StopLoop(d)
  BY <1>13, <1>a, LeaveFollows DEF StopLoop, RowStep
<1>14. CASE Conclude(d)
  <2> DEFINE state == [drv[d] EXCEPT !.copy = run, !.pc = Course(drv[d])]
  <2>1. state.pc = Course(drv[d]) /\ state.copy = run
    BY <1>b DEF LocalState
  <2>2. Become(d, state) /\ run' = run /\ drv[d].pc = "loop" /\ ~Stopped
    BY <1>14 DEF Conclude, At
  <2>3. Course(drv[d]) # "claim"
    BY DEF Course
  <2>4. Coherent(state, run.status)
    BY <1>a, <2>1, <2>2, <2>3 DEF Coherent, Stopped, Early
  <2>5. Follows(drv[d], state)
    BY <2>1, <2>2, <2>4 DEF Follows, CopyKept
  <2> HIDE DEF state
  <2> QED
    BY <1>a, <2>2, <2>5, BecomeFollows DEF RowStep
<1>15. CASE StartWave(d)
  <2> PICK skipped : Become(d, [drv[d] EXCEPT !.copy = run,
                                    !.view = Skipping(@, skipped),
                                    !.work = Wave(Ready(drv[d].view) \ skipped),
                                    !.attempt = [s \in Step |-> 0],
                                    !.pc = IF skipped = Ready(drv[d].view) THEN "loop"
                                                                           ELSE "wave"])
    BY <1>15 DEF StartWave
  <2> DEFINE pc == IF skipped = Ready(drv[d].view) THEN "loop" ELSE "wave"
             state == [drv[d] EXCEPT !.copy = run,
                                    !.view = Skipping(@, skipped),
                                    !.work = Wave(Ready(drv[d].view) \ skipped),
                                    !.attempt = [s \in Step |-> 0],
                                    !.pc = pc]
  <2>1. state.pc = pc /\ state.copy = run /\ pc \in {"loop", "wave"}
    BY <1>b DEF LocalState
  <2>2. Become(d, state) /\ run' = run /\ drv[d].pc = "loop"
    BY <1>15 DEF StartWave, At
  <2>3. Follows(drv[d], state)
    BY <1>a, <2>1, <2>2 DEF Follows, CopyKept, Coherent, Early
  <2> HIDE DEF state
  <2> QED
    BY <1>a, <2>2, <2>3, BecomeFollows DEF RowStep
<1>16. CASE GiveUp(d)
  BY <1>16, <1>a, LeaveFollows DEF GiveUp, RowStep
<1>17. CASE ListSucceeded(d)
  <2> DEFINE state == [drv[d] EXCEPT !.todo = {s \in CompensatedStep : stepStatus[s] = "SUCCEEDED"},
                                     !.pc = "undo"]
  <2>1. state.pc = "undo" /\ state.copy = drv[d].copy
    BY <1>b DEF LocalState
  <2>2. Become(d, state) /\ run' = run /\ drv[d].pc = "rollback"
    BY <1>17 DEF ListSucceeded, At
  <2> HIDE DEF state
  <2> QED
    BY <2>1, <2>2, MoveFollows DEF RowStep, Early
<1>18. CASE Compensate(d)
  <2> DEFINE fail == [drv[d] EXCEPT !.pc = "fail"]
             undo(s) == [drv[d] EXCEPT !.todo = @ \ {s}]
  <2>1. drv[d].pc = "undo" /\ run' = run
    BY <1>18 DEF Compensate, At
  <2>2. fail.pc = "fail" /\ fail.copy = drv[d].copy
    BY <1>b DEF LocalState
  <2>3. \A s : undo(s).pc = "undo" /\ undo(s).copy = drv[d].copy
    BY <1>b, <2>1 DEF LocalState
  <2>4. Become(d, fail) \/ \E s : Become(d, undo(s))
    BY <1>18 DEF Compensate, Goto
  <2> HIDE DEF fail, undo
  <2> QED
    BY <2>1, <2>2, <2>3, <2>4, MoveFollows DEF RowStep, Early
<1>19. CASE Settle(d)
  BY <1>19, <1>a, SettleStep, LeaveFollows DEF Settle
<1> QED
  BY <1>1, <1>2, <1>3, <1>4, <1>5, <1>6, <1>7, <1>8, <1>9, <1>10, <1>11, <1>12, <1>13,
     <1>14, <1>15, <1>16, <1>17, <1>18, <1>19 DEF Drive

-----------------------------------------------------------------------------
(* The inductive invariant.                                                 *)

LEMMA NextStep ==
  ASSUME RowInv, Next
  PROVE  RowStep /\ DriversFollow
BY DriveStep, HandlerStep, UserStep, CrashStep DEF Next

LEMMA StutterStep ==
  ASSUME RowInv, UNCHANGED vars
  PROVE  RowStep /\ DriversFollow
BY OtherFollows DEF vars, RowStep, DriversFollow

\* retryRun only ever remembers the version of a FAILED row.
LEMMA RetryStep ==
  ASSUME RowInv, [Next]_vars
  PROVE  \A v \in retrying' : v \in retrying \/ (v = run.version /\ run.status = "FAILED"
                                                /\ run' = run)
<1> USE DEF rowVars, requestVars
<1>1. CASE RetryReset
  BY <1>1 DEF RetryReset
<1>2. CASE \E i \in Instance : Crash(i)
  BY <1>2 DEF Crash
<1>3. CASE Handler
  BY <1>3 DEF Handler, CancelInProcess, RetryRelease, DecideApproval
<1>4. ASSUME NEW d \in Driver, Drive(d)
      PROVE  retrying' = retrying
  BY <1>4 DEF Drive, Register, FindRun, ClaimRun, Reload, ListSteps, Reconcile, StepWork,
     BeginAttempt, ExecuteSucceeds, ExecuteErrs, ExecuteAborts, ConsultApproval, AskApproval,
     ParkStep, SaveStep, CallFails, EndWave, MergeOutput, RereadRun, RemergeOutput, AfterWave, StopLoop, Conclude,
     StartWave, GiveUp, ListSucceeded, Compensate, Settle
<1>5. CASE User /\ ~RetryReset
  BY <1>5 DEF User, RunWorkflow, ResumeRun, RunWorkflowStream, ResumeRunStream, Disconnect,
     PauseRun, CancelRun, DecideCheck
<1>6. CASE UNCHANGED vars
  BY <1>6 DEF vars
<1> QED
  BY <1>1, <1>2, <1>3, <1>4, <1>5, <1>6 DEF Next

LEMMA RowInvInit == Init => RowInv
<1> SUFFICES ASSUME Init PROVE RowInv
  OBVIOUS
<1>1. TypeOK
  BY TypeInit
<1>2. Idle.pc = "off" /\ Idle.copy = NewRun /\ NewRun.version = 0
  BY DEF Idle, NewRun
<1>3. \A d \in Driver : drv[d] = Idle
  BY DEF Init
<1>4. run = NewRun /\ retrying = {}
  BY DEF Init
<1>5. CopiesAreCurrent
  BY <1>2, <1>3, <1>4 DEF CopiesAreCurrent, Current
<1>6. \A d \in Driver : Coherent(drv[d], run.status)
  BY <1>2, <1>3 DEF Coherent, Early
<1> QED
  BY <1>1, <1>4, <1>5, <1>6 DEF RowInv

LEMMA RowInvStep == RowInv /\ [Next]_vars => RowInv'
<1> SUFFICES ASSUME RowInv, [Next]_vars PROVE RowInv'
  OBVIOUS
<1>1. TypeOK' /\ TypeOK
  BY TypeStep DEF RowInv
<1>2. RowStep /\ DriversFollow
  BY NextStep, StutterStep
<1>3. run \in RunRow /\ run' \in RunRow
  BY <1>1 DEF TypeOK
<1>4. run.version \in Nat /\ run'.version \in Nat
  BY <1>3 DEF RunRow
<1>5. (run.version = 0 => run = NewRun)'
  BY <1>2, <1>4 DEF RowInv, RowStep, RowWritten
<1>6. CopiesAreCurrent'
  <2> SUFFICES ASSUME NEW d \in Driver
               PROVE  /\ drv'[d].copy.version <= run'.version
                      /\ drv'[d].copy.version = run'.version => drv'[d].copy = run'
    BY DEF CopiesAreCurrent, Current
  <2>1. CopyKept(drv[d].copy, drv'[d].copy)
    BY <1>2 DEF DriversFollow, Follows
  <2>2. /\ drv[d].copy.version <= run.version
        /\ drv[d].copy.version = run.version => drv[d].copy = run
    BY DEF RowInv, CopiesAreCurrent, Current
  <2>3. drv[d].copy.version \in Nat
    BY <1>1 DEF TypeOK, DriverState, LocalState, RunRow
  <2>4. CASE drv'[d].copy = drv[d].copy
    BY <1>2, <1>4, <2>2, <2>3, <2>4 DEF RowStep, RowWritten
  <2>5. CASE drv'[d].copy = NewRun
    BY <1>4, <1>5, <2>5 DEF NewRun
  <2>6. CASE drv'[d].copy = run /\ run' = run
    BY <1>4, <2>6
  <2> QED
    BY <2>1, <2>4, <2>5, <2>6 DEF CopyKept
<1>7. ASSUME NEW d \in Driver
      PROVE  Coherent(drv'[d], run'.status)
  <2>1. Coherent(drv[d], run.status)
    BY DEF RowInv
  <2>2. run'.status = "PENDING" => run' = run
    BY <1>2 DEF RowStep, RowWritten
  <2> QED
    BY <1>2, <2>1, <2>2 DEF DriversFollow, Follows, Coherent
<1>8. ASSUME NEW v \in retrying'
      PROVE  v <= run'.version /\ (v = run'.version => run'.status = "FAILED")
  <2>1. v \in retrying \/ (v = run.version /\ run.status = "FAILED" /\ run' = run)
    BY RetryStep
  <2>2. v \in Nat
    BY <1>1 DEF TypeOK
  <2> QED
    BY <1>2, <1>4, <2>1, <2>2 DEF RowInv, RowStep, RowWritten
<1> QED
  BY <1>1, <1>5, <1>6, <1>7, <1>8 DEF RowInv

LEMMA RowInvariant == Spec => []RowInv
BY RowInvInit, RowInvStep, PTL DEF Spec

LEMMA RowSteps == Spec => [][RowStep]_vars
<1>1. RowInv /\ [Next]_vars => [RowStep]_vars
  BY NextStep
<1> QED
  BY <1>1, RowInvariant, PTL DEF Spec

-----------------------------------------------------------------------------
\* The version identifies the row: mergeContext and the writes of a verdict may
\* rely on a copy whose version still matches (updateWithVersion).
THEOREM CopiesStayCurrent == Spec => []CopiesAreCurrent
<1>1. RowInv => CopiesAreCurrent
  BY DEF RowInv
<1> QED
  BY <1>1, RowInvariant, PTL

\* No writer, of any number of drivers and users, drops a merged output.
THEOREM NoOutputLost == Spec => OutputsNeverLost
<1>1. [RowStep]_vars => [run.context \subseteq run'.context]_vars
  BY DEF RowStep, RowWritten
<1> QED
  BY <1>1, RowSteps, PTL DEF OutputsNeverLost

\* A cancelled run is never claimed, paused, parked or completed by a driver
\* or a retry that read the row before the cancellation.
THEOREM NeverResumedAfterCancel == Spec => CancelledNeverResumes
<1>1. [RowStep]_vars =>
        [run.status = "CANCELLED" => run'.status \in {"CANCELLED", "FAILED"}]_vars
  BY DEF RowStep, RowWritten
<1> QED
  BY <1>1, RowSteps, PTL DEF CancelledNeverResumes

\* Of all the executeRun calls that find the row PENDING, one claims it.
THEOREM OneClaim == Spec => ClaimedOnce
<1>1. [RowStep]_vars =>
        [run'.status # run.status =>
           /\ run'.status # "PENDING"
           /\ run.status = "PENDING" => run'.status \in {"RUNNING", "CANCELLED"}]_vars
  BY DEF RowStep, RowWritten
<1> QED
  BY <1>1, RowSteps, PTL DEF ClaimedOnce
==============================================================================
