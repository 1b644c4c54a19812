-------------------------- MODULE WorkflowStepProofs --------------------------
(***************************************************************************)
(* Theorems about the steps: whatever a driver's map of statuses lags       *)
(* behind, no step runs before its dependencies, none passes an approval    *)
(* that was not given, and nothing is rolled back that did not succeed.     *)
(***************************************************************************)
EXTENDS WorkflowEngineProofs

\* In terms of what has happened so far...
Done(t, events) == <<"succeeded", t>> \in events \/ <<"skipped", t>> \in events

Supported(s, events) == \A t \in DependsOn[s] : Done(t, events)

\* ...what a map of statuses claims has happened,
Honest(map, events) ==
  \A s \in Step : /\ map[s] # "PENDING" => Supported(s, events)
                  /\ map[s] = "SUCCEEDED" => <<"succeeded", s>> \in events
                  /\ map[s] = "SKIPPED" => <<"skipped", s>> \in events

\* what a driver is working on had its dependencies done,
Grounded(state, events) ==
  /\ Honest(state.view, events)
  /\ \A s \in Step :
       /\ state.work[s] # "none" \/ s \in state.todo => Supported(s, events)
       /\ state.work[s] \in {"save", "succeeded", "merging"} => <<"succeeded", s>> \in events
       /\ state.pc = "undo" /\ s \in state.todo => <<"succeeded", s>> \in events

\* and an approval step succeeds by an approved row only.
Gated(rows, events) ==
  \A s \in ApprovalStep :
    /\ <<"succeeded", s>> \in events => <<"approved", s>> \in events
    /\ \A n \in DOMAIN rows[s] : rows[s][n] = "APPROVED" => <<"approved", s>> \in events

Compensations(events) ==
  \A s \in Step : <<"compensated", s>> \in events => <<"succeeded", s>> \in events

Events == Gated(approval, seen) /\ Compensations(seen)

StepInv ==
  /\ TypeOK
  /\ Honest(stepStatus, seen)
  /\ \A d \in Driver : Grounded(drv[d], seen)
  /\ Events

-----------------------------------------------------------------------------
LEMMA GroundedMonotone ==
  ASSUME NEW state, NEW events, NEW more, events \subseteq more, Grounded(state, events)
  PROVE  Grounded(state, more)
BY DEF Grounded, Honest, Supported, Done

LEMMA HonestMonotone ==
  ASSUME NEW map, NEW events, NEW more, events \subseteq more, Honest(map, events)
  PROVE  Honest(map, more)
BY DEF Honest, Supported, Done

\* One driver's state changed.
LEMMA BecomeGrounded ==
  ASSUME StepInv, NEW d \in Driver, NEW state, Become(d, state), seen \subseteq seen',
         Grounded(state, seen')
  PROVE  \A e \in Driver : Grounded(drv'[e], seen')
<1>1. drv'[d] = state /\ \A e \in Driver \ {d} : drv'[e] = drv[e]
  BY DEF StepInv, TypeOK, Become
<1> QED
  BY <1>1, GroundedMonotone DEF StepInv

\* All that matters to Grounded is the view, the work, and todo while undoing.
LEMMA SameGrounded ==
  ASSUME NEW old, NEW state, NEW events, Grounded(old, events),
         state.view = old.view, state.work = old.work, state.todo \subseteq old.todo,
         state.pc = "undo" => old.pc = "undo"
  PROVE  Grounded(state, events)
BY DEF Grounded

LEMMA IdleGrounded == \A events : Grounded(Idle, events)
BY DEF Grounded, Honest, Idle

LEMMA BeginGrounded ==
  ASSUME StepInv, NEW d \in Driver, NEW st, Begin(d, st), seen \subseteq seen'
  PROVE  \A e \in Driver : Grounded(drv'[e], seen')
<1> DEFINE state == [Idle EXCEPT !.pc = "load", !.streaming = st]
<1>1. state.view = Idle.view /\ state.work = Idle.work /\ state.todo = {} /\ state.pc = "load"
  BY DEF Idle
<1>2. Grounded(state, seen')
  BY <1>1, IdleGrounded, SameGrounded
<1> QED
  BY <1>2, BecomeGrounded DEF Begin

LEMMA LeaveGrounded ==
  ASSUME StepInv, NEW d \in Driver, Leave(d), seen \subseteq seen'
  PROVE  \A e \in Driver : Grounded(drv'[e], seen')
BY IdleGrounded, BecomeGrounded DEF Leave

LEMMA AbortGrounded ==
  ASSUME StepInv, NEW i \in Instance, NEW d \in Driver
  PROVE  Grounded(AbortedIn(i)[d], seen)
<1>1. drv[d] \in LocalState /\ Grounded(drv[d], seen)
  BY DEF StepInv, TypeOK, DriverState
<1> DEFINE state == Aborted(drv[d])
<1>2. /\ state.view = drv[d].view /\ state.todo = drv[d].todo /\ state.pc = drv[d].pc
      /\ \A s \in Step : state.work[s] = drv[d].work[s]
                         \/ (state.work[s] = "hit" /\ drv[d].work[s] = "exec")
  BY <1>1 DEF Aborted, LocalState
<1>3. Grounded(state, seen)
  BY <1>1, <1>2 DEF Grounded
<1> QED
  BY <1>1, <1>3 DEF AbortedIn

-----------------------------------------------------------------------------
(* What each step must establish.                                           *)

DriversGrounded == \A d \in Driver : Grounded(drv'[d], seen')

Carried ==
  /\ Honest(stepStatus', seen')
  /\ DriversGrounded
  /\ Gated(approval', seen')
  /\ Compensations(seen')

LEMMA UnchangedCarried ==
  ASSUME StepInv, DriversGrounded, UNCHANGED <<stepStatus, approval, seen>>
  PROVE  Carried
BY DEF StepInv, Events, Carried

LEMMA SameDrivers ==
  ASSUME StepInv, drv' = drv, seen \subseteq seen'
  PROVE  DriversGrounded
BY GroundedMonotone DEF StepInv, DriversGrounded

LEMMA UserCarried ==
  ASSUME StepInv, User
  PROVE  Carried
<1> USE DEF rowVars
<1>a. seen' = seen => seen \subseteq seen'
  OBVIOUS
<1>1. ASSUME NEW d \in Driver, \/ RunWorkflow(d) \/ ResumeRun(d)
                               \/ RunWorkflowStream(d) \/ ResumeRunStream(d)
      PROVE  Carried
  <2>1. UNCHANGED <<stepStatus, approval, seen>> /\ \E st \in BOOLEAN : Begin(d, st)
    BY <1>1 DEF RunWorkflow, ResumeRun, RunWorkflowStream, ResumeRunStream
  <2> QED
    BY <2>1, BeginGrounded, UnchangedCarried DEF DriversGrounded
<1>2. ASSUME NEW d \in Driver, Disconnect(d)
      PROVE  Carried
  <2>1. Home[d] \in Instance
    BY DeploymentAssumption
  <2>2. AbortedIn(Home[d]) \in [Driver -> DriverState]
    BY <2>1, AbortType DEF StepInv
  <2>3. ASSUME NEW e \in Driver
        PROVE  Grounded(drv'[e], seen)
    <3>1. Grounded(AbortedIn(Home[d])[e], seen)
      BY <2>1, AbortGrounded
    <3>2. drv'[e] \in {AbortedIn(Home[d])[e],
                       [AbortedIn(Home[d])[e] EXCEPT !.streaming = FALSE]}
      BY <1>2, <2>2 DEF Disconnect
    <3>3. AbortedIn(Home[d])[e] \in LocalState
      BY <2>2 DEF DriverState
    <3> DEFINE old == AbortedIn(Home[d])[e]
    <3>4. /\ drv'[e].view = old.view /\ drv'[e].work = old.work
          /\ drv'[e].todo = old.todo /\ drv'[e].pc = old.pc
      BY <3>2, <3>3 DEF LocalState
    <3> HIDE DEF old
    <3> QED
      BY <3>1, <3>4, SameGrounded DEF old
  <2> QED
    BY <1>2, <2>3, UnchangedCarried DEF Disconnect, DriversGrounded
<1>3. ASSUME PauseRun
      PROVE  Carried
  BY <1>3, SameDrivers, UnchangedCarried DEF PauseRun
<1>4. ASSUME NEW i \in Instance, CancelRun(i)
      PROVE  Carried
  BY <1>4, SameDrivers, UnchangedCarried DEF CancelRun
<1>5. ASSUME RetryReset
      PROVE  Carried
  <2>1. Honest(stepStatus', seen')
    BY <1>5 DEF RetryReset, StepInv, Honest
  <2> QED
    BY <1>5, <2>1, SameDrivers DEF RetryReset, Carried, StepInv, Events
<1>6. ASSUME NEW s \in ApprovalStep, DecideCheck(s)
      PROVE  Carried
  BY <1>6, SameDrivers, UnchangedCarried DEF DecideCheck
<1> QED
  BY <1>1, <1>2, <1>3, <1>4, <1>5, <1>6 DEF User

LEMMA HandlerCarried ==
  ASSUME StepInv, Handler
  PROVE  Carried
<1> USE DEF rowVars
<1>1. ASSUME NEW i \in Instance, CancelInProcess(i)
      PROVE  Carried
  BY <1>1, AbortGrounded, UnchangedCarried DEF CancelInProcess, DriversGrounded
<1>2. ASSUME NEW d \in Driver, RetryRelease(d)
      PROVE  Carried
  <2>1. DriversGrounded
    BY <1>2, BeginGrounded, SameDrivers DEF RetryRelease, DriversGrounded
  <2> QED
    BY <1>2, <2>1, UnchangedCarried DEF RetryRelease
<1>3. ASSUME NEW d \in Driver, DecideApproval(d)
      PROVE  Carried
  <2> PICK r \in deciding :
        /\ approval' = [approval EXCEPT ![r[1]][r[2]] = r[3]]
        /\ seen' = IF r[3] = "APPROVED" THEN seen \union {<<"approved", r[1]>>} ELSE seen
        /\ IF Inline THEN Begin(d, FALSE) ELSE UNCHANGED drv
        /\ UNCHANGED stepStatus
    BY <1>3 DEF DecideApproval
  <2>1. seen \subseteq seen'
    OBVIOUS
  <2>2. DriversGrounded
    BY <2>1, BeginGrounded, SameDrivers DEF DriversGrounded
  <2>3. Honest(stepStatus', seen')
    BY <2>1, HonestMonotone DEF StepInv
  <2>4. \A s \in Step, event \in {"succeeded", "compensated"} :
          <<event, s>> \in seen' => <<event, s>> \in seen
    OBVIOUS
  <2>5. Compensations(seen')
    BY <2>1, <2>4 DEF StepInv, Events, Compensations
  <2>6. ASSUME NEW s \in ApprovalStep
        PROVE  /\ <<"succeeded", s>> \in seen' => <<"approved", s>> \in seen'
               /\ \A n \in DOMAIN approval'[s] :
                    approval'[s][n] = "APPROVED" => <<"approved", s>> \in seen'
    <3>1. s \in Step
      BY DefinitionAssumption
    <3>2. <<"succeeded", s>> \in seen' => <<"approved", s>> \in seen'
      BY <2>1, <2>4, <3>1 DEF StepInv, Events, Gated
    <3>3. ASSUME NEW n \in DOMAIN approval'[s], approval'[s][n] = "APPROVED"
          PROVE  <<"approved", s>> \in seen'
      <4>1. approval \in [ApprovalStep -> Seq(ApprovalStatus)] /\ s \in DOMAIN approval
        BY DEF StepInv, TypeOK
      <4>2. CASE s = r[1] /\ n = r[2]
        BY <3>3, <4>1, <4>2
      <4>3. CASE ~(s = r[1] /\ n = r[2])
        <5>1. n \in DOMAIN approval[s] /\ approval'[s][n] = approval[s][n]
          BY <4>1, <4>3
        <5> QED
          BY <2>1, <3>3, <5>1 DEF StepInv, Events, Gated
      <4> QED
        BY <4>2, <4>3
    <3> QED
      BY <3>2, <3>3
  <2> QED
    BY <2>2, <2>3, <2>5, <2>6 DEF Carried, Gated
<1> QED
  BY <1>1, <1>2, <1>3 DEF Handler

\* What is dropped did succeed, and that is all that changes.
LEMMA DropCarried ==
  ASSUME StepInv, NEW drivers \in SUBSET Driver, Drop(drivers), UNCHANGED <<stepStatus, approval>>,
         \A d \in Driver : drv'[d] = Idle \/ drv'[d] = drv[d]
  PROVE  Carried
<1>1. seen \subseteq seen' /\ \A e \in seen' : e \in seen \/ e[1] = "dropped"
  BY DEF Drop
<1>2. \A t, event : event \in {"succeeded", "approved", "compensated"} =>
                     (<<event, t>> \in seen' <=> <<event, t>> \in seen)
  BY <1>1
<1>3. Honest(stepStatus', seen')
  BY <1>1, HonestMonotone DEF StepInv
<1>4. DriversGrounded
  BY <1>1, IdleGrounded, GroundedMonotone DEF StepInv, DriversGrounded
<1>5. Gated(approval', seen')
  BY <1>2 DEF StepInv, Events, Gated
<1>6. Compensations(seen')
  BY <1>2 DEF StepInv, Events, Compensations
<1> QED
  BY <1>3, <1>4, <1>5, <1>6 DEF Carried

LEMMA CrashCarried ==
  ASSUME StepInv, NEW i \in Instance, Crash(i)
  PROVE  Carried
<1>1. \A d \in Driver : drv'[d] = Idle \/ drv'[d] = drv[d]
  BY DEF Crash
<1> QED
  BY <1>1, DropCarried DEF Crash, rowVars

-----------------------------------------------------------------------------
(* The steps' generators.                                                   *)

LEMMA TurnGrounded ==
  ASSUME StepInv, NEW d \in Driver, NEW s \in Step, NEW w, Turn(d, s, w), seen \subseteq seen',
         drv[d].work[s] # "none",
         w \in {"save", "succeeded", "merging"} => <<"succeeded", s>> \in seen'
  PROVE  DriversGrounded
<1> DEFINE state == [drv[d] EXCEPT !.work[s] = w]
<1>1. drv[d] \in LocalState /\ Grounded(drv[d], seen')
  BY GroundedMonotone DEF StepInv, TypeOK, DriverState
<1>2. /\ state.view = drv[d].view /\ state.todo = drv[d].todo /\ state.pc = drv[d].pc
      /\ \A t \in Step : state.work[t] = IF t = s THEN w ELSE drv[d].work[t]
  BY <1>1 DEF LocalState
<1>3. Become(d, state)
  BY DEF Turn
<1> HIDE DEF state
<1>4. Grounded(state, seen')
  BY <1>1, <1>2 DEF Grounded
<1> QED
  BY <1>3, <1>4, BecomeGrounded DEF DriversGrounded

\* A step at work has its dependencies done, so any status of it is honest.
LEMMA StatusHonest ==
  ASSUME StepInv, NEW d \in Driver, NEW s \in Step, drv[d].work[s] # "none",
         seen \subseteq seen', NEW status, stepStatus' = [stepStatus EXCEPT ![s] = status],
         status = "SUCCEEDED" => <<"succeeded", s>> \in seen', status # "SKIPPED"
  PROVE  Honest(stepStatus', seen')
<1>1. Supported(s, seen') /\ Honest(stepStatus, seen')
  BY GroundedMonotone, HonestMonotone DEF StepInv, Grounded
<1> QED
  BY <1>1 DEF StepInv, TypeOK, Honest

LEMMA ErrsCarried ==
  ASSUME StepInv, NEW d \in Driver, NEW s \in Step, StepErrs(d, s), drv[d].work[s] # "none",
         UNCHANGED approval
  PROVE  Carried
<1>1. DriversGrounded
  BY TurnGrounded DEF StepErrs
<1>2. Honest(stepStatus', seen')
  BY StatusHonest DEF StepErrs, StepInv
<1> QED
  BY <1>1, <1>2 DEF StepErrs, Carried, StepInv, Events

LEMMA SucceedsCarried ==
  ASSUME StepInv, NEW d \in Driver, NEW s \in Step, StepSucceeds(d, s),
         drv[d].work[s] # "none", UNCHANGED approval,
         s \in ApprovalStep => <<"approved", s>> \in seen
  PROVE  Carried
<1> PICK now \in Clock :
      /\ stepStatus' = [stepStatus EXCEPT ![s] = "SUCCEEDED"]
      /\ seen' = seen \union {<<"succeeded", s>>}
                     \union (IF Behind(s, now) THEN {<<"behind", s>>} ELSE {})
      /\ Turn(d, s, "save")
  BY DEF StepSucceeds
<1>1. /\ seen \subseteq seen' /\ <<"succeeded", s>> \in seen'
      /\ seen' \subseteq seen \union {<<"succeeded", s>>, <<"behind", s>>}
  OBVIOUS
<1>2. DriversGrounded
  BY <1>1, TurnGrounded
<1>3. Honest(stepStatus', seen')
  BY <1>1, StatusHonest
<1>4. Gated(approval', seen')
  BY <1>1 DEF StepInv, Events, Gated
<1>5. Compensations(seen')
  BY <1>1 DEF StepInv, Events, Compensations
<1> QED
  BY <1>2, <1>3, <1>4, <1>5 DEF Carried

LEMMA StepWorkCarried ==
  ASSUME StepInv, NEW d \in Driver, NEW s \in Step, StepWork(d, s)
  PROVE  Carried
<1> USE DEF rowVars, requestVars
<1>a. drv[d].work[s] # "none"
  BY DEF StepWork, BeginAttempt, ExecuteSucceeds, ExecuteErrs, ExecuteAborts, ConsultApproval,
         AskApproval, ParkStep, SaveStep, CallFails, Working
<1>1. CASE BeginAttempt(d, s)
  <2> DEFINE state == [drv[d] EXCEPT !.work[s] = "exec",
                                     !.attempt[s] = drv[d].attempt[s] + 1]
  <2>1. drv[d] \in LocalState /\ Grounded(drv[d], seen)
    BY DEF StepInv, TypeOK, DriverState
  <2>2. /\ state.view = drv[d].view /\ state.todo = drv[d].todo /\ state.pc = drv[d].pc
        /\ \A t \in Step : state.work[t] = IF t = s THEN "exec" ELSE drv[d].work[t]
    BY <2>1 DEF LocalState
  <2>3. Become(d, state) /\ seen' = seen
    BY <1>1 DEF BeginAttempt
  <2> HIDE DEF state
  <2>4. Grounded(state, seen)
    BY <1>a, <2>1, <2>2 DEF Grounded
  <2>5. DriversGrounded
    BY <2>3, <2>4, BecomeGrounded DEF DriversGrounded
  <2>6. Honest(stepStatus', seen')
    BY <1>1, <1>a, StatusHonest DEF BeginAttempt
  <2> QED
    BY <1>1, <2>5, <2>6 DEF BeginAttempt, Carried, StepInv, Events
<1>2. CASE ExecuteSucceeds(d, s)
  BY <1>2, <1>a, SucceedsCarried DEF ExecuteSucceeds
<1>3. CASE ExecuteErrs(d, s)
  BY <1>3, <1>a, ErrsCarried DEF ExecuteErrs
<1>4. CASE ExecuteAborts(d, s)
  <2>1. DriversGrounded
    BY <1>4, <1>a, TurnGrounded DEF ExecuteAborts
  <2>2. Honest(stepStatus', seen')
    BY <1>4, <1>a, StatusHonest DEF ExecuteAborts
  <2> QED
    BY <1>4, <2>1, <2>2 DEF ExecuteAborts, Carried, StepInv, Events
<1>5. CASE ConsultApproval(d, s)
  <2>1. CASE (Turn(d, s, "ask") \/ Turn(d, s, "park"))
             /\ UNCHANGED <<stepStatus, completedAt, seen>>
    <3>1. DriversGrounded
      BY <1>a, <2>1, TurnGrounded
    <3> QED
      BY <1>5, <2>1, <3>1, UnchangedCarried DEF ConsultApproval
  <2>2. ASSUME NEW n \in DOMAIN approval[s], approval[s][n] = "APPROVED", StepSucceeds(d, s)
        PROVE  Carried
    <3>1. s \in ApprovalStep => <<"approved", s>> \in seen
      BY <2>2 DEF StepInv, Events, Gated
    <3> QED
      BY <1>5, <1>a, <2>2, <3>1, SucceedsCarried DEF ConsultApproval
  <2>3. CASE StepErrs(d, s)
    BY <1>5, <1>a, <2>3, ErrsCarried DEF ConsultApproval
  <2> QED
    BY <1>5, <2>1, <2>2, <2>3 DEF ConsultApproval
<1>6. CASE AskApproval(d, s)
  <2>1. DriversGrounded
    BY <1>6, <1>a, TurnGrounded DEF AskApproval
  <2>2. Gated(approval', seen')
    <3>1. ASSUME NEW t \in ApprovalStep, NEW n \in DOMAIN approval'[t],
                 approval'[t][n] = "APPROVED"
          PROVE  n \in DOMAIN approval[t] /\ approval[t][n] = "APPROVED"
      <4>1. approval \in [ApprovalStep -> Seq(ApprovalStatus)]
            /\ approval[t] \in Seq(ApprovalStatus)
        BY DEF StepInv, TypeOK
      <4>2. approval'[t] = IF t = s THEN Append(approval[t], "PENDING") ELSE approval[t]
        BY <1>6, <4>1 DEF AskApproval
      <4> QED
        BY <3>1, <4>1, <4>2
    <3> QED
      BY <1>6, <3>1 DEF AskApproval, StepInv, Events, Gated
  <2> QED
    BY <1>6, <2>1, <2>2 DEF AskApproval, Carried, StepInv, Events
<1>7. CASE ParkStep(d, s)
  <2>1. DriversGrounded
    BY <1>7, <1>a, TurnGrounded DEF ParkStep
  <2>2. Honest(stepStatus', seen')
    BY <1>7, <1>a, StatusHonest DEF ParkStep
  <2> QED
    BY <1>7, <2>1, <2>2 DEF ParkStep, Carried, StepInv, Events
<1>8. CASE SaveStep(d, s)
  <2>1. drv[d].work[s] = "save" /\ Turn(d, s, "succeeded") /\ seen' = seen
    BY <1>8 DEF SaveStep, Working
  <2>2. <<"succeeded", s>> \in seen'
    BY <2>1 DEF StepInv, Grounded
  <2>3. DriversGrounded
    BY <1>a, <2>1, <2>2, TurnGrounded
  <2> QED
    BY <1>8, <2>3, UnchangedCarried DEF SaveStep
<1>9. CASE CallFails(d, s)
  BY <1>9, <1>a, ErrsCarried DEF CallFails
<1> QED
  BY <1>1, <1>2, <1>3, <1>4, <1>5, <1>6, <1>7, <1>8, <1>9 DEF StepWork

-----------------------------------------------------------------------------
(* The driver's own steps.                                                  *)

LEMMA MoveCarried ==
  ASSUME StepInv, NEW d \in Driver, NEW state, Become(d, state),
         UNCHANGED <<stepStatus, approval, seen>>, Grounded(state, seen)
  PROVE  Carried
BY BecomeGrounded, UnchangedCarried DEF DriversGrounded

LEMMA LeaveCarried ==
  ASSUME StepInv, NEW d \in Driver, Leave(d), UNCHANGED <<stepStatus, approval, seen>>
  PROVE  Carried
BY LeaveGrounded, UnchangedCarried DEF DriversGrounded

LEMMA MergeCarried ==
  ASSUME StepInv, NEW d \in Driver, NEW s \in Step, NEW w \in {"none", "merging"}, NEW pc,
         Become(d, [drv[d] EXCEPT !.work[s] = w, !.pc = pc]),
         drv[d].work[s] \in {"succeeded", "merging"}, pc # "undo",
         UNCHANGED <<stepStatus, approval, seen>>
  PROVE  Carried
<1> DEFINE state == [drv[d] EXCEPT !.work[s] = w, !.pc = pc]
<1>1. drv[d] \in LocalState /\ Grounded(drv[d], seen)
  BY DEF StepInv, TypeOK, DriverState
<1>2. /\ state.view = drv[d].view /\ state.todo = drv[d].todo /\ state.pc = pc
      /\ \A t \in Step : state.work[t] = IF t = s THEN w ELSE drv[d].work[t]
  BY <1>1 DEF LocalState
<1> HIDE DEF state
<1>3. Grounded(state, seen)
  BY <1>1, <1>2 DEF Grounded
<1> QED
  BY <1>3, MoveCarried DEF state

\* A ready step has its dependencies done: the view never claims more.
LEMMA ReadySupported ==
  ASSUME NEW state, NEW events, Grounded(state, events), NEW s \in Ready(state.view)
  PROVE  Supported(s, events)
<1>1. \A t \in DependsOn[s] : t \in Step /\ state.view[t] \in {"SUCCEEDED", "SKIPPED"}
  BY DefinitionAssumption DEF Ready, SatisfiedStep
<1> QED
  BY <1>1 DEF Grounded, Honest, Supported, Done

LEMMA StartWaveCarried ==
  ASSUME StepInv, NEW d \in Driver, StartWave(d)
  PROVE  Carried
<1> PICK skipped \in SUBSET (Ready(drv[d].view) \intersect ConditionalStep) :
      /\ stepStatus' = Skipping(stepStatus, skipped)
      /\ seen' = seen \union ({"skipped"} \X skipped)
      /\ Become(d, [drv[d] EXCEPT !.copy = run,
                                  !.view = Skipping(@, skipped),
                                  !.work = Wave(Ready(drv[d].view) \ skipped),
                                  !.attempt = [s \in Step |-> 0],
                                  !.pc = IF skipped = Ready(drv[d].view) THEN "loop"
                                                                         ELSE "wave"])
  BY DEF StartWave
<1> DEFINE pc == IF skipped = Ready(drv[d].view) THEN "loop" ELSE "wave"
           state == [drv[d] EXCEPT !.copy = run,
                                  !.view = Skipping(@, skipped),
                                  !.work = Wave(Ready(drv[d].view) \ skipped),
                                  !.attempt = [s \in Step |-> 0],
                                  !.pc = pc]
<1>1. seen \subseteq seen' /\ \A s \in skipped : <<"skipped", s>> \in seen'
  OBVIOUS
<1>2. \A s \in Step, event \in {"succeeded", "approved", "compensated"} :
        <<event, s>> \in seen' => <<event, s>> \in seen
  OBVIOUS
<1>3. drv[d] \in LocalState /\ Grounded(drv[d], seen')
  BY <1>1, GroundedMonotone DEF StepInv, TypeOK, DriverState
<1>4. \A s \in Ready(drv[d].view) : Supported(s, seen')
  BY <1>3, ReadySupported
<1>5. ASSUME NEW map, Honest(map, seen')
      PROVE  Honest(Skipping(map, skipped), seen')
  BY <1>1, <1>4, <1>5 DEF Honest, Skipping
<1>6. Honest(stepStatus', seen')
  BY <1>1, <1>5, HonestMonotone DEF StepInv
<1>7. /\ state.view = Skipping(drv[d].view, skipped) /\ state.todo = drv[d].todo
      /\ state.work = Wave(Ready(drv[d].view) \ skipped) /\ state.pc \in {"loop", "wave"}
  BY <1>3 DEF LocalState
<1>8. Become(d, state)
  OBVIOUS
<1> HIDE DEF state
<1>9. Grounded(state, seen')
  <2>1. Honest(state.view, seen')
    BY <1>3, <1>5, <1>7 DEF Grounded
  <2>2. ASSUME NEW s \in Step
        PROVE  /\ state.work[s] # "none" \/ s \in state.todo => Supported(s, seen')
               /\ state.work[s] \notin {"save", "succeeded", "merging"}
    BY <1>3, <1>4, <1>7 DEF Grounded, Wave
  <2> QED
    BY <1>7, <2>1, <2>2 DEF Grounded
<1>10. DriversGrounded
  BY <1>1, <1>8, <1>9, BecomeGrounded DEF DriversGrounded
<1>11. approval' = approval
  BY DEF StartWave
<1>12. Gated(approval', seen')
  BY <1>1, <1>2, <1>11, DefinitionAssumption DEF StepInv, Events, Gated
<1>13. Compensations(seen')
  BY <1>1, <1>2 DEF StepInv, Events, Compensations
<1> QED
  BY <1>6, <1>10, <1>12, <1>13 DEF Carried

LEMMA CompensateCarried ==
  ASSUME StepInv, NEW d \in Driver, Compensate(d)
  PROVE  Carried
<1>1. drv[d] \in LocalState /\ Grounded(drv[d], seen) /\ drv[d].pc = "undo"
  BY DEF StepInv, TypeOK, DriverState, Compensate, At
<1>2. CASE Goto(d, "fail") /\ UNCHANGED seen
  <2> DEFINE state == [drv[d] EXCEPT !.pc = "fail"]
  <2>1. /\ state.view = drv[d].view /\ state.work = drv[d].work
        /\ state.todo = drv[d].todo /\ state.pc = "fail"
    BY <1>1 DEF LocalState
  <2>2. Grounded(state, seen)
    BY <1>1, <2>1, SameGrounded
  <2> QED
    BY <1>2, <2>2, MoveCarried DEF Compensate, Goto, rowVars
<1>3. ASSUME NEW s \in drv[d].todo, Become(d, [drv[d] EXCEPT !.todo = @ \ {s}]),
             seen' \in {seen \union {<<"compensated", s>>}, seen}
      PROVE  Carried
  <2> DEFINE state == [drv[d] EXCEPT !.todo = @ \ {s}]
  <2>1. seen \subseteq seen' /\ s \in Step /\ <<"succeeded", s>> \in seen
    BY <1>1, <1>3 DEF LocalState, Grounded
  <2>2. /\ state.view = drv[d].view /\ state.work = drv[d].work
        /\ state.todo \subseteq drv[d].todo /\ state.pc = "undo"
    BY <1>1 DEF LocalState
  <2>3. Grounded(drv[d], seen')
    BY <1>1, <2>1, GroundedMonotone
  <2>4. Grounded(state, seen')
    BY <1>1, <2>2, <2>3, SameGrounded
  <2> HIDE DEF state
  <2>5. DriversGrounded
    BY <1>3, <2>1, <2>4, BecomeGrounded DEF DriversGrounded, state
  <2>6. Honest(stepStatus', seen')
    BY <2>1, HonestMonotone DEF Compensate, rowVars, StepInv
  <2>7. Compensations(seen')
    BY <1>3, <2>1 DEF StepInv, Events, Compensations
  <2>8. Gated(approval', seen')
    <3>1. \A t \in ApprovalStep : <<"succeeded", t>> \in seen' => <<"succeeded", t>> \in seen
      BY <1>3
    <3>2. approval' = approval
      BY DEF Compensate, rowVars
    <3> QED
      BY <2>1, <3>1, <3>2 DEF StepInv, Events, Gated
  <2> QED
    BY <2>5, <2>6, <2>7, <2>8 DEF Carried
<1> QED
  BY <1>2, <1>3 DEF Compensate, Latest

LEMMA DriveCarried ==
  ASSUME StepInv, NEW d \in Driver, Drive(d)
  PROVE  Carried
<1> USE DEF rowVars, requestVars
<1>a. drv[d] \in LocalState /\ Grounded(drv[d], seen)
  BY DEF StepInv, TypeOK, DriverState
\* Moves that touch neither view nor work nor todo, and do not lead to undo.
<1>b. ASSUME NEW pc \in Pc \ {"undo"}
      PROVE  /\ Grounded([drv[d] EXCEPT !.pc = pc], seen)
             /\ Grounded([drv[d] EXCEPT !.copy = run, !.pc = pc], seen)
  <2> DEFINE moved == [drv[d] EXCEPT !.pc = pc]
             reread == [drv[d] EXCEPT !.copy = run, !.pc = pc]
  <2>1. /\ moved.view = drv[d].view /\ moved.work = drv[d].work
        /\ moved.todo = drv[d].todo /\ moved.pc = pc
    BY <1>a DEF LocalState
  <2>2. /\ reread.view = drv[d].view /\ reread.work = drv[d].work
        /\ reread.todo = drv[d].todo /\ reread.pc = pc
    BY <1>a DEF LocalState
  <2> HIDE DEF moved, reread
  <2>3. Grounded(moved, seen) /\ Grounded(reread, seen)
    BY <1>a, <2>1, <2>2, SameGrounded
  <2> QED
    BY <2>3 DEF moved, reread
<1>1. CASE Register(d)
  BY <1>1, <1>b, MoveCarried DEF Register, Goto, Pc
<1>2. CASE FindRun(d)
  BY <1>2, <1>b, MoveCarried DEF FindRun, Pc
<1>3. CASE ClaimRun(d)
  BY <1>3, <1>b, MoveCarried, LeaveCarried DEF ClaimRun, Goto, Pc
<1>4. CASE Reload(d)
  BY <1>4, <1>b, MoveCarried DEF Reload, Pc
<1>5. CASE ListSteps(d)
  <2> DEFINE state == [drv[d] EXCEPT !.view = stepStatus,
                                     !.todo = {s \in Step : stepStatus[s] = "WAITING_APPROVAL"},
                                     !.pc = "reconcile"]
  <2>1. /\ state.view = stepStatus /\ state.work = drv[d].work /\ state.pc = "reconcile"
        /\ \A s \in state.todo : s \in Step /\ stepStatus[s] = "WAITING_APPROVAL"
    BY <1>a DEF LocalState
  <2>2. Become(d, state) /\ UNCHANGED <<stepStatus, approval, seen>>
    BY <1>5 DEF ListSteps
  <2> HIDE DEF state
  <2>3. Grounded(state, seen)
    BY <1>a, <2>1 DEF Grounded, Honest, StepInv
  <2> QED
    BY <2>2, <2>3, MoveCarried
<1>6. CASE Reconcile(d)
  <2>1. CASE Goto(d, "loop")
    BY <1>6, <2>1, <1>b, MoveCarried DEF Reconcile, Goto, Pc
  <2>2. ASSUME NEW s \in drv[d].todo,
               Become(d, [drv[d] EXCEPT !.todo = @ \ {s}, !.work = Wave({s}),
                                        !.attempt[s] = 0, !.pc = "wave"])
        PROVE  Carried
    <3> DEFINE state == [drv[d] EXCEPT !.todo = @ \ {s}, !.work = Wave({s}),
                                       !.attempt[s] = 0, !.pc = "wave"]
    <3>1. /\ state.view = drv[d].view /\ state.work = Wave({s}) /\ state.pc = "wave"
          /\ state.todo \subseteq drv[d].todo
      BY <1>a DEF LocalState
    <3> HIDE DEF state
    <3>2. \A t \in Step : state.work[t] = IF t = s THEN "mark" ELSE "none"
      BY <3>1 DEF Wave
    <3>3. Grounded(state, seen)
      BY <1>a, <2>2, <3>1, <3>2 DEF Grounded
    <3> QED
      BY <1>6, <2>2, <3>3, MoveCarried DEF Reconcile, state
  <2> QED
    BY <1>6, <2>1, <2>2 DEF Reconcile
<1>7. ASSUME NEW s \in Step, StepWork(d, s)
      PROVE  Carried
  BY <1>7, StepWorkCarried
<1>8. CASE EndWave(d)
  <2> DEFINE view == [s \in Step |-> IF drv[d].work[s] = "none"
                                       THEN drv[d].view[s] ELSE Recorded[drv[d].work[s]]]
             state == [drv[d] EXCEPT !.view = view, !.pc = "merge"]
  <2>1. /\ state.view = view /\ state.work = drv[d].work /\ state.pc = "merge"
        /\ state.todo = drv[d].todo
    BY <1>a DEF LocalState
  <2>2. ASSUME NEW s \in Step, drv[d].work[s] # "none"
        PROVE  /\ view[s] # "SKIPPED"
               /\ view[s] = "SUCCEEDED" => drv[d].work[s] = "succeeded"
    <3>1. drv[d].work[s] \in Outcome
      BY <1>8, <2>2 DEF EndWave
    <3>2. view[s] = Recorded[drv[d].work[s]]
      BY <2>2
    <3> QED
      BY <3>1, <3>2 DEF Outcome, Recorded
  <2>3. \A s \in Step : drv[d].work[s] = "none" => view[s] = drv[d].view[s]
    OBVIOUS
  <2>4. Become(d, state) /\ UNCHANGED <<stepStatus, approval, seen>>
    BY <1>8 DEF EndWave
  <2> HIDE DEF state, view
  <2>5. Honest(view, seen)
    BY <1>a, <2>2, <2>3 DEF Grounded, Honest
  <2>6. Grounded(state, seen)
    BY <1>a, <2>1, <2>5 DEF Grounded
  <2> QED
    BY <2>4, <2>6, MoveCarried
<1>9. CASE MergeOutput(d)
  BY <1>9, MergeCarried DEF MergeOutput
<1>10. CASE RereadRun(d)
  BY <1>10, <1>b, MoveCarried DEF RereadRun, Pc
<1>11. CASE RemergeOutput(d)
  <2>1. CASE Current(drv[d].copy)
    BY <1>11, <2>1, MergeCarried DEF RemergeOutput
  <2>2. CASE ~Current(drv[d].copy)
    <3>1. Leave(d) /\ Drop({d})
      BY <1>11, <2>2 DEF RemergeOutput
    <3>2. \A e \in Driver : drv'[e] = Idle \/ drv'[e] = drv[e]
      BY <3>1 DEF Leave, Become, StepInv, TypeOK
    <3> QED
      BY <1>11, <3>1, <3>2, DropCarried DEF RemergeOutput
  <2> QED
    BY <2>1, <2>2
<1>12. CASE AfterWave(d)
  <2> DEFINE pc == IF \E s \in Step : drv[d].work[s] = "failed" THEN "rollback" ELSE "reconcile"
             state == [drv[d] EXCEPT !.work = Wave({}), !.pc = pc]
  <2>1. /\ state.view = drv[d].view /\ state.work = Wave({}) /\ state.todo = drv[d].todo
        /\ state.pc \in {"rollback", "reconcile"}
    BY <1>a DEF LocalState
  <2>2. Become(d, state) /\ UNCHANGED <<stepStatus, approval, seen>>
    BY <1>12 DEF AfterWave
  <2> HIDE DEF state
  <2>3. Grounded(state, seen)
    BY <1>a, <2>1 DEF Grounded, Wave
  <2> QED
    BY <2>2, <2>3, MoveCarried
<1>13. CASE StopLoop(d)
  BY <1>13, LeaveCarried DEF StopLoop
<1>14. CASE Conclude(d)
  <2>1. Course(drv[d]) \in Pc \ {"undo"}
    BY DEF Course, Pc
  <2> QED
    BY <1>14, <1>b, <2>1, MoveCarried DEF Conclude
<1>15. CASE StartWave(d)
  BY <1>15, StartWaveCarried
<1>16. CASE GiveUp(d)
  BY <1>16, LeaveCarried DEF GiveUp
<1>17. CASE ListSucceeded(d)
  <2> DEFINE state == [drv[d] EXCEPT !.todo = {s \in CompensatedStep : stepStatus[s] = "SUCCEEDED"},
                                     !.pc = "undo"]
  <2>1. /\ state.view = drv[d].view /\ state.work = drv[d].work /\ state.pc = "undo"
        /\ state.todo = {s \in CompensatedStep : stepStatus[s] = "SUCCEEDED"}
    BY <1>a DEF LocalState
  <2>2. Become(d, state) /\ UNCHANGED <<stepStatus, approval, seen>>
    BY <1>17 DEF ListSucceeded
  <2> HIDE DEF state
  <2>3. \A s \in state.todo : s \in Step /\ stepStatus[s] = "SUCCEEDED"
    BY <2>1, DefinitionAssumption
  <2>4. Grounded(state, seen)
    BY <1>a, <2>1, <2>3 DEF Grounded, Honest, StepInv
  <2> QED
    BY <2>2, <2>4, MoveCarried
<1>18. CASE Compensate(d)
  BY <1>18, CompensateCarried
<1>19. CASE Settle(d)
  BY <1>19, LeaveCarried DEF Settle
<1> QED
  BY <1>1, <1>2, <1>3, <1>4, <1>5, <1>6, <1>7, <1>8, <1>9, <1>10, <1>11, <1>12, <1>13,
     <1>14, <1>15, <1>16, <1>17, <1>18, <1>19 DEF Drive

-----------------------------------------------------------------------------
LEMMA StepInvInit == Init => StepInv
<1> SUFFICES ASSUME Init PROVE StepInv
  OBVIOUS
<1>1. TypeOK
  BY TypeInit
<1>2. \A d \in Driver : Grounded(drv[d], seen)
  BY IdleGrounded DEF Init
<1>3. Honest(stepStatus, seen) /\ Compensations(seen)
  BY DEF Init, Honest, Compensations
<1>4. Gated(approval, seen)
  BY DEF Init, Gated
<1> QED
  BY <1>1, <1>2, <1>3, <1>4 DEF StepInv, Events

LEMMA StepInvStep == StepInv /\ [Next]_vars => StepInv'
<1> SUFFICES ASSUME StepInv, [Next]_vars PROVE StepInv'
  OBVIOUS
<1>1. TypeOK'
  BY TypeStep DEF StepInv
<1>2. CASE UNCHANGED vars
  BY <1>1, <1>2 DEF StepInv, Events, vars
<1>3. CASE Next
  <2>1. Carried
    BY <1>3, DriveCarried, HandlerCarried, UserCarried, CrashCarried DEF Next
  <2> QED
    BY <1>1, <2>1 DEF Carried, DriversGrounded, StepInv, Events
<1> QED
  BY <1>2, <1>3

LEMMA StepInvariant == Spec => []StepInv
BY StepInvInit, StepInvStep, PTL DEF Spec

\* The scheduler's map of statuses may be stale, with several drivers at work,
\* but what it says has happened has: runLoop never starts, skips or finishes a
\* step before the steps it depends on.
THEOREM DependenciesHold == Spec => []DependenciesRespected
<1>1. StepInv => DependenciesRespected
  BY DEF StepInv, Honest, Supported, Done, DependenciesRespected, Happened
<1> QED
  BY <1>1, StepInvariant, PTL

\* ApprovalStepExecutor lets nothing past a step without an approved row.
THEOREM GateHolds == Spec => []ApprovalGate
<1>1. StepInv => ApprovalGate
  BY DefinitionAssumption
  DEF StepInv, Events, Honest, Supported, Done, Gated, ApprovalGate, Happened
<1> QED
  BY <1>1, StepInvariant, PTL

\* runCompensation only undoes steps that did succeed.
THEOREM CompensationSound == Spec => []OnlySucceededIsCompensated
<1>1. StepInv => OnlySucceededIsCompensated
  BY DEF StepInv, Events, Compensations, OnlySucceededIsCompensated, Happened
<1> QED
  BY <1>1, StepInvariant, PTL
==============================================================================
