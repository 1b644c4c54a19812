-------------------------- MODULE AgentApprovalProofs --------------------------
(***************************************************************************)
(* Proofs about AgentApproval, for any number of approvals, tools and      *)
(* executors, and any number of faults and redeliveries.                   *)
(***************************************************************************)
EXTENDS AgentApproval, FiniteSets, FiniteSetTheorems, TLAPS

\* The steps that write the run's row when an executor is done with it.
Settle(e) == Park(e) \/ ParkFails(e) \/ Refuse(e) \/ Finish(e) \/ ReportFails(e)

\* The initial states are well typed.
LEMMA TypeInit == Init => TypeOK
  BY ApprovalAssumption
     DEF ApprovalAssumption, Init, TypeOK, RunStatus, ApprovalStatus, JobState, Pc, Local, Rest,
         NoJob, Resuming

\* Every step leads from well-typed states to well-typed states.
LEMMA TypeStep == TypeOK /\ [Next]_vars => TypeOK'
<1> SUFFICES ASSUME TypeOK, [Next]_vars
             PROVE  TypeOK'
  OBVIOUS
<1> USE ApprovalAssumption DEF ApprovalAssumption, TypeOK, Local, Pc, Resuming
<1>1. ASSUME NEW e \in Executor, AskForTool(e) \/ AskFails(e)
      PROVE  TypeOK'
  <2>1. decision' \in [Approval -> ApprovalStatus \union {"none"}]
    BY <1>1 DEF AskForTool, AskFails, FindOrCreatePending, ApprovalStatus
  <2> QED
    BY <1>1, <2>1 DEF AskForTool, AskFails, Fault, Goto, At
<1>2. ASSUME NEW e \in Executor, Return(e)
      PROVE  /\ exec' \in [Executor -> Local]
             /\ \A f \in Executor : exec'[f].pc \in Resuming => exec'[f].for \in Approval
             /\ job' \in [Approval -> JobState]
  BY <1>2 DEF Return, Rest, Done, JobState
<1>3. ASSUME NEW e \in Executor, Settle(e)
      PROVE  TypeOK'
  <2>1. PICK status \in RunStatus : UpdateAgentRun(e, status)
    BY <1>3 DEF Settle, Park, ParkFails, Refuse, Finish, ReportFails, RunStatus, Ended
  <2>2. /\ run' \in RunStatus
        /\ exec' \in [Executor -> Local]
        /\ \A f \in Executor : exec'[f].pc \in Resuming => exec'[f].for \in Approval
        /\ job' \in [Approval -> JobState]
    <3>1. CASE Return(e)
      BY <1>2, <2>1, <3>1 DEF UpdateAgentRun
    <3>2. CASE Goto(e, "report") /\ UNCHANGED job
      BY <2>1, <3>2 DEF UpdateAgentRun, Goto
    <3> QED
      BY <2>1, <3>1, <3>2 DEF UpdateAgentRun
  <2> QED
    BY <1>3, <2>2 DEF Settle, Park, ParkFails, Refuse, Finish, ReportFails, Fault
<1>4. ASSUME NEW e \in Executor, FindRun(e)
      PROVE  TypeOK'
  <2>1. CASE run = "WAITING_APPROVAL"
    BY <1>4, <2>1 DEF FindRun, Goto, At
  <2>2. CASE run # "WAITING_APPROVAL"
    BY <1>2, <1>4, <2>2 DEF FindRun
  <2> QED
    BY <2>1, <2>2
<1>5. ASSUME NEW e \in Executor, ClaimRunForResume(e)
      PROVE  TypeOK'
  <2>1. CASE run = "WAITING_APPROVAL"
    BY <1>5, <2>1 DEF ClaimRunForResume, Goto, At, RunStatus
  <2>2. CASE run # "WAITING_APPROVAL"
    BY <1>2, <1>5, <2>2 DEF ClaimRunForResume
  <2> QED
    BY <2>1, <2>2
<1>6. ASSUME NEW e \in Executor, ExecuteApprovedActionIfNeeded(e)
      PROVE  TypeOK'
  BY <1>6 DEF ExecuteApprovedActionIfNeeded, Goto, At
<1>7. ASSUME NEW e \in Executor, ResumeFails(e) \/ Report(e)
      PROVE  TypeOK'
  BY <1>2, <1>7 DEF ResumeFails, Report, Fault
<1>8. ASSUME NEW e \in Executor, Die(e)
      PROVE  TypeOK'
  BY <1>8 DEF Die, Fault, Rest
<1>9. ASSUME NEW n \in Approval, MarkDecided(n)
      PROVE  TypeOK'
  BY <1>9 DEF MarkDecided, ApprovalStatus
<1>10. ASSUME NEW n \in Approval, EnqueueResume(n) \/ EnqueueFails(n) \/ Redeliver(n)
       PROVE  TypeOK'
  <2>1. Waiting \in JobState
    BY DEF Waiting, JobState
  <2>2. CASE EnqueueResume(n)
    BY <2>1, <2>2 DEF EnqueueResume
  <2>3. CASE EnqueueFails(n)
    BY <2>3 DEF EnqueueFails, Fault
  <2>4. CASE Redeliver(n)
    <3>1. redelivered[n] + 1 \in 0..MaxRedeliveries
      BY <2>4 DEF Redeliver
    <3>2. redelivered' \in [Approval -> 0..MaxRedeliveries]
      BY <2>4, <3>1 DEF Redeliver
    <3> QED
      BY <2>1, <2>4, <3>2 DEF Redeliver
  <2> QED
    BY <1>10, <2>2, <2>3, <2>4
<1>11. ASSUME NEW n \in Approval, NEW e \in Executor, Deliver(e, n)
       PROVE  TypeOK'
  BY <1>11 DEF Deliver, Locked, JobState
<1>12. CASE UNCHANGED vars
  BY <1>12 DEF vars
<1> QED
  BY <1>1, <1>3, <1>4, <1>5, <1>6, <1>7, <1>8, <1>9, <1>10, <1>11, <1>12 DEF Next, Execute, Settle

\* Every reachable state is well typed.
THEOREM TypeCorrect == Spec => []TypeOK
<1> QED
  BY TypeInit, TypeStep, PTL DEF Spec

-----------------------------------------------------------------------------
(* One driver at a time.                                                    *)

\* Only a claim makes an executor drive the run, and only an executor that
\* drives it takes it out of RUNNING.
LEMMA DriverStep == TypeOK /\ OneDriver /\ [Next]_vars => OneDriver'
<1> SUFFICES ASSUME TypeOK, OneDriver, [Next]_vars
             PROVE  OneDriver'
  OBVIOUS
<1> USE DEF TypeOK, Local, OneDriver, Driving
<1>1. ASSUME NEW e \in Executor, AskForTool(e) \/ AskFails(e) \/ ExecuteApprovedActionIfNeeded(e)
      PROVE  OneDriver'
  BY <1>1 DEF AskForTool, AskFails, ExecuteApprovedActionIfNeeded, Goto, At
<1>2. ASSUME NEW e \in Executor, Settle(e)
      PROVE  OneDriver'
  <2>1. \A f \in Executor : exec'[f].pc \in Driving => f # e /\ exec'[f] = exec[f]
    BY <1>2 DEF Settle, Park, ParkFails, Refuse, Finish, ReportFails, UpdateAgentRun, Goto, Return,
                Rest
  <2>2. CASE exec[e].pc \in Driving
    BY <2>1, <2>2
  <2>3. CASE ReportFails(e)
    BY <2>1, <2>3 DEF ReportFails, UpdateAgentRun
  <2> QED
    BY <1>2, <2>2, <2>3 DEF Settle, Park, ParkFails, Refuse, Finish, At
<1>3. ASSUME NEW e \in Executor, FindRun(e) \/ Report(e)
      PROVE  OneDriver'
  BY <1>3 DEF FindRun, Report, Goto, Return, Rest, At
<1>4. ASSUME NEW e \in Executor, ClaimRunForResume(e)
      PROVE  OneDriver'
  <2>1. CASE run = "WAITING_APPROVAL"
    BY <1>4, <2>1 DEF ClaimRunForResume, Goto, At
  <2>2. CASE run # "WAITING_APPROVAL"
    BY <1>4, <2>2 DEF ClaimRunForResume, Return, Rest, At
  <2> QED
    BY <2>1, <2>2
<1>5. ASSUME NEW e \in Executor, ResumeFails(e) \/ Die(e)
      PROVE  OneDriver'
  <2>1. \A f \in Executor : exec'[f].pc \in Driving => exec'[f] = exec[f]
    BY <1>5 DEF ResumeFails, Die, Return, Rest
  <2>2. UNCHANGED <<run, misreports>>
    BY <1>5 DEF ResumeFails, Die
  <2> QED
    BY <2>1, <2>2
<1>6. ASSUME NEW n \in Approval,
             MarkDecided(n) \/ EnqueueResume(n) \/ EnqueueFails(n) \/ Redeliver(n)
      PROVE  OneDriver'
  BY <1>6 DEF MarkDecided, EnqueueResume, EnqueueFails, Redeliver
<1>7. ASSUME NEW n \in Approval, NEW e \in Executor, Deliver(e, n)
      PROVE  OneDriver'
  BY <1>7 DEF Deliver
<1>8. CASE UNCHANGED vars
  BY <1>8 DEF vars
<1> QED
  BY <1>1, <1>2, <1>3, <1>4, <1>5, <1>6, <1>7, <1>8 DEF Next, Execute, Settle

\* Executors never drive one run together, whatever the queue redelivers.
THEOREM DriversExclude == Spec => []OneDriver
<1>1. Init => OneDriver
  BY DEF Init, OneDriver, Rest, Driving
<1> QED
  BY <1>1, TypeCorrect, DriverStep, PTL DEF Spec

\* A run that has ended keeps its status: only its driver could change it.
THEOREM EndsForGood == Spec => EndIsFinal
<1>1. TypeOK /\ OneDriver /\ [Next]_vars => [(run \in Ended /\ misreports' = 0) => run' = run]_vars
  <2> SUFFICES ASSUME TypeOK, OneDriver, [Next]_vars, run \in Ended, misreports' = 0
               PROVE  run' = run
    OBVIOUS
  <2> USE DEF TypeOK, Local, OneDriver, Driving, Ended
  <2>0. misreports' # misreports => misreports' > 0
    BY DEF Next, Execute, AskForTool, AskFails, Park, ParkFails, Refuse, Finish, Report,
           ReportFails, FindRun, ClaimRunForResume, ExecuteApprovedActionIfNeeded, ResumeFails,
           Die, MarkDecided, EnqueueResume, EnqueueFails, Redeliver, Deliver, vars
  <2>1. ASSUME NEW e \in Executor, Execute(e) \/ AskFails(e) \/ ParkFails(e) \/ ReportFails(e)
        PROVE  run' = run
    <3>1. exec[e].pc \notin Driving
      BY <2>0 DEF Ended
    <3> QED
      BY <2>1, <3>1 DEF Execute, AskForTool, AskFails, Park, ParkFails, Refuse, Finish, Report,
                        ReportFails, FindRun, ClaimRunForResume, ExecuteApprovedActionIfNeeded, At
  <2>2. ASSUME NEW e \in Executor, ResumeFails(e) \/ Die(e)
        PROVE  run' = run
    BY <2>2 DEF ResumeFails, Die
  <2>3. ASSUME NEW n \in Approval,
               \/ MarkDecided(n) \/ EnqueueResume(n) \/ EnqueueFails(n) \/ Redeliver(n)
               \/ \E e \in Executor : Deliver(e, n)
        PROVE  run' = run
    BY <2>3 DEF MarkDecided, EnqueueResume, EnqueueFails, Redeliver, Deliver
  <2>4. CASE UNCHANGED vars
    BY <2>4 DEF vars
  <2> QED
    BY <2>1, <2>2, <2>3, <2>4 DEF Next
<1> QED
  BY <1>1, TypeCorrect, DriversExclude, PTL DEF Spec, EndIsFinal

-----------------------------------------------------------------------------
(* What is executed was approved.                                           *)

\* A decision, once taken, is never taken back.
LEMMA DecisionsStand ==
  ASSUME TypeOK, [Next]_vars, NEW n \in Approval, decision[n] = "APPROVED"
  PROVE  decision'[n] = "APPROVED"
<1> USE DEF TypeOK
<1>1. ASSUME NEW e \in Executor, AskForTool(e) \/ AskFails(e)
      PROVE  decision'[n] = "APPROVED"
  BY <1>1 DEF AskForTool, AskFails, FindOrCreatePending
<1>2. ASSUME NEW m \in Approval, MarkDecided(m)
      PROVE  decision'[n] = "APPROVED"
  BY <1>2 DEF MarkDecided
<1> QED
  BY <1>1, <1>2
     DEF Next, Execute, Park, ParkFails, Refuse, Finish, Report, ReportFails, FindRun,
         ClaimRunForResume, ExecuteApprovedActionIfNeeded, ResumeFails, Die, EnqueueResume,
         EnqueueFails, Redeliver, Deliver, vars

\* No call is executed that was not approved.
THEOREM ApprovedOnly == Spec => []OnlyApprovedIsExecuted
<1>1. Init => OnlyApprovedIsExecuted
  BY DEF Init, OnlyApprovedIsExecuted
<1>2. TypeOK /\ OnlyApprovedIsExecuted /\ [Next]_vars => OnlyApprovedIsExecuted'
  <2> SUFFICES ASSUME TypeOK, OnlyApprovedIsExecuted, [Next]_vars,
                      NEW n \in Approval, effects'[n] > 0
               PROVE  decision'[n] = "APPROVED"
    BY DEF OnlyApprovedIsExecuted
  <2>1. ASSUME NEW e \in Executor, ExecuteApprovedActionIfNeeded(e)
        PROVE  decision'[n] = "APPROVED"
    BY <2>1 DEF ExecuteApprovedActionIfNeeded, TypeOK, OnlyApprovedIsExecuted
  <2>2. CASE UNCHANGED effects
    BY <2>2, DecisionsStand DEF OnlyApprovedIsExecuted
  <2> QED
    BY <2>1, <2>2
       DEF Next, Execute, AskForTool, AskFails, Park, ParkFails, Refuse, Finish, Report,
           ReportFails, FindRun, ClaimRunForResume, ResumeFails, Die, MarkDecided, EnqueueResume,
           EnqueueFails, Redeliver, Deliver, vars
<1> QED
  BY <1>1, <1>2, TypeCorrect, PTL DEF Spec

-----------------------------------------------------------------------------
(* Without redelivery each approved call is executed at most once.          *)

\* The job of n before any worker has taken it.
NotYetTaken(n) == job[n] \in {NoJob, Waiting}

\* An approval is enqueued once, after it was decided; its job is then taken
\* by one executor, and nothing is executed for it before.
Once ==
  /\ \A n \in Approval :
       /\ decision[n] \in {"none", "PENDING"} => job[n] = NoJob /\ n \notin decided
       /\ n \in decided => job[n] = NoJob
       /\ NotYetTaken(n) => effects[n] = 0
       /\ effects[n] <= 1
  /\ \A e \in Executor : exec[e].pc \in Resuming =>
       /\ job[exec[e].for] = Locked(e)
       /\ effects[exec[e].for] = 0

\* Returning completes the jobs the executor holds, and nobody else's.
LEMMA ReturnOnce ==
  ASSUME TypeOK, Once, NEW e \in Executor, Return(e),
         UNCHANGED <<decision, decided, effects>>
  PROVE  Once'
<1> USE DEF TypeOK, Local, Once, NotYetTaken
<1>1. \A n \in Approval : job'[n] = (IF job[n] = Locked(e) THEN Done ELSE job[n])
  BY DEF Return
<1>2. Done \notin {NoJob, Waiting} /\ Locked(e) # NoJob
  BY DEF Done, NoJob, Waiting, Locked
<1>3. \A n \in Approval :
        /\ job[n] = NoJob => job'[n] = NoJob
        /\ NotYetTaken(n)' => NotYetTaken(n)
  BY <1>1, <1>2
<1>4. ASSUME NEW f \in Executor, exec'[f].pc \in Resuming
      PROVE  /\ job'[exec'[f].for] = Locked(f)
             /\ effects'[exec'[f].for] = 0
  <2>1. f # e /\ exec'[f] = exec[f]
    BY <1>4 DEF Return, Rest, Resuming
  <2>2. Locked(f) # Locked(e)
    BY <2>1 DEF Locked
  <2> QED
    BY <1>1, <1>4, <2>1, <2>2
<1>5. decision' = decision /\ decided' = decided /\ effects' = effects
  OBVIOUS
<1>6. ASSUME NEW n \in Approval
      PROVE  /\ decision'[n] \in {"none", "PENDING"} => job'[n] = NoJob /\ n \notin decided'
             /\ n \in decided' => job'[n] = NoJob
             /\ NotYetTaken(n)' => effects'[n] = 0
             /\ effects'[n] <= 1
  BY <1>3, <1>5, <1>6
<1> QED
  BY <1>4, <1>6

\* With no redelivery every step keeps Once.
LEMMA OnceStep ==
  ASSUME TypeOK, Once, [Next]_vars, MaxRedeliveries = 0
  PROVE  Once'
<1> USE DEF TypeOK, Local
<1>1. ASSUME NEW e \in Executor, AskForTool(e) \/ AskFails(e)
      PROVE  Once'
  <2>1. \A n \in Approval : decision'[n] \in {"none", "PENDING"} =>
                              decision[n] \in {"none", "PENDING"}
    BY <1>1 DEF AskForTool, AskFails, FindOrCreatePending
  <2>2. \A f \in Executor : exec'[f].pc \in Resuming => exec'[f] = exec[f]
    BY <1>1 DEF AskForTool, AskFails, Goto, At, Resuming
  <2> QED
    BY <1>1, <2>1, <2>2 DEF AskForTool, AskFails, Once, NotYetTaken
<1>2. ASSUME NEW e \in Executor, Settle(e) \/ Report(e)
      PROVE  Once'
  <2>1. UNCHANGED <<decision, decided, effects>>
    BY <1>2 DEF Settle, Park, ParkFails, Refuse, Finish, Report, ReportFails
  <2>2. CASE Return(e)
    BY <2>1, <2>2, ReturnOnce
  <2>3. CASE Goto(e, "report") /\ UNCHANGED job
    <3>1. \A f \in Executor : exec'[f].pc \in Resuming => exec'[f] = exec[f]
      BY <2>3 DEF Goto, Resuming
    <3> QED
      BY <2>1, <2>3, <3>1 DEF Once, NotYetTaken
  <2> QED
    BY <1>2, <2>2, <2>3
       DEF Settle, Park, ParkFails, Refuse, Finish, Report, ReportFails, UpdateAgentRun
<1>3. ASSUME NEW e \in Executor, FindRun(e) \/ ClaimRunForResume(e)
      PROVE  Once'
  <2>1. CASE Return(e)
    BY <1>3, <2>1, ReturnOnce DEF FindRun, ClaimRunForResume
  <2>2. CASE UNCHANGED job /\ \E pc \in {"claim", "act"} : Goto(e, pc)
    <3>1. \A f \in Executor : exec'[f].pc \in Resuming =>
            exec[f].pc \in Resuming /\ exec'[f].for = exec[f].for
      BY <1>3, <2>2 DEF FindRun, ClaimRunForResume, Goto, At, Resuming
    <3> QED
      BY <1>3, <2>2, <3>1 DEF FindRun, ClaimRunForResume, Once, NotYetTaken
  <2> QED
    BY <1>3, <2>1, <2>2 DEF FindRun, ClaimRunForResume
<1>4. ASSUME NEW e \in Executor, ExecuteApprovedActionIfNeeded(e)
      PROVE  Once'
  <2>1. /\ exec[e].pc \in Resuming
        /\ exec[e].for \in Approval
        /\ UNCHANGED <<decision, decided, job>>
        /\ exec' = [exec EXCEPT ![e].pc = "loop"]
    BY <1>4 DEF ExecuteApprovedActionIfNeeded, At, Goto, Resuming
  <2>2. job[exec[e].for] = Locked(e) /\ effects[exec[e].for] = 0
    BY <2>1 DEF Once
  <2>3. \A n \in Approval : effects'[n] = effects[n] \/ (n = exec[e].for /\ effects'[n] = 1)
    BY <1>4, <2>1, <2>2 DEF ExecuteApprovedActionIfNeeded
  <2>4. \A f \in Executor : exec'[f].pc \in Resuming => f # e /\ exec'[f] = exec[f]
    BY <2>1 DEF Resuming
  <2>5. ~NotYetTaken(exec[e].for)
    BY <2>2 DEF NotYetTaken, NoJob, Waiting, Locked
  <2>6. \A f \in Executor : f # e => Locked(f) # Locked(e)
    BY DEF Locked
  <2>7. ASSUME NEW f \in Executor, exec'[f].pc \in Resuming
        PROVE  job'[exec'[f].for] = Locked(f) /\ effects'[exec'[f].for] = 0
    BY <2>1, <2>2, <2>3, <2>4, <2>6, <2>7 DEF Once
  <2> QED
    BY <2>1, <2>3, <2>5, <2>7 DEF Once, NotYetTaken
<1>5. ASSUME NEW e \in Executor, ResumeFails(e)
      PROVE  Once'
  BY <1>5, ReturnOnce DEF ResumeFails
<1>6. ASSUME NEW e \in Executor, Die(e)
      PROVE  Once'
  <2>1. \A f \in Executor : exec'[f].pc \in Resuming => exec'[f] = exec[f]
    BY <1>6 DEF Die, Rest, Resuming
  <2> QED
    BY <1>6, <2>1 DEF Die, Once, NotYetTaken
<1>7. ASSUME NEW n \in Approval, MarkDecided(n)
      PROVE  Once'
  BY <1>7 DEF MarkDecided, Once, NotYetTaken
<1>8. ASSUME NEW n \in Approval, EnqueueResume(n)
      PROVE  Once'
  <2>1. /\ job[n] = NoJob
        /\ effects[n] = 0
        /\ decision[n] \notin {"none", "PENDING"}
    BY <1>8 DEF EnqueueResume, Once, NotYetTaken
  <2>2. \A e \in Executor : NoJob # Locked(e)
    BY DEF NoJob, Locked
  <2>3. \A e \in Executor : exec[e].pc \in Resuming => exec[e].for # n
    BY <2>1, <2>2 DEF Once
  <2> QED
    BY <1>8, <2>1, <2>3 DEF EnqueueResume, Once, NotYetTaken
<1>9. ASSUME NEW n \in Approval, EnqueueFails(n)
      PROVE  Once'
  BY <1>9 DEF EnqueueFails, Once, NotYetTaken
<1>10. ASSUME NEW n \in Approval, Redeliver(n)
       PROVE  Once'
  BY <1>10 DEF Redeliver
<1>11. ASSUME NEW n \in Approval, NEW e \in Executor, Deliver(e, n)
       PROVE  Once'
  <2>1. /\ effects[n] = 0
        /\ job[n] # NoJob
        /\ \A f \in Executor : job[n] # Locked(f)
    BY <1>11 DEF Deliver, Once, NotYetTaken, NoJob, Waiting, Locked
  <2>2. \A f \in Executor : exec[f].pc \in Resuming => exec[f].for # n
    BY <2>1 DEF Once
  <2>3. Locked(e) \notin {NoJob, Waiting}
    BY DEF Locked, NoJob, Waiting
  <2>4. ASSUME NEW f \in Executor, exec'[f].pc \in Resuming
        PROVE  job'[exec'[f].for] = Locked(f) /\ effects'[exec'[f].for] = 0
    <3>1. CASE f = e
      BY <1>11, <2>1, <3>1 DEF Deliver
    <3>2. CASE f # e
      BY <1>11, <2>2, <2>4, <3>2 DEF Deliver, Once
    <3> QED
      BY <3>1, <3>2
  <2> QED
    BY <1>11, <2>1, <2>3, <2>4 DEF Deliver, Once, NotYetTaken
<1>12. CASE UNCHANGED vars
  BY <1>12 DEF vars, Once, NotYetTaken
<1> QED
  BY <1>1, <1>2, <1>3, <1>4, <1>5, <1>6, <1>7, <1>8, <1>9, <1>10, <1>11, <1>12
     DEF Next, Execute, Settle

\* The claim makes an approved call at-most-once as long as no job is delivered
\* twice: with no queue, whatever dies or is slow.
THEOREM OnceWithoutRedelivery ==
  ASSUME MaxRedeliveries = 0
  PROVE  Spec => []ExecutedAtMostOnce
<1>1. Init => Once
  BY ApprovalAssumption DEF ApprovalAssumption, Init, Once, NotYetTaken, Rest, Resuming
<1>2. TypeOK /\ Once /\ [Next]_vars => Once'
  BY OnceStep
<1>3. Once => ExecutedAtMostOnce
  BY DEF Once, ExecutedAtMostOnce
<1> QED
  BY <1>1, <1>2, <1>3, TypeCorrect, PTL DEF Spec

-----------------------------------------------------------------------------
(* Every execution after the first is paid for by a redelivery.             *)

\* The executors that may still execute the call of n.
Resumers(n) == {e \in Executor : exec[e].pc \in Resuming /\ exec[e].for = n}

Undelivered(n) == IF job[n] = Waiting THEN 1 ELSE 0
Enqueued(n) == IF job[n] = NoJob THEN 0 ELSE 1

\* The executions of n, those that may still come and the delivery that waits
\* are no more than the enqueueing and the redeliveries of its job.
Paid(n) ==
  /\ IsFiniteSet(Resumers(n))
  /\ effects[n] + Cardinality(Resumers(n)) + Undelivered(n) <= Enqueued(n) + redelivered[n]

\* An approval is enqueued after it was decided, and at most once.
NotYetEnqueued(n) ==
  /\ decision[n] \in {"none", "PENDING"} => job[n] = NoJob /\ n \notin decided
  /\ n \in decided => job[n] = NoJob

Counted == \A n \in Approval : NotYetEnqueued(n) /\ Paid(n)

\* A step that adds no resumer, no delivery and no execution keeps the count.
LEMMA NothingSpent ==
  ASSUME TypeOK, TypeOK', NEW n \in Approval, Paid(n),
         Resumers(n)' \subseteq Resumers(n),
         effects'[n] = effects[n], redelivered'[n] = redelivered[n],
         job'[n] = Waiting => job[n] = Waiting,
         job'[n] = NoJob => job[n] = NoJob
  PROVE  Paid(n)'
<1> DEFINE R == Resumers(n)
           S == Resumers(n)'
<1>1. IsFiniteSet(R) /\ S \subseteq R
  BY DEF Paid
<1>2. IsFiniteSet(S) /\ Cardinality(S) <= Cardinality(R)
  BY <1>1, FS_Subset
<1>3. Cardinality(R) \in Nat /\ Cardinality(S) \in Nat
  BY <1>1, <1>2, FS_CardinalityType
<1>4. effects[n] \in Nat /\ redelivered[n] \in Nat
  BY DEF TypeOK
<1>5. Undelivered(n)' <= Undelivered(n) /\ Enqueued(n) <= Enqueued(n)'
  BY DEF Undelivered, Enqueued
<1>6. /\ Undelivered(n) \in Nat /\ Undelivered(n)' \in Nat
      /\ Enqueued(n) \in Nat /\ Enqueued(n)' \in Nat
  BY DEF Undelivered, Enqueued
<1>7. effects[n] + Cardinality(R) + Undelivered(n) <= Enqueued(n) + redelivered[n]
  BY DEF Paid
<1> HIDE DEF R, S
<1>8. effects'[n] + Cardinality(S) + Undelivered(n)' <= Enqueued(n)' + redelivered'[n]
  BY <1>2, <1>3, <1>4, <1>5, <1>6, <1>7
<1> QED
  BY <1>2, <1>8 DEF Paid, S

\* Whoever does not go on resuming is no longer counted.
LEMMA ReturnCounted ==
  ASSUME TypeOK, TypeOK', Counted, NEW e \in Executor, Return(e),
         UNCHANGED <<decision, decided, effects, redelivered>>
  PROVE  Counted'
<1>1. \A n \in Approval : job'[n] = (IF job[n] = Locked(e) THEN Done ELSE job[n])
  BY DEF Return
<1>2. Done \notin {NoJob, Waiting} /\ Locked(e) # NoJob
  BY DEF Done, NoJob, Waiting, Locked
<1>3. \A f \in Executor : exec'[f].pc \in Resuming => exec'[f] = exec[f]
  BY DEF Return, TypeOK, Rest, Resuming
<1> SUFFICES ASSUME NEW n \in Approval
             PROVE  NotYetEnqueued(n)' /\ Paid(n)'
  BY DEF Counted
<1>4. NotYetEnqueued(n) /\ Paid(n)
  BY DEF Counted
<1>5. Resumers(n)' \subseteq Resumers(n)
  BY <1>3 DEF Resumers
<1> QED
  BY <1>1, <1>2, <1>4, <1>5, NothingSpent DEF NotYetEnqueued

\* Every step keeps the count.
LEMMA CountedStep ==
  ASSUME TypeOK, TypeOK', Counted, [Next]_vars
  PROVE  Counted'
<1> USE DEF TypeOK, Local
<1>1. ASSUME UNCHANGED <<decided, job, effects, redelivered>>,
             \A n \in Approval : decision'[n] \in {"none", "PENDING"} =>
                                   decision[n] \in {"none", "PENDING"},
             \A f \in Executor : exec'[f].pc \in Resuming =>
                                   exec[f].pc \in Resuming /\ exec'[f].for = exec[f].for
      PROVE  Counted'
  <2> SUFFICES ASSUME NEW n \in Approval
               PROVE  NotYetEnqueued(n)' /\ Paid(n)'
    BY DEF Counted
  <2>1. NotYetEnqueued(n) /\ Paid(n)
    BY DEF Counted
  <2>2. Resumers(n)' \subseteq Resumers(n)
    BY <1>1 DEF Resumers
  <2> QED
    BY <1>1, <2>1, <2>2, NothingSpent DEF NotYetEnqueued
<1>2. ASSUME NEW e \in Executor, AskForTool(e) \/ AskFails(e)
      PROVE  Counted'
  <2>1. \A n \in Approval : decision'[n] \in {"none", "PENDING"} =>
                              decision[n] \in {"none", "PENDING"}
    BY <1>2 DEF AskForTool, AskFails, FindOrCreatePending
  <2>2. \A f \in Executor : exec'[f].pc \in Resuming => exec'[f] = exec[f]
    BY <1>2 DEF AskForTool, AskFails, Goto, At, Resuming
  <2> QED
    BY <1>1, <1>2, <2>1, <2>2 DEF AskForTool, AskFails
<1>3. ASSUME NEW e \in Executor, Settle(e) \/ Report(e)
      PROVE  Counted'
  <2>1. UNCHANGED <<decision, decided, effects, redelivered>>
    BY <1>3 DEF Settle, Park, ParkFails, Refuse, Finish, Report, ReportFails
  <2>2. CASE Return(e)
    BY <2>1, <2>2, ReturnCounted
  <2>3. CASE Goto(e, "report") /\ UNCHANGED job
    <3>1. \A f \in Executor : exec'[f].pc \in Resuming => exec'[f] = exec[f]
      BY <2>3 DEF Goto, Resuming
    <3> QED
      BY <1>1, <2>1, <2>3, <3>1
  <2> QED
    BY <1>3, <2>2, <2>3
       DEF Settle, Park, ParkFails, Refuse, Finish, Report, ReportFails, UpdateAgentRun
<1>4. ASSUME NEW e \in Executor, FindRun(e) \/ ClaimRunForResume(e)
      PROVE  Counted'
  <2>1. CASE Return(e)
    BY <1>4, <2>1, ReturnCounted DEF FindRun, ClaimRunForResume
  <2>2. CASE UNCHANGED job /\ \E pc \in {"claim", "act"} : Goto(e, pc)
    <3>1. \A f \in Executor : exec'[f].pc \in Resuming =>
            exec[f].pc \in Resuming /\ exec'[f].for = exec[f].for
      BY <1>4, <2>2 DEF FindRun, ClaimRunForResume, Goto, At, Resuming
    <3> QED
      BY <1>1, <1>4, <2>2, <3>1 DEF FindRun, ClaimRunForResume
  <2> QED
    BY <1>4, <2>1, <2>2 DEF FindRun, ClaimRunForResume
<1>5. ASSUME NEW e \in Executor, ExecuteApprovedActionIfNeeded(e)
      PROVE  Counted'
  <2>1. /\ exec[e].pc \in Resuming
        /\ exec[e].for \in Approval
        /\ UNCHANGED <<decision, decided, job, redelivered>>
        /\ exec' = [exec EXCEPT ![e].pc = "loop"]
    BY <1>5 DEF ExecuteApprovedActionIfNeeded, At, Goto, Resuming
  <2>2. \A f \in Executor : exec'[f].pc \in Resuming => f # e /\ exec'[f] = exec[f]
    BY <2>1 DEF Resuming
  <2>3. \A n \in Approval : \/ effects'[n] = effects[n]
                            \/ n = exec[e].for /\ effects'[n] = effects[n] + 1
    BY <1>5, <2>1 DEF ExecuteApprovedActionIfNeeded
  <2> SUFFICES ASSUME NEW n \in Approval
               PROVE  NotYetEnqueued(n)' /\ Paid(n)'
    BY DEF Counted
  <2>4. NotYetEnqueued(n) /\ Paid(n)
    BY DEF Counted
  <2>5. NotYetEnqueued(n)'
    BY <2>1, <2>4 DEF NotYetEnqueued
  <2>6. CASE effects'[n] = effects[n]
    <3>1. Resumers(n)' \subseteq Resumers(n)
      BY <2>2 DEF Resumers
    <3> QED
      BY <2>1, <2>4, <2>5, <2>6, <3>1, NothingSpent
  <2>7. CASE n = exec[e].for /\ effects'[n] = effects[n] + 1
    <3>1. Resumers(n)' = Resumers(n) \ {e} /\ e \in Resumers(n)
      BY <2>1, <2>2, <2>7 DEF Resumers
    <3>2. /\ IsFiniteSet(Resumers(n)')
          /\ Cardinality(Resumers(n)') = Cardinality(Resumers(n)) - 1
          /\ Cardinality(Resumers(n)) \in Nat
      BY <2>4, <3>1, FS_RemoveElement, FS_CardinalityType DEF Paid
    <3>3. /\ Undelivered(n)' = Undelivered(n) /\ Undelivered(n) \in Nat
          /\ Enqueued(n)' = Enqueued(n) /\ Enqueued(n) \in Nat
          /\ redelivered'[n] = redelivered[n] /\ redelivered[n] \in Nat
          /\ effects[n] \in Nat
      BY <2>1 DEF Undelivered, Enqueued
    <3> QED
      BY <2>4, <2>5, <2>7, <3>2, <3>3 DEF Paid
  <2> QED
    BY <2>3, <2>6, <2>7
<1>6. ASSUME NEW e \in Executor, ResumeFails(e)
      PROVE  Counted'
  BY <1>6, ReturnCounted DEF ResumeFails
<1>7. ASSUME NEW e \in Executor, Die(e)
      PROVE  Counted'
  <2>1. \A f \in Executor : exec'[f].pc \in Resuming => exec'[f] = exec[f]
    BY <1>7 DEF Die, Rest, Resuming
  <2> QED
    BY <1>1, <1>7, <2>1 DEF Die
<1>8. ASSUME NEW m \in Approval, MarkDecided(m) \/ EnqueueFails(m)
      PROVE  Counted'
  <2>1. UNCHANGED <<job, effects, redelivered, exec>>
    BY <1>8 DEF MarkDecided, EnqueueFails
  <2>2. \A n \in Approval : NotYetEnqueued(n)'
    BY <1>8 DEF MarkDecided, EnqueueFails, Counted, NotYetEnqueued
  <2>3. \A n \in Approval : Resumers(n)' = Resumers(n)
    BY <2>1 DEF Resumers
  <2>4. \A n \in Approval : Paid(n)'
    BY <2>1, <2>3, NothingSpent DEF Counted
  <2> QED
    BY <2>2, <2>4 DEF Counted
<1>9. ASSUME NEW m \in Approval, EnqueueResume(m) \/ Redeliver(m)
      PROVE  Counted'
  <2>1. UNCHANGED <<decision, effects, exec>>
    BY <1>9 DEF EnqueueResume, Redeliver
  <2>2. /\ job' = [job EXCEPT ![m] = Waiting]
        /\ \A n \in Approval \ {m} : /\ redelivered'[n] = redelivered[n]
                                     /\ n \in decided' <=> n \in decided
    BY <1>9 DEF EnqueueResume, Redeliver
  <2>3. /\ NotYetEnqueued(m) /\ Paid(m)
        /\ m \notin decided'
        /\ decision[m] \notin {"none", "PENDING"}
    BY <1>9 DEF EnqueueResume, Redeliver, Counted, NotYetEnqueued, NoJob
  <2>4. \A n \in Approval : Resumers(n)' = Resumers(n)
    BY <2>1 DEF Resumers
  <2>5. Paid(m)'
    <3>1. Undelivered(m)' = 1 /\ Enqueued(m)' = 1
      BY <2>2 DEF Undelivered, Enqueued, Waiting, NoJob
    <3>2. \/ Undelivered(m) = 0 /\ Enqueued(m) = 0 /\ redelivered'[m] = redelivered[m]
          \/ Undelivered(m) = 0 /\ Enqueued(m) = 1 /\ redelivered'[m] = redelivered[m] + 1
      BY <1>9, <2>3
         DEF EnqueueResume, Redeliver, NotYetEnqueued, Undelivered, Enqueued, Waiting, NoJob
    <3>3. /\ Cardinality(Resumers(m)) \in Nat
          /\ effects[m] \in Nat /\ effects'[m] = effects[m] /\ redelivered[m] \in Nat
      BY <2>1, <2>3, FS_CardinalityType DEF Paid
    <3> QED
      BY <2>3, <2>4, <3>1, <3>2, <3>3 DEF Paid
  <2>6. ASSUME NEW n \in Approval, n # m
        PROVE  NotYetEnqueued(n)' /\ Paid(n)'
    <3>1. NotYetEnqueued(n) /\ Paid(n) /\ job'[n] = job[n]
      BY <2>2, <2>6 DEF Counted
    <3> QED
      BY <2>1, <2>2, <2>4, <2>6, <3>1, NothingSpent DEF NotYetEnqueued
  <2>7. NotYetEnqueued(m)'
    BY <2>1, <2>3 DEF NotYetEnqueued
  <2> QED
    BY <2>5, <2>6, <2>7 DEF Counted
<1>10. ASSUME NEW m \in Approval, NEW e \in Executor, Deliver(e, m)
       PROVE  Counted'
  <2>1. /\ UNCHANGED <<decision, decided, effects, redelivered>>
        /\ job[m] = Waiting /\ job' = [job EXCEPT ![m] = Locked(e)]
        /\ At(e, "idle") /\ exec' = [exec EXCEPT ![e] = [pc |-> "find", for |-> m]]
    BY <1>10 DEF Deliver
  <2>2. Locked(e) \notin {NoJob, Waiting} /\ Waiting # NoJob
    BY DEF Locked, NoJob, Waiting
  <2>3. ASSUME NEW n \in Approval
        PROVE  NotYetEnqueued(n)'
    BY <2>1, <2>2 DEF Counted, NotYetEnqueued
  <2>4. ASSUME NEW n \in Approval, n # m
        PROVE  Paid(n)'
    <3>1. Paid(n) /\ job'[n] = job[n]
      BY <2>1, <2>4 DEF Counted
    <3>2. Resumers(n)' \subseteq Resumers(n)
      BY <2>1, <2>4 DEF Resumers
    <3> QED
      BY <2>1, <3>1, <3>2, NothingSpent
  <2>5. Paid(m)'
    <3>1. Resumers(m)' = Resumers(m) \union {e} /\ e \notin Resumers(m)
      BY <2>1 DEF Resumers, At, Resuming
    <3>2. Paid(m)
      BY DEF Counted
    <3>3. /\ IsFiniteSet(Resumers(m)')
          /\ Cardinality(Resumers(m)') = Cardinality(Resumers(m)) + 1
          /\ Cardinality(Resumers(m)) \in Nat
      BY <3>1, <3>2, FS_AddElement, FS_CardinalityType DEF Paid
    <3>4. /\ Undelivered(m) = 1 /\ Undelivered(m)' = 0
          /\ Enqueued(m)' = Enqueued(m) /\ Enqueued(m) \in Nat
      BY <2>1, <2>2 DEF Undelivered, Enqueued
    <3>5. /\ effects'[m] = effects[m] /\ effects[m] \in Nat
          /\ redelivered'[m] = redelivered[m] /\ redelivered[m] \in Nat
      BY <2>1
    <3> QED
      BY <3>2, <3>3, <3>4, <3>5 DEF Paid
  <2> QED
    BY <2>3, <2>4, <2>5 DEF Counted
<1>11. CASE UNCHANGED vars
  BY <1>1, <1>11 DEF vars
<1> QED
  BY <1>2, <1>3, <1>4, <1>5, <1>6, <1>7, <1>8, <1>9, <1>10, <1>11 DEF Next, Execute, Settle

\* A call is executed again only when its job was delivered again, however many
\* workers are slow or dead when that happens.
THEOREM RepeatsPaidFor == Spec => []RepeatsAreRedeliveries
<1>1. Init => Counted
  <2> SUFFICES ASSUME Init, NEW n \in Approval
               PROVE  NotYetEnqueued(n) /\ Paid(n)
    BY DEF Counted
  <2>1. Resumers(n) = {}
    BY ApprovalAssumption DEF ApprovalAssumption, Init, Resumers, Rest, Resuming
  <2>2. effects[n] = 0 /\ redelivered[n] = 0 /\ Undelivered(n) = 0 /\ Enqueued(n) = 0
    BY DEF Init, Undelivered, Enqueued, NoJob, Waiting
  <2>3. Paid(n)
    BY <2>1, <2>2, FS_EmptySet DEF Paid
  <2> QED
    BY <2>3 DEF Init, NotYetEnqueued
<1>2. TypeOK /\ TypeOK' /\ Counted /\ [Next]_vars => Counted'
  BY CountedStep
<1>3. TypeOK /\ Counted => RepeatsAreRedeliveries
  <2> SUFFICES ASSUME TypeOK, Counted, NEW n \in Approval
               PROVE  effects[n] <= 1 + redelivered[n]
    BY DEF RepeatsAreRedeliveries
  <2>1. Paid(n)
    BY DEF Counted
  <2>2. /\ effects[n] \in Nat /\ redelivered[n] \in Nat
        /\ Cardinality(Resumers(n)) \in Nat
        /\ Undelivered(n) \in Nat /\ Enqueued(n) \in 0..1
    BY <2>1, FS_CardinalityType DEF TypeOK, Paid, Undelivered, Enqueued
  <2> QED
    BY <2>1, <2>2 DEF Paid
<1> QED
  BY <1>1, <1>2, <1>3, TypeCorrect, PTL DEF Spec
=============================================================================
