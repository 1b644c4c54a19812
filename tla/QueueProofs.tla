------------------------------- MODULE QueueProofs -------------------------------
(***************************************************************************)
(* The background jobs, for any number of jobs, workers and attempts, and  *)
(* however locks expire, processes die and calls fail: what every step     *)
(* does to the queue, how many dead letters a job leaves, how often a      *)
(* delivery is posted, and what a worker may write over.                   *)
(***************************************************************************)
EXTENDS MCJobs, FiniteSetTheorems, TLAPS

-----------------------------------------------------------------------------
(* What a step does to the queue, whatever else it does.                    *)

Kept == UNCHANGED <<failedSeen, deadLetter>>

Working(w) == worker[w].at # "idle"

Rests == UNCHANGED <<job, worker>> /\ Kept

Adds == \E j \in Job : Add(j) /\ UNCHANGED worker /\ Kept

Takes == \E w \in Worker, j \in Job, step \in Step : Take(w, j, step) /\ Kept

GoesOn == \E w \in Worker, step \in Step : Working(w) /\ Goto(w, step) /\ UNCHANGED job /\ Kept

Returns == \E w \in Worker : Working(w) /\ Return(w) /\ Kept

Throws == \E w \in Worker : Working(w) /\ Throw(w) /\ UNCHANGED deadLetter

Loses == \E j \in Job : LoseLock(j)

Dies == \E w \in Worker : Die(w)

Handles == \E j \in Job, w \in Worker : HandleFailed(w, j)

QueueStep ==
  /\ UNCHANGED <<queue, redis>> /\ (UNCHANGED faults \/ Fault)
  /\ \/ Rests \/ Adds \/ Takes \/ GoesOn \/ Returns \/ Throws \/ Loses \/ Dies \/ Handles

\* Every step of the deliveries is one of these ...
LEMMA WebhookIsQueueStep ==
  ASSUME QueueTypeOK, WebhookTypeOK, WebhookNext
  PROVE  QueueStep
<1> USE DEF QueueStep, Kept, Working, Step
<1>1. ASSUME NEW d \in Job, NEW e \in Endpoint, Publish(d, e)
      PROVE  QueueStep
  BY <1>1 DEF Publish, CreateDelivery, queueVars, Rests
<1>2. ASSUME NEW d \in Job, NEW original \in Job, ReplayDelivery(d, original)
      PROVE  QueueStep
  BY <1>2 DEF ReplayDelivery, CreateDelivery, queueVars, Rests
<1>3. ASSUME NEW w \in Worker, NEW d \in Job, Deliver(w, d)
      PROVE  QueueStep
  <2>1. "find" \in Step
    OBVIOUS
  <2> QED
    BY <1>3, <2>1 DEF Deliver, Takes
<1>4. ASSUME NEW p \in Producer, NEW d \in Job, EnqueueDelivery(p, d)
      PROVE  QueueStep
  BY <1>4 DEF EnqueueDelivery, Adds
<1>5. ASSUME NEW e \in Endpoint, SetStatus(e) \/ DeleteEndpoint(e)
      PROVE  QueueStep
  BY <1>5 DEF SetStatus, DeleteEndpoint, queueVars, Rests
<1>6. ASSUME NEW p \in Producer, ProducerFails(p)
      PROVE  QueueStep
  BY <1>6 DEF ProducerFails, Rests
<1>7. ASSUME NEW w \in Worker, Attempt(w)
      PROVE  QueueStep
  <2>1. CASE FindDelivery(w)
    <3>1. CASE Exists(worker[w].job)
      <4>1. "endpoint" \in Step /\ Goto(w, "endpoint") /\ UNCHANGED job
        BY <2>1, <3>1 DEF FindDelivery
      <4> QED
        BY <2>1, <4>1 DEF FindDelivery, At, Quiet, GoesOn
    <3>2. CASE ~Exists(worker[w].job)
      BY <2>1, <3>2 DEF FindDelivery, At, Quiet, Returns
    <3> QED
      BY <3>1, <3>2
  <2>2. CASE FindEndpoint(w)
    <3>1. \E step \in Step : Goto(w, step)
      <4>1. "post" \in Step /\ "refuse" \in Step /\ (Goto(w, "post") \/ Goto(w, "refuse"))
        BY <2>2 DEF FindEndpoint, Goto
      <4> QED
        BY <4>1
    <3> QED
      BY <2>2, <3>1 DEF FindEndpoint, At, Quiet, GoesOn
  <2>3. CASE Post(w)
    <3>1. "accepted" \in Step /\ "rejected" \in Step /\ (Goto(w, "accepted") \/ Goto(w, "rejected"))
      BY <2>3 DEF Post
    <3> QED
      BY <2>3, <3>1 DEF Post, At, GoesOn
  <2>4. CASE RecordAccepted(w)
    BY <2>4 DEF RecordAccepted, At, Returns
  <2>5. CASE AcceptedIsLost(w)
    <3>1. "rejected" \in Step /\ Goto(w, "rejected")
      BY <2>5 DEF AcceptedIsLost
    <3> QED
      BY <2>5, <3>1 DEF AcceptedIsLost, At, Quiet, GoesOn
  <2>6. CASE RecordRejected(w)
    BY <2>6 DEF RecordRejected, At, Returns, Throws
  <2>7. CASE RecordRefused(w)
    BY <2>7 DEF RecordRefused, At, Returns
  <2>8. CASE AttemptThrows(w)
    BY <2>8 DEF AttemptThrows, Throws
  <2> QED
    BY <1>7, <2>1, <2>2, <2>3, <2>4, <2>5, <2>6, <2>7, <2>8 DEF Attempt
<1> QED
  BY <1>1, <1>2, <1>3, <1>4, <1>5, <1>6, <1>7 DEF WebhookNext

LEMMA EventsAreJobs ==
  ASSUME StripeTypeOK, StripeAssumption
  PROVE  Event \subseteq Job /\ Len(story) \in Nat
BY JobQueueAssumption DEF StripeTypeOK, StripeAssumption, Event, Job

\* ... as is every step of the events ...
LEMMA StripeIsQueueStep ==
  ASSUME StripeTypeOK, StripeAssumption, StripeNext
  PROVE  QueueStep
<1> USE DEF QueueStep, Kept, Working, Step
<1>1. ASSUME NEW e \in Event, ReceiveNew(e) \/ ReceiveAgain(e)
      PROVE  QueueStep
  BY <1>1 DEF ReceiveNew, ReceiveAgain, queueVars, Rests
<1>2. ASSUME NEW e \in Event, EnqueueEvent(e)
      PROVE  QueueStep
  BY <1>2, EventsAreJobs DEF EnqueueEvent, Adds
<1>3. ASSUME NEW e \in Event, EnqueueFails(e)
      PROVE  QueueStep
  BY <1>3 DEF EnqueueFails, Rests
<1>4. ASSUME NEW w \in Worker, NEW e \in Event, DeliverEvent(w, e)
      PROVE  QueueStep
  <2>1. "look" \in Step
    OBVIOUS
  <2> QED
    BY <1>4, <2>1, EventsAreJobs DEF DeliverEvent, Takes
<1>5. ASSUME NEW w \in Worker, FindMirror(w)
      PROVE  QueueStep
  <2>1. "update" \in Step /\ "mark" \in Step /\ "create" \in Step
    OBVIOUS
  <2>2. \E step \in Step : Goto(w, step)
    BY <1>5, <2>1 DEF FindMirror, Goto
  <2> QED
    BY <1>5, <2>2 DEF FindMirror, Handling, At, GoesOn
<1>6. ASSUME NEW w \in Worker, WriteMirror(w)
      PROVE  QueueStep
  <2>1. "lines" \in Step /\ "mark" \in Step
    OBVIOUS
  <2>2. \E step \in Step : Goto(w, step)
    BY <1>6, <2>1 DEF WriteMirror, Goto
  <2> QED
    BY <1>6, <2>2 DEF WriteMirror, Handling, GoesOn
<1>7. ASSUME NEW w \in Worker, AddItems(w)
      PROVE  QueueStep
  <2>1. "mark" \in Step /\ Goto(w, "mark")
    BY <1>7 DEF AddItems
  <2> QED
    BY <1>7, <2>1 DEF AddItems, Handling, At, GoesOn
<1>8. ASSUME NEW w \in Worker, MarkProcessed(w)
      PROVE  QueueStep
  BY <1>8 DEF MarkProcessed, At, Returns
<1>9. ASSUME NEW w \in Worker, HandlerThrows(w)
      PROVE  QueueStep
  BY <1>9 DEF HandlerThrows, Throws
<1>10. ASSUME NEW w \in Worker, FindExpiredTrial(w) \/ EndTrial(w)
       PROVE  QueueStep
  BY <1>10 DEF FindExpiredTrial, EndTrial, queueVars, Rests
<1> QED
  BY <1>1, <1>2, <1>3, <1>4, <1>5, <1>6, <1>7, <1>8, <1>9, <1>10 DEF StripeNext, Handle

\* ... every step of the runs ...
LEMMA RunQueueIsQueueStep ==
  ASSUME RunQueueNext
  PROVE  QueueStep
<1> USE DEF QueueStep, Kept, Working, Step
<1>1. ASSUME NEW j \in Job, CreateRun(j) \/ FindPendingRun(j)
      PROVE  QueueStep
  BY <1>1 DEF CreateRun, FindPendingRun, queueVars, Rests
<1>2. ASSUME NEW j \in Job, EnqueueRun(j)
      PROVE  QueueStep
  BY <1>2 DEF EnqueueRun, Adds
<1>3. ASSUME NEW j \in Job, EnqueueRunFails(j)
      PROVE  QueueStep
  BY <1>3 DEF EnqueueRunFails, Rests
<1>4. ASSUME NEW w \in Worker, NEW j \in Job, DeliverRun(w, j)
      PROVE  QueueStep
  <2>1. "load" \in Step
    OBVIOUS
  <2> QED
    BY <1>4, <2>1 DEF DeliverRun, Takes
<1>5. ASSUME NEW w \in Worker, LoadRun(w)
      PROVE  QueueStep
  BY <1>5 DEF LoadRun, At, Returns
<1>6. ASSUME NEW w \in Worker, LoadRunThrows(w)
      PROVE  QueueStep
  BY <1>6 DEF LoadRunThrows, At, Throws
<1> QED
  BY <1>1, <1>2, <1>3, <1>4, <1>5, <1>6 DEF RunQueueNext

\* ... and what happens to any queue.
LEMMA QueueNextIsQueueStep ==
  ASSUME QueueNext
  PROVE  QueueStep
<1> USE DEF QueueStep, Kept
<1>1. ASSUME NEW j \in Job, Stall(j) \/ StallAlive(j)
      PROVE  QueueStep
  BY <1>1 DEF Stall, StallAlive, LoseLock, Loses
<1>2. ASSUME NEW j \in Job, NEW w \in Worker, HandleFailed(w, j)
      PROVE  QueueStep
  <2>1. UNCHANGED faults \/ Fault
    BY <1>2 DEF HandleFailed
  <2> QED
    BY <1>2, <2>1 DEF HandleFailed, Handles
<1>3. ASSUME NEW w \in Worker, Die(w)
      PROVE  QueueStep
  BY <1>3 DEF Die, Dies
<1> QED
  BY <1>1, <1>2, <1>3 DEF QueueNext

LEMMA NextIsQueueStep ==
  ASSUME TypeOK, Next
  PROVE  QueueStep
BY WebhookIsQueueStep, StripeIsQueueStep, RunQueueIsQueueStep, QueueNextIsQueueStep,
   StripeAssumption
   DEF TypeOK, Next, WebhookStep, StripeStep, RunQueueStep

-----------------------------------------------------------------------------
(* What each of them leaves in the fields of a job and of a worker.         *)

WorkerState == [job : Job \union {NoJob}, at : Step \union {"idle"}, attempt : 0..MaxAttempts]

JobMoves(j, state, by, made, stalled) ==
  /\ job' \in [Job -> JobState]
  /\ job'[j].state = state /\ job'[j].by = by
  /\ job'[j].made = made /\ job'[j].stalled = stalled
  /\ \A i \in Job \ {j} : job'[i] = job[i]

WorkerMoves(w, j, at, attempt) ==
  /\ worker' \in [Worker -> WorkerState]
  /\ worker'[w].job = j /\ worker'[w].at = at /\ worker'[w].attempt = attempt
  /\ \A v \in Worker \ {w} : worker'[v] = worker[v]

LEMMA AttemptsBounded ==
  ASSUME QueueTypeOK
  PROVE  Attempts \in Nat \ {0} /\ Attempts <= MaxAttempts
BY JobQueueAssumption DEF QueueTypeOK, Attempts

LEMMA JobSet ==
  ASSUME NEW j \in Job, NEW row \in JobState, job \in [Job -> JobState],
         job' = [job EXCEPT ![j] = row]
  PROVE  JobMoves(j, row.state, row.by, row.made, row.stalled)
BY DEF JobMoves

LEMMA WorkerSet ==
  ASSUME NEW w \in Worker, NEW row \in WorkerState, worker \in [Worker -> WorkerState],
         worker' = [worker EXCEPT ![w] = row]
  PROVE  WorkerMoves(w, row.job, row.at, row.attempt)
BY DEF WorkerMoves

LEMMA AddMoves ==
  ASSUME QueueTypeOK, NEW j \in Job, Add(j)
  PROVE  \/ job[j] = NotAdded /\ JobMoves(j, "waiting", Nobody, 0, 0)
         \/ job[j] # NotAdded /\ UNCHANGED job
<1> SUFFICES ASSUME job[j] = NotAdded
             PROVE  JobMoves(j, "waiting", Nobody, 0, 0)
  BY DEF Add
<1> DEFINE row == [state |-> "waiting", by |-> Nobody, made |-> 0, stalled |-> 0]
<1>1. row \in JobState
  BY JobQueueAssumption DEF JobState
<1>2. job' = [job EXCEPT ![j] = row]
  <2>1. [NotAdded EXCEPT !.state = "waiting"] = row
    BY DEF NotAdded
  <2> QED
    BY <2>1 DEF Add
<1>3. row.state = "waiting" /\ row.by = Nobody /\ row.made = 0 /\ row.stalled = 0
  OBVIOUS
<1> HIDE DEF row
<1> QED
  BY <1>1, <1>2, <1>3, JobSet DEF QueueTypeOK

LEMMA TakeMoves ==
  ASSUME QueueTypeOK, NEW w \in Worker, NEW j \in Job, NEW step \in Step,
         Take(w, j, step), job[j].made < MaxAttempts
  PROVE  /\ JobMoves(j, "active", w, job[j].made, job[j].stalled)
         /\ WorkerMoves(w, j, step, job[j].made + 1)
<1>1. job[j] \in JobState
  BY DEF QueueTypeOK
<1>2. JobMoves(j, "active", w, job[j].made, job[j].stalled)
  BY <1>1 DEF QueueTypeOK, Take, JobState, JobMoves
<1>3. job[j].made + 1 \in 0..MaxAttempts
  BY <1>1, JobQueueAssumption DEF JobState
<1>4. WorkerMoves(w, j, step, job[j].made + 1)
  BY <1>1, <1>3 DEF QueueTypeOK, Take, WorkerState, WorkerMoves
<1> QED
  BY <1>2, <1>4

LEMMA GotoMoves ==
  ASSUME QueueTypeOK, NEW w \in Worker, NEW step \in Step, Goto(w, step)
  PROVE  WorkerMoves(w, worker[w].job, step, worker[w].attempt)
BY DEF QueueTypeOK, Goto, WorkerState, WorkerMoves

LEMMA IdleMoves ==
  ASSUME QueueTypeOK, NEW w \in Worker, worker' = [worker EXCEPT ![w] = Idle]
  PROVE  WorkerMoves(w, NoJob, "idle", 0)
BY JobQueueAssumption DEF QueueTypeOK, Idle, WorkerState, WorkerMoves

LEMMA ReturnMoves ==
  ASSUME QueueTypeOK, NEW w \in Worker, Working(w), Return(w)
  PROVE  /\ WorkerMoves(w, NoJob, "idle", 0)
         /\ worker[w].job \in Job
         /\ \/ /\ Holds(w, worker[w].job)
               /\ JobMoves(worker[w].job, "done", Nobody,
                           job[worker[w].job].made, job[worker[w].job].stalled)
            \/ ~Holds(w, worker[w].job) /\ UNCHANGED job
<1>1. worker[w].job \in Job
  BY DEF QueueTypeOK, Working
<1>2. CASE Holds(w, worker[w].job)
  <2> DEFINE j == worker[w].job
             row == [job[j] EXCEPT !.state = "done", !.by = Nobody]
  <2>1. job[j] \in JobState
    BY <1>1 DEF QueueTypeOK
  <2>2. /\ row \in JobState /\ row.state = "done" /\ row.by = Nobody
        /\ row.made = job[j].made /\ row.stalled = job[j].stalled
    BY <2>1 DEF JobState
  <2>3. job' = [job EXCEPT ![j] = row]
    BY <1>2 DEF Return
  <2>4. worker' = [worker EXCEPT ![w] = Idle]
    BY DEF Return
  <2> HIDE DEF row
  <2>5. JobMoves(j, row.state, row.by, row.made, row.stalled)
    BY <1>1, <2>2, <2>3, JobSet DEF QueueTypeOK
  <2> QED
    BY <1>1, <1>2, <2>2, <2>4, <2>5, IdleMoves
<1>3. CASE ~Holds(w, worker[w].job)
  BY <1>1, <1>3, IdleMoves DEF Return
<1> QED
  BY <1>2, <1>3

LEMMA ThrowMoves ==
  ASSUME QueueTypeOK, NEW w \in Worker, Working(w), Throw(w),
         Holds(w, worker[w].job) => job[worker[w].job].made < MaxAttempts
  PROVE  /\ WorkerMoves(w, NoJob, "idle", 0)
         /\ worker[w].job \in Job
         /\ \/ /\ Holds(w, worker[w].job)
               /\ JobMoves(worker[w].job, IF IsFinalAttempt(w) THEN "failed" ELSE "waiting",
                           Nobody, job[worker[w].job].made + 1, job[worker[w].job].stalled)
               /\ TellFailed(worker[w].job)
            \/ ~Holds(w, worker[w].job) /\ UNCHANGED <<job, failedSeen>>
<1>1. worker[w].job \in Job /\ WorkerMoves(w, NoJob, "idle", 0)
  BY IdleMoves DEF QueueTypeOK, Working, Throw
<1>2. CASE Holds(w, worker[w].job)
  <2>1. job[worker[w].job].made + 1 \in 0..MaxAttempts
    BY <1>1, <1>2, JobQueueAssumption DEF QueueTypeOK, JobState
  <2> QED
    <3>1. JobMoves(worker[w].job, IF IsFinalAttempt(w) THEN "failed" ELSE "waiting",
                   Nobody, job[worker[w].job].made + 1, job[worker[w].job].stalled)
      <4> DEFINE j == worker[w].job
                 state == IF IsFinalAttempt(w) THEN "failed" ELSE "waiting"
      <4>1. job' = [job EXCEPT ![j].made = @ + 1, ![j].by = Nobody, ![j].state = state]
        BY <1>2 DEF Throw
      <4>2. state \in {"failed", "waiting"} /\ j \in Job /\ job[j].made + 1 \in 0..MaxAttempts
        BY <1>1, <2>1
      <4> HIDE DEF state, j
      <4> DEFINE row == [job[j] EXCEPT !.made = @ + 1, !.by = Nobody, !.state = state]
      <4>3. job[j] \in JobState
        BY <4>2 DEF QueueTypeOK
      <4>4. /\ row \in JobState /\ row.state = state /\ row.by = Nobody
            /\ row.made = job[j].made + 1 /\ row.stalled = job[j].stalled
        BY <4>2, <4>3 DEF JobState
      <4>5. job' = [job EXCEPT ![j] = row]
        BY <4>1
      <4> HIDE DEF row
      <4>6. JobMoves(j, row.state, row.by, row.made, row.stalled)
        BY <4>2, <4>4, <4>5, JobSet DEF QueueTypeOK
      <4> QED
        BY <4>4, <4>6 DEF j, state
    <3> QED
      BY <1>1, <1>2, <3>1 DEF Throw
<1>3. CASE ~Holds(w, worker[w].job)
  BY <1>1, <1>3 DEF Throw
<1> QED
  BY <1>2, <1>3

LEMMA LoseMoves ==
  ASSUME QueueTypeOK, NEW j \in Job, LoseLock(j), job[j].made < MaxAttempts
  PROVE  \/ /\ JobMoves(j, "waiting", Nobody, job[j].made, job[j].stalled + 1)
            /\ UNCHANGED failedSeen
         \/ \E counted \in 0..1 :
              /\ JobMoves(j, "failed", Nobody, job[j].made + counted, job[j].stalled)
              /\ TellFailed(j)
<1>1. job[j] \in JobState
  BY DEF QueueTypeOK
<1>2. CASE job[j].stalled < MaxStalled
  <2>1. job[j].stalled + 1 \in 0..MaxStalled
    BY <1>1, <1>2, JobQueueAssumption DEF JobState
  <2> QED
    BY <1>1, <1>2, <2>1 DEF QueueTypeOK, LoseLock, JobState, JobMoves
<1>3. CASE job[j].stalled = MaxStalled
  <2>1. PICK counted \in 0..1 :
          job' = [job EXCEPT ![j].state = "failed", ![j].by = Nobody, ![j].made = @ + counted]
    BY <1>1, <1>3, JobQueueAssumption DEF LoseLock, JobState
  <2>2. job[j].made + counted \in 0..MaxAttempts
    BY <1>1, JobQueueAssumption DEF JobState
  <2>3. JobMoves(j, "failed", Nobody, job[j].made + counted, job[j].stalled)
    BY <1>1, <2>1, <2>2 DEF QueueTypeOK, JobState, JobMoves
  <2> QED
    BY <1>1, <1>3, <2>3, JobQueueAssumption DEF LoseLock, JobState
<1> QED
  BY <1>1, <1>2, <1>3, JobQueueAssumption DEF JobState

-----------------------------------------------------------------------------
(* The queue: a job that was not given up has attempts left, one that was   *)
(* never added is as it was, and the worker that holds a job and works on   *)
(* it makes the attempt that follows those that were made.                  *)

AttemptsLeft == \A j \in Job : job[j].state # "failed" => job[j].made < Attempts

Untouched == \A j \in Job : job[j].state = "none" => job[j] = NotAdded

NextAttempt ==
  \A j \in Job, w \in Worker :
    Holds(w, j) /\ worker[w].job = j => worker[w].attempt = job[j].made + 1

QueueInv == QueueTypeOK /\ AttemptsLeft /\ Untouched /\ NextAttempt

LEMMA QueueInvInit ==
  ASSUME QueueInit
  PROVE  QueueInv
<1>1. Attempts \in Nat \ {0} /\ Attempts <= MaxAttempts
  BY JobQueueAssumption DEF QueueInit, Attempts
<1>2. \A j \in Job : job[j] = NotAdded
  BY DEF QueueInit
<1>3. QueueTypeOK
  BY JobQueueAssumption DEF QueueInit, QueueTypeOK, JobState, NotAdded, Idle, Job
<1> QED
  BY <1>1, <1>2, <1>3 DEF QueueInv, AttemptsLeft, Untouched, NextAttempt, NotAdded, Holds

\* Being told leaves a number of failures that each process has yet to look at.
LEMMA TellKeepsType ==
  ASSUME QueueTypeOK, NEW j \in Job, TellFailed(j)
  PROVE  failedSeen' \in [Job -> [Worker -> Nat]]
<1> DEFINE row == [w \in Worker |-> failedSeen[j][w] + 1]
<1>1. row \in [Worker -> Nat]
  BY DEF QueueTypeOK
<1>2. failedSeen' = [failedSeen EXCEPT ![j] = row] \/ UNCHANGED failedSeen
  BY DEF TellFailed
<1> HIDE DEF row
<1> QED
  BY <1>1, <1>2 DEF QueueTypeOK

JobsFine ==
  /\ job \in [Job -> JobState]
  /\ \A j \in Job : (job[j].state = "active") <=> (job[j].by # Nobody)
  /\ AttemptsLeft /\ Untouched

\* A job that moves without using up its last attempt keeps what is said of jobs.
LEMMA MovedJobFine ==
  ASSUME JobsFine, Attempts' = Attempts, NEW j \in Job, NEW state, NEW by, NEW made, NEW stalled,
         JobMoves(j, state, by, made, stalled), (state = "active") <=> (by # Nobody),
         state # "none", state # "failed" => made < Attempts
  PROVE  JobsFine'
<1> SUFFICES ASSUME NEW i \in Job
             PROVE  /\ (job'[i].state = "active") <=> (job'[i].by # Nobody)
                    /\ job'[i].state # "failed" => job'[i].made < Attempts
                    /\ job'[i].state = "none" => job'[i] = NotAdded
  BY DEF JobsFine, JobMoves, AttemptsLeft, Untouched
<1>1. CASE i = j
  BY <1>1 DEF JobMoves
<1>2. CASE i # j
  <2>1. job'[i] = job[i]
    BY <1>2 DEF JobMoves
  <2> QED
    BY <2>1 DEF JobsFine, AttemptsLeft, Untouched
<1> QED
  BY <1>1, <1>2

LEMMA SameJobsFine ==
  ASSUME JobsFine, Attempts' = Attempts, UNCHANGED job
  PROVE  JobsFine'
BY DEF JobsFine, AttemptsLeft, Untouched

LEMMA QueueInvStep ==
  ASSUME QueueInv, QueueStep
  PROVE  QueueInv'
<1> DEFINE
    WorkersFine ==
      /\ worker \in [Worker -> WorkerState]
      /\ \A w \in Worker : (worker[w].job = NoJob) <=> (worker[w].at = "idle")
    SeenFine == failedSeen \in [Job -> [Worker -> Nat]] /\ deadLetter \in [Job -> Nat]
<1>1. QueueTypeOK /\ AttemptsLeft /\ Untouched /\ NextAttempt
  BY DEF QueueInv
<1>2. JobsFine /\ WorkersFine /\ SeenFine
  BY <1>1 DEF QueueTypeOK, WorkerState, JobsFine
<1>3. /\ Attempts' = Attempts /\ Attempts \in Nat /\ 0 < Attempts
      /\ Attempts <= MaxAttempts /\ MaxAttempts \in Nat
  BY <1>1, AttemptsBounded, JobQueueAssumption DEF QueueStep, Attempts
<1>4. faults' \in 0..MaxFaults /\ queue' \in Queues /\ redis' \in BOOLEAN
  BY <1>1, JobQueueAssumption DEF QueueStep, QueueTypeOK, Fault
<1>5. \A j \in Job : job[j] \in JobState /\ job[j].made \in Nat /\ job[j].stalled \in Nat
  BY <1>2 DEF JobState, JobsFine
<1>6. Nobody \notin Worker /\ NoJob \notin Job
  BY JobQueueAssumption DEF Job
\* The parts of the invariant give the whole of it.
<1>7. SUFFICES JobsFine' /\ WorkersFine' /\ SeenFine' /\ NextAttempt'
  BY <1>4 DEF QueueInv, QueueTypeOK, WorkerState, JobsFine
<1>8. CASE Rests
  BY <1>1, <1>2, <1>3, <1>8, SameJobsFine DEF Rests, Kept, NextAttempt, Holds
<1>9. CASE Adds
  <2>1. PICK j \in Job : Add(j) /\ UNCHANGED worker /\ Kept
    BY <1>9 DEF Adds
  <2>2. CASE UNCHANGED job
    BY <1>1, <1>2, <1>3, <2>1, <2>2, SameJobsFine DEF Kept, NextAttempt, Holds
  <2>3. CASE job[j] = NotAdded /\ JobMoves(j, "waiting", Nobody, 0, 0)
    <3>1. JobsFine'
      BY <1>2, <1>3, <2>3, MovedJobFine
    <3>2. NextAttempt'
      BY <1>1, <2>1, <2>3 DEF JobMoves, NextAttempt, Holds
    <3> QED
      BY <1>2, <2>1, <3>1, <3>2 DEF Kept
  <2> QED
    BY <1>1, <2>1, <2>2, <2>3, AddMoves
<1>10. CASE Takes
  <2>1. PICK w \in Worker, j \in Job, step \in Step : Take(w, j, step) /\ Kept
    BY <1>10 DEF Takes
  <2>2. /\ job[j].state = "waiting"
        /\ JobMoves(j, "active", w, job[j].made, job[j].stalled)
        /\ WorkerMoves(w, j, step, job[j].made + 1)
    <3>1. job[j].state = "waiting"
      BY <2>1 DEF Take
    <3>2. job[j].made < MaxAttempts
      BY <1>1, <1>3, <1>5, <3>1 DEF AttemptsLeft
    <3> QED
      BY <1>1, <2>1, <3>1, <3>2, TakeMoves
  <2>3. JobsFine'
    <3>1. job[j].made < Attempts /\ w # Nobody
      BY <1>1, <1>6, <2>2 DEF AttemptsLeft
    <3> QED
      BY <1>2, <1>3, <2>2, <3>1, MovedJobFine
  <2>4. WorkersFine'
    BY <1>2, <1>6, <2>2 DEF WorkerMoves, Step
  <2>5. NextAttempt'
    BY <1>1, <2>2 DEF JobMoves, WorkerMoves, NextAttempt, Holds
  <2> QED
    BY <1>2, <2>1, <2>3, <2>4, <2>5 DEF Kept
<1>11. CASE GoesOn
  <2>1. PICK w \in Worker, step \in Step : Working(w) /\ Goto(w, step) /\ UNCHANGED job /\ Kept
    BY <1>11 DEF GoesOn
  <2>2. WorkerMoves(w, worker[w].job, step, worker[w].attempt)
    BY <1>1, <2>1, GotoMoves
  <2>3. WorkersFine'
    BY <1>2, <2>1, <2>2 DEF WorkerMoves, Step, Working
  <2>4. NextAttempt'
    BY <1>1, <2>1, <2>2 DEF WorkerMoves, NextAttempt, Holds
  <2> QED
    BY <1>1, <1>2, <1>3, <2>1, <2>3, <2>4, SameJobsFine DEF Kept
<1>12. CASE Returns
  <2>1. PICK w \in Worker : Working(w) /\ Return(w) /\ Kept
    BY <1>12 DEF Returns
  <2>2. /\ WorkerMoves(w, NoJob, "idle", 0) /\ worker[w].job \in Job
        /\ \/ /\ Holds(w, worker[w].job)
              /\ JobMoves(worker[w].job, "done", Nobody,
                          job[worker[w].job].made, job[worker[w].job].stalled)
           \/ UNCHANGED job
    BY <1>1, <2>1, ReturnMoves
  <2>3. JobsFine'
    <3> DEFINE j == worker[w].job
    <3>1. CASE UNCHANGED job
      BY <1>2, <1>3, <3>1, SameJobsFine
    <3>2. CASE Holds(w, j) /\ JobMoves(j, "done", Nobody, job[j].made, job[j].stalled)
      <4>1. j \in Job /\ job[j].made < Attempts
        BY <1>1, <2>2, <3>2 DEF AttemptsLeft, Holds
      <4> HIDE DEF j
      <4> QED
        BY <1>2, <1>3, <3>2, <4>1, MovedJobFine
    <3> QED
      BY <2>2, <3>1, <3>2
  <2>4. WorkersFine'
    BY <1>2, <2>2 DEF WorkerMoves
  <2>5. NextAttempt'
    BY <1>1, <1>6, <2>2 DEF JobMoves, WorkerMoves, NextAttempt, Holds
  <2> QED
    BY <1>2, <2>1, <2>3, <2>4, <2>5 DEF Kept
<1>13. CASE Throws
  <2>1. PICK w \in Worker : Working(w) /\ Throw(w) /\ UNCHANGED deadLetter
    BY <1>13 DEF Throws
  <2> DEFINE j == worker[w].job
  <2>2. Holds(w, j) => j \in Job /\ job[j].made < Attempts /\ job[j].made < MaxAttempts
    <3>1. j \in Job
      BY <1>2, <2>1 DEF Working, WorkerState
    <3> QED
      BY <1>1, <1>3, <1>5, <3>1 DEF AttemptsLeft, Holds
  <2>3. /\ WorkerMoves(w, NoJob, "idle", 0) /\ j \in Job
        /\ \/ /\ Holds(w, j)
              /\ JobMoves(j, IF IsFinalAttempt(w) THEN "failed" ELSE "waiting",
                          Nobody, job[j].made + 1, job[j].stalled)
              /\ TellFailed(j)
           \/ UNCHANGED <<job, failedSeen>>
    BY <1>1, <2>1, <2>2, ThrowMoves
  <2>4. Holds(w, j) => worker[w].attempt = job[j].made + 1
    BY <1>1, <2>3 DEF NextAttempt
  <2>5. SeenFine'
    BY <1>1, <1>2, <2>1, <2>3, TellKeepsType
  <2> HIDE DEF j
  <2>6. JobsFine'
    <3>1. CASE UNCHANGED job
      BY <1>2, <1>3, <3>1, SameJobsFine
    <3>2. CASE Holds(w, j) /\ IsFinalAttempt(w)
      <4>1. JobMoves(j, "failed", Nobody, job[j].made + 1, job[j].stalled) \/ UNCHANGED job
        BY <2>3, <3>2
      <4> QED
        BY <1>2, <1>3, <2>3, <3>1, <4>1, MovedJobFine
    <3>3. CASE Holds(w, j) /\ ~IsFinalAttempt(w)
      <4>1. job[j].made + 1 < Attempts
        BY <1>3, <1>5, <2>3, <2>4, <3>3 DEF IsFinalAttempt
      <4>2. JobMoves(j, "waiting", Nobody, job[j].made + 1, job[j].stalled) \/ UNCHANGED job
        BY <2>3, <3>3
      <4> QED
        BY <1>2, <1>3, <2>3, <3>1, <4>1, <4>2, MovedJobFine
    <3> QED
      BY <2>3, <3>1, <3>2, <3>3
  <2>7. WorkersFine'
    BY <1>2, <2>3 DEF WorkerMoves
  <2>8. NextAttempt'
    BY <1>1, <1>6, <2>3 DEF JobMoves, WorkerMoves, NextAttempt, Holds
  <2> QED
    BY <2>5, <2>6, <2>7, <2>8
<1>14. CASE Loses
  <2>1. PICK j \in Job : LoseLock(j)
    BY <1>14 DEF Loses
  <2>2. job[j].state = "active" /\ job[j].made < Attempts /\ job[j].made < MaxAttempts
    BY <1>1, <1>3, <1>5, <2>1 DEF LoseLock, AttemptsLeft
  <2>3. \/ /\ JobMoves(j, "waiting", Nobody, job[j].made, job[j].stalled + 1)
           /\ UNCHANGED failedSeen
        \/ \E counted \in 0..1 :
             /\ JobMoves(j, "failed", Nobody, job[j].made + counted, job[j].stalled)
             /\ TellFailed(j)
    BY <1>1, <2>1, <2>2, LoseMoves
  <2>4. UNCHANGED <<worker, deadLetter>>
    BY <2>1 DEF LoseLock
  <2>5. SeenFine'
    BY <1>1, <1>2, <2>3, <2>4, TellKeepsType
  <2>6. JobsFine'
    BY <1>2, <1>3, <2>2, <2>3, MovedJobFine
  <2>7. NextAttempt'
    BY <1>1, <1>6, <2>3, <2>4 DEF JobMoves, NextAttempt, Holds
  <2> QED
    BY <1>2, <2>4, <2>5, <2>6, <2>7
<1>15. CASE Dies
  <2>1. PICK w \in Worker : Die(w)
    BY <1>15 DEF Dies
  <2>2. WorkerMoves(w, NoJob, "idle", 0) /\ UNCHANGED <<job, deadLetter>>
    BY <1>1, <2>1, IdleMoves DEF Die
  <2>3. SeenFine'
    <3>1. \A j \in Job : [failedSeen[j] EXCEPT ![w] = 0] \in [Worker -> Nat]
      BY <1>2
    <3> QED
      BY <1>2, <2>1, <2>2, <3>1 DEF Die
  <2>4. WorkersFine'
    BY <1>2, <2>2 DEF WorkerMoves
  <2>5. NextAttempt'
    BY <1>1, <1>6, <2>2 DEF WorkerMoves, NextAttempt, Holds
  <2> QED
    BY <1>2, <1>3, <2>2, <2>3, <2>4, <2>5, SameJobsFine
<1>16. CASE Handles
  <2>1. PICK j \in Job, w \in Worker : HandleFailed(w, j)
    BY <1>16 DEF Handles
  <2>2. SeenFine'
    <3>1. failedSeen' \in [Job -> [Worker -> Nat]]
      BY <1>2, <2>1 DEF HandleFailed
    <3>2. deadLetter' \in [Job -> Nat]
      BY <1>2, <2>1 DEF HandleFailed
    <3> QED
      BY <3>1, <3>2
  <2> QED
    BY <1>1, <1>2, <1>3, <2>1, <2>2, SameJobsFine DEF HandleFailed, NextAttempt, Holds
<1> QED
  BY <1>8, <1>9, <1>10, <1>11, <1>12, <1>13, <1>14, <1>15, <1>16 DEF QueueStep

-----------------------------------------------------------------------------
(* Dead letters.  The failures that processes have yet to look at are       *)
(* counted as pairs of a process and a number, so that what is on record    *)
(* and what may still get there are together no more than one for each      *)
(* process and attempt.                                                     *)

Below(seen) == {p \in Worker \X (1..MaxAttempts) : p[2] <= seen[p[1]]}

LEMMA WorkersFinite == IsFiniteSet(Worker) /\ Cardinality(Worker) \in Nat
BY JobQueueAssumption, FS_CardinalityType

LEMMA BelowFinite ==
  ASSUME NEW seen
  PROVE  IsFiniteSet(Below(seen)) /\ Cardinality(Below(seen)) \in Nat
<1>1. IsFiniteSet(1..MaxAttempts)
  BY JobQueueAssumption, FS_Interval
<1>2. IsFiniteSet(Worker \X (1..MaxAttempts))
  BY <1>1, WorkersFinite, FS_Product
<1>3. Below(seen) \subseteq Worker \X (1..MaxAttempts)
  BY DEF Below
<1> QED
  BY <1>2, <1>3, FS_Subset, FS_CardinalityType

LEMMA FewerBelow ==
  ASSUME NEW f \in [Worker -> Nat], NEW g \in [Worker -> Nat], \A w \in Worker : g[w] <= f[w]
  PROVE  Cardinality(Below(g)) <= Cardinality(Below(f))
<1>1. Below(g) \subseteq Below(f)
  BY JobQueueAssumption DEF Below
<1> QED
  BY <1>1, BelowFinite, FS_Subset

LEMMA OneLessBelow ==
  ASSUME NEW f \in [Worker -> Nat], NEW g \in [Worker -> Nat], NEW w \in Worker,
         0 < f[w], f[w] <= MaxAttempts, g = [f EXCEPT ![w] = @ - 1]
  PROVE  Cardinality(Below(g)) + 1 = Cardinality(Below(f))
<1>1. <<w, f[w]>> \in Below(f)
  BY JobQueueAssumption DEF Below
<1>2. Below(g) = Below(f) \ {<<w, f[w]>>}
  <2>1. ASSUME NEW p \in Worker \X (1..MaxAttempts)
        PROVE  p \in Below(g) <=> p \in Below(f) /\ p # <<w, f[w]>>
    <3>1. p[1] \in Worker /\ p[2] \in Nat /\ p = <<p[1], p[2]>>
      BY <2>1, JobQueueAssumption
    <3>2. CASE p[1] = w
      BY <2>1, <3>1, <3>2 DEF Below
    <3>3. CASE p[1] # w
      BY <2>1, <3>1, <3>3 DEF Below
    <3> QED
      BY <3>2, <3>3
  <2> QED
    BY <2>1 DEF Below
<1>3. IsFiniteSet(Below(f)) /\ Cardinality(Below(f)) \in Nat
  BY BelowFinite
<1>4. Cardinality(Below(f) \ {<<w, f[w]>>}) = Cardinality(Below(f)) - 1
  BY <1>1, <1>3, FS_RemoveElement
<1>5. Cardinality(Below(g)) = Cardinality(Below(f)) - 1
  BY <1>2, <1>4, Zenon
<1> QED
  BY <1>3, <1>5

LEMMA OneMoreBelow ==
  ASSUME NEW f \in [Worker -> Nat], NEW g \in [Worker -> Nat], \A w \in Worker : g[w] = f[w] + 1
  PROVE  Cardinality(Below(g)) <= Cardinality(Below(f)) + Cardinality(Worker)
<1> DEFINE New == {p \in Worker \X (1..MaxAttempts) : p[2] = g[p[1]]}
           first == [p \in New |-> p[1]]
<1>1. Below(g) = Below(f) \union New
  BY JobQueueAssumption DEF Below
<1>2. first \in Injection(New, Worker)
  <2>1. first \in [New -> Worker]
    OBVIOUS
  <2>2. \A p \in New, q \in New : first[p] = first[q] => p = q
    OBVIOUS
  <2> QED
    BY <2>1, <2>2 DEF Injection, IsInjective
<1>3. IsFiniteSet(New) /\ Cardinality(New) <= Cardinality(Worker) /\ Cardinality(New) \in Nat
  BY <1>2, WorkersFinite, FS_Injection, FS_CardinalityType
<1>4. Below(f) \intersect New = {}
  BY DEF Below
<1> HIDE DEF New
<1>5. Cardinality(Below(f) \union New)
        = Cardinality(Below(f)) + Cardinality(New) - Cardinality(Below(f) \intersect New)
  BY <1>3, BelowFinite, FS_Union
<1>6. Cardinality(Below(f) \intersect New) = 0
  BY <1>4, FS_EmptySet
<1> QED
  BY <1>1, <1>3, <1>5, <1>6, BelowFinite, WorkersFinite

LEMMA NothingBelow ==
  ASSUME NEW f \in [Worker -> Nat], \A w \in Worker : f[w] = 0
  PROVE  Cardinality(Below(f)) = 0
<1>1. Below(f) = {}
  BY JobQueueAssumption DEF Below
<1> QED
  BY <1>1, FS_EmptySet

\* How often a job may have failed: one that was given up is taken to have used
\* all its attempts, whether or not losing its lock counted as one.
Failures(j) == IF job[j].state = "failed" THEN MaxAttempts ELSE job[j].made

DeadLetterInv ==
  \A j \in Job :
    /\ \A w \in Worker : failedSeen[j][w] <= Failures(j) /\ (failedSeen[j][w] > 0 => redis)
    /\ deadLetter[j] > 0 => job[j].state = "failed" /\ job[j].made = MaxAttempts
    /\ deadLetter[j] + Cardinality(Below(failedSeen[j])) <= Cardinality(Worker) * Failures(j)

LEMMA FailuresCounted ==
  ASSUME QueueInv, NEW j \in Job
  PROVE  Failures(j) \in Nat /\ Failures(j) <= MaxAttempts /\ job[j].made <= Failures(j)
BY JobQueueAssumption DEF QueueInv, QueueTypeOK, JobState, Failures

\* What a step does to the failures of a job: nothing, or no new one is told; or
\* every process is told of one; or a process looks at one.
LEMMA FailuresMove ==
  ASSUME QueueInv, QueueStep, NEW j \in Job
  PROVE  \/ /\ job'[j] = job[j] \/ (job[j].state # "failed" /\ Failures(j)' >= Failures(j))
            /\ deadLetter'[j] = deadLetter[j]
            /\ \A w \in Worker : failedSeen'[j][w] \in {0, failedSeen[j][w]}
         \/ /\ job[j].state # "failed" /\ Failures(j)' >= Failures(j) + 1
            /\ deadLetter'[j] = deadLetter[j]
            /\ redis /\ \A w \in Worker : failedSeen'[j][w] = failedSeen[j][w] + 1
         \/ \E w \in Worker :
              /\ job'[j] = job[j] /\ failedSeen[j][w] > 0
              /\ failedSeen'[j] = [failedSeen[j] EXCEPT ![w] = @ - 1]
              /\ \/ deadLetter'[j] = deadLetter[j]
                 \/ job[j].made >= Attempts /\ deadLetter'[j] = deadLetter[j] + 1
<1>1. QueueTypeOK /\ AttemptsLeft
  BY DEF QueueInv
<1>2. job[j] \in JobState /\ job[j].made \in Nat /\ MaxAttempts \in Nat
  BY <1>1, JobQueueAssumption DEF QueueTypeOK, JobState
<1>3. Attempts <= MaxAttempts /\ Attempts \in Nat
  BY <1>1, AttemptsBounded
<1>4. job[j].state # "failed" => job[j].made < MaxAttempts /\ Failures(j) = job[j].made
  BY <1>1, <1>2, <1>3 DEF AttemptsLeft, Failures
<1>5. failedSeen \in [Job -> [Worker -> Nat]] /\ deadLetter \in [Job -> Nat]
  BY <1>1 DEF QueueTypeOK
<1>6. CASE Rests
  BY <1>6 DEF Rests, Kept
<1>7. CASE Adds
  <2>1. PICK i \in Job : Add(i) /\ Kept
    BY <1>7 DEF Adds
  <2>2. \/ job[i] = NotAdded /\ JobMoves(i, "waiting", Nobody, 0, 0)
        \/ UNCHANGED job
    BY <1>1, <2>1, AddMoves
  <2>3. job'[j] = job[j] \/ (job[j].state # "failed" /\ Failures(j)' >= Failures(j))
    BY <1>2, <1>4, <2>2 DEF JobMoves, Failures, NotAdded
  <2> QED
    BY <2>1, <2>3 DEF Kept
<1>8. CASE Takes
  <2>1. PICK w \in Worker, i \in Job, step \in Step : Take(w, i, step) /\ Kept
    BY <1>8 DEF Takes
  <2>2. job[i].state = "waiting" /\ job[i].made < MaxAttempts
    <3>1. job[i].state = "waiting"
      BY <2>1 DEF Take
    <3> QED
      BY <1>1, <1>3, <3>1, JobQueueAssumption DEF AttemptsLeft, QueueTypeOK, JobState
  <2>3. JobMoves(i, "active", w, job[i].made, job[i].stalled)
    BY <1>1, <2>1, <2>2, TakeMoves
  <2>4. job'[j] = job[j] \/ (job[j].state # "failed" /\ Failures(j)' >= Failures(j))
    BY <1>2, <1>4, <2>2, <2>3 DEF JobMoves, Failures
  <2> QED
    BY <2>1, <2>4 DEF Kept
<1>9. CASE GoesOn
  BY <1>9 DEF GoesOn, Kept
<1>10. CASE Returns
  <2>1. PICK w \in Worker : Working(w) /\ Return(w) /\ Kept
    BY <1>10 DEF Returns
  <2> DEFINE i == worker[w].job
  <2>2. \/ Holds(w, i) /\ JobMoves(i, "done", Nobody, job[i].made, job[i].stalled)
        \/ UNCHANGED job
    BY <1>1, <2>1, ReturnMoves
  <2> HIDE DEF i
  <2>3. job'[j] = job[j] \/ (job[j].state # "failed" /\ Failures(j)' >= Failures(j))
    BY <1>2, <1>4, <2>2 DEF JobMoves, Failures, Holds
  <2> QED
    BY <2>1, <2>3 DEF Kept
<1>11. CASE Throws
  <2>1. PICK w \in Worker : Working(w) /\ Throw(w) /\ UNCHANGED deadLetter
    BY <1>11 DEF Throws
  <2> DEFINE i == worker[w].job
  <2>2. Holds(w, i) => job[i].made < MaxAttempts /\ job[i].state = "active"
    <3>1. i \in Job
      BY <1>1, <2>1 DEF Working, QueueTypeOK
    <3> QED
      BY <1>1, <1>3, <3>1, JobQueueAssumption DEF AttemptsLeft, Holds, QueueTypeOK, JobState
  <2>3. \/ /\ Holds(w, i) /\ TellFailed(i)
           /\ JobMoves(i, IF IsFinalAttempt(w) THEN "failed" ELSE "waiting",
                       Nobody, job[i].made + 1, job[i].stalled)
        \/ UNCHANGED <<job, failedSeen>>
    BY <1>1, <2>1, <2>2, ThrowMoves
  <2> HIDE DEF i
  <2>4. CASE UNCHANGED <<job, failedSeen>>
    BY <2>1, <2>4
  <2>5. CASE /\ Holds(w, i) /\ TellFailed(i)
             /\ JobMoves(i, IF IsFinalAttempt(w) THEN "failed" ELSE "waiting",
                         Nobody, job[i].made + 1, job[i].stalled)
    <3>1. CASE j = i
      <4>1. /\ job[j].state # "failed"
            /\ Failures(j)' >= Failures(j) + 1 /\ Failures(j)' >= Failures(j)
        BY <1>2, <1>4, <2>2, <2>5, <3>1 DEF JobMoves, Failures
      <4>2. \/ UNCHANGED failedSeen
            \/ redis /\ \A v \in Worker : failedSeen'[j][v] = failedSeen[j][v] + 1
        BY <1>5, <2>5, <3>1 DEF TellFailed
      <4> QED
        BY <2>1, <4>1, <4>2
    <3>2. CASE j # i
      BY <1>5, <2>1, <2>5, <3>2 DEF JobMoves, TellFailed
    <3> QED
      BY <3>1, <3>2
  <2> QED
    BY <2>3, <2>4, <2>5
<1>12. CASE Loses
  <2>1. PICK i \in Job : LoseLock(i)
    BY <1>12 DEF Loses
  <2>2. job[i].state = "active" /\ job[i].made < MaxAttempts
    BY <1>1, <1>3, <2>1, JobQueueAssumption DEF LoseLock, AttemptsLeft, QueueTypeOK, JobState
  <2>3. UNCHANGED deadLetter /\ redis
    BY <2>1 DEF LoseLock
  <2>4. \/ /\ JobMoves(i, "waiting", Nobody, job[i].made, job[i].stalled + 1)
           /\ UNCHANGED failedSeen
        \/ \E counted \in 0..1 :
             /\ JobMoves(i, "failed", Nobody, job[i].made + counted, job[i].stalled)
             /\ TellFailed(i)
    BY <1>1, <2>1, <2>2, LoseMoves
  <2>5. CASE j = i
    <3>1. Failures(j)' >= Failures(j)
          /\ (\/ UNCHANGED failedSeen
              \/ /\ Failures(j)' >= Failures(j) + 1
                 /\ \A v \in Worker : failedSeen'[j][v] = failedSeen[j][v] + 1)
      BY <1>2, <1>4, <1>5, <2>2, <2>4, <2>5 DEF JobMoves, Failures, TellFailed
    <3> QED
      BY <2>2, <2>3, <2>5, <3>1
  <2>6. CASE j # i
    BY <1>5, <2>3, <2>4, <2>6 DEF JobMoves, TellFailed
  <2> QED
    BY <2>5, <2>6
<1>13. CASE Dies
  <2>1. PICK w \in Worker : Die(w)
    BY <1>13 DEF Dies
  <2>2. \A v \in Worker : failedSeen'[j][v] \in {0, failedSeen[j][v]}
    BY <1>5, <2>1 DEF Die
  <2> QED
    BY <2>1, <2>2 DEF Die
<1>14. CASE Handles
  <2>1. PICK i \in Job, w \in Worker : HandleFailed(w, i)
    BY <1>14 DEF Handles
  <2>2. CASE j = i
    <3>1. failedSeen[j][w] > 0 /\ UNCHANGED job
          /\ failedSeen'[j] = [failedSeen[j] EXCEPT ![w] = @ - 1]
      BY <1>5, <2>1, <2>2 DEF HandleFailed
    <3>2. \/ deadLetter'[j] = deadLetter[j]
          \/ job[j].made >= Attempts /\ deadLetter'[j] = deadLetter[j] + 1
      BY <1>2, <1>3, <1>5, <2>1, <2>2 DEF HandleFailed
    <3> QED
      BY <3>1, <3>2
  <2>3. CASE j # i
    BY <1>5, <2>1, <2>3 DEF HandleFailed
  <2> QED
    BY <2>2, <2>3
<1> QED
  BY <1>6, <1>7, <1>8, <1>9, <1>10, <1>11, <1>12, <1>13, <1>14 DEF QueueStep

LEMMA DeadLettersInit ==
  ASSUME QueueInit
  PROVE  DeadLetterInv
<1> SUFFICES ASSUME NEW j \in Job
             PROVE  /\ Cardinality(Below(failedSeen[j])) = 0
                    /\ deadLetter[j] = 0 /\ Failures(j) = 0
                    /\ \A w \in Worker : failedSeen[j][w] = 0
  BY WorkersFinite DEF DeadLetterInv
<1>1. failedSeen[j] \in [Worker -> Nat] /\ \A w \in Worker : failedSeen[j][w] = 0
  BY DEF QueueInit
<1>2. deadLetter[j] = 0 /\ Failures(j) = 0
  BY DEF QueueInit, Failures, NotAdded
<1> QED
  BY <1>1, <1>2, NothingBelow

\* One more failure makes room for a row of each process.
LEMMA MoreRoom ==
  ASSUME NEW c \in Nat, NEW m \in Nat, NEW n \in Nat
  PROVE  /\ n >= m => c * n >= c * m
         /\ n >= m + 1 => c * n >= c * m + c
OBVIOUS

LEMMA DeadLettersStep ==
  ASSUME QueueInv, QueueInv', QueueStep, DeadLetterInv
  PROVE  DeadLetterInv'
<1> SUFFICES ASSUME NEW j \in Job
             PROVE  /\ \A w \in Worker : /\ failedSeen'[j][w] <= Failures(j)'
                                         /\ failedSeen'[j][w] > 0 => redis'
                    /\ deadLetter'[j] > 0 => job'[j].state = "failed" /\ job'[j].made = MaxAttempts
                    /\ deadLetter'[j] + Cardinality(Below(failedSeen'[j]))
                         <= Cardinality(Worker) * Failures(j)'
  BY DEF DeadLetterInv, Below
<1> DEFINE f == failedSeen[j]
           g == failedSeen'[j]
           c == Cardinality(Worker)
           m == Failures(j)
           n == Failures(j)'
           before == Cardinality(Below(f))
           after == Cardinality(Below(g))
<1>1. /\ f \in [Worker -> Nat] /\ g \in [Worker -> Nat]
      /\ deadLetter[j] \in Nat /\ deadLetter'[j] \in Nat
      /\ before \in Nat /\ after \in Nat /\ c \in Nat
  BY BelowFinite, WorkersFinite DEF QueueInv, QueueTypeOK
<1>2. m \in Nat /\ n \in Nat /\ m <= MaxAttempts /\ MaxAttempts \in Nat
  BY FailuresCounted, JobQueueAssumption DEF QueueInv, QueueTypeOK, JobState, Failures
<1>3. /\ \A w \in Worker : f[w] <= m /\ (f[w] > 0 => redis)
      /\ deadLetter[j] > 0 => job[j].state = "failed" /\ job[j].made = MaxAttempts
      /\ deadLetter[j] + before <= c * m
  BY DEF DeadLetterInv
<1>4. redis' = redis
  BY DEF QueueStep
<1>5. (n >= m => c * n >= c * m) /\ (n >= m + 1 => c * n >= c * m + c)
      /\ c * m \in Nat /\ c * n \in Nat
  BY <1>1, <1>2, MoreRoom
<1>6. CASE /\ job'[j] = job[j] \/ (job[j].state # "failed" /\ n >= m)
           /\ deadLetter'[j] = deadLetter[j]
           /\ \A w \in Worker : g[w] \in {0, f[w]}
  <2>1. n >= m
    BY <1>2, <1>6 DEF Failures
  <2>2. \A w \in Worker : g[w] <= f[w]
    BY <1>1, <1>6
  <2>3. after <= before
    BY <1>1, <2>2, FewerBelow
  <2> HIDE DEF f, g, c, m, n, before, after
  <2>4. \A w \in Worker : g[w] <= n /\ (g[w] > 0 => redis')
    BY <1>1, <1>2, <1>3, <1>4, <1>6, <2>1
  <2>5. deadLetter'[j] + after <= c * n
    BY <1>1, <1>3, <1>5, <1>6, <2>1, <2>3
  <2>6. deadLetter'[j] > 0 => job'[j].state = "failed" /\ job'[j].made = MaxAttempts
    BY <1>3, <1>6
  <2> QED
    BY <2>4, <2>5, <2>6 DEF f, g, c, n, after
<1>7. CASE /\ job[j].state # "failed" /\ n >= m + 1
           /\ deadLetter'[j] = deadLetter[j]
           /\ redis /\ \A w \in Worker : g[w] = f[w] + 1
  <2>1. after <= before + c
    BY <1>1, <1>7, OneMoreBelow
  <2> HIDE DEF f, g, c, m, n, before, after
  <2>2. \A w \in Worker : g[w] <= n /\ (g[w] > 0 => redis')
    BY <1>1, <1>2, <1>3, <1>4, <1>7
  <2>3. deadLetter'[j] + after <= c * n
    BY <1>1, <1>3, <1>5, <1>7, <2>1
  <2>4. ~(deadLetter'[j] > 0)
    BY <1>3, <1>7
  <2> QED
    BY <2>2, <2>3, <2>4 DEF f, g, c, n, after
<1>8. CASE \E w \in Worker :
             /\ job'[j] = job[j] /\ failedSeen[j][w] > 0
             /\ failedSeen'[j] = [failedSeen[j] EXCEPT ![w] = @ - 1]
             /\ \/ deadLetter'[j] = deadLetter[j]
                \/ job[j].made >= Attempts /\ deadLetter'[j] = deadLetter[j] + 1
  <2>1. PICK w \in Worker :
          /\ job'[j] = job[j] /\ f[w] > 0
          /\ g = [f EXCEPT ![w] = @ - 1]
          /\ \/ deadLetter'[j] = deadLetter[j]
             \/ job[j].made >= Attempts /\ deadLetter'[j] = deadLetter[j] + 1
    BY <1>8
  <2>2. n = m
    BY <2>1 DEF Failures
  <2>3. 0 < f[w] /\ f[w] <= MaxAttempts
    BY <1>1, <1>2, <1>3, <2>1
  <2>4. after + 1 = before
    BY <1>1, <2>1, <2>3, OneLessBelow
  <2>5. job[j].made >= Attempts => job[j].state = "failed" /\ job[j].made = MaxAttempts
    <3>1. job[j].made \in 0..MaxAttempts /\ Attempts \in Nat
      BY AttemptsBounded DEF QueueInv, QueueTypeOK, JobState
    <3>2. Attempts = MaxAttempts
      BY <1>3, <2>1 DEF Attempts
    <3> QED
      BY <1>2, <3>1, <3>2 DEF QueueInv, AttemptsLeft
  <2> HIDE DEF f, g, c, m, n, before, after
  <2>6. \A v \in Worker : g[v] <= n /\ (g[v] > 0 => redis')
    BY <1>1, <1>2, <1>3, <1>4, <2>1, <2>2
  <2>7. deadLetter'[j] + after <= c * n
    <3>1. c * n = c * m
      BY <2>2
    <3>2. (deadLetter'[j] = deadLetter[j] \/ deadLetter'[j] = deadLetter[j] + 1)
      BY <2>1
    <3> QED
      BY <1>1, <1>3, <1>5, <2>4, <3>1, <3>2
  <2>8. deadLetter'[j] > 0 => job'[j].state = "failed" /\ job'[j].made = MaxAttempts
    BY <1>3, <2>1, <2>5
  <2> QED
    BY <2>6, <2>7, <2>8 DEF f, g, c, n, after
<1> QED
  BY <1>6, <1>7, <1>8, FailuresMove

LEMMA DeadLettersHold ==
  ASSUME QueueInv, DeadLetterInv
  PROVE  DeadLettersAccountedFor
<1> SUFFICES ASSUME NEW j \in Job, deadLetter[j] > 0
             PROVE  /\ job[j].state = "failed" /\ job[j].made = MaxAttempts
                    /\ deadLetter[j] <= MaxAttempts * Cardinality(Worker)
  BY DEF DeadLettersAccountedFor
<1>1. /\ job[j].state = "failed" /\ job[j].made = MaxAttempts
      /\ deadLetter[j] + Cardinality(Below(failedSeen[j])) <= Cardinality(Worker) * MaxAttempts
  BY DEF DeadLetterInv, Failures
<1>2. Cardinality(Worker) * MaxAttempts = MaxAttempts * Cardinality(Worker)
  BY WorkersFinite, JobQueueAssumption
<1>3. /\ deadLetter[j] \in Nat /\ Cardinality(Below(failedSeen[j])) \in Nat
      /\ MaxAttempts * Cardinality(Worker) \in Nat
  BY WorkersFinite, BelowFinite, JobQueueAssumption DEF QueueInv, QueueTypeOK
<1> QED
  BY <1>1, <1>2, <1>3

-----------------------------------------------------------------------------
(* The rows of each queue have their types.                                 *)

LEMMA WorksOnJob ==
  ASSUME QueueTypeOK, NEW w \in Worker, Working(w)
  PROVE  worker[w].job \in Job
BY DEF QueueTypeOK, Working

LEMMA WebhookTypeStep ==
  ASSUME QueueTypeOK, WebhookTypeOK, WebhookNext
  PROVE  WebhookTypeOK'
<1> DEFINE Row == [endpoint : Endpoint \union {NoEndpoint}, status : DeliveryStatus]
<1>1. /\ endpoint \in [Endpoint -> {"ACTIVE", "SUSPENDED", "DELETED"}]
      /\ delivery \in [Job -> Row]
      /\ \A d \in Job : (delivery[d].endpoint = NoEndpoint) <=> (delivery[d].status = "none")
      /\ unpublished \subseteq Endpoint
      /\ unqueued \in [Producer -> SUBSET Job]
      /\ posts \in [Job -> Nat]
      /\ recorded \in [Job -> Nat]
  BY DEF WebhookTypeOK
<1>2. NoEndpoint \notin Endpoint
  BY WebhookAssumption
<1> SUFFICES
      /\ endpoint' \in [Endpoint -> {"ACTIVE", "SUSPENDED", "DELETED"}]
      /\ delivery' \in [Job -> Row]
      /\ \A d \in Job : (delivery'[d].endpoint = NoEndpoint) <=> (delivery'[d].status = "none")
      /\ unpublished' \subseteq Endpoint
      /\ unqueued' \in [Producer -> SUBSET Job]
      /\ posts' \in [Job -> Nat]
      /\ recorded' \in [Job -> Nat]
  BY DEF WebhookTypeOK
<1>3. ASSUME NEW p \in Producer, NEW d \in Job, NEW e \in Endpoint, CreateDelivery(p, d, e),
             unpublished' \subseteq Endpoint
      PROVE  WebhookTypeOK'
  <2>1. [endpoint |-> e, status |-> "PENDING"] \in Row
    BY DEF DeliveryStatus
  <2>2. /\ delivery' \in [Job -> Row]
        /\ \A i \in Job : (delivery'[i].endpoint = NoEndpoint) <=> (delivery'[i].status = "none")
    BY <1>1, <1>2, <1>3, <2>1 DEF CreateDelivery
  <2>3. unqueued' \in [Producer -> SUBSET Job]
    BY <1>1, <1>3 DEF CreateDelivery
  <2> QED
    BY <1>1, <1>3, <2>2, <2>3 DEF CreateDelivery, WebhookTypeOK
<1>4. ASSUME NEW d \in Job, NEW e \in Endpoint, Publish(d, e)
      PROVE  WebhookTypeOK'
  BY <1>1, <1>3, <1>4 DEF Publish, Producer
<1>5. ASSUME NEW d \in Job, NEW original \in Job, ReplayDelivery(d, original)
      PROVE  WebhookTypeOK'
  <2>1. delivery[original].endpoint \in Endpoint
    BY <1>1, <1>5 DEF ReplayDelivery, Exists, NoDelivery
  <2> QED
    BY <1>1, <1>3, <1>5, <2>1 DEF ReplayDelivery, Producer
<1>6. ASSUME NEW w \in Worker, NEW d \in Job, Deliver(w, d)
      PROVE  WebhookTypeOK'
  BY <1>1, <1>6 DEF Deliver, webhookVars, WebhookTypeOK
<1>7. ASSUME NEW p \in Producer, NEW d \in Job, EnqueueDelivery(p, d)
      PROVE  WebhookTypeOK'
  BY <1>1, <1>7 DEF EnqueueDelivery, WebhookTypeOK
<1>8. ASSUME NEW p \in Producer, ProducerFails(p)
      PROVE  WebhookTypeOK'
  <2>1. unqueued' \in [Producer -> SUBSET Job] /\ unpublished' \subseteq Endpoint
    BY <1>1, <1>8 DEF ProducerFails
  <2> QED
    BY <1>1, <1>8, <2>1 DEF ProducerFails, WebhookTypeOK
<1>9. ASSUME NEW e \in Endpoint, SetStatus(e)
      PROVE  WebhookTypeOK'
  BY <1>1, <1>9 DEF SetStatus, WebhookTypeOK
<1>10. ASSUME NEW e \in Endpoint, DeleteEndpoint(e)
       PROVE  WebhookTypeOK'
  <2>1. NoDelivery \in Row /\ NoDelivery.endpoint = NoEndpoint /\ NoDelivery.status = "none"
    BY DEF NoDelivery, DeliveryStatus
  <2>2. /\ delivery' \in [Job -> Row]
        /\ \A d \in Job : (delivery'[d].endpoint = NoEndpoint) <=> (delivery'[d].status = "none")
    BY <1>1, <1>10, <2>1 DEF DeleteEndpoint
  <2> QED
    BY <1>1, <1>10, <2>2 DEF DeleteEndpoint, WebhookTypeOK
<1>11. ASSUME NEW d \in Job, NEW status \in {"SUCCEEDED", "FAILED", "EXHAUSTED"},
              Exists(d), Record(d, status)
       PROVE  /\ delivery' \in [Job -> Row]
              /\ \A i \in Job :
                   (delivery'[i].endpoint = NoEndpoint) <=> (delivery'[i].status = "none")
  <2>1. delivery[d].status # "none"
    BY <1>1, <1>11 DEF Exists, NoDelivery
  <2> QED
    BY <1>1, <1>11, <2>1 DEF Record, DeliveryStatus
<1>12. ASSUME NEW w \in Worker, Attempt(w)
       PROVE  WebhookTypeOK'
  <2> DEFINE d == worker[w].job
  <2>1. CASE FindDelivery(w) \/ FindEndpoint(w) \/ AcceptedIsLost(w)
    BY <1>1, <2>1 DEF FindDelivery, FindEndpoint, AcceptedIsLost, Quiet, WebhookTypeOK
  <2>2. CASE Post(w)
    <3>1. d \in Job
      BY <2>2, WorksOnJob DEF Post, At, Working
    <3>2. posts' = [posts EXCEPT ![d] = posts[d] + 1] /\ posts[d] \in Nat
      BY <1>1, <2>2, <3>1 DEF Post
    <3>3. posts' \in [Job -> Nat]
      <4> HIDE DEF d
      <4> QED
        BY <1>1, <3>1, <3>2
    <3> QED
      BY <1>1, <2>2, <3>3 DEF Post, WebhookTypeOK
  <2>3. CASE RecordAccepted(w)
    <3>1. d \in Job
      BY <2>3, WorksOnJob DEF RecordAccepted, At, Working
    <3>2. recorded' = [recorded EXCEPT ![d] = recorded[d] + 1] /\ recorded[d] \in Nat
      BY <1>1, <2>3, <3>1 DEF RecordAccepted
    <3>3. recorded' \in [Job -> Nat]
      <4> HIDE DEF d
      <4> QED
        BY <1>1, <3>1, <3>2
    <3> QED
      BY <1>1, <1>11, <2>3, <3>1, <3>3 DEF RecordAccepted, WebhookTypeOK
  <2>4. CASE RecordRejected(w) \/ RecordRefused(w)
    <3>1. d \in Job
      BY <2>4, WorksOnJob DEF RecordRejected, RecordRefused, At, Working
    <3> QED
      BY <1>1, <1>11, <2>4, <3>1 DEF RecordRejected, RecordRefused, WebhookTypeOK
  <2>5. CASE AttemptThrows(w)
    BY <1>1, <2>5 DEF AttemptThrows, webhookVars, WebhookTypeOK
  <2> QED
    BY <1>12, <2>1, <2>2, <2>3, <2>4, <2>5 DEF Attempt
<1> QED
  BY <1>4, <1>5, <1>6, <1>7, <1>8, <1>9, <1>10, <1>12 DEF WebhookNext, WebhookTypeOK

LEMMA RunQueueTypeStep ==
  ASSUME QueueTypeOK, RunQueueTypeOK, RunQueueNext
  PROVE  RunQueueTypeOK'
<1> USE DEF RunQueueTypeOK
<1>1. ASSUME NEW j \in Job,
             \/ CreateRun(j) \/ FindPendingRun(j) \/ EnqueueRun(j) \/ EnqueueRunFails(j)
             \/ \E w \in Worker : DeliverRun(w, j)
      PROVE  RunQueueTypeOK'
  BY <1>1 DEF CreateRun, FindPendingRun, EnqueueRun, EnqueueRunFails, DeliverRun, runQueueVars
<1>2. ASSUME NEW w \in Worker, LoadRun(w) \/ LoadRunThrows(w)
      PROVE  RunQueueTypeOK'
  BY <1>2 DEF LoadRun, LoadRunThrows, runQueueVars
<1> QED
  BY <1>1, <1>2 DEF RunQueueNext

\* The jobs of the events: no other is ever worked on.
OnEvents ==
  queue = "stripe-webhook" => \A w \in Worker : worker[w].job \in Event \union {NoJob}

StripeInv == StripeTypeOK /\ OnEvents

LEMMA EventTypes ==
  ASSUME StripeTypeOK, NEW e \in Event
  PROVE  story[e] \in EventType
BY StripeAssumption DEF StripeTypeOK, StripeAssumption, Event

\* Every type of event belongs to one kind of row.
LEMMA Kinds ==
  /\ DOMAIN Upserts = {"created", "updated"}
  /\ DOMAIN Invoices = {"finalized", "invoice_failed", "paid"}
  /\ DOMAIN Payments = {"payment_failed", "succeeded"}
  /\ EventType = {"created", "updated", "deleted", "refunded", "finalized", "invoice_failed",
                  "paid", "payment_failed", "succeeded"}
BY DEF Upserts, Invoices, Payments, EventType

LEMMA WrittenAs ==
  ASSUME NEW type
  PROVE  /\ type \in {"created", "updated"} =>
              Written(type) = [mirror EXCEPT !.linked = TRUE, !.status = Upserts[type]]
         /\ type = "deleted" => Written(type) = [mirror EXCEPT !.status = "CANCELED"]
         /\ type \in {"finalized", "invoice_failed", "paid"} =>
              Written(type) = [mirror EXCEPT !.invoice = Invoices[type]]
         /\ type \in {"payment_failed", "succeeded"} =>
              Written(type) = [mirror EXCEPT !.payment = Payments[type]]
         /\ type = "refunded" => Written(type) = [mirror EXCEPT !.payment = "REFUNDED"]
BY Kinds DEF Written

LEMMA MirrorRows ==
  ASSUME mirror \in Mirror, NEW status \in {"TRIALING", "ACTIVE", "PAST_DUE", "CANCELED"},
         NEW invoice \in {"none", "OPEN", "PAID"}, NEW lines \in Nat,
         NEW payment \in {"none", "FAILED", "SUCCEEDED", "REFUNDED"}
  PROVE  /\ [mirror EXCEPT !.linked = TRUE, !.status = status] \in Mirror
         /\ [mirror EXCEPT !.status = status] \in Mirror
         /\ [mirror EXCEPT !.invoice = invoice] \in Mirror
         /\ [mirror EXCEPT !.lines = lines] \in Mirror
         /\ [mirror EXCEPT !.payment = payment] \in Mirror
<1>1. [mirror EXCEPT !.linked = TRUE, !.status = status] \in Mirror
  BY DEF Mirror
<1>2. [mirror EXCEPT !.status = status] \in Mirror
  BY DEF Mirror
<1>3. [mirror EXCEPT !.invoice = invoice] \in Mirror
  BY DEF Mirror
<1>4. [mirror EXCEPT !.lines = lines] \in Mirror
  BY DEF Mirror
<1>5. [mirror EXCEPT !.payment = payment] \in Mirror
  BY DEF Mirror
<1> QED
  BY <1>1, <1>2, <1>3, <1>4, <1>5

\* What is written is a row again, whatever the event.
LEMMA WrittenIsMirror ==
  ASSUME mirror \in Mirror, NEW type \in EventType
  PROVE  Written(type) \in Mirror
<1>1. CASE type \in {"created", "updated"}
  <2>1. Upserts[type] \in {"ACTIVE", "PAST_DUE"}
    BY <1>1 DEF Upserts
  <2>2. [mirror EXCEPT !.linked = TRUE, !.status = Upserts[type]] \in Mirror
    BY <2>1, MirrorRows
  <2> QED
    BY <1>1, <2>2, WrittenAs
<1>2. CASE type = "deleted"
  <2>1. [mirror EXCEPT !.status = "CANCELED"] \in Mirror
    BY MirrorRows
  <2> QED
    BY <1>2, <2>1, WrittenAs
<1>3. CASE type \in {"finalized", "invoice_failed", "paid"}
  <2>1. Invoices[type] \in {"OPEN", "PAID"}
    BY <1>3 DEF Invoices
  <2>2. [mirror EXCEPT !.invoice = Invoices[type]] \in Mirror
    BY <2>1, MirrorRows
  <2> QED
    BY <1>3, <2>2, WrittenAs
<1>4. CASE type \in {"payment_failed", "succeeded"}
  <2>1. Payments[type] \in {"FAILED", "SUCCEEDED"}
    BY <1>4 DEF Payments
  <2>2. [mirror EXCEPT !.payment = Payments[type]] \in Mirror
    BY <2>1, MirrorRows
  <2> QED
    BY <1>4, <2>2, WrittenAs
<1>5. CASE type = "refunded"
  <2>1. [mirror EXCEPT !.payment = "REFUNDED"] \in Mirror
    BY MirrorRows
  <2> QED
    BY <1>5, <2>1, WrittenAs
<1> QED
  BY <1>1, <1>2, <1>3, <1>4, <1>5, Kinds

LEMMA WorksOnEvent ==
  ASSUME StripeInv, queue = "stripe-webhook", QueueTypeOK, NEW w \in Worker, Working(w)
  PROVE  worker[w].job \in Event /\ Type(w) \in EventType
BY WorksOnJob, EventTypes DEF StripeInv, OnEvents, Type, QueueTypeOK, Working

LEMMA StripeTypeStep ==
  ASSUME QueueTypeOK, StripeInv, queue = "stripe-webhook", StripeNext
  PROVE  StripeTypeOK'
<1>1. StripeTypeOK /\ Event \subseteq Job
  BY EventsAreJobs, StripeAssumption DEF StripeInv
<1>2. story' = story /\ Event' = Event
  <2>1. story' = story
    BY DEF StripeNext, ReceiveNew, ReceiveAgain, EnqueueEvent, EnqueueFails, DeliverEvent, Handle,
           FindMirror, WriteMirror, AddItems, Handling, MarkProcessed, HandlerThrows,
           FindExpiredTrial, EndTrial
  <2> QED
    BY <2>1 DEF Event
<1> USE DEF StripeTypeOK
<1>3. ASSUME NEW e \in Event,
             \/ ReceiveNew(e) \/ ReceiveAgain(e) \/ EnqueueEvent(e) \/ EnqueueFails(e)
             \/ \E w \in Worker : DeliverEvent(w, e)
      PROVE  StripeTypeOK'
  <2>1. disordered' \in BOOLEAN
    BY <1>1, <1>3 DEF ReceiveNew, ReceiveAgain, EnqueueEvent, EnqueueFails, DeliverEvent
  <2>2. acked' \subseteq Event /\ unadded' \subseteq Event
    BY <1>1, <1>3 DEF ReceiveNew, ReceiveAgain, EnqueueEvent, EnqueueFails, DeliverEvent
  <2>3. stored' \in [Job -> {"none", "new", "processed", "failed"}]
    BY <1>1, <1>3 DEF ReceiveNew, ReceiveAgain, EnqueueEvent, EnqueueFails, DeliverEvent
  <2>4. UNCHANGED <<mirror, sweeping>>
    BY <1>3 DEF ReceiveNew, ReceiveAgain, EnqueueEvent, EnqueueFails, DeliverEvent
  <2> QED
    BY <1>1, <1>2, <2>1, <2>2, <2>3, <2>4
<1>4. ASSUME NEW w \in Worker, Handle(w)
      PROVE  StripeTypeOK'
  <2>1. worker[w].job \in Event /\ Type(w) \in EventType
    BY <1>4, WorksOnEvent
       DEF Handle, FindMirror, WriteMirror, AddItems, MarkProcessed, At, Working
  <2>2. CASE FindMirror(w) \/ WriteMirror(w) \/ AddItems(w)
    <3>1. mirror.lines + 1 \in Nat
      BY <1>1 DEF Mirror
    <3>2. mirror' \in Mirror
      <4>1. CASE FindMirror(w)
        BY <1>1, <4>1 DEF FindMirror
      <4>2. CASE WriteMirror(w)
        BY <1>1, <2>1, <4>2, WrittenIsMirror DEF WriteMirror
      <4>3. CASE AddItems(w)
        BY <1>1, <3>1, <4>3, MirrorRows DEF AddItems
      <4> QED
        BY <2>2, <4>1, <4>2, <4>3
    <3>3. UNCHANGED <<stored, unadded, acked, sweeping, disordered>>
      BY <2>2 DEF FindMirror, WriteMirror, AddItems, Handling
    <3> QED
      BY <1>1, <1>2, <3>2, <3>3
  <2>3. CASE MarkProcessed(w)
    <3>1. stored' \in [Job -> {"none", "new", "processed", "failed"}]
      BY <1>1, <2>3 DEF MarkProcessed
    <3>2. acked' \subseteq Event
      BY <1>1, <2>1, <2>3 DEF MarkProcessed
    <3> QED
      BY <1>1, <1>2, <2>3, <3>1, <3>2 DEF MarkProcessed
  <2> QED
    BY <1>4, <2>2, <2>3 DEF Handle
<1>5. ASSUME NEW w \in Worker, HandlerThrows(w)
      PROVE  StripeTypeOK'
  <2>1. stored' \in [Job -> {"none", "new", "processed", "failed"}]
    BY <1>1, <1>5 DEF HandlerThrows
  <2> QED
    BY <1>1, <1>2, <1>5, <2>1 DEF HandlerThrows
<1>6. ASSUME NEW w \in Worker, FindExpiredTrial(w)
      PROVE  StripeTypeOK'
  BY <1>1, <1>2, <1>6 DEF FindExpiredTrial
<1>7. ASSUME NEW w \in Worker, EndTrial(w)
      PROVE  StripeTypeOK'
  <2>1. mirror' \in Mirror
    BY <1>1, <1>7, MirrorRows DEF EndTrial
  <2> QED
    BY <1>1, <1>2, <1>7, <2>1 DEF EndTrial
<1> QED
  BY <1>3, <1>4, <1>5, <1>6, <1>7 DEF StripeNext

LEMMA OnEventsStep ==
  ASSUME QueueTypeOK, StripeInv, StripeStep
  PROVE  OnEvents'
<1>1. story' = story /\ queue' = queue /\ queue = "stripe-webhook"
  <2>1. CASE StripeNext
    BY <2>1 DEF StripeNext, ReceiveNew, ReceiveAgain, EnqueueEvent, EnqueueFails, DeliverEvent,
           Handle, FindMirror, WriteMirror, AddItems, Handling, MarkProcessed, HandlerThrows,
           FindExpiredTrial, EndTrial, StripeStep, queueVars
  <2>2. CASE QueueNext /\ UNCHANGED stripeVars
    BY <2>2 DEF QueueNext, Stall, StallAlive, LoseLock, HandleFailed, Die, StripeStep, stripeVars
  <2> QED
    BY <2>1, <2>2 DEF StripeStep
<1>2. SUFFICES \A w \in Worker : worker'[w].job \in Event \union {NoJob}
  BY <1>1 DEF OnEvents, Event
<1>3. \A w \in Worker : worker[w].job \in Event \union {NoJob}
  BY <1>1 DEF StripeInv, OnEvents
<1>4. worker \in [Worker -> WorkerState]
  BY DEF QueueTypeOK, WorkerState
<1>5. CASE UNCHANGED worker
  BY <1>3, <1>5
<1>6. ASSUME NEW w \in Worker, NEW step, Goto(w, step)
      PROVE  \A v \in Worker : worker'[v].job \in Event \union {NoJob}
  BY <1>3, <1>4, <1>6 DEF Goto, WorkerState
<1>7. ASSUME NEW w \in Worker, worker' = [worker EXCEPT ![w] = Idle]
      PROVE  \A v \in Worker : worker'[v].job \in Event \union {NoJob}
  BY <1>3, <1>4, <1>7 DEF Idle
<1>8. ASSUME NEW w \in Worker, NEW e \in Event, DeliverEvent(w, e)
      PROVE  \A v \in Worker : worker'[v].job \in Event \union {NoJob}
  BY <1>3, <1>4, <1>8 DEF DeliverEvent, Take
<1>9. CASE StripeNext
  <2>1. ASSUME NEW e \in Event,
               ReceiveNew(e) \/ ReceiveAgain(e) \/ EnqueueEvent(e) \/ EnqueueFails(e)
        PROVE  UNCHANGED worker
    BY <2>1 DEF ReceiveNew, ReceiveAgain, EnqueueEvent, EnqueueFails, queueVars
  <2>2. ASSUME NEW w \in Worker, FindExpiredTrial(w) \/ EndTrial(w)
        PROVE  UNCHANGED worker
    BY <2>2 DEF FindExpiredTrial, EndTrial, queueVars
  <2>3. ASSUME NEW w \in Worker, Handle(w) \/ HandlerThrows(w)
        PROVE  \/ \E step : Goto(w, step)
               \/ worker' = [worker EXCEPT ![w] = Idle]
    BY <2>3 DEF Handle, FindMirror, WriteMirror, AddItems, MarkProcessed, Return,
                HandlerThrows, Throw
  <2> QED
    BY <1>5, <1>6, <1>7, <1>8, <1>9, <2>1, <2>2, <2>3 DEF StripeNext
<1>10. CASE QueueNext
  BY <1>5, <1>7, <1>10 DEF QueueNext, Stall, StallAlive, LoseLock, HandleFailed, Die
<1> QED
  BY <1>9, <1>10 DEF StripeStep

-----------------------------------------------------------------------------
(* All of it.                                                               *)

JobsInv == QueueInv /\ DeadLetterInv /\ WebhookTypeOK /\ StripeInv /\ RunQueueTypeOK

LEMMA JobsInvInit ==
  ASSUME Init
  PROVE  JobsInv
<1>1. QueueInv /\ DeadLetterInv
  BY QueueInvInit, DeadLettersInit DEF Init
<1>2. WebhookTypeOK
  BY DEF Init, WebhookInit, WebhookTypeOK, NoDelivery, DeliveryStatus
<1>3. StripeTypeOK
  <2>1. mirror \in Mirror
    <3>1. (IF story[1] = "created" THEN "TRIALING" ELSE "ACTIVE") \in {"TRIALING", "ACTIVE"}
      OBVIOUS
    <3> QED
      BY <3>1 DEF Init, StripeInit, Mirror
  <2> QED
    BY <2>1 DEF Init, StripeInit, StripeTypeOK
<1>4. OnEvents
  BY DEF Init, QueueInit, Idle, OnEvents
<1>5. RunQueueTypeOK
  BY DEF Init, RunQueueInit, RunQueueTypeOK
<1> QED
  BY <1>1, <1>2, <1>3, <1>4, <1>5 DEF JobsInv, StripeInv

LEMMA JobsInvStep ==
  ASSUME JobsInv, [Next]_vars
  PROVE  JobsInv'
<1>1. QueueInv /\ DeadLetterInv /\ QueueTypeOK /\ WebhookTypeOK /\ StripeInv /\ StripeTypeOK
      /\ RunQueueTypeOK
  BY DEF JobsInv, QueueInv, StripeInv
<1>2. CASE Next
  <2>1. QueueStep
    BY <1>1, <1>2, NextIsQueueStep DEF TypeOK
  <2>2. QueueInv' /\ DeadLetterInv'
    BY <1>1, <2>1, QueueInvStep, DeadLettersStep
  <2>3. WebhookTypeOK'
    <3>1. CASE UNCHANGED webhookVars
      BY <1>1, <3>1 DEF webhookVars, WebhookTypeOK
    <3>2. CASE WebhookStep
      BY <1>1, <3>1, <3>2, WebhookTypeStep DEF WebhookStep
    <3> QED
      BY <1>2, <3>1, <3>2 DEF Next, StripeStep, RunQueueStep
  <2>4. StripeInv'
    <3>1. CASE UNCHANGED stripeVars /\ ~StripeStep
      <4>1. StripeTypeOK'
        BY <1>1, <3>1 DEF stripeVars, StripeTypeOK, Event
      <4>2. queue # "stripe-webhook" /\ queue' = queue
        BY <1>2, <2>1, <3>1 DEF Next, WebhookStep, RunQueueStep, QueueStep
      <4> QED
        BY <4>1, <4>2 DEF StripeInv, OnEvents
    <3>2. CASE StripeStep
      <4>1. CASE StripeNext
        BY <1>1, <3>2, <4>1, StripeTypeStep, OnEventsStep DEF StripeStep, StripeInv
      <4>2. CASE UNCHANGED stripeVars
        <5>1. StripeTypeOK'
          BY <1>1, <4>2 DEF stripeVars, StripeTypeOK, Event
        <5> QED
          BY <1>1, <3>2, <5>1, OnEventsStep DEF StripeInv
      <4> QED
        BY <3>2, <4>1, <4>2 DEF StripeStep
    <3> QED
      BY <1>2, <3>1, <3>2 DEF Next, WebhookStep, RunQueueStep
  <2>5. RunQueueTypeOK'
    <3>1. CASE UNCHANGED runQueueVars
      BY <1>1, <3>1 DEF runQueueVars, RunQueueTypeOK
    <3>2. CASE RunQueueStep
      BY <1>1, <3>1, <3>2, RunQueueTypeStep DEF RunQueueStep
    <3> QED
      BY <1>2, <3>1, <3>2 DEF Next, StripeStep, WebhookStep
  <2> QED
    BY <2>2, <2>3, <2>4, <2>5 DEF JobsInv
<1>3. CASE UNCHANGED vars
  <2>1. QueueStep
    BY <1>3 DEF vars, queueVars, QueueStep, Rests, Kept
  <2>2. QueueInv' /\ DeadLetterInv'
    BY <1>1, <2>1, QueueInvStep, DeadLettersStep
  <2>3. WebhookTypeOK' /\ StripeTypeOK' /\ RunQueueTypeOK'
    BY <1>1, <1>3 DEF vars, webhookVars, stripeVars, runQueueVars,
                      WebhookTypeOK, StripeTypeOK, RunQueueTypeOK, Event
  <2>4. OnEvents'
    BY <1>1, <1>3 DEF vars, queueVars, stripeVars, StripeInv, OnEvents, Event
  <2> QED
    BY <2>2, <2>3, <2>4 DEF JobsInv, StripeInv
<1> QED
  BY <1>2, <1>3

LEMMA JobsInvAlways == Spec => []JobsInv
<1>1. Init => JobsInv
  BY JobsInvInit
<1>2. JobsInv /\ [Next]_vars => JobsInv'
  BY JobsInvStep
<1> QED
  BY <1>1, <1>2, PTL DEF Spec

\* The types of the queue and of the rows of the three queues: a worker that is at
\* a step has a job, a job is locked exactly while it is active, and no attempt is
\* counted beyond those that are allowed.
THEOREM JobsTyped == Spec => []TypeOK
<1>1. JobsInv => TypeOK
  BY DEF JobsInv, QueueInv, StripeInv, TypeOK
<1> QED
  BY <1>1, JobsInvAlways, PTL

\* However locks expire and late reports arrive, only a job that has used up its
\* attempts is on record, and no more often than there are processes to record each
\* of them (DeadLetterListenerService.handleFailed).
THEOREM DeadLettersEarned == Spec => []DeadLettersAccountedFor
<1>1. JobsInv => DeadLettersAccountedFor
  BY DeadLettersHold DEF JobsInv
<1> QED
  BY <1>1, JobsInvAlways, PTL

-----------------------------------------------------------------------------
(* Deliveries.  What each step does to the jobs, the workers and what they  *)
(* have posted and recorded.                                                *)

Towards == {"find", "endpoint", "post"}
Accepting == Towards \union {"accepted"}
Verdict == {"SUCCEEDED", "EXHAUSTED"}

Unmoved ==
  /\ UNCHANGED <<job, worker, posts, recorded>>
  /\ \A d \in Job : \/ delivery'[d] \in {delivery[d], NoDelivery}
                    \/ ~Exists(d) /\ delivery'[d].status = "PENDING"

Enqueued(i) ==
  /\ UNCHANGED <<worker, delivery, posts, recorded>>
  /\ job[i] = NotAdded /\ JobMoves(i, "waiting", Nobody, 0, 0)

Begun(w, i) ==
  /\ UNCHANGED <<delivery, posts, recorded>>
  /\ worker[w] = Idle /\ job[i].state = "waiting"
  /\ JobMoves(i, "active", w, job[i].made, job[i].stalled)
  /\ WorkerMoves(w, i, "find", job[i].made + 1)

Went(w, step) ==
  /\ UNCHANGED <<job, delivery, recorded>>
  /\ worker[w].job \in Job
  /\ WorkerMoves(w, worker[w].job, step, worker[w].attempt)
  /\ step \in Accepting => worker[w].at \in Accepting
  /\ \/ UNCHANGED posts /\ (step \in Towards => worker[w].at \in Towards)
     \/ /\ posts' = [posts EXCEPT ![worker[w].job] = @ + 1]
        /\ worker[w].at \in Towards /\ step \notin Towards

OnlyRow(i) == \A d \in Job \ {i} : delivery'[d] = delivery[d]

Returned(w, i) ==
  /\ UNCHANGED posts
  /\ worker[w].job = i /\ WorkerMoves(w, NoJob, "idle", 0)
  /\ \/ /\ Holds(w, i)
        /\ JobMoves(i, "done", Nobody, job[i].made, job[i].stalled)
     \/ ~Holds(w, i) /\ UNCHANGED job
  /\ OnlyRow(i)
  /\ \/ UNCHANGED recorded
     \/ worker[w].at = "accepted" /\ recorded' = [recorded EXCEPT ![i] = @ + 1]

Threw(w, i) ==
  /\ UNCHANGED <<posts, recorded>>
  /\ worker[w].job = i /\ WorkerMoves(w, NoJob, "idle", 0)
  /\ \/ /\ Holds(w, i)
        /\ JobMoves(i, IF IsFinalAttempt(w) THEN "failed" ELSE "waiting",
                    Nobody, job[i].made + 1, job[i].stalled)
     \/ ~Holds(w, i) /\ UNCHANGED job
  /\ OnlyRow(i)
  /\ delivery'[i] = delivery[i] \/ delivery'[i].status \notin Verdict

Lost(i) ==
  /\ UNCHANGED <<worker, delivery, posts, recorded>>
  /\ job[i].state = "active"
  /\ \/ JobMoves(i, "waiting", Nobody, job[i].made, job[i].stalled + 1)
     \/ \E counted \in 0..1 :
          JobMoves(i, "failed", Nobody, job[i].made + counted, job[i].stalled)

Died(w) ==
  /\ UNCHANGED <<job, delivery, posts, recorded>>
  /\ WorkerMoves(w, NoJob, "idle", 0)

Delivering ==
  \/ Unmoved
  \/ \E i \in Job : Enqueued(i) \/ Lost(i)
  \/ \E w \in Worker, i \in Job : Begun(w, i) \/ Returned(w, i) \/ Threw(w, i)
  \/ \E w \in Worker, step \in Step : Went(w, step)
  \/ \E w \in Worker : Died(w)

LEMMA ActiveHasAttempts ==
  ASSUME QueueInv, NEW j \in Job, job[j].state # "failed"
  PROVE  job[j].made < MaxAttempts /\ job[j].made \in Nat
<1>1. job[j].made \in 0..MaxAttempts /\ job[j].made < Attempts
  BY DEF QueueInv, QueueTypeOK, JobState, AttemptsLeft
<1> QED
  BY <1>1, AttemptsBounded, JobQueueAssumption DEF QueueInv

LEMMA AttemptDelivers ==
  ASSUME QueueInv, WebhookTypeOK, NEW w \in Worker, Attempt(w)
  PROVE  Delivering
<1> DEFINE i == worker[w].job
<1>1. QueueTypeOK /\ delivery \in [Job -> [endpoint : Endpoint \union {NoEndpoint},
                                           status : DeliveryStatus]]
  BY DEF QueueInv, WebhookTypeOK
<1>2. Working(w) /\ i \in Job
  <2>1. Working(w)
    BY DEF Attempt, FindDelivery, FindEndpoint, Post, RecordAccepted, AcceptedIsLost,
           RecordRejected, RecordRefused, AttemptThrows, At, Working
  <2> QED
    BY <1>1, <2>1, WorksOnJob
<1>3. ASSUME NEW status, Record(i, status)
      PROVE  OnlyRow(i) /\ delivery'[i].status = status
  BY <1>1, <1>2, <1>3 DEF Record, OnlyRow
<1>4. ASSUME Return(w), UNCHANGED posts, OnlyRow(i),
             \/ UNCHANGED recorded
             \/ worker[w].at = "accepted" /\ recorded' = [recorded EXCEPT ![i] = @ + 1]
      PROVE  Delivering
  <2>1. Returned(w, i)
    BY <1>1, <1>2, <1>4, ReturnMoves DEF Returned
  <2> QED
    BY <1>2, <2>1 DEF Delivering
<1>5. ASSUME Throw(w), UNCHANGED <<posts, recorded>>, OnlyRow(i),
             delivery'[i] = delivery[i] \/ delivery'[i].status \notin Verdict
      PROVE  Delivering
  <2>1. Holds(w, i) => job[i].made < MaxAttempts
    BY <1>2, ActiveHasAttempts DEF Holds
  <2>2. Threw(w, i)
    BY <1>1, <1>2, <1>5, <2>1, ThrowMoves DEF Threw
  <2> QED
    BY <1>2, <2>2 DEF Delivering
<1>6. ASSUME NEW step \in Step, Goto(w, step), UNCHANGED <<job, delivery, recorded>>,
             step \in Accepting => worker[w].at \in Accepting,
             \/ UNCHANGED posts /\ (step \in Towards => worker[w].at \in Towards)
             \/ /\ posts' = [posts EXCEPT ![worker[w].job] = @ + 1]
                /\ worker[w].at \in Towards /\ step \notin Towards
      PROVE  Delivering
  <2>1. Went(w, step)
    BY <1>1, <1>2, <1>6, GotoMoves DEF Went
  <2> QED
    BY <2>1 DEF Delivering
<1>7. /\ {"find", "endpoint", "post", "accepted", "rejected", "refuse"} \subseteq Step
      /\ "rejected" \notin Accepting /\ "refuse" \notin Accepting
      /\ {"find", "endpoint", "post"} \subseteq Towards /\ "accepted" \notin Towards
      /\ {"find", "endpoint", "post"} \subseteq Accepting
      /\ "rejected" \notin Towards /\ "refuse" \notin Towards
  BY DEF Step, Accepting, Towards
<1>8. CASE FindDelivery(w)
  <2>1. CASE Exists(i)
    <3>1. Goto(w, "endpoint") /\ UNCHANGED <<job, delivery, posts, recorded>>
          /\ worker[w].at = "find"
      BY <1>8, <2>1 DEF FindDelivery, Quiet, At
    <3> QED
      BY <1>6, <1>7, <3>1
  <2>2. CASE ~Exists(i)
    BY <1>4, <1>8, <2>2 DEF FindDelivery, Quiet, OnlyRow
  <2> QED
    BY <2>1, <2>2
<1>9. CASE FindEndpoint(w)
  <2>1. /\ Goto(w, "post") \/ Goto(w, "refuse")
        /\ UNCHANGED <<job, delivery, posts, recorded>> /\ worker[w].at = "endpoint"
    BY <1>9 DEF FindEndpoint, Quiet, At, Goto
  <2> QED
    BY <1>6, <1>7, <2>1
<1>10. CASE Post(w)
  <2>1. /\ Goto(w, "accepted") \/ Goto(w, "rejected")
        /\ UNCHANGED <<job, delivery, recorded>> /\ worker[w].at = "post"
        /\ posts' = [posts EXCEPT ![worker[w].job] = @ + 1]
    BY <1>10 DEF Post, At
  <2> QED
    BY <1>6, <1>7, <2>1
<1>11. CASE RecordAccepted(w)
  <2>1. OnlyRow(i)
    BY <1>3, <1>11 DEF RecordAccepted
  <2>2. /\ Return(w) /\ UNCHANGED posts
        /\ worker[w].at = "accepted" /\ recorded' = [recorded EXCEPT ![i] = @ + 1]
    BY <1>11 DEF RecordAccepted, At
  <2> QED
    BY <1>4, <2>1, <2>2
<1>12. CASE AcceptedIsLost(w)
  <2>1. Goto(w, "rejected") /\ UNCHANGED <<job, delivery, posts, recorded>>
    BY <1>12 DEF AcceptedIsLost, Quiet
  <2> QED
    BY <1>6, <1>7, <2>1
<1>13. CASE RecordRejected(w)
  <2>1. UNCHANGED <<posts, recorded>>
    BY <1>13 DEF RecordRejected
  <2>2. CASE IsFinalAttempt(w)
    <3>1. Record(i, "EXHAUSTED") /\ Return(w)
      BY <1>13, <2>2 DEF RecordRejected
    <3> QED
      BY <1>3, <1>4, <2>1, <3>1
  <2>3. CASE ~IsFinalAttempt(w)
    <3>1. Record(i, "FAILED") /\ Throw(w)
      BY <1>13, <2>3 DEF RecordRejected
    <3>2. "FAILED" \notin Verdict
      BY DEF Verdict
    <3> QED
      BY <1>3, <1>5, <2>1, <3>1, <3>2
  <2> QED
    BY <2>2, <2>3
<1>14. CASE RecordRefused(w)
  <2>1. Record(i, "EXHAUSTED") /\ Return(w) /\ UNCHANGED <<posts, recorded>>
    BY <1>14 DEF RecordRefused
  <2> QED
    BY <1>3, <1>4, <2>1
<1>15. CASE AttemptThrows(w)
  <2>1. Throw(w) /\ UNCHANGED <<delivery, posts, recorded>>
    BY <1>15 DEF AttemptThrows, webhookVars
  <2> QED
    BY <1>5, <2>1 DEF OnlyRow
<1> QED
  BY <1>8, <1>9, <1>10, <1>11, <1>12, <1>13, <1>14, <1>15 DEF Attempt

LEMMA WebhookDelivers ==
  ASSUME QueueInv, WebhookTypeOK, WebhookStep
  PROVE  Delivering
<1>1. QueueTypeOK /\ delivery \in [Job -> [endpoint : Endpoint \union {NoEndpoint},
                                           status : DeliveryStatus]]
  BY DEF QueueInv, WebhookTypeOK
<1>2. ASSUME NEW p \in Producer, NEW d \in Job, NEW e, CreateDelivery(p, d, e)
      PROVE  Delivering
  <2>1. delivery'[d].status = "PENDING" /\ \A i \in Job \ {d} : delivery'[i] = delivery[i]
    BY <1>1, <1>2 DEF CreateDelivery
  <2> QED
    BY <1>2, <2>1 DEF CreateDelivery, queueVars, Delivering, Unmoved
<1>3. ASSUME NEW d \in Job, NEW e \in Endpoint, Publish(d, e)
      PROVE  Delivering
  BY <1>2, <1>3 DEF Publish, Producer
<1>4. ASSUME NEW d \in Job, NEW original \in Job, ReplayDelivery(d, original)
      PROVE  Delivering
  BY <1>2, <1>4 DEF ReplayDelivery, Producer
<1>5. ASSUME NEW w \in Worker, NEW d \in Job, Deliver(w, d)
      PROVE  Delivering
  <2>1. "find" \in Step /\ Take(w, d, "find")
    BY <1>5 DEF Deliver, Step
  <2>2. job[d].made < MaxAttempts
    BY <2>1, ActiveHasAttempts DEF Take
  <2>3. Begun(w, d)
    BY <1>1, <1>5, <2>1, <2>2, TakeMoves DEF Deliver, Take, webhookVars, Begun
  <2> QED
    BY <2>3 DEF Delivering
<1>6. ASSUME NEW p \in Producer, NEW d \in Job, EnqueueDelivery(p, d)
      PROVE  Delivering
  <2>1. Enqueued(d) \/ Unmoved
    BY <1>1, <1>6, AddMoves DEF EnqueueDelivery, Enqueued, Unmoved
  <2> QED
    BY <2>1 DEF Delivering
<1>7. ASSUME NEW p \in Producer, ProducerFails(p)
      PROVE  Delivering
  BY <1>7 DEF ProducerFails, Delivering, Unmoved
<1>8. ASSUME NEW e \in Endpoint, SetStatus(e) \/ DeleteEndpoint(e)
      PROVE  Delivering
  BY <1>8 DEF SetStatus, DeleteEndpoint, queueVars, Delivering, Unmoved
<1>9. CASE QueueNext /\ UNCHANGED webhookVars
  <2>1. UNCHANGED <<delivery, posts, recorded>>
    BY <1>9 DEF webhookVars
  <2>2. ASSUME NEW j \in Job, Stall(j) \/ StallAlive(j)
        PROVE  Delivering
    <3>1. LoseLock(j) /\ job[j].state = "active" /\ UNCHANGED worker
      BY <2>2 DEF Stall, StallAlive, LoseLock
    <3>2. job[j].made < MaxAttempts
      BY <3>1, ActiveHasAttempts
    <3>3. Lost(j)
      BY <1>1, <2>1, <3>1, <3>2, LoseMoves DEF Lost
    <3> QED
      BY <3>3 DEF Delivering
  <2>3. ASSUME NEW j \in Job, NEW w \in Worker, HandleFailed(w, j)
        PROVE  Delivering
    BY <2>1, <2>3 DEF HandleFailed, Delivering, Unmoved
  <2>4. ASSUME NEW w \in Worker, Die(w)
        PROVE  Delivering
    BY <1>1, <2>1, <2>4, IdleMoves DEF Die, Delivering, Died
  <2> QED
    BY <1>9, <2>2, <2>3, <2>4 DEF QueueNext
<1> QED
  BY <1>3, <1>4, <1>5, <1>6, <1>7, <1>8, <1>9, AttemptDelivers DEF WebhookStep, WebhookNext

\* The attempts a job may have begun, its losses apart ...
Tries(d) == IF job[d].state \in {"done", "failed"} THEN MaxAttempts
            ELSE IF job[d].state = "active" THEN job[d].made + 1 ELSE job[d].made

\* ... and whether it is over.
Over(d) == IF job[d].state \in {"done", "failed"} THEN 1 ELSE 0

\* The workers that are to post it ...
Toward(d) == {w \in Worker : worker[w].job = d /\ worker[w].at \in Towards}

\* ... and those that may still record it without its lock.
Late(d) == {w \in Worker : worker[w].job = d /\ worker[w].at \in Accepting /\ ~Holds(w, d)}

RepeatsInv ==
  IF queue = "webhook-delivery"
    THEN \A d \in Job :
           /\ posts[d] + Cardinality(Toward(d)) <= job[d].stalled + Tries(d)
           /\ recorded[d] + Cardinality(Late(d)) <= job[d].stalled + Over(d)
    ELSE \A d \in Job : posts[d] = 0 /\ recorded[d] = 0

LEMMA SomeWorkers ==
  ASSUME NEW S \in SUBSET Worker
  PROVE  IsFiniteSet(S) /\ Cardinality(S) \in Nat
BY WorkersFinite, FS_Subset, FS_CardinalityType

LEMMA FewerWorkers ==
  ASSUME NEW S \in SUBSET Worker, NEW T \in SUBSET S
  PROVE  Cardinality(T) <= Cardinality(S)
BY SomeWorkers, FS_Subset

LEMMA OneMoreWorker ==
  ASSUME NEW S \in SUBSET Worker, NEW w \in Worker, NEW T \in SUBSET (S \union {w})
  PROVE  Cardinality(T) <= Cardinality(S) + 1
<1>1. IsFiniteSet(S \union {w}) /\ Cardinality(S \union {w}) \in Nat
  BY SomeWorkers
<1>2. Cardinality(T) <= Cardinality(S \union {w}) /\ Cardinality(T) \in Nat
  BY <1>1, SomeWorkers, FS_Subset
<1>3. Cardinality(S \union {w}) <= Cardinality(S) + 1
  BY SomeWorkers, FS_AddElement
<1> QED
  BY <1>1, <1>2, <1>3, SomeWorkers

LEMMA OneWorkerLess ==
  ASSUME NEW S \in SUBSET Worker, NEW w \in S, NEW T \in SUBSET (S \ {w})
  PROVE  Cardinality(T) + 1 <= Cardinality(S)
<1>1. IsFiniteSet(S) /\ Cardinality(S) \in Nat /\ Cardinality(S \ {w}) \in Nat
  BY SomeWorkers
<1>2. Cardinality(S \ {w}) = Cardinality(S) - 1
  BY <1>1, FS_RemoveElement
<1>3. Cardinality(T) <= Cardinality(S \ {w}) /\ Cardinality(T) \in Nat
  BY SomeWorkers, FewerWorkers
<1> QED
  BY <1>1, <1>2, <1>3

\* The room a job has for posts and records never shrinks, ...
LEMMA RoomTyped ==
  ASSUME QueueInv, NEW d \in Job
  PROVE  /\ job[d].stalled \in Nat /\ job[d].made \in Nat /\ MaxAttempts \in Nat
         /\ Tries(d) \in Nat /\ Over(d) \in 0..1 /\ Tries(d) <= MaxAttempts
<1>1. job[d].stalled \in Nat /\ job[d].made \in 0..MaxAttempts /\ MaxAttempts \in Nat
  BY JobQueueAssumption DEF QueueInv, QueueTypeOK, JobState
<1>2. job[d].state = "active" => job[d].made < MaxAttempts
  BY ActiveHasAttempts
<1> QED
  BY <1>1, <1>2 DEF Tries, Over

LEMMA RoomGrows ==
  ASSUME QueueInv, Delivering, NEW d \in Job
  PROVE  /\ job'[d].stalled >= job[d].stalled
         /\ job'[d].stalled + Tries(d)' >= job[d].stalled + Tries(d)
         /\ job'[d].stalled + Over(d)' >= job[d].stalled + Over(d)
<1>1. job[d].stalled \in Nat /\ job[d].made \in Nat /\ job[d].made <= MaxAttempts
      /\ MaxAttempts \in Nat
  BY JobQueueAssumption DEF QueueInv, QueueTypeOK, JobState
<1>2. job[d].state # "failed" => job[d].made < MaxAttempts
  BY ActiveHasAttempts
<1>3. CASE job'[d] = job[d]
  BY <1>1, <1>3 DEF Tries, Over
<1>4. CASE Unmoved
  BY <1>3, <1>4 DEF Unmoved
<1>5. ASSUME NEW i \in Job, Enqueued(i)
      PROVE  \/ job'[d] = job[d]
             \/ /\ job[d] = NotAdded /\ job'[d].state = "waiting"
                /\ job'[d].made = 0 /\ job'[d].stalled = 0
  BY <1>5 DEF Enqueued, JobMoves
<1>6. CASE /\ job[d] = NotAdded /\ job'[d].state = "waiting"
           /\ job'[d].made = 0 /\ job'[d].stalled = 0
  BY <1>6 DEF Tries, Over, NotAdded
<1>7. ASSUME NEW i \in Job, Lost(i)
      PROVE  \/ job'[d] = job[d]
             \/ /\ job[d].state = "active"
                /\ \/ /\ job'[d].state = "waiting" /\ job'[d].made = job[d].made
                      /\ job'[d].stalled = job[d].stalled + 1
                   \/ job'[d].state = "failed" /\ job'[d].stalled = job[d].stalled
  BY <1>7 DEF Lost, JobMoves
<1>8. CASE /\ job[d].state = "active"
           /\ \/ /\ job'[d].state = "waiting" /\ job'[d].made = job[d].made
                 /\ job'[d].stalled = job[d].stalled + 1
              \/ job'[d].state = "failed" /\ job'[d].stalled = job[d].stalled
  BY <1>1, <1>2, <1>8 DEF Tries, Over
<1>9. ASSUME NEW w \in Worker, NEW i \in Job, Begun(w, i) \/ Returned(w, i) \/ Threw(w, i)
      PROVE  \/ job'[d] = job[d]
             \/ /\ job[d].state = "waiting" /\ job'[d].state = "active"
                /\ job'[d].made = job[d].made /\ job'[d].stalled = job[d].stalled
             \/ /\ job[d].state = "active" /\ job'[d].state = "done"
                /\ job'[d].stalled = job[d].stalled
             \/ /\ job[d].state = "active" /\ job'[d].state \in {"failed", "waiting"}
                /\ job'[d].made = job[d].made + 1 /\ job'[d].stalled = job[d].stalled
  BY <1>9 DEF Begun, Returned, Threw, JobMoves, Holds
<1>10. CASE \/ /\ job[d].state = "waiting" /\ job'[d].state = "active"
               /\ job'[d].made = job[d].made /\ job'[d].stalled = job[d].stalled
            \/ /\ job[d].state = "active" /\ job'[d].state = "done"
               /\ job'[d].stalled = job[d].stalled
            \/ /\ job[d].state = "active" /\ job'[d].state \in {"failed", "waiting"}
               /\ job'[d].made = job[d].made + 1 /\ job'[d].stalled = job[d].stalled
  BY <1>1, <1>2, <1>10 DEF Tries, Over
<1>11. ASSUME \/ \E w \in Worker, step \in Step : Went(w, step)
              \/ \E w \in Worker : Died(w)
       PROVE  job'[d] = job[d]
  BY <1>11 DEF Went, Died
<1> QED
  BY <1>3, <1>4, <1>5, <1>6, <1>7, <1>8, <1>9, <1>10, <1>11 DEF Delivering


\* ... so what is posted and recorded stays within it: whoever posts had begun an
\* attempt, and whoever records without the lock had lost it.
LEMMA PostsStep ==
  ASSUME QueueInv, WebhookTypeOK, Delivering, NEW d \in Job,
         posts[d] + Cardinality(Toward(d)) <= job[d].stalled + Tries(d),
         QueueInv'
  PROVE  posts'[d] + Cardinality(Toward(d)') <= job'[d].stalled + Tries(d)'
<1> DEFINE before == Cardinality(Toward(d))
           after == Cardinality(Toward(d)')
           room == job[d].stalled + Tries(d)
           roomAfter == job'[d].stalled + Tries(d)'
<1>1. Toward(d) \in SUBSET Worker /\ Toward(d)' \in SUBSET Worker
  BY DEF Toward
<1>2. before \in Nat /\ after \in Nat /\ posts[d] \in Nat
  BY <1>1, SomeWorkers DEF WebhookTypeOK
<1>3. room \in Nat /\ roomAfter \in Nat
  <2>1. room \in Nat
    BY RoomTyped
  <2>2. job'[d].stalled \in Nat /\ job'[d].made \in Nat /\ MaxAttempts \in Nat
    BY JobQueueAssumption DEF QueueInv, QueueTypeOK, JobState
  <2> QED
    BY <2>1, <2>2 DEF Tries
<1>4. roomAfter >= room
  BY RoomGrows
<1>5. ASSUME posts'[d] = posts[d], Toward(d)' \subseteq Toward(d)
      PROVE  posts'[d] + after <= roomAfter
  <2>1. after <= before
    BY <1>1, <1>5, FewerWorkers
  <2> HIDE DEF before, after, room, roomAfter
  <2>2. posts[d] + before <= room
    BY DEF before, room
  <2> QED
    BY <1>2, <1>3, <1>4, <1>5, <2>1, <2>2
<1>6. CASE Unmoved \/ \E i \in Job : Enqueued(i) \/ Lost(i)
  BY <1>5, <1>6 DEF Unmoved, Enqueued, Lost, Toward
<1>7. ASSUME NEW w \in Worker, NEW i \in Job, Returned(w, i) \/ Threw(w, i)
      PROVE  posts'[d] + after <= roomAfter
  <2>1. Toward(d)' \subseteq Toward(d)
    BY <1>7 DEF Returned, Threw, WorkerMoves, Toward, Towards
  <2> QED
    BY <1>5, <1>7, <2>1 DEF Returned, Threw
<1>8. ASSUME NEW w \in Worker, Died(w)
      PROVE  posts'[d] + after <= roomAfter
  <2>1. Toward(d)' \subseteq Toward(d)
    BY <1>8 DEF Died, WorkerMoves, Toward, Towards
  <2> QED
    BY <1>5, <1>8, <2>1 DEF Died
<1>9. ASSUME NEW w \in Worker, NEW i \in Job, Begun(w, i)
      PROVE  posts'[d] + after <= roomAfter
  <2>1. CASE i # d
    <3>1. Toward(d)' \subseteq Toward(d)
      BY <1>9, <2>1 DEF Begun, WorkerMoves, Toward
    <3> QED
      BY <1>5, <1>9, <3>1 DEF Begun
  <2>2. CASE i = d
    <3>1. Toward(d)' \subseteq Toward(d) \union {w}
      BY <1>9 DEF Begun, WorkerMoves, Toward
    <3>2. after <= before + 1
      BY <1>1, <3>1, OneMoreWorker
    <3>3. roomAfter = room + 1
      BY <1>9, <2>2, RoomTyped DEF Begun, JobMoves, Tries
    <3>4. posts'[d] = posts[d]
      BY <1>9 DEF Begun
    <3> HIDE DEF before, after, room, roomAfter
    <3>5. posts[d] + before <= room
      BY DEF before, room
    <3> QED
      BY <1>2, <1>3, <3>2, <3>3, <3>4, <3>5
  <2> QED
    BY <2>1, <2>2
<1>10. ASSUME NEW w \in Worker, NEW step \in Step, Went(w, step)
       PROVE  posts'[d] + after <= roomAfter
  <2>1. CASE UNCHANGED posts /\ (step \in Towards => worker[w].at \in Towards)
    <3>1. Toward(d)' \subseteq Toward(d)
      BY <1>10, <2>1 DEF Went, WorkerMoves, Toward
    <3> QED
      BY <1>5, <2>1, <3>1
  <2>2. CASE /\ posts' = [posts EXCEPT ![worker[w].job] = @ + 1]
             /\ worker[w].at \in Towards /\ step \notin Towards
    <3>1. CASE worker[w].job # d
      <4>1. Toward(d)' \subseteq Toward(d)
        BY <1>10, <2>2 DEF Went, WorkerMoves, Toward
      <4>2. posts'[d] = posts[d]
        BY <2>2, <3>1 DEF WebhookTypeOK
      <4> QED
        BY <1>5, <4>1, <4>2
    <3>2. CASE worker[w].job = d
      <4>1. w \in Toward(d) /\ Toward(d)' \subseteq Toward(d) \ {w}
        BY <1>10, <2>2, <3>2 DEF Went, WorkerMoves, Toward
      <4>2. after + 1 <= before
        BY <1>1, <4>1, OneWorkerLess
      <4>3. posts'[d] = posts[d] + 1
        BY <2>2, <3>2 DEF WebhookTypeOK
      <4> HIDE DEF before, after, room, roomAfter
      <4>4. posts[d] + before <= room
        BY DEF before, room
      <4> QED
        BY <1>2, <1>3, <1>4, <4>2, <4>3, <4>4
    <3> QED
      BY <3>1, <3>2
  <2> QED
    BY <1>10, <2>1, <2>2 DEF Went
<1> QED
  BY <1>6, <1>7, <1>8, <1>9, <1>10 DEF Delivering

LEMMA RecordsStep ==
  ASSUME QueueInv, WebhookTypeOK, Delivering, NEW d \in Job,
         recorded[d] + Cardinality(Late(d)) <= job[d].stalled + Over(d),
         QueueInv'
  PROVE  recorded'[d] + Cardinality(Late(d)') <= job'[d].stalled + Over(d)'
<1> DEFINE before == Cardinality(Late(d))
           after == Cardinality(Late(d)')
           room == job[d].stalled + Over(d)
           roomAfter == job'[d].stalled + Over(d)'
<1>1. Late(d) \in SUBSET Worker /\ Late(d)' \in SUBSET Worker
  BY DEF Late
<1>2. before \in Nat /\ after \in Nat /\ recorded[d] \in Nat
  BY <1>1, SomeWorkers DEF WebhookTypeOK
<1>3. room \in Nat /\ roomAfter \in Nat
  <2>1. job[d].stalled \in Nat /\ job'[d].stalled \in Nat
    BY JobQueueAssumption DEF QueueInv, QueueTypeOK, JobState
  <2> QED
    BY <2>1 DEF Over
<1>4. roomAfter >= room
  BY RoomGrows
<1>5. ASSUME recorded'[d] = recorded[d], Late(d)' \subseteq Late(d)
      PROVE  recorded'[d] + after <= roomAfter
  <2>1. after <= before
    BY <1>1, <1>5, FewerWorkers
  <2> HIDE DEF before, after, room, roomAfter
  <2>2. recorded[d] + before <= room
    BY DEF before, room
  <2> QED
    BY <1>2, <1>3, <1>4, <1>5, <2>1, <2>2
<1>6. CASE Unmoved
  BY <1>5, <1>6 DEF Unmoved, Late, Holds
<1>7. ASSUME NEW i \in Job, Enqueued(i)
      PROVE  recorded'[d] + after <= roomAfter
  <2>1. Late(d)' \subseteq Late(d)
    BY <1>7 DEF Enqueued, JobMoves, NotAdded, Late, Holds
  <2> QED
    BY <1>5, <1>7, <2>1 DEF Enqueued
<1>8. ASSUME NEW i \in Job, Lost(i)
      PROVE  recorded'[d] + after <= roomAfter
  <2>1. CASE i # d
    <3>1. Late(d)' \subseteq Late(d)
      BY <1>8, <2>1 DEF Lost, JobMoves, Late, Holds
    <3> QED
      BY <1>5, <1>8, <3>1 DEF Lost
  <2>2. CASE i = d
    <3>1. job[d].by \in Worker
      BY <1>8, <2>2 DEF Lost, QueueInv, QueueTypeOK, JobState
    <3>2. Late(d)' \subseteq Late(d) \union {job[d].by}
      BY <1>8, <2>2 DEF Lost, JobMoves, Late, Holds
    <3>3. after <= before + 1
      BY <1>1, <3>1, <3>2, OneMoreWorker
    <3>4. roomAfter >= room + 1
      <4>1. job[d].stalled \in Nat
        BY JobQueueAssumption DEF QueueInv, QueueTypeOK, JobState
      <4> QED
        BY <1>8, <2>2, <4>1 DEF Lost, JobMoves, Over
    <3>5. recorded'[d] = recorded[d]
      BY <1>8 DEF Lost
    <3> HIDE DEF before, after, room, roomAfter
    <3>6. recorded[d] + before <= room
      BY DEF before, room
    <3> QED
      BY <1>2, <1>3, <3>3, <3>4, <3>5, <3>6
  <2> QED
    BY <2>1, <2>2
<1>9. ASSUME NEW w \in Worker, NEW i \in Job, Begun(w, i)
      PROVE  recorded'[d] + after <= roomAfter
  <2>1. Late(d)' \subseteq Late(d)
    BY <1>9 DEF Begun, JobMoves, WorkerMoves, Late, Holds
  <2> QED
    BY <1>5, <1>9, <2>1 DEF Begun
<1>10. ASSUME NEW w \in Worker, NEW step \in Step, Went(w, step)
       PROVE  recorded'[d] + after <= roomAfter
  <2>1. Late(d)' \subseteq Late(d)
    BY <1>10 DEF Went, WorkerMoves, Late, Holds
  <2> QED
    BY <1>5, <1>10, <2>1 DEF Went
<1>11. ASSUME NEW w \in Worker, Died(w)
       PROVE  recorded'[d] + after <= roomAfter
  <2>1. Late(d)' \subseteq Late(d)
    BY <1>11 DEF Died, WorkerMoves, Late, Holds, Accepting, Towards
  <2> QED
    BY <1>5, <1>11, <2>1 DEF Died
\* Whoever ends its work on the job does not work on it any more, and no other
\* worker held it if this one did.
<1>12. ASSUME NEW w \in Worker, NEW i \in Job, Returned(w, i) \/ Threw(w, i)
       PROVE  Late(d)' \subseteq Late(d) \ {w}
  <2>1. ASSUME NEW v \in Late(d)'
        PROVE  v \in Late(d) \ {w}
    <3>1. v # w
      BY <1>12, <2>1 DEF Returned, Threw, WorkerMoves, Late, Accepting, Towards
    <3>2. worker'[v] = worker[v] /\ v \in Worker
      BY <1>12, <2>1, <3>1 DEF Returned, Threw, WorkerMoves, Late
    <3>3. ~Holds(v, d)
      BY <1>12, <2>1, <3>1 DEF Returned, Threw, JobMoves, Late, Holds
    <3> QED
      BY <2>1, <3>1, <3>2, <3>3 DEF Late
  <2> QED
    BY <2>1
<1>13. ASSUME NEW w \in Worker, NEW i \in Job, Threw(w, i)
       PROVE  recorded'[d] + after <= roomAfter
  BY <1>5, <1>12, <1>13 DEF Threw
<1>14. ASSUME NEW w \in Worker, NEW i \in Job, Returned(w, i)
       PROVE  recorded'[d] + after <= roomAfter
  <2>1. CASE recorded'[d] = recorded[d]
    BY <1>5, <1>12, <1>14, <2>1
  <2>2. CASE recorded'[d] # recorded[d]
    <3>1. i = d /\ worker[w].at = "accepted" /\ recorded'[d] = recorded[d] + 1
      BY <1>14, <2>2 DEF Returned, WebhookTypeOK
    <3>2. CASE Holds(w, d)
      <4>1. roomAfter = room + 1
        <5>1. job[d].stalled \in Nat
          BY JobQueueAssumption DEF QueueInv, QueueTypeOK, JobState
        <5> QED
          BY <1>14, <3>1, <3>2, <5>1 DEF Returned, JobMoves, Holds, Over
      <4>2. after <= before
        <5>1. Late(d)' \subseteq Late(d)
          BY <1>12, <1>14
        <5> QED
          BY <1>1, <5>1, FewerWorkers
      <4> HIDE DEF before, after, room, roomAfter
      <4>3. recorded[d] + before <= room
        BY DEF before, room
      <4> QED
        BY <1>2, <1>3, <3>1, <4>1, <4>2, <4>3
    <3>3. CASE ~Holds(w, d)
      <4>1. w \in Late(d)
        BY <1>14, <3>1, <3>3 DEF Returned, Late, Accepting
      <4>2. Late(d)' \in SUBSET (Late(d) \ {w})
        BY <1>12, <1>14
      <4>3. after + 1 <= before
        BY <1>1, <4>1, <4>2, OneWorkerLess
      <4> HIDE DEF before, after, room, roomAfter
      <4>4. recorded[d] + before <= room
        BY DEF before, room
      <4> QED
        BY <1>2, <1>3, <1>4, <3>1, <4>3, <4>4
    <3> QED
      BY <3>2, <3>3
  <2> QED
    BY <2>1, <2>2
<1> QED
  BY <1>6, <1>7, <1>8, <1>9, <1>10, <1>11, <1>13, <1>14 DEF Delivering


LEMMA RepeatsInit ==
  ASSUME Init
  PROVE  RepeatsInv
<1> SUFFICES ASSUME NEW d \in Job
             PROVE  /\ posts[d] = 0 /\ recorded[d] = 0
                    /\ Cardinality(Toward(d)) = 0 /\ Cardinality(Late(d)) = 0
                    /\ job[d].stalled + Tries(d) \in Nat /\ job[d].stalled + Over(d) \in Nat
  BY DEF RepeatsInv
<1>1. posts[d] = 0 /\ recorded[d] = 0
  BY DEF Init, WebhookInit
<1>2. Toward(d) = {} /\ Late(d) = {}
  BY JobQueueAssumption DEF Init, QueueInit, Idle, Job, Toward, Late, Towards, Accepting
<1>3. job[d].stalled \in Nat /\ Tries(d) \in Nat /\ Over(d) \in 0..1
  BY QueueInvInit, RoomTyped DEF Init
<1> QED
  BY <1>1, <1>2, <1>3, FS_EmptySet

LEMMA RepeatsStep ==
  ASSUME JobsInv, JobsInv', RepeatsInv, [Next]_vars
  PROVE  RepeatsInv'
<1>1. QueueInv /\ QueueInv' /\ WebhookTypeOK
  BY DEF JobsInv
<1>2. CASE WebhookStep
  <2>1. Delivering /\ queue = "webhook-delivery"
    BY <1>1, <1>2, WebhookDelivers DEF WebhookStep
  <2>2. QueueStep
    BY <1>2, NextIsQueueStep DEF JobsInv, QueueInv, StripeInv, TypeOK, Next
  <2>3. queue' = "webhook-delivery"
    BY <2>1, <2>2 DEF QueueStep
  <2>4. \A d \in Job : /\ posts[d] + Cardinality(Toward(d)) <= job[d].stalled + Tries(d)
                       /\ recorded[d] + Cardinality(Late(d)) <= job[d].stalled + Over(d)
    BY <2>1 DEF RepeatsInv
  <2>5. \A d \in Job : /\ posts'[d] + Cardinality(Toward(d)') <= job'[d].stalled + Tries(d)'
                       /\ recorded'[d] + Cardinality(Late(d)') <= job'[d].stalled + Over(d)'
    BY <1>1, <2>1, <2>4, PostsStep, RecordsStep
  <2> QED
    BY <2>3, <2>5 DEF RepeatsInv
<1>3. CASE StripeStep \/ RunQueueStep
  <2>1. QueueStep
    BY <1>3, NextIsQueueStep DEF JobsInv, QueueInv, StripeInv, TypeOK, Next
  <2>2. queue # "webhook-delivery" /\ queue' = queue /\ UNCHANGED webhookVars
    BY <1>3, <2>1 DEF StripeStep, RunQueueStep, QueueStep
  <2> QED
    BY <2>2 DEF RepeatsInv, webhookVars
<1>4. CASE UNCHANGED vars
  BY <1>4 DEF vars, queueVars, webhookVars, RepeatsInv, Toward, Late, Tries, Over, Holds
<1> QED
  BY <1>2, <1>3, <1>4 DEF Next

LEMMA RepeatsHold ==
  ASSUME JobsInv, RepeatsInv
  PROVE  RepeatsAccountedFor
<1> SUFFICES ASSUME NEW d \in Job
             PROVE  /\ posts[d] <= MaxAttempts + job[d].stalled
                    /\ recorded[d] <= 1 + job[d].stalled
  BY DEF RepeatsAccountedFor
<1>1. /\ job[d].stalled \in Nat /\ MaxAttempts \in Nat
      /\ Tries(d) \in Nat /\ Over(d) \in 0..1 /\ Tries(d) <= MaxAttempts
  BY RoomTyped DEF JobsInv
<1>2. /\ posts[d] \in Nat /\ recorded[d] \in Nat
      /\ Cardinality(Toward(d)) \in Nat /\ Cardinality(Late(d)) \in Nat
  <2>1. Toward(d) \in SUBSET Worker /\ Late(d) \in SUBSET Worker
    BY DEF Toward, Late
  <2> QED
    BY <2>1, SomeWorkers DEF JobsInv, WebhookTypeOK
<1>3. CASE queue = "webhook-delivery"
  <2>1. /\ posts[d] + Cardinality(Toward(d)) <= job[d].stalled + Tries(d)
        /\ recorded[d] + Cardinality(Late(d)) <= job[d].stalled + Over(d)
    BY <1>3 DEF RepeatsInv
  <2> QED
    BY <1>1, <1>2, <2>1
<1>4. CASE queue # "webhook-delivery"
  BY <1>1, <1>4 DEF RepeatsInv
<1> QED
  BY <1>3, <1>4

\* A delivery whose job never lost its lock has one worker at most, which holds the
\* lock unless the job was given up; and its verdict is in only when there is none.
VerdictInv ==
  queue = "webhook-delivery" =>
    \A d \in Job : job[d].stalled = 0 =>
      /\ \A w \in Worker : worker[w].job = d => Holds(w, d) \/ job[d].state = "failed"
      /\ \A v, w \in Worker : worker[v].job = d /\ worker[w].job = d => v = w
      /\ delivery[d].status \in Verdict =>
           job[d].state \in {"done", "failed"} /\ \A w \in Worker : worker[w].job # d

LEMMA VerdictStep ==
  ASSUME QueueInv, WebhookTypeOK, VerdictInv, queue = "webhook-delivery", Delivering,
         NEW d \in Job, job'[d].stalled = 0
  PROVE  /\ \A w \in Worker : worker'[w].job = d =>
              (job'[d].state = "active" /\ job'[d].by = w) \/ job'[d].state = "failed"
         /\ \A v, w \in Worker : worker'[v].job = d /\ worker'[w].job = d => v = w
         /\ delivery'[d].status \in Verdict =>
              job'[d].state \in {"done", "failed"} /\ \A w \in Worker : worker'[w].job # d
         /\ delivery[d].status \in Verdict => delivery'[d] \in {delivery[d], NoDelivery}
<1>1. job[d].stalled = 0
  BY RoomGrows, RoomTyped
<1>2. /\ \A w \in Worker : worker[w].job = d =>
           (job[d].state = "active" /\ job[d].by = w) \/ job[d].state = "failed"
      /\ \A v, w \in Worker : worker[v].job = d /\ worker[w].job = d => v = w
      /\ delivery[d].status \in Verdict =>
           job[d].state \in {"done", "failed"} /\ \A w \in Worker : worker[w].job # d
  BY <1>1 DEF VerdictInv, Holds
<1>3. NoJob # d /\ job[d].stalled \in Nat
  BY JobQueueAssumption DEF Job, QueueInv, QueueTypeOK, JobState
<1>4. CASE Unmoved
  <2>1. ~Exists(d) => delivery[d].status \notin Verdict
    BY DEF Exists, NoDelivery, Verdict
  <2>2. NoDelivery.status \notin Verdict /\ "PENDING" \notin Verdict
    BY DEF NoDelivery, Verdict
  <2>3. delivery'[d].status \in Verdict => delivery'[d] = delivery[d]
    BY <1>4, <2>2 DEF Unmoved
  <2> QED
    BY <1>2, <1>4, <2>1, <2>2, <2>3 DEF Unmoved
<1>5. ASSUME NEW i \in Job, Enqueued(i)
      PROVE  /\ \A w \in Worker : worker'[w].job = d =>
                  (job'[d].state = "active" /\ job'[d].by = w) \/ job'[d].state = "failed"
             /\ delivery'[d].status \in Verdict => job'[d].state \in {"done", "failed"}
             /\ UNCHANGED <<worker, delivery>>
  BY <1>2, <1>5 DEF Enqueued, JobMoves, NotAdded
<1>6. ASSUME NEW i \in Job, Lost(i)
      PROVE  /\ \A w \in Worker : worker'[w].job = d =>
                  (job'[d].state = "active" /\ job'[d].by = w) \/ job'[d].state = "failed"
             /\ delivery'[d].status \in Verdict => job'[d].state \in {"done", "failed"}
             /\ UNCHANGED <<worker, delivery>>
  BY <1>1, <1>2, <1>6 DEF Lost, JobMoves
<1>7. ASSUME NEW w \in Worker, NEW step \in Step, Went(w, step)
      PROVE  UNCHANGED <<job, delivery>> /\ \A v \in Worker : worker'[v].job = worker[v].job
  BY <1>7 DEF Went, WorkerMoves
<1>8. ASSUME NEW w \in Worker, Died(w)
      PROVE  /\ UNCHANGED <<job, delivery>>
             /\ \A v \in Worker : worker'[v].job = d => worker[v].job = d
  BY <1>3, <1>8 DEF Died, WorkerMoves
<1>9. ASSUME NEW w \in Worker, NEW i \in Job, Begun(w, i)
      PROVE  /\ UNCHANGED delivery
             /\ \/ /\ i # d /\ job'[d] = job[d]
                   /\ \A v \in Worker : worker'[v].job = d => worker[v].job = d
                \/ /\ delivery[d].status \notin Verdict
                   /\ job'[d].state = "active" /\ job'[d].by = w
                   /\ \A v \in Worker : worker'[v].job = d => v = w
  BY <1>2, <1>3, <1>9 DEF Begun, JobMoves, WorkerMoves
<1>10. ASSUME NEW w \in Worker, NEW i \in Job, Returned(w, i) \/ Threw(w, i)
       PROVE  \/ /\ i # d /\ job'[d] = job[d] /\ delivery'[d] = delivery[d]
                 /\ \A v \in Worker : worker'[v].job = d => worker[v].job = d
              \/ /\ delivery[d].status \notin Verdict
                 /\ \A v \in Worker : worker'[v].job # d
                 /\ delivery'[d].status \in Verdict => job'[d].state \in {"done", "failed"}
  <2>1. CASE i # d
    <3>1. job'[d] = job[d] /\ delivery'[d] = delivery[d]
      BY <1>10, <2>1 DEF Returned, Threw, JobMoves, OnlyRow
    <3>2. \A v \in Worker : worker'[v].job = d => worker[v].job = d
      BY <1>3, <1>10 DEF Returned, Threw, WorkerMoves
    <3> QED
      BY <2>1, <3>1, <3>2
  <2>2. CASE i = d
    <3>1. worker[w].job = d
      BY <1>10, <2>2 DEF Returned, Threw
    <3>2. delivery[d].status \notin Verdict
      BY <1>2, <3>1
    <3>3. \A v \in Worker : worker'[v].job # d
      BY <1>2, <1>3, <1>10, <3>1 DEF Returned, Threw, WorkerMoves
    <3>4. delivery'[d].status \in Verdict => job'[d].state \in {"done", "failed"}
      <4>1. CASE Returned(w, i)
        BY <1>2, <2>2, <3>1, <4>1 DEF Returned, JobMoves, Holds
      <4>2. CASE Threw(w, i)
        BY <2>2, <3>2, <4>2 DEF Threw
      <4> QED
        BY <1>10, <4>1, <4>2
    <3> QED
      BY <3>2, <3>3, <3>4
  <2> QED
    BY <2>1, <2>2
<1> QED
  <2>1. ASSUME NEW i \in Job, Enqueued(i) \/ Lost(i)
        PROVE  /\ \A w \in Worker : worker'[w].job = d =>
                    (job'[d].state = "active" /\ job'[d].by = w) \/ job'[d].state = "failed"
               /\ delivery'[d].status \in Verdict => job'[d].state \in {"done", "failed"}
               /\ UNCHANGED <<worker, delivery>>
    BY <1>5, <1>6, <2>1
  <2> QED
    BY <1>2, <1>4, <1>7, <1>8, <1>9, <1>10, <2>1 DEF Delivering

LEMMA VerdictInit ==
  ASSUME Init
  PROVE  VerdictInv
BY JobQueueAssumption
   DEF Init, QueueInit, WebhookInit, NoDelivery, Idle, Job, Verdict, VerdictInv

LEMMA VerdictInvStep ==
  ASSUME JobsInv, VerdictInv, [Next]_vars
  PROVE  VerdictInv'
<1>1. QueueInv /\ WebhookTypeOK
  BY DEF JobsInv
<1>2. CASE WebhookStep
  <2>1. Delivering /\ queue = "webhook-delivery"
    BY <1>1, <1>2, WebhookDelivers DEF WebhookStep
  <2>2. ASSUME NEW d \in Job, job'[d].stalled = 0
        PROVE  /\ \A w \in Worker : worker'[w].job = d => Holds(w, d)' \/ job'[d].state = "failed"
               /\ \A v, w \in Worker : worker'[v].job = d /\ worker'[w].job = d => v = w
               /\ delivery'[d].status \in Verdict =>
                    job'[d].state \in {"done", "failed"} /\ \A w \in Worker : worker'[w].job # d
    BY <1>1, <2>1, <2>2, VerdictStep DEF Holds
  <2> QED
    BY <2>2 DEF VerdictInv
<1>3. CASE StripeStep \/ RunQueueStep
  <2>1. QueueStep
    BY <1>3, NextIsQueueStep DEF JobsInv, QueueInv, StripeInv, TypeOK, Next
  <2> QED
    BY <1>3, <2>1 DEF StripeStep, RunQueueStep, QueueStep, VerdictInv
<1>4. CASE UNCHANGED vars
  BY <1>4 DEF vars, queueVars, webhookVars, VerdictInv, Holds
<1> QED
  BY <1>2, <1>3, <1>4 DEF Next

\* A receiver is posted to no more often than there are attempts, and a delivery is
\* recorded as accepted once, but for the locks that its job lost: each loss is
\* paid for by one more post and one more record
\* (WebhookDeliveryService.attemptDelivery).
THEOREM RepeatsBounded == Spec => []RepeatsAccountedFor
<1>1. Init => RepeatsInv
  BY RepeatsInit
<1>2. JobsInv /\ JobsInv' /\ RepeatsInv /\ [Next]_vars => RepeatsInv'
  BY RepeatsStep
<1>3. JobsInv /\ RepeatsInv => RepeatsAccountedFor
  BY RepeatsHold
<1> QED
  BY <1>1, <1>2, <1>3, JobsInvAlways, PTL DEF Spec

\* What a delivery came to is not rewritten while its row exists, by a late attempt,
\* a replay or a change of its endpoint, unless its job lost its lock
\* (WebhookDeliveryRepository.recordAttempt writes whatever the row says by then).
THEOREM VerdictKept == Spec => VerdictStands
<1>1. Init => VerdictInv
  BY VerdictInit
<1>2. JobsInv /\ VerdictInv /\ [Next]_vars => VerdictInv'
  BY VerdictInvStep
<1>3. ASSUME JobsInv, VerdictInv, [Next]_vars
      PROVE  [\A d \in Job :
                delivery[d].status \in {"SUCCEEDED", "EXHAUSTED"} /\ job'[d].stalled = 0
                  => delivery'[d] \in {delivery[d], NoDelivery}]_<<queueVars, webhookVars>>
  <2>1. SUFFICES ASSUME NEW d \in Job, delivery[d].status \in Verdict, job'[d].stalled = 0
                 PROVE  delivery'[d] \in {delivery[d], NoDelivery}
    BY DEF Verdict
  <2>2. CASE WebhookStep
    <3>1. Delivering /\ queue = "webhook-delivery"
      BY <1>3, <2>2, WebhookDelivers DEF WebhookStep, JobsInv
    <3> QED
      BY <1>3, <2>1, <3>1, VerdictStep DEF JobsInv
  <2>3. CASE UNCHANGED delivery
    BY <2>3
  <2> QED
    BY <1>3, <2>2, <2>3 DEF Next, StripeStep, RunQueueStep, vars, webhookVars
<1> QED
  BY <1>1, <1>2, <1>3, JobsInvAlways, PTL DEF Spec, VerdictStands

-----------------------------------------------------------------------------
(* Events.  What each step does to the jobs, the workers and the rows.      *)

EventQueued(e) ==
  /\ e \in unadded /\ unadded' = unadded \ {e}
  /\ acked' \in {acked, acked \union {e}}
  /\ UNCHANGED <<worker, stored, mirror, disordered, faults>>
  /\ \/ job[e] = NotAdded /\ JobMoves(e, "waiting", Nobody, 0, 0)
     \/ job[e] # NotAdded /\ UNCHANGED job

EventBegun(w, e) ==
  /\ UNCHANGED <<stored, unadded, acked, mirror, faults>>
  /\ worker[w] = Idle /\ job[e].state = "waiting"
  /\ JobMoves(e, "active", w, job[e].made, job[e].stalled)
  /\ WorkerMoves(w, e, "look", job[e].made + 1)
  /\ disordered' = (disordered \/ OutOfOrder(e))

EventWent(w, step) ==
  /\ UNCHANGED <<job, stored, unadded, acked, disordered, faults>>
  /\ WorkerMoves(w, worker[w].job, step, worker[w].attempt)

EventMarked(w, e) ==
  /\ At(w, "mark") /\ worker[w].job = e
  /\ stored' = [stored EXCEPT ![e] = "processed"]
  /\ acked' \in {acked, acked \union {e}}
  /\ UNCHANGED <<unadded, mirror, disordered, faults>>
  /\ WorkerMoves(w, NoJob, "idle", 0)
  /\ \/ Holds(w, e) /\ JobMoves(e, "done", Nobody, job[e].made, job[e].stalled)
     \/ ~Holds(w, e) /\ UNCHANGED job

EventThrew(w, e) ==
  /\ worker[w].job = e
  /\ Fault
  /\ \/ UNCHANGED stored
     \/ stored' = [stored EXCEPT ![e] = IF @ = "processed" THEN @ ELSE "failed"]
  /\ UNCHANGED <<unadded, acked, mirror, disordered>>
  /\ WorkerMoves(w, NoJob, "idle", 0)
  /\ \/ /\ Holds(w, e)
        /\ JobMoves(e, IF IsFinalAttempt(w) THEN "failed" ELSE "waiting",
                    Nobody, job[e].made + 1, job[e].stalled)
     \/ ~Holds(w, e) /\ UNCHANGED job

EventLost(i) ==
  /\ UNCHANGED <<worker, stored, unadded, acked, mirror, disordered>>
  /\ Fault \/ (Orphaned(i) /\ UNCHANGED faults)
  /\ job[i].state = "active"
  /\ \/ JobMoves(i, "waiting", Nobody, job[i].made, job[i].stalled + 1)
     \/ \E counted \in 0..1 :
          JobMoves(i, "failed", Nobody, job[i].made + counted, job[i].stalled)

EventDied(w) ==
  /\ UNCHANGED <<job, stored, unadded, acked, mirror, disordered>>
  /\ Fault /\ WorkerMoves(w, NoJob, "idle", 0)

\* The steps that leave the jobs and the workers alone.
Beside ==
  /\ UNCHANGED <<job, worker>>
  /\ \/ \E e \in Event : ReceiveNew(e) \/ ReceiveAgain(e) \/ EnqueueFails(e)
     \/ \E w \in Worker : FindExpiredTrial(w) \/ EndTrial(w)
     \/ UNCHANGED <<stored, unadded, acked, mirror, disordered>> /\ (Fault \/ UNCHANGED faults)

Mirroring ==
  \/ Beside
  \/ \E e \in Event : EventQueued(e)
  \/ \E w \in Worker, e \in Event : EventBegun(w, e) \/ EventMarked(w, e) \/ EventThrew(w, e)
  \/ \E w \in Worker, step \in Step :
       EventWent(w, step) /\ (FindMirror(w) \/ WriteMirror(w) \/ AddItems(w))
  \/ \E i \in Job : EventLost(i)
  \/ \E w \in Worker : EventDied(w)

LEMMA StripeMirrors ==
  ASSUME QueueInv, StripeInv, StripeStep
  PROVE  Mirroring /\ story' = story /\ queue = "stripe-webhook" /\ queue' = queue
<1>1. QueueTypeOK /\ queue = "stripe-webhook" /\ StripeTypeOK /\ Event \subseteq Job
  BY EventsAreJobs, StripeAssumption DEF QueueInv, StripeInv, StripeStep
<1>2. story' = story /\ queue' = queue
  <2>1. CASE StripeNext
    BY <2>1 DEF StripeNext, ReceiveNew, ReceiveAgain, EnqueueEvent, EnqueueFails, DeliverEvent,
           Handle, FindMirror, WriteMirror, AddItems, Handling, MarkProcessed, HandlerThrows,
           FindExpiredTrial, EndTrial, queueVars
  <2>2. CASE QueueNext /\ UNCHANGED stripeVars
    BY <2>2 DEF QueueNext, Stall, StallAlive, LoseLock, HandleFailed, Die, stripeVars
  <2> QED
    BY <2>1, <2>2 DEF StripeStep
<1>3. ASSUME NEW e \in Event, ReceiveNew(e) \/ ReceiveAgain(e) \/ EnqueueFails(e)
      PROVE  Mirroring
  <2>1. UNCHANGED <<job, worker>>
    BY <1>3 DEF ReceiveNew, ReceiveAgain, EnqueueFails, queueVars
  <2> QED
    BY <1>3, <2>1 DEF Mirroring, Beside
<1>4. ASSUME NEW e \in Event, EnqueueEvent(e)
      PROVE  Mirroring
  <2>1. \/ job[e] = NotAdded /\ JobMoves(e, "waiting", Nobody, 0, 0)
        \/ job[e] # NotAdded /\ UNCHANGED job
    BY <1>1, <1>4, AddMoves DEF EnqueueEvent
  <2>2. EventQueued(e)
    BY <1>4, <2>1 DEF EnqueueEvent, EventQueued
  <2> QED
    BY <2>2 DEF Mirroring
<1>5. ASSUME NEW w \in Worker, NEW e \in Event, DeliverEvent(w, e)
      PROVE  Mirroring
  <2>1. "look" \in Step /\ Take(w, e, "look") /\ e \in Job
    BY <1>1, <1>5 DEF DeliverEvent, Step
  <2>2. job[e].made < MaxAttempts
    BY <2>1, ActiveHasAttempts DEF Take
  <2>3. EventBegun(w, e)
    BY <1>1, <1>5, <2>1, <2>2, TakeMoves DEF DeliverEvent, Take, EventBegun
  <2> QED
    BY <2>3 DEF Mirroring
<1>6. ASSUME NEW w \in Worker, FindMirror(w) \/ WriteMirror(w) \/ AddItems(w)
      PROVE  Mirroring
  <2>1. "update" \in Step /\ "mark" \in Step /\ "create" \in Step /\ "lines" \in Step
    BY DEF Step
  <2>2. PICK step \in Step : Goto(w, step)
    BY <1>6, <2>1 DEF FindMirror, WriteMirror, AddItems, Goto
  <2>3. EventWent(w, step)
    BY <1>1, <1>6, <2>2, GotoMoves DEF FindMirror, WriteMirror, AddItems, Handling, EventWent
  <2> QED
    BY <1>6, <2>3 DEF Mirroring
<1>7. ASSUME NEW w \in Worker, MarkProcessed(w)
      PROVE  Mirroring
  <2> DEFINE e == worker[w].job
  <2>1. Working(w) /\ e \in Event
    BY <1>1, <1>7, WorksOnEvent DEF MarkProcessed, At, Working
  <2>2. EventMarked(w, e)
    BY <1>1, <1>7, <2>1, ReturnMoves DEF MarkProcessed, EventMarked
  <2> QED
    BY <2>1, <2>2 DEF Mirroring
<1>8. ASSUME NEW w \in Worker, HandlerThrows(w)
      PROVE  Mirroring
  <2> DEFINE e == worker[w].job
  <2>1. Working(w) /\ e \in Event /\ e \in Job
    BY <1>1, <1>8, WorksOnEvent DEF HandlerThrows, Working
  <2>2. Holds(w, e) => job[e].made < MaxAttempts
    BY <2>1, ActiveHasAttempts DEF Holds
  <2>3. EventThrew(w, e)
    BY <1>1, <1>8, <2>1, <2>2, ThrowMoves DEF HandlerThrows, EventThrew
  <2> QED
    BY <2>1, <2>3 DEF Mirroring
<1>9. ASSUME NEW w \in Worker, FindExpiredTrial(w) \/ EndTrial(w)
      PROVE  Mirroring
  <2>1. UNCHANGED <<job, worker>>
    BY <1>9 DEF FindExpiredTrial, EndTrial, queueVars
  <2> QED
    BY <1>9, <2>1 DEF Mirroring, Beside
<1>10. CASE QueueNext /\ UNCHANGED stripeVars
  <2>1. UNCHANGED <<stored, unadded, acked, mirror, disordered>>
    BY <1>10 DEF stripeVars
  <2>2. ASSUME NEW j \in Job, Stall(j) \/ StallAlive(j)
        PROVE  Mirroring
    <3>1. /\ LoseLock(j) /\ job[j].state = "active" /\ UNCHANGED worker
          /\ Fault \/ (Orphaned(j) /\ UNCHANGED faults)
      BY <2>2 DEF Stall, StallAlive, LoseLock
    <3>2. job[j].made < MaxAttempts
      BY <3>1, ActiveHasAttempts
    <3>3. EventLost(j)
      BY <1>1, <2>1, <3>1, <3>2, LoseMoves DEF EventLost
    <3> QED
      BY <3>3 DEF Mirroring
  <2>3. ASSUME NEW j \in Job, NEW w \in Worker, HandleFailed(w, j)
        PROVE  Mirroring
    <3>1. UNCHANGED <<job, worker>> /\ (Fault \/ UNCHANGED faults)
      BY <2>3 DEF HandleFailed
    <3> QED
      BY <2>1, <3>1 DEF Mirroring, Beside
  <2>4. ASSUME NEW w \in Worker, Die(w)
        PROVE  Mirroring
    BY <1>1, <2>1, <2>4, IdleMoves DEF Die, Mirroring, EventDied
  <2> QED
    BY <1>1, <1>2, <1>10, <2>2, <2>3, <2>4 DEF QueueNext
<1> QED
  BY <1>1, <1>2, <1>3, <1>4, <1>5, <1>6, <1>7, <1>8, <1>9, <1>10
     DEF StripeStep, StripeNext, Handle

\* No worker has begun with a job, nor lost it.
Fresh(j) == job[j].state \in {"none", "waiting"} /\ job[j].made = 0 /\ job[j].stalled = 0

\* An event that was answered, or whose job is yet to be added, is stored; its job was
\* never added before; and an event that was worked on is not fresh any more.
RowsInv ==
  \A e \in Event :
    /\ e \in acked => stored[e] # "none"
    /\ e \in unadded => stored[e] # "none" /\ job[e].state = "none"
    /\ stored[e] = "none" => job[e].state = "none"
    /\ \A w \in Worker : worker[w].job = e => ~Fresh(e)
    /\ stored[e] = "processed" => ~Fresh(e)

\* While nothing has failed, a job is in the hands of the worker that holds it, none is
\* given up, and an event that is not processed has its job before it.
FaultlessInv ==
  faults = 0 =>
    \A e \in Event :
      /\ job[e].state = "active" =>
           \E w \in Worker : job[e].by = w /\ worker[w].job = e
      /\ job[e].state # "failed"
      /\ stored[e] \notin {"none", "processed"} =>
           e \in unadded \/ job[e].state \in {"waiting", "active"}

\* What a step does to a job.
LEMMA EventJobMoves ==
  ASSUME QueueInv, Mirroring, Event \subseteq Job, NEW j \in Job
  PROVE  \/ job'[j] = job[j]
         \/ /\ j \in unadded /\ j \notin unadded' /\ job[j].state = "none"
            /\ job'[j].state = "waiting"
         \/ /\ job[j].state = "waiting" /\ job'[j].state = "active"
         \/ /\ job[j].state = "active" /\ job'[j].state \in {"done", "failed"}
         \/ /\ job[j].state = "active" /\ job'[j].state = "waiting"
            /\ job'[j].made > 0 \/ job'[j].stalled > 0
<1>1. job[j].made \in Nat /\ job[j].stalled \in Nat
  BY RoomTyped
<1>2. CASE Beside \/ \E w \in Worker : EventDied(w) \/ \E step \in Step : EventWent(w, step)
  BY <1>2 DEF Beside, EventDied, EventWent
<1>3. ASSUME NEW e \in Event, EventQueued(e)
      PROVE  \/ job'[j] = job[j]
             \/ /\ j \in unadded /\ j \notin unadded' /\ job[j].state = "none"
                /\ job'[j].state = "waiting"
  BY <1>3 DEF EventQueued, JobMoves, NotAdded
<1>4. ASSUME NEW w \in Worker, NEW e \in Event, EventBegun(w, e)
      PROVE  \/ job'[j] = job[j]
             \/ job[j].state = "waiting" /\ job'[j].state = "active"
  BY <1>4 DEF EventBegun, JobMoves
<1>5. ASSUME NEW w \in Worker, NEW e \in Event, EventMarked(w, e)
      PROVE  \/ job'[j] = job[j]
             \/ job[j].state = "active" /\ job'[j].state = "done"
  BY <1>5 DEF EventMarked, JobMoves, Holds
<1>6. ASSUME NEW w \in Worker, NEW e \in Event, EventThrew(w, e)
      PROVE  \/ job'[j] = job[j]
             \/ /\ job[j].state = "active" /\ job'[j].state \in {"failed", "waiting"}
                /\ job'[j].made > 0
  BY <1>1, <1>6 DEF EventThrew, JobMoves, Holds
<1>7. ASSUME NEW i \in Job, EventLost(i)
      PROVE  \/ job'[j] = job[j]
             \/ job[j].state = "active" /\ job'[j].state = "failed"
             \/ job[j].state = "active" /\ job'[j].state = "waiting" /\ job'[j].stalled > 0
  BY <1>1, <1>7 DEF EventLost, JobMoves
<1> QED
  BY <1>2, <1>3, <1>4, <1>5, <1>6, <1>7 DEF Mirroring

LEMMA NotFreshAgain ==
  ASSUME QueueInv, QueueInv', Mirroring, Event \subseteq Job, NEW j \in Job, ~Fresh(j)
  PROVE  ~Fresh(j)'
<1>1. job'[j].made \in Nat /\ job'[j].stalled \in Nat
  BY JobQueueAssumption DEF QueueInv, QueueTypeOK, JobState
<1>2. job[j].state = "none" => Fresh(j)
  BY DEF QueueInv, Untouched, NotAdded, Fresh
<1>3. \/ job'[j] = job[j]
      \/ job'[j].state \in {"active", "done", "failed"}
      \/ job'[j].state = "waiting" /\ (job'[j].made > 0 \/ job'[j].stalled > 0)
  BY <1>2, EventJobMoves
<1> QED
  BY <1>1, <1>3 DEF Fresh

LEMMA RowsInvStep ==
  ASSUME QueueInv, QueueInv', StripeTypeOK, RowsInv, Mirroring, story' = story
  PROVE  RowsInv'
<1>1. Event' = Event /\ Event \subseteq Job
  BY EventsAreJobs, StripeAssumption DEF Event
<1>2. stored \in [Job -> {"none", "new", "processed", "failed"}]
  BY DEF StripeTypeOK
<1> SUFFICES ASSUME NEW f \in Event
             PROVE  /\ f \in acked' => stored'[f] # "none"
                    /\ f \in unadded' => stored'[f] # "none" /\ job'[f].state = "none"
                    /\ stored'[f] = "none" => job'[f].state = "none"
                    /\ \A w \in Worker : worker'[w].job = f => ~Fresh(f)'
                    /\ stored'[f] = "processed" => ~Fresh(f)'
  BY <1>1 DEF RowsInv
<1>3. f \in Job
  BY <1>1
<1>4. /\ f \in acked => stored[f] # "none"
      /\ f \in unadded => stored[f] # "none" /\ job[f].state = "none"
      /\ stored[f] = "none" => job[f].state = "none"
      /\ \A w \in Worker : worker[w].job = f => ~Fresh(f)
      /\ stored[f] = "processed" => ~Fresh(f)
  BY DEF RowsInv
<1>5. ~Fresh(f) => ~Fresh(f)'
  BY <1>1, <1>3, NotFreshAgain
<1>6. job[f].state = "none" /\ job'[f].state # "none" => f \in unadded /\ f \notin unadded'
  BY <1>1, <1>3, EventJobMoves
<1>7. job[f].state = "none" => Fresh(f)
  BY <1>3 DEF QueueInv, Untouched, NotAdded, Fresh
<1>8. stored[f] # "none" => stored'[f] # "none"
  BY <1>1, <1>2, <1>3 DEF Mirroring, Beside, ReceiveNew, ReceiveAgain, EnqueueFails,
     FindExpiredTrial, EndTrial, EventQueued, EventBegun, EventWent, EventMarked, EventThrew,
     EventLost, EventDied
<1>9. CASE Beside
  <2>1. /\ f \in acked' => stored'[f] # "none"
        /\ f \in unadded' => stored'[f] # "none" /\ job'[f].state = "none"
    BY <1>1, <1>2, <1>3, <1>4, <1>8, <1>9 DEF Beside, ReceiveNew, ReceiveAgain, EnqueueFails,
       FindExpiredTrial, EndTrial
  <2>2. stored'[f] = "processed" => stored[f] = "processed"
    BY <1>2, <1>3, <1>9 DEF Beside, ReceiveNew, ReceiveAgain, EnqueueFails,
       FindExpiredTrial, EndTrial
  <2>3. UNCHANGED <<job, worker>>
    BY <1>9 DEF Beside
  <2> QED
    BY <1>4, <1>5, <1>8, <2>1, <2>2, <2>3
<1>10. ASSUME NEW e \in Event, EventQueued(e)
       PROVE  /\ f \in acked' => stored'[f] # "none"
              /\ f \in unadded' => stored'[f] # "none" /\ job'[f].state = "none"
              /\ stored'[f] = "none" => job'[f].state = "none"
              /\ \A w \in Worker : worker'[w].job = f => worker[w].job = f
              /\ stored'[f] = "processed" => stored[f] = "processed"
  <2>1. stored[e] # "none"
    BY <1>10 DEF RowsInv, EventQueued
  <2> QED
    BY <1>4, <1>6, <1>10, <2>1 DEF EventQueued
<1>11. ASSUME NEW w \in Worker, NEW e \in Event, EventBegun(w, e)
       PROVE  /\ f \in acked' => stored'[f] # "none"
              /\ f \in unadded' => stored'[f] # "none" /\ job'[f].state = "none"
              /\ stored'[f] = "none" => job'[f].state = "none"
              /\ \A v \in Worker : worker'[v].job = f => ~Fresh(f)'
              /\ stored'[f] = "processed" => ~Fresh(f)'
  <2>1. f = e => ~Fresh(f)'
    BY <1>11 DEF EventBegun, JobMoves, Fresh
  <2>2. \A v \in Worker : worker'[v].job = f => f = e \/ worker[v].job = f
    BY <1>11 DEF EventBegun, WorkerMoves
  <2> QED
    BY <1>4, <1>5, <1>6, <1>11, <2>1, <2>2 DEF EventBegun
<1>12. ASSUME NEW w \in Worker, NEW step \in Step, EventWent(w, step)
       PROVE  /\ f \in acked' => stored'[f] # "none"
              /\ f \in unadded' => stored'[f] # "none" /\ job'[f].state = "none"
              /\ stored'[f] = "none" => job'[f].state = "none"
              /\ \A v \in Worker : worker'[v].job = f => worker[v].job = f
              /\ stored'[f] = "processed" => stored[f] = "processed"
  BY <1>4, <1>12 DEF EventWent, WorkerMoves
<1>13. NoJob # f
  BY <1>3, JobQueueAssumption DEF Job
<1>14. ASSUME NEW w \in Worker, NEW e \in Event, EventMarked(w, e)
       PROVE  /\ f \in acked' => stored'[f] # "none"
              /\ f \in unadded' => stored'[f] # "none" /\ job'[f].state = "none"
              /\ stored'[f] = "none" => job'[f].state = "none"
              /\ \A v \in Worker : worker'[v].job = f => worker[v].job = f
              /\ stored'[f] = "processed" => ~Fresh(f)
  <2>1. /\ f # e => stored'[f] = stored[f]
        /\ f = e => stored'[f] = "processed" /\ ~Fresh(f)
    BY <1>2, <1>3, <1>4, <1>14 DEF EventMarked
  <2>2. \A v \in Worker : worker'[v].job = f => worker[v].job = f
    BY <1>13, <1>14 DEF EventMarked, WorkerMoves
  <2>3. UNCHANGED unadded /\ (f \in acked' => f = e \/ f \in acked)
    BY <1>14 DEF EventMarked
  <2> QED
    BY <1>4, <1>6, <1>8, <2>1, <2>2, <2>3
<1>15. ASSUME NEW w \in Worker, NEW e \in Event, EventThrew(w, e)
       PROVE  /\ f \in acked' => stored'[f] # "none"
              /\ f \in unadded' => stored'[f] # "none" /\ job'[f].state = "none"
              /\ stored'[f] = "none" => job'[f].state = "none"
              /\ \A v \in Worker : worker'[v].job = f => worker[v].job = f
              /\ stored'[f] = "processed" => stored[f] = "processed"
  <2>1. /\ stored'[f] = "none" => stored[f] = "none"
        /\ stored'[f] = "processed" => stored[f] = "processed"
    BY <1>2, <1>3, <1>15 DEF EventThrew
  <2>2. \A v \in Worker : worker'[v].job = f => worker[v].job = f
    BY <1>13, <1>15 DEF EventThrew, WorkerMoves
  <2>3. UNCHANGED <<unadded, acked>>
    BY <1>15 DEF EventThrew
  <2> QED
    BY <1>4, <1>6, <1>8, <2>1, <2>2, <2>3
<1>16. ASSUME \/ \E i \in Job : EventLost(i)
              \/ \E w \in Worker : EventDied(w)
       PROVE  /\ UNCHANGED <<stored, unadded, acked>>
              /\ \A v \in Worker : worker'[v].job = f => worker[v].job = f
  BY <1>13, <1>16 DEF EventLost, EventDied, WorkerMoves
<1> QED
  BY <1>4, <1>5, <1>6, <1>9, <1>10, <1>11, <1>12, <1>14, <1>15, <1>16 DEF Mirroring

LEMMA FaultlessInvStep ==
  ASSUME QueueInv, StripeTypeOK, RowsInv, FaultlessInv, Mirroring, story' = story
  PROVE  FaultlessInv'
<1>1. Event' = Event /\ Event \subseteq Job
  BY EventsAreJobs, StripeAssumption DEF Event
<1>2. stored \in [Job -> {"none", "new", "processed", "failed"}] /\ faults \in Nat
  BY JobQueueAssumption DEF StripeTypeOK, QueueInv, QueueTypeOK
<1> SUFFICES ASSUME NEW f \in Event, faults' = 0
             PROVE  /\ job'[f].state = "active" =>
                         \E w \in Worker : job'[f].by = w /\ worker'[w].job = f
                    /\ job'[f].state # "failed"
                    /\ stored'[f] \notin {"none", "processed"} =>
                         f \in unadded' \/ job'[f].state \in {"waiting", "active"}
  BY <1>1 DEF FaultlessInv
<1>3. ~Fault
  BY <1>2 DEF Fault
<1>4. faults = 0
  BY <1>2, <1>3 DEF Mirroring, Beside, ReceiveNew, ReceiveAgain, EnqueueFails, FindExpiredTrial,
     EndTrial, queueVars, EventQueued, EventBegun, EventWent, EventMarked, EventThrew, EventLost,
     EventDied
<1>5. \A e \in Event :
        /\ job[e].state = "active" => \E w \in Worker : job[e].by = w /\ worker[w].job = e
        /\ job[e].state # "failed"
        /\ stored[e] \notin {"none", "processed"} =>
             e \in unadded \/ job[e].state \in {"waiting", "active"}
  BY <1>4 DEF FaultlessInv
<1>6. f \in Job /\ NoJob # f
  BY <1>1, JobQueueAssumption DEF Job
<1>7. CASE Beside
  <2>1. UNCHANGED <<job, worker>>
    BY <1>7 DEF Beside
  <2>2. stored'[f] = stored[f] \/ f \in unadded'
    BY <1>2, <1>3, <1>6, <1>7 DEF Beside, ReceiveNew, ReceiveAgain, EnqueueFails,
       FindExpiredTrial, EndTrial
  <2>3. f \in unadded => f \in unadded'
    BY <1>3, <1>7 DEF Beside, ReceiveNew, ReceiveAgain, EnqueueFails, FindExpiredTrial, EndTrial
  <2> QED
    BY <1>5, <2>1, <2>2, <2>3
<1>8. ASSUME NEW e \in Event, EventQueued(e)
      PROVE  /\ job'[f].state = "active" =>
                  \E w \in Worker : job'[f].by = w /\ worker'[w].job = f
             /\ job'[f].state # "failed"
             /\ stored'[f] \notin {"none", "processed"} =>
                  f \in unadded' \/ job'[f].state \in {"waiting", "active"}
  <2>1. job[e] = NotAdded
    BY <1>1, <1>8 DEF RowsInv, EventQueued, QueueInv, Untouched
  <2>2. CASE f = e
    BY <1>8, <2>1, <2>2 DEF EventQueued, JobMoves
  <2>3. CASE f # e
    BY <1>5, <1>6, <1>8, <2>1, <2>3 DEF EventQueued, JobMoves
  <2> QED
    BY <2>2, <2>3
<1>9. ASSUME NEW w \in Worker, NEW e \in Event, EventBegun(w, e)
      PROVE  /\ job'[f].state = "active" =>
                  \E v \in Worker : job'[f].by = v /\ worker'[v].job = f
             /\ job'[f].state # "failed"
             /\ stored'[f] \notin {"none", "processed"} =>
                  f \in unadded' \/ job'[f].state \in {"waiting", "active"}
  <2>1. CASE f = e
    BY <1>9, <2>1 DEF EventBegun, JobMoves, WorkerMoves
  <2>2. CASE f # e
    <3>1. job'[f] = job[f] /\ stored' = stored /\ unadded' = unadded
      BY <1>6, <1>9, <2>2 DEF EventBegun, JobMoves
    <3>2. \A v \in Worker : worker[v].job = f => worker'[v].job = f
      BY <1>6, <1>9 DEF EventBegun, WorkerMoves, Idle
    <3> QED
      BY <1>5, <3>1, <3>2
  <2> QED
    BY <2>1, <2>2
<1>10. ASSUME NEW w \in Worker, NEW step \in Step, EventWent(w, step)
       PROVE  /\ UNCHANGED <<job, stored, unadded>>
              /\ \A v \in Worker : worker'[v].job = worker[v].job
  BY <1>10 DEF EventWent, WorkerMoves
<1>11. ASSUME NEW w \in Worker, NEW e \in Event, EventMarked(w, e)
       PROVE  /\ job'[f].state = "active" =>
                   \E v \in Worker : job'[f].by = v /\ worker'[v].job = f
              /\ job'[f].state # "failed"
              /\ stored'[f] \notin {"none", "processed"} =>
                   f \in unadded' \/ job'[f].state \in {"waiting", "active"}
  <2>1. /\ \A v \in Worker \ {w} : worker'[v] = worker[v]
        /\ worker[w].job = e /\ unadded' = unadded
    BY <1>11 DEF EventMarked, WorkerMoves
  <2>2. CASE f = e
    <3>1. stored'[f] = "processed"
      BY <1>2, <1>6, <1>11, <2>2 DEF EventMarked
    <3>2. CASE job'[f].state = "done"
      BY <3>1, <3>2
    <3>3. CASE ~Holds(w, f) /\ UNCHANGED job
      BY <1>5, <2>1, <3>1, <3>3 DEF Holds
    <3> QED
      BY <1>11, <2>2, <3>2, <3>3 DEF EventMarked, JobMoves
  <2>3. CASE f # e
    <3>1. stored'[f] = stored[f] /\ job'[f] = job[f]
      BY <1>2, <1>6, <1>11, <2>3 DEF EventMarked, JobMoves
    <3> QED
      BY <1>5, <2>1, <2>3, <3>1
  <2> QED
    BY <2>2, <2>3
<1>12. ASSUME NEW i \in Job, EventLost(i)
       PROVE  job'[f] = job[f] /\ UNCHANGED <<worker, stored, unadded>>
  <2>1. Orphaned(i)
    BY <1>3, <1>12 DEF EventLost
  <2>2. i # f
    BY <1>5, <2>1 DEF Orphaned, Holds
  <2> QED
    BY <1>6, <1>12, <2>2 DEF EventLost, JobMoves
<1>13. /\ ~(\E w \in Worker, e \in Event : EventThrew(w, e))
       /\ ~(\E w \in Worker : EventDied(w))
  BY <1>3 DEF EventThrew, EventDied
<1> QED
  BY <1>5, <1>7, <1>8, <1>9, <1>10, <1>11, <1>12, <1>13 DEF Mirroring

-----------------------------------------------------------------------------
(* The order of the events.  As long as the rows were written in it, one    *)
(* worker at most has an event, every earlier event is processed and no     *)
(* later one begun; so the rows say what the last one begun said.           *)

\* What the rows say once the event was handled, its invoice's lines apart.
Reflects(e) ==
  /\ story[e] \in DOMAIN Upserts => mirror.linked /\ mirror.status = Upserts[story[e]]
  /\ story[e] = "deleted" => mirror.status = "CANCELED"
  /\ story[e] \in DOMAIN Invoices => mirror.invoice = Invoices[story[e]]
  /\ story[e] \in DOMAIN Payments => mirror.payment = Payments[story[e]]
  /\ story[e] = "refunded" => mirror.payment = "REFUNDED"

OneAtATime == \A v, w \in Worker : worker[v].job # NoJob /\ worker[w].job # NoJob => v = w

InTurn ==
  \A w \in Worker, e \in Event : worker[w].job = e =>
    \A f \in Event : (f < e => stored[f] = "processed") /\ (f > e => Fresh(f))

\* A row that an event made is there.
LeavesTrace ==
  \A e \in Event : stored[e] = "processed" =>
    /\ story[e] \in DOMAIN Upserts => mirror.linked
    /\ story[e] \in DOMAIN Payments => mirror.payment # "none"

StepsFit ==
  \A w \in Worker, e \in Event : worker[w].job = e =>
    /\ worker[w].at = "create" /\ story[e] \in DOMAIN Invoices => mirror.invoice = "none"
    /\ worker[w].at = "update" /\ story[e] \in DOMAIN Invoices => mirror.invoice # "none"
    /\ worker[w].at = "lines" => mirror.lines = 0 /\ story[e] \in DOMAIN Invoices
    /\ worker[w].at \in {"lines", "mark"} => Reflects(e)

LastReflected ==
  \A e \in Event :
    stored[e] = "processed" /\ (\A f \in Event : f > e => Fresh(f)) => Reflects(e)

LinesOnce ==
  /\ mirror.lines <= 1
  /\ mirror.invoice = "none" => mirror.lines = 0
  /\ faults = 0 /\ mirror.invoice # "none" =>
       mirror.lines = 1 \/ \E w \in Worker : worker[w].at = "lines"

InOrder == OneAtATime /\ InTurn /\ LeavesTrace /\ StepsFit /\ LastReflected /\ LinesOnce

OrderInv == ~disordered => InOrder

\* What is assumed of every step of an orderly behaviour.
Orderly ==
  /\ QueueInv /\ QueueInv' /\ StripeInv /\ StripeTypeOK' /\ RowsInv /\ InOrder /\ ~disordered'
  /\ Mirroring /\ story' = story /\ queue = "stripe-webhook"

LEMMA OrderlyFacts ==
  ASSUME Orderly
  PROVE  /\ Event' = Event /\ Event \subseteq Job /\ Event \subseteq Nat
         /\ StripeTypeOK /\ QueueTypeOK /\ NoJob \notin Event
         /\ \A w \in Worker : worker[w].job \in Event \union {NoJob}
         /\ \A w \in Worker : worker[w].job # NoJob <=> worker[w].at # "idle"
         /\ \A e \in Event : story[e] \in EventType
         /\ mirror \in Mirror /\ mirror' \in Mirror
         /\ stored \in [Job -> {"none", "new", "processed", "failed"}]
         /\ faults \in Nat /\ faults' \in Nat
<1>1. StripeTypeOK /\ QueueTypeOK /\ OnEvents
  BY DEF Orderly, QueueInv, StripeInv
<1>2. Event' = Event /\ Event \subseteq Job /\ Event \subseteq Nat
  BY <1>1, EventsAreJobs, StripeAssumption DEF Orderly, Event
<1>3. \A w \in Worker : worker[w].job \in Event \union {NoJob}
  BY <1>1 DEF Orderly, OnEvents
<1>4. NoJob \notin Event
  BY <1>2, JobQueueAssumption DEF Job
<1>5. \A w \in Worker : worker[w].job # NoJob <=> worker[w].at # "idle"
  BY <1>1 DEF QueueTypeOK
<1>6. \A e \in Event : story[e] \in EventType
  BY <1>1, EventTypes
<1>7. faults \in Nat /\ faults' \in Nat
  BY JobQueueAssumption DEF Orderly, QueueInv, QueueTypeOK
<1> QED
  BY <1>1, <1>2, <1>3, <1>4, <1>5, <1>6, <1>7 DEF Orderly, StripeTypeOK

\* The orderly delivery of an event finds no worker busy.
LEMMA BegunInTurn ==
  ASSUME Orderly, NEW w \in Worker, NEW e \in Event, EventBegun(w, e)
  PROVE  /\ \A v \in Worker : worker[v].job = NoJob
         /\ \A f \in Event : (f < e => stored[f] = "processed") /\ (f > e => Fresh(f))
<1>1. ~OutOfOrder(e)
  BY DEF Orderly, EventBegun
<1>2. \A f \in Event : f > e => Fresh(f)
  BY <1>1 DEF OutOfOrder, Fresh, NotAdded
<1>3. \A f \in Event : f < e => stored[f] = "processed"
  BY <1>1 DEF OutOfOrder
<1>4. ASSUME NEW v \in Worker, worker[v].job # NoJob
      PROVE  FALSE
  <2>1. worker[v].job \in Event /\ e \in Nat /\ worker[v].job \in Nat
    BY <1>4, OrderlyFacts
  <2>2. ~Fresh(worker[v].job)
    BY <2>1 DEF Orderly, RowsInv
  <2>3. worker[v].job <= e
    BY <1>2, <2>1, <2>2
  <2> QED
    BY <1>1, <2>1, <2>3 DEF OutOfOrder
<1> QED
  BY <1>2, <1>3, <1>4

\* Nothing but its delivery begins an event.
LEMMA FreshStays ==
  ASSUME Orderly, NEW f \in Event, Fresh(f)
  PROVE  Fresh(f)' \/ \E w \in Worker : EventBegun(w, f)
<1>1. f \in Job /\ Event \subseteq Job
  BY OrderlyFacts
<1>2. job[f].state # "active"
  BY DEF Fresh
<1>3. ASSUME job'[f] = job[f]
      PROVE  Fresh(f)'
  BY <1>3 DEF Fresh
<1>4. CASE Beside \/ (\E w \in Worker : EventDied(w))
           \/ (\E w \in Worker, step \in Step : EventWent(w, step))
  BY <1>3, <1>4 DEF Beside, EventDied, EventWent
<1>5. ASSUME NEW e \in Event, EventQueued(e)
      PROVE  Fresh(f)'
  BY <1>1, <1>3, <1>5 DEF EventQueued, JobMoves, Fresh
<1>6. ASSUME NEW w \in Worker, NEW e \in Event, EventBegun(w, e), e # f
      PROVE  Fresh(f)'
  BY <1>1, <1>3, <1>6 DEF EventBegun, JobMoves
<1>7. ASSUME NEW w \in Worker, NEW e \in Event, EventMarked(w, e) \/ EventThrew(w, e)
      PROVE  Fresh(f)'
  <2>1. CASE UNCHANGED job
    BY <1>3, <2>1
  <2>2. CASE job[e].state = "active" /\ \A j \in Job \ {e} : job'[j] = job[j]
    BY <1>1, <1>2, <1>3, <2>2
  <2> QED
    BY <1>7, <2>1, <2>2 DEF EventMarked, EventThrew, JobMoves, Holds
<1>8. ASSUME NEW i \in Job, EventLost(i)
      PROVE  Fresh(f)'
  <2>1. job[i].state = "active" /\ \A j \in Job \ {i} : job'[j] = job[j]
    BY <1>8 DEF EventLost, JobMoves
  <2> QED
    BY <1>1, <1>2, <1>3, <2>1
<1> QED
  BY <1>4, <1>5, <1>6, <1>7, <1>8 DEF Orderly, Mirroring

\* What is processed was so, or is marked now; and it stays so.
LEMMA ProcessedMoves ==
  ASSUME Orderly, NEW e \in Event
  PROVE  /\ stored[e] = "processed" => stored'[e] = "processed"
         /\ stored'[e] = "processed" =>
              stored[e] = "processed" \/ \E w \in Worker : EventMarked(w, e)
<1>1. stored \in [Job -> {"none", "new", "processed", "failed"}] /\ e \in Job
      /\ Event \subseteq Job
  BY OrderlyFacts
<1>2. CASE Beside
  BY <1>1, <1>2 DEF Beside, ReceiveNew, ReceiveAgain, EnqueueFails, FindExpiredTrial, EndTrial
<1>3. ASSUME NEW w \in Worker, NEW f \in Event, EventMarked(w, f)
      PROVE  stored'[e] = IF e = f THEN "processed" ELSE stored[e]
  BY <1>1, <1>3 DEF EventMarked
<1>4. ASSUME NEW w \in Worker, NEW f \in Event, EventThrew(w, f)
      PROVE  stored'[e] = "processed" <=> stored[e] = "processed"
  BY <1>1, <1>4 DEF EventThrew
<1>5. ASSUME \/ \E f \in Event : EventQueued(f)
             \/ \E w \in Worker, f \in Event : EventBegun(w, f)
             \/ \E w \in Worker, step \in Step : EventWent(w, step)
             \/ \E i \in Job : EventLost(i)
             \/ \E w \in Worker : EventDied(w)
      PROVE  stored' = stored
  BY <1>5 DEF EventQueued, EventBegun, EventWent, EventLost, EventDied
<1> QED
  BY <1>2, <1>3, <1>4, <1>5 DEF Orderly, Mirroring

\* What a step does to the rows that mirror the object.
LEMMA MirrorMoves ==
  ASSUME Orderly
  PROVE  \/ mirror' = mirror
         \/ /\ mirror.status = "TRIALING" /\ mirror' = [mirror EXCEPT !.status = "ACTIVE"]
            /\ UNCHANGED <<job, worker, stored, faults>>
         \/ \E w \in Worker, step \in Step :
              EventWent(w, step) /\ (WriteMirror(w) \/ AddItems(w))
<1>1. CASE Beside
  <2>1. ASSUME NEW w \in Worker, EndTrial(w)
        PROVE  /\ mirror.status = "TRIALING" /\ mirror' = [mirror EXCEPT !.status = "ACTIVE"]
               /\ UNCHANGED <<job, worker, stored, faults>>
    BY <2>1 DEF Orderly, EndTrial, queueVars
  <2> QED
    BY <1>1, <2>1 DEF Beside, ReceiveNew, ReceiveAgain, EnqueueFails, FindExpiredTrial
<1>2. CASE \E w \in Worker, step \in Step :
             EventWent(w, step) /\ (FindMirror(w) \/ WriteMirror(w) \/ AddItems(w))
  BY <1>2 DEF FindMirror
<1>3. CASE \/ \E e \in Event : EventQueued(e)
           \/ \E w \in Worker, e \in Event :
                EventBegun(w, e) \/ EventMarked(w, e) \/ EventThrew(w, e)
           \/ \E i \in Job : EventLost(i)
           \/ \E w \in Worker : EventDied(w)
  BY <1>3 DEF EventQueued, EventBegun, EventMarked, EventThrew, EventLost, EventDied
<1> QED
  BY <1>1, <1>2, <1>3 DEF Orderly, Mirroring

\* What is written is what the event says, and nothing else.
LEMMA WrittenFields ==
  ASSUME mirror \in Mirror, NEW e \in Event, story[e] \in EventType,
         mirror' = Written(story[e]), story' = story
  PROVE  /\ mirror'.lines = mirror.lines
         /\ mirror.linked => mirror'.linked
         /\ IF story[e] \in DOMAIN Invoices THEN mirror'.invoice # "none"
                                            ELSE mirror'.invoice = mirror.invoice
         /\ mirror.payment # "none" => mirror'.payment # "none"
         /\ Reflects(e)'
<1> DEFINE type == story[e]
<1>1. Reflects(e)' <=>
        /\ type \in DOMAIN Upserts => mirror'.linked /\ mirror'.status = Upserts[type]
        /\ type = "deleted" => mirror'.status = "CANCELED"
        /\ type \in DOMAIN Invoices => mirror'.invoice = Invoices[type]
        /\ type \in DOMAIN Payments => mirror'.payment = Payments[type]
        /\ type = "refunded" => mirror'.payment = "REFUNDED"
  BY DEF Reflects
<1>2. CASE type \in {"created", "updated"}
  <2>1. mirror' = [mirror EXCEPT !.linked = TRUE, !.status = Upserts[type]]
    BY <1>2, WrittenAs
  <2>2. /\ mirror'.lines = mirror.lines /\ mirror'.linked /\ mirror'.status = Upserts[type]
        /\ mirror'.invoice = mirror.invoice /\ mirror'.payment = mirror.payment
    BY <2>1 DEF Mirror
  <2> QED
    BY <1>1, <1>2, <2>2, Kinds
<1>3. CASE type = "deleted"
  <2>1. mirror' = [mirror EXCEPT !.status = "CANCELED"]
    BY <1>3, WrittenAs
  <2>2. /\ mirror'.lines = mirror.lines /\ mirror'.linked = mirror.linked
        /\ mirror'.status = "CANCELED"
        /\ mirror'.invoice = mirror.invoice /\ mirror'.payment = mirror.payment
    BY <2>1 DEF Mirror
  <2> QED
    BY <1>1, <1>3, <2>2, Kinds
<1>4. CASE type \in {"finalized", "invoice_failed", "paid"}
  <2>1. mirror' = [mirror EXCEPT !.invoice = Invoices[type]]
    BY <1>4, WrittenAs
  <2>3. Invoices[type] # "none"
    BY <1>4 DEF Invoices
  <2>2. /\ mirror'.lines = mirror.lines /\ mirror'.linked = mirror.linked
        /\ mirror'.invoice = Invoices[type] /\ mirror'.payment = mirror.payment
    BY <2>1 DEF Mirror
  <2> QED
    BY <1>1, <1>4, <2>2, <2>3, Kinds
<1>5. CASE type \in {"payment_failed", "succeeded"}
  <2>1. mirror' = [mirror EXCEPT !.payment = Payments[type]]
    BY <1>5, WrittenAs
  <2>3. Payments[type] # "none"
    BY <1>5 DEF Payments
  <2>2. /\ mirror'.lines = mirror.lines /\ mirror'.linked = mirror.linked
        /\ mirror'.payment = Payments[type] /\ mirror'.invoice = mirror.invoice
    BY <2>1 DEF Mirror
  <2> QED
    BY <1>1, <1>5, <2>2, <2>3, Kinds
<1>6. CASE type = "refunded"
  <2>1. mirror' = [mirror EXCEPT !.payment = "REFUNDED"]
    BY <1>6, WrittenAs
  <2>2. /\ mirror'.lines = mirror.lines /\ mirror'.linked = mirror.linked
        /\ mirror'.payment = "REFUNDED" /\ mirror'.invoice = mirror.invoice
    BY <2>1 DEF Mirror
  <2> QED
    BY <1>1, <1>6, <2>2, Kinds
<1> QED
  BY <1>2, <1>3, <1>4, <1>5, <1>6, Kinds

\* What a handler's step at a row does, apart from the worker.
LEMMA HandlersWrite ==
  ASSUME Orderly, NEW w \in Worker, NEW step \in Step, EventWent(w, step),
         FindMirror(w) \/ WriteMirror(w) \/ AddItems(w)
  PROVE  /\ worker[w].job \in Event /\ worker[w].at # "idle"
         /\ worker'[w].job = worker[w].job /\ worker'[w].at = step
         /\ \A v \in Worker : v # w => worker[v].job = NoJob /\ worker'[v] = worker[v]
         /\ UNCHANGED <<job, stored, faults>>
<1>1. worker[w].at # "idle"
  BY DEF FindMirror, WriteMirror, AddItems, At
<1>2. worker[w].job \in Event /\ worker[w].job # NoJob
  BY <1>1, OrderlyFacts
<1>3. \A v \in Worker : v # w => worker[v].job = NoJob
  BY <1>2 DEF Orderly, InOrder, OneAtATime
<1>4. /\ worker'[w].job = worker[w].job /\ worker'[w].at = step
      /\ \A v \in Worker : v # w => worker'[v] = worker[v]
  BY DEF EventWent, WorkerMoves
<1> QED
  BY <1>1, <1>2, <1>3, <1>4 DEF EventWent

LEMMA MirrorWritten ==
  ASSUME Orderly, NEW w \in Worker, NEW step \in Step, EventWent(w, step), WriteMirror(w),
         NEW e \in Event, worker[w].job = e
  PROVE  /\ mirror'.lines = mirror.lines
         /\ mirror.linked => mirror'.linked
         /\ IF story[e] \in DOMAIN Invoices THEN mirror'.invoice # "none"
                                            ELSE mirror'.invoice = mirror.invoice
         /\ mirror.payment # "none" => mirror'.payment # "none"
         /\ Reflects(e)'
<1>1. mirror \in Mirror /\ story[e] \in EventType
  BY OrderlyFacts
<1>2. mirror' = Written(story[e]) /\ story' = story
  BY DEF Orderly, WriteMirror, Type
<1> QED
  BY <1>1, <1>2, WrittenFields

LEMMA ItemsAdded ==
  ASSUME Orderly, NEW w \in Worker, AddItems(w)
  PROVE  /\ mirror'.lines = mirror.lines + 1 /\ mirror'.linked = mirror.linked
         /\ mirror'.status = mirror.status /\ mirror'.invoice = mirror.invoice
         /\ mirror'.payment = mirror.payment
<1>1. mirror \in Mirror
  BY OrderlyFacts
<1>2. mirror' = [mirror EXCEPT !.lines = mirror.lines + 1]
  BY DEF AddItems
<1> QED
  BY <1>1, <1>2 DEF Mirror

\* A row that is there stays there.
LEMMA TracesStay ==
  ASSUME Orderly
  PROVE  /\ mirror.linked => mirror'.linked
         /\ mirror.payment # "none" => mirror'.payment # "none"
         /\ mirror.invoice # "none" => mirror'.invoice # "none"
<1>1. mirror \in Mirror
  BY OrderlyFacts
<1>2. ASSUME mirror' = [mirror EXCEPT !.status = "ACTIVE"]
      PROVE  /\ mirror'.linked = mirror.linked /\ mirror'.payment = mirror.payment
             /\ mirror'.invoice = mirror.invoice
  BY <1>1, <1>2 DEF Mirror
<1>3. ASSUME NEW w \in Worker, NEW step \in Step, EventWent(w, step), WriteMirror(w)
      PROVE  /\ mirror.linked => mirror'.linked
             /\ mirror.payment # "none" => mirror'.payment # "none"
             /\ mirror.invoice # "none" => mirror'.invoice # "none"
  <2>1. worker[w].job \in Event
    BY <1>3, HandlersWrite
  <2> QED
    BY <1>3, <2>1, MirrorWritten
<1>4. ASSUME NEW w \in Worker, AddItems(w)
      PROVE  /\ mirror'.linked = mirror.linked /\ mirror'.payment = mirror.payment
             /\ mirror'.invoice = mirror.invoice
  BY <1>4, ItemsAdded
<1> QED
  BY <1>2, <1>3, <1>4, MirrorMoves

\* Only the handler of another event takes back what the rows say.
LEMMA ReflectsStays ==
  ASSUME Orderly, NEW e \in Event, Reflects(e),
         \A w \in Worker : WriteMirror(w) => worker[w].job = e
  PROVE  Reflects(e)'
<1>1. mirror \in Mirror /\ story' = story
  BY OrderlyFacts DEF Orderly
<1>2. ASSUME mirror' = mirror
      PROVE  Reflects(e)'
  BY <1>1, <1>2 DEF Reflects
<1>3. ASSUME mirror.status = "TRIALING", mirror' = [mirror EXCEPT !.status = "ACTIVE"]
      PROVE  Reflects(e)'
  <2>1. /\ mirror'.linked = mirror.linked /\ mirror'.invoice = mirror.invoice
        /\ mirror'.payment = mirror.payment
    BY <1>1, <1>3 DEF Mirror
  <2>2. story[e] \notin DOMAIN Upserts /\ story[e] # "deleted"
    BY <1>3 DEF Reflects, Upserts
  <2> QED
    BY <1>1, <2>1, <2>2 DEF Reflects
<1>4. ASSUME NEW w \in Worker, NEW step \in Step, EventWent(w, step), WriteMirror(w)
      PROVE  Reflects(e)'
  BY <1>4, MirrorWritten
<1>5. ASSUME NEW w \in Worker, AddItems(w)
      PROVE  Reflects(e)'
  <2>1. /\ mirror'.linked = mirror.linked /\ mirror'.invoice = mirror.invoice
        /\ mirror'.status = mirror.status /\ mirror'.payment = mirror.payment
    BY <1>5, ItemsAdded
  <2> QED
    BY <1>1, <2>1 DEF Reflects
<1> QED
  BY <1>2, <1>3, <1>4, <1>5, MirrorMoves

\* A worker with a job had it before, or begins it now.
LEMMA WorkMoves ==
  ASSUME Orderly, NEW w \in Worker, worker'[w].job # NoJob
  PROVE  \/ worker'[w].job = worker[w].job
         \/ \E e \in Event : EventBegun(w, e) /\ worker'[w].job = e
<1>1. CASE \/ Beside \/ (\E e \in Event : EventQueued(e)) \/ (\E i \in Job : EventLost(i))
  BY <1>1 DEF Beside, EventQueued, EventLost
<1>2. CASE \E v \in Worker, e \in Event : EventBegun(v, e)
  BY <1>2 DEF EventBegun, WorkerMoves
<1>3. CASE \/ \E v \in Worker, e \in Event : EventMarked(v, e) \/ EventThrew(v, e)
           \/ \E v \in Worker : EventDied(v)
  BY <1>3 DEF EventMarked, EventThrew, EventDied, WorkerMoves
<1>4. CASE \E v \in Worker, step \in Step : EventWent(v, step)
  BY <1>4 DEF EventWent, WorkerMoves
<1> QED
  BY <1>1, <1>2, <1>3, <1>4 DEF Orderly, Mirroring

LEMMA OneAtATimeStep ==
  ASSUME Orderly
  PROVE  OneAtATime'
<1> SUFFICES ASSUME NEW v \in Worker, NEW w \in Worker,
                    worker'[v].job # NoJob, worker'[w].job # NoJob, v # w
             PROVE  FALSE
  BY DEF OneAtATime
<1>1. ASSUME NEW x \in Worker, NEW y \in Worker, NEW e \in Event, EventBegun(x, e), x # y
      PROVE  worker'[y].job = NoJob
  BY <1>1, BegunInTurn DEF EventBegun, WorkerMoves
<1>2. worker'[v].job = worker[v].job /\ worker'[w].job = worker[w].job
  BY <1>1, WorkMoves
<1> QED
  BY <1>2 DEF Orderly, InOrder, OneAtATime

LEMMA InTurnStep ==
  ASSUME Orderly
  PROVE  InTurn'
<1>1. Event' = Event /\ Event \subseteq Job /\ NoJob \notin Event
  BY OrderlyFacts
<1> SUFFICES ASSUME NEW w \in Worker, NEW e \in Event, worker'[w].job = e, NEW f \in Event
             PROVE  (f < e => stored'[f] = "processed") /\ (f > e => Fresh(f)')
  BY <1>1 DEF InTurn
<1>2. stored[f] = "processed" => stored'[f] = "processed"
  BY ProcessedMoves
<1>3. CASE worker[w].job = e
  <2>1. (f < e => stored[f] = "processed") /\ (f > e => Fresh(f))
    BY <1>3 DEF Orderly, InOrder, InTurn
  <2>2. ~(\E v \in Worker : EventBegun(v, f))
    BY <1>1, <1>3, BegunInTurn
  <2> QED
    BY <1>2, <2>1, <2>2, FreshStays
<1>4. CASE EventBegun(w, e)
  <2>1. (f < e => stored[f] = "processed") /\ (f > e => Fresh(f))
    BY <1>4, BegunInTurn
  <2>2. ASSUME NEW v \in Worker, EventBegun(v, f), f > e
        PROVE  FALSE
    <3>1. f \in Job \ {e}
      BY <1>1, <2>2, OrderlyFacts
    <3>2. job'[f] = job[f] /\ job'[f].state = "active" /\ job[f].state = "waiting"
      BY <1>4, <2>2, <3>1 DEF EventBegun, JobMoves
    <3> QED
      BY <3>2
  <2> QED
    BY <1>2, <2>1, <2>2, FreshStays
<1> QED
  BY <1>1, <1>3, <1>4, WorkMoves

LEMMA LeavesTraceStep ==
  ASSUME Orderly
  PROVE  LeavesTrace'
<1>1. Event' = Event /\ story' = story
  BY OrderlyFacts DEF Orderly
<1> SUFFICES ASSUME NEW e \in Event, stored'[e] = "processed"
             PROVE  /\ story[e] \in DOMAIN Upserts => mirror'.linked
                    /\ story[e] \in DOMAIN Payments => mirror'.payment # "none"
  BY <1>1 DEF LeavesTrace
<1>2. CASE stored[e] = "processed"
  BY <1>2, TracesStay DEF Orderly, InOrder, LeavesTrace
<1>3. ASSUME NEW w \in Worker, EventMarked(w, e)
      PROVE  /\ story[e] \in DOMAIN Upserts => mirror.linked
             /\ story[e] \in DOMAIN Payments => mirror.payment # "none"
  <2>1. Reflects(e)
    BY <1>3 DEF EventMarked, At, Orderly, InOrder, StepsFit
  <2>2. story[e] \in DOMAIN Payments => Payments[story[e]] # "none"
    BY DEF Payments
  <2> QED
    BY <2>1, <2>2 DEF Reflects
<1> QED
  BY <1>2, <1>3, TracesStay, ProcessedMoves

LEMMA LastReflectedStep ==
  ASSUME Orderly
  PROVE  LastReflected'
<1>1. Event' = Event /\ Event \subseteq Job /\ Event \subseteq Nat
  BY OrderlyFacts
<1> SUFFICES ASSUME NEW e \in Event, stored'[e] = "processed",
                    \A f \in Event : f > e => Fresh(f)'
             PROVE  Reflects(e)'
  BY <1>1 DEF LastReflected
<1>2. ASSUME NEW f \in Event, f > e
      PROVE  Fresh(f)
  BY <1>1, <1>2, NotFreshAgain DEF Orderly
<1>3. CASE stored[e] = "processed"
  <2>1. Reflects(e)
    BY <1>2, <1>3 DEF Orderly, InOrder, LastReflected
  <2>2. ~Fresh(e)
    BY <1>3 DEF Orderly, RowsInv
  <2>3. ASSUME NEW w \in Worker, WriteMirror(w)
        PROVE  worker[w].job = e
    <3>1. worker[w].at # "idle"
      BY <2>3 DEF WriteMirror
    <3>2. worker[w].job \in Event /\ worker[w].job \in Nat /\ e \in Nat
      BY <1>1, <3>1, OrderlyFacts
    <3>3. ~Fresh(worker[w].job)
      BY <3>2 DEF Orderly, RowsInv
    <3>4. ~(worker[w].job > e)
      BY <1>2, <3>2, <3>3
    <3>5. ~(e > worker[w].job)
      BY <2>2, <3>2 DEF Orderly, InOrder, InTurn
    <3> QED
      BY <3>2, <3>4, <3>5
  <2> QED
    BY <2>1, <2>3, ReflectsStays
<1>4. ASSUME NEW w \in Worker, EventMarked(w, e)
      PROVE  Reflects(e)'
  <2>1. Reflects(e) /\ mirror' = mirror /\ story' = story
    BY <1>4 DEF EventMarked, At, Orderly, InOrder, StepsFit
  <2> QED
    BY <2>1 DEF Reflects
<1> QED
  BY <1>3, <1>4, ProcessedMoves

\* The row that an event ends, or pays back, is known by its turn.
LEMMA KnownByThen ==
  ASSUME Orderly, NEW w \in Worker, NEW e \in Event, worker[w].job = e,
         story[e] \in {"deleted", "refunded"}
  PROVE  Known(story[e])
<1>1. story \in Stories /\ e \in 1..Len(story) /\ Len(story) \in Nat
  BY OrderlyFacts, EventsAreJobs, StripeAssumption DEF StripeTypeOK, Event
<1>2. ASSUME NEW type \in {"created", "updated", "payment_failed", "succeeded"},
             \E m \in 1..(e - 1) : story[m] = type
      PROVE  \E m \in Event : story[m] = type /\ stored[m] = "processed"
  BY <1>1, <1>2 DEF Event, Orderly, InOrder, InTurn
<1>3. CASE story[e] = "deleted"
  <2>1. \E m \in 1..(e - 1) : story[m] \in {"created", "updated"}
    BY <1>1, <1>3, StoryAssumption, Kinds
  <2>2. \E m \in Event : story[m] \in {"created", "updated"} /\ stored[m] = "processed"
    BY <1>2, <2>1
  <2>3. mirror.linked
    BY <2>2, Kinds DEF Orderly, InOrder, LeavesTrace
  <2>4. Known("deleted") = mirror.linked
    BY Kinds DEF Known
  <2> QED
    BY <1>3, <2>3, <2>4
<1>4. CASE story[e] = "refunded"
  <2>1. \E m \in 1..(e - 1) : story[m] \in {"payment_failed", "succeeded"}
    BY <1>1, <1>4, StoryAssumption, Kinds
  <2>2. \E m \in Event : story[m] \in {"payment_failed", "succeeded"} /\ stored[m] = "processed"
    BY <1>2, <2>1
  <2>3. mirror.payment # "none"
    BY <2>2, Kinds DEF Orderly, InOrder, LeavesTrace
  <2>4. Known("refunded") <=> mirror.payment # "none"
    BY Kinds DEF Known
  <2> QED
    BY <1>4, <2>3, <2>4
<1> QED
  BY <1>3, <1>4

\* Where a handler goes, and what holds of the rows there.
HandlerFits(w, e) ==
  /\ worker[w].at = "create" /\ story[e] \in DOMAIN Invoices => mirror.invoice = "none"
  /\ worker[w].at = "update" /\ story[e] \in DOMAIN Invoices => mirror.invoice # "none"
  /\ worker[w].at = "lines" => mirror.lines = 0 /\ story[e] \in DOMAIN Invoices
  /\ worker[w].at \in {"lines", "mark"} => Reflects(e)

LEMMA FindFits ==
  ASSUME Orderly, NEW w \in Worker, NEW step \in Step, EventWent(w, step), FindMirror(w),
         NEW e \in Event, worker[w].job = e
  PROVE  HandlerFits(w, e)'
<1>1. mirror' = mirror /\ story' = story /\ Type(w) = story[e]
  BY DEF Orderly, FindMirror, Type
<1>2. worker'[w].at = IF Known(story[e]) THEN "update"
                      ELSE IF story[e] \in {"deleted", "refunded"} THEN "mark" ELSE "create"
  BY <1>1, GotoMoves, OrderlyFacts DEF FindMirror, Goto, QueueTypeOK
<1>3. story[e] \in DOMAIN Invoices => (Known(story[e]) <=> mirror.invoice # "none")
  BY Kinds DEF Known
<1>4. worker'[w].at = IF Known(story[e]) THEN "update" ELSE "create"
  BY <1>2, KnownByThen
<1> QED
  BY <1>1, <1>3, <1>4 DEF HandlerFits

LEMMA WriteFits ==
  ASSUME Orderly, NEW w \in Worker, NEW step \in Step, EventWent(w, step), WriteMirror(w),
         NEW e \in Event, worker[w].job = e
  PROVE  HandlerFits(w, e)'
<1>1. story' = story /\ Type(w) = story[e] /\ worker[w].at \in {"create", "update"}
  BY DEF Orderly, WriteMirror, Type
<1>2. worker'[w].at = IF story[e] \in DOMAIN Invoices /\ At(w, "create") THEN "lines" ELSE "mark"
  BY <1>1, OrderlyFacts DEF WriteMirror, Goto, QueueTypeOK
<1>3. Reflects(e)' /\ mirror'.lines = mirror.lines
  BY MirrorWritten
<1>4. story[e] \in DOMAIN Invoices /\ At(w, "create") => mirror.lines = 0
  BY DEF At, Orderly, InOrder, StepsFit, LinesOnce
<1> QED
  BY <1>1, <1>2, <1>3, <1>4 DEF HandlerFits

LEMMA ItemsFit ==
  ASSUME Orderly, NEW w \in Worker, NEW step \in Step, EventWent(w, step), AddItems(w),
         NEW e \in Event, worker[w].job = e
  PROVE  HandlerFits(w, e)'
<1>1. worker'[w].at = "mark"
  BY OrderlyFacts DEF AddItems, Goto, QueueTypeOK
<1>2. Reflects(e)
  BY DEF AddItems, At, Orderly, InOrder, StepsFit
<1>3. \A v \in Worker : ~WriteMirror(v)
  BY HandlersWrite, OrderlyFacts DEF AddItems, At, WriteMirror
<1>4. Reflects(e)'
  BY <1>2, <1>3, ReflectsStays
<1> QED
  BY <1>1, <1>4 DEF HandlerFits

LEMMA StepsFitStep ==
  ASSUME Orderly
  PROVE  StepsFit'
<1>1. Event' = Event /\ story' = story /\ NoJob \notin Event
  BY OrderlyFacts DEF Orderly
<1> SUFFICES ASSUME NEW w \in Worker, NEW e \in Event, worker'[w].job = e
             PROVE  HandlerFits(w, e)'
  BY <1>1 DEF StepsFit, HandlerFits
<1>2. CASE EventBegun(w, e)
  <2>1. worker'[w].at = "look"
    BY <1>2 DEF EventBegun, WorkerMoves
  <2> QED
    BY <2>1 DEF HandlerFits
<1>3. CASE worker[w].job = e /\ \E v \in Worker, step \in Step :
             EventWent(v, step) /\ (FindMirror(v) \/ WriteMirror(v) \/ AddItems(v))
  <2>1. PICK v \in Worker, step \in Step :
          EventWent(v, step) /\ (FindMirror(v) \/ WriteMirror(v) \/ AddItems(v))
    BY <1>3
  <2>2. v = w
    BY <1>1, <1>3, <2>1, HandlersWrite
  <2> QED
    BY <1>3, <2>1, <2>2, FindFits, WriteFits, ItemsFit
<1>4. CASE worker[w].job = e /\ ~(\E v \in Worker, step \in Step :
             EventWent(v, step) /\ (FindMirror(v) \/ WriteMirror(v) \/ AddItems(v)))
  <2>1. HandlerFits(w, e)
    BY <1>4 DEF Orderly, InOrder, StepsFit, HandlerFits
  <2>2. worker'[w].at = worker[w].at
    <3>1. CASE Beside \/ (\E f \in Event : EventQueued(f)) \/ (\E i \in Job : EventLost(i))
      BY <3>1 DEF Beside, EventQueued, EventLost
    <3>2. ASSUME NEW v \in Worker, NEW f \in Event, EventBegun(v, f)
          PROVE  FALSE
      BY <1>1, <1>4, <3>2, BegunInTurn
    <3>3. CASE \/ \E v \in Worker, f \in Event : EventMarked(v, f) \/ EventThrew(v, f)
               \/ \E v \in Worker : EventDied(v)
      BY <1>1, <3>3 DEF EventMarked, EventThrew, EventDied, WorkerMoves
    <3> QED
      BY <1>4, <3>1, <3>2, <3>3 DEF Orderly, Mirroring
  <2>3. mirror' = mirror \/ (mirror.status = "TRIALING"
                             /\ mirror' = [mirror EXCEPT !.status = "ACTIVE"])
    BY <1>4, MirrorMoves
  <2>4. mirror'.invoice = mirror.invoice /\ mirror'.lines = mirror.lines
    BY <2>3, OrderlyFacts DEF Mirror
  <2>5. ASSUME Reflects(e)
        PROVE  Reflects(e)'
    <3>1. ASSUME NEW v \in Worker, WriteMirror(v)
          PROVE  worker[v].job = e
      <4>1. worker[v].job # NoJob
        BY <3>1, OrderlyFacts DEF WriteMirror
      <4> QED
        BY <1>1, <1>4, <4>1 DEF Orderly, InOrder, OneAtATime
    <3> QED
      BY <2>5, <3>1, ReflectsStays
  <2> QED
    BY <1>1, <2>1, <2>2, <2>4, <2>5 DEF HandlerFits
<1> QED
  BY <1>1, <1>2, <1>3, <1>4, WorkMoves

\* A worker that is to write an invoice's lines does, unless something fails.
LEMMA ItemsAwaited ==
  ASSUME Orderly, faults' = 0, NEW w \in Worker, worker[w].at = "lines"
  PROVE  worker'[w].at = "lines" \/ AddItems(w)
<1>1. faults \in Nat /\ NoJob \notin Event
  BY OrderlyFacts
<1>2. CASE Beside \/ (\E e \in Event : EventQueued(e)) \/ (\E i \in Job : EventLost(i))
  BY <1>2 DEF Beside, EventQueued, EventLost
<1>3. ASSUME NEW v \in Worker, NEW e \in Event, EventBegun(v, e)
      PROVE  worker'[w].at = "lines"
  BY <1>3 DEF EventBegun, WorkerMoves, Idle
<1>4. ASSUME NEW v \in Worker, NEW e \in Event, EventMarked(v, e)
      PROVE  worker'[w].at = "lines"
  BY <1>4 DEF EventMarked, WorkerMoves, At
<1>5. ASSUME NEW v \in Worker, NEW step \in Step, EventWent(v, step),
             FindMirror(v) \/ WriteMirror(v) \/ AddItems(v)
      PROVE  worker'[w].at = "lines" \/ AddItems(w)
  BY <1>5 DEF EventWent, WorkerMoves, FindMirror, WriteMirror, At
<1>6. faults' = faults
  BY <1>1 DEF Orderly, Mirroring, Beside, ReceiveNew, ReceiveAgain, EnqueueFails,
     FindExpiredTrial, EndTrial, queueVars, EventQueued, EventBegun, EventWent, EventMarked,
     EventThrew, EventLost, EventDied, Fault
<1>7. ~Fault
  BY <1>1, <1>6 DEF Fault
<1> QED
  BY <1>2, <1>3, <1>4, <1>5, <1>7 DEF Orderly, Mirroring, EventThrew, EventDied

LEMMA LinesOnceStep ==
  ASSUME Orderly
  PROVE  LinesOnce'
<1>1. mirror \in Mirror /\ mirror' \in Mirror /\ faults \in Nat /\ faults' \in Nat
  BY OrderlyFacts
<1>2. LinesOnce /\ mirror.lines \in Nat
  BY <1>1 DEF Orderly, InOrder, Mirror
<1>3. faults' = 0 => faults = 0
  BY <1>1 DEF Orderly, Mirroring, Beside, ReceiveNew, ReceiveAgain, EnqueueFails,
     FindExpiredTrial, EndTrial, queueVars, EventQueued, EventBegun, EventWent, EventMarked,
     EventThrew, EventLost, EventDied, Fault
<1>4. ASSUME mirror'.lines = mirror.lines, mirror'.invoice = mirror.invoice,
             \A w \in Worker : ~AddItems(w)
      PROVE  LinesOnce'
  BY <1>2, <1>3, <1>4, ItemsAwaited DEF LinesOnce
<1>5. ASSUME mirror' = mirror \/ mirror' = [mirror EXCEPT !.status = "ACTIVE"]
      PROVE  LinesOnce'
  <2>1. mirror'.lines = mirror.lines /\ mirror'.invoice = mirror.invoice
    BY <1>1, <1>5 DEF Mirror
  <2>2. \A w \in Worker : ~AddItems(w)
    BY <1>2, <2>1, ItemsAdded
  <2> QED
    BY <1>4, <2>1, <2>2
<1>6. ASSUME NEW w \in Worker, NEW step \in Step, EventWent(w, step), WriteMirror(w)
      PROVE  LinesOnce'
  <2> DEFINE e == worker[w].job
  <2>1. e \in Event /\ \A v \in Worker : v # w => worker[v].job = NoJob
    BY <1>6, HandlersWrite
  <2>2. \A v \in Worker : worker[v].at # "lines"
    BY <1>6, <2>1, OrderlyFacts DEF WriteMirror
  <2>3. mirror'.lines = mirror.lines
    BY <1>6, <2>1, MirrorWritten
  <2>4. CASE story[e] \notin DOMAIN Invoices
    <3>1. mirror'.invoice = mirror.invoice
      BY <1>6, <2>1, <2>4, MirrorWritten
    <3>2. \A v \in Worker : ~AddItems(v)
      BY <2>2 DEF AddItems, At
    <3> QED
      BY <1>4, <2>3, <3>1, <3>2
  <2>5. CASE story[e] \in DOMAIN Invoices
    <3>1. mirror'.invoice # "none"
      BY <1>6, <2>1, <2>5, MirrorWritten
    <3>2. CASE worker[w].at = "create"
      <4>1. worker'[w].at = "lines"
        BY <1>6, <2>5, <3>2, OrderlyFacts DEF WriteMirror, Goto, At, Type, QueueTypeOK
      <4> QED
        BY <1>2, <2>3, <3>1, <4>1 DEF LinesOnce
    <3>3. CASE worker[w].at = "update"
      <4>1. mirror.invoice # "none"
        BY <2>1, <2>5, <3>3 DEF Orderly, InOrder, StepsFit
      <4>2. faults = 0 => mirror.lines = 1
        BY <1>2, <2>2, <4>1 DEF LinesOnce
      <4> QED
        BY <1>2, <1>3, <2>3, <3>1, <4>2 DEF LinesOnce
    <3> QED
      BY <1>6, <3>2, <3>3 DEF WriteMirror
  <2> QED
    BY <2>4, <2>5
<1>7. ASSUME NEW w \in Worker, NEW step \in Step, EventWent(w, step), AddItems(w)
      PROVE  LinesOnce'
  <2> DEFINE e == worker[w].job
  <2>1. e \in Event /\ worker[w].at = "lines"
    BY <1>7, HandlersWrite DEF AddItems, At
  <2>2. mirror.lines = 0 /\ story[e] \in DOMAIN Invoices /\ Reflects(e)
    BY <2>1 DEF Orderly, InOrder, StepsFit
  <2>3. mirror'.lines = 1 /\ mirror'.invoice = mirror.invoice
    BY <1>7, <2>2, ItemsAdded
  <2>4. mirror.invoice # "none"
    BY <2>2 DEF Reflects, Invoices
  <2> QED
    BY <2>3, <2>4 DEF LinesOnce
<1> QED
  BY <1>5, <1>6, <1>7, MirrorMoves

LEMMA OrderInvStep ==
  ASSUME QueueInv, QueueInv', StripeInv, StripeTypeOK', RowsInv, OrderInv,
         Mirroring, story' = story, queue = "stripe-webhook"
  PROVE  OrderInv'
<1> SUFFICES ASSUME ~disordered'
             PROVE  InOrder'
  BY DEF OrderInv
<1>1. ~disordered
  BY DEF Mirroring, Beside, ReceiveNew, ReceiveAgain, EnqueueFails, FindExpiredTrial,
     EndTrial, EventQueued, EventBegun, EventWent, EventMarked, EventThrew, EventLost, EventDied
<1>2. Orderly
  BY <1>1 DEF OrderInv, Orderly
<1> QED
  BY <1>2, OneAtATimeStep, InTurnStep, LeavesTraceStep, StepsFitStep, LastReflectedStep,
     LinesOnceStep DEF InOrder

\* While the behaviour is about another queue no event comes.
MirrorInv ==
  /\ queue = "stripe-webhook" => RowsInv /\ FaultlessInv /\ OrderInv
  /\ queue # "stripe-webhook" => acked = {} /\ \A e \in Event : stored[e] = "none"

LEMMA MirrorInvInit ==
  ASSUME Init
  PROVE  MirrorInv
<1>1. Event \subseteq Job /\ NoJob \notin Event
  BY JobsInvInit, EventsAreJobs, StripeAssumption, JobQueueAssumption DEF JobsInv, StripeInv, Job
<1>2. /\ acked = {} /\ unadded = {} /\ \A e \in Event : stored[e] = "none"
      /\ \A e \in Event : job[e] = NotAdded
      /\ \A w \in Worker : worker[w] = Idle
  BY <1>1 DEF Init, QueueInit, StripeInit
<1>3. RowsInv
  BY <1>1, <1>2 DEF RowsInv, NotAdded, Idle
<1>4. FaultlessInv
  BY <1>2 DEF FaultlessInv, NotAdded
<1>5. OneAtATime /\ InTurn /\ StepsFit
  BY <1>1, <1>2 DEF OneAtATime, InTurn, StepsFit, Idle
<1>6. LeavesTrace /\ LastReflected
  BY <1>2 DEF LeavesTrace, LastReflected
<1>7. LinesOnce
  BY DEF Init, StripeInit, LinesOnce
<1> QED
  BY <1>2, <1>3, <1>4, <1>5, <1>6, <1>7 DEF MirrorInv, OrderInv, InOrder

LEMMA MirrorInvStep ==
  ASSUME JobsInv, JobsInv', MirrorInv, [Next]_vars
  PROVE  MirrorInv'
<1>1. QueueInv /\ QueueInv' /\ StripeInv /\ StripeTypeOK /\ StripeTypeOK'
  BY DEF JobsInv, StripeInv
<1>2. CASE StripeStep
  <2>1. Mirroring /\ story' = story /\ queue = "stripe-webhook" /\ queue' = queue
    BY <1>1, <1>2, StripeMirrors
  <2>2. RowsInv /\ FaultlessInv /\ OrderInv
    BY <2>1 DEF MirrorInv
  <2>3. RowsInv' /\ FaultlessInv' /\ OrderInv'
    BY <1>1, <2>1, <2>2, RowsInvStep, FaultlessInvStep, OrderInvStep
  <2> QED
    BY <2>1, <2>3 DEF MirrorInv
<1>3. CASE WebhookStep \/ RunQueueStep
  <2>1. queue # "stripe-webhook" /\ UNCHANGED stripeVars
    BY <1>3 DEF WebhookStep, RunQueueStep
  <2>2. QueueStep
    BY <1>3, NextIsQueueStep DEF JobsInv, QueueInv, StripeInv, TypeOK, Next
  <2>3. queue' = queue
    BY <2>2 DEF QueueStep
  <2> QED
    BY <2>1, <2>3 DEF MirrorInv, stripeVars, Event
<1>4. CASE UNCHANGED vars
  BY <1>4 DEF vars, queueVars, stripeVars, MirrorInv, Event, RowsInv, FaultlessInv, OrderInv,
     InOrder, OneAtATime, InTurn, LeavesTrace, StepsFit, LastReflected, LinesOnce, Reflects, Fresh
<1> QED
  BY <1>2, <1>3, <1>4 DEF Next

LEMMA MirrorHolds ==
  ASSUME JobsInv, MirrorInv
  PROVE  MirrorsStripe
<1>1. StripeTypeOK /\ QueueTypeOK /\ StripeInv
  BY DEF JobsInv, QueueInv, StripeInv
<1>2. Len(story) \in Event /\ Event \subseteq Job /\ Event \subseteq Nat /\ NoJob \notin Event
  BY <1>1, EventsAreJobs, StripeAssumption, JobQueueAssumption DEF StripeTypeOK, Event, Job
<1>3. ASSUME acked = Event, Quiescent, faults = 0
      PROVE  AllProcessed
  <2>1. RowsInv /\ FaultlessInv
    BY <1>2, <1>3 DEF MirrorInv
  <2> SUFFICES ASSUME NEW e \in Event
               PROVE  stored[e] = "processed"
    BY DEF AllProcessed
  <2>2. stored[e] # "none" /\ e \notin unadded /\ job[e].state \notin {"waiting", "active"}
    BY <1>3, <2>1 DEF RowsInv, Quiescent
  <2> QED
    BY <1>3, <2>1, <2>2 DEF FaultlessInv
<1>4. ASSUME AllProcessed, ~disordered, \A w \in Worker : worker[w] = Idle
      PROVE  /\ Truth \in DOMAIN Upserts => mirror.status = Upserts[Truth]
             /\ Truth = "deleted" => mirror.status = "CANCELED"
             /\ Truth \in DOMAIN Invoices =>
                  /\ mirror.invoice = Invoices[Truth]
                  /\ mirror.lines <= 1
                  /\ faults = 0 => mirror.lines = 1
             /\ Truth \in DOMAIN Payments => mirror.payment = Payments[Truth]
             /\ Truth = "refunded" => mirror.payment = "REFUNDED"
  <2>1. InOrder
    BY <1>2, <1>4 DEF MirrorInv, AllProcessed, OrderInv
  <2>2. \A f \in Event : ~(f > Len(story))
    BY <1>2 DEF Event
  <2>3. Reflects(Len(story))
    BY <1>2, <1>4, <2>1, <2>2 DEF AllProcessed, InOrder, LastReflected
  <2>4. Truth \in DOMAIN Invoices => mirror.invoice # "none"
    BY <2>3 DEF Reflects, Truth, Invoices
  <2>5. \A w \in Worker : worker[w].at # "lines"
    BY <1>4 DEF Idle
  <2> QED
    BY <2>1, <2>3, <2>4, <2>5 DEF Reflects, Truth, InOrder, LinesOnce
<1> QED
  BY <1>3, <1>4 DEF MirrorsStripe

\* What was answered with 200 is processed unless something failed; and once every event
\* was, in the order in which they happened, the rows say what Stripe last said, whatever
\* was posted twice or redelivered (StripeWebhookController.receive, the dispatcher).
THEOREM MirrorFaithful == Spec => []MirrorsStripe
<1>1. Init => MirrorInv
  BY MirrorInvInit
<1>2. JobsInv /\ JobsInv' /\ MirrorInv /\ [Next]_vars => MirrorInv'
  BY MirrorInvStep
<1>3. JobsInv /\ MirrorInv => MirrorsStripe
  BY MirrorHolds
<1> QED
  BY <1>1, <1>2, <1>3, JobsInvAlways, PTL DEF Spec

=============================================================================
