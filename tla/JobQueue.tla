-------------------------------- MODULE JobQueue --------------------------------
(***************************************************************************)
(* The background jobs: BullMQ queues as the code uses them, and the       *)
(* listener that keeps a record of the jobs that used up their attempts.   *)
(*                                                                         *)
(* A job is put on its queue once, under an id made of what it is about:   *)
(* adding it again does nothing.  A worker that takes it holds its lock.   *)
(* A job that throws goes back until its attempts are used up; one whose   *)
(* lock has expired goes back too, its worker being dead or merely slow,   *)
(* which counts as no attempt.  Without Redis there is no queue: the       *)
(* producer does the work at once, and once.                               *)
(***************************************************************************)
EXTENDS Naturals, FiniteSets

CONSTANTS
  Jobs,        \* how many jobs there are: each stands for the row it is about
  Worker,      \* the processes that work on jobs
  NoJob,       \* what an idle worker works on
  Nobody,      \* who holds the lock of a job that is not locked
  Queues,      \* the queues that are looked at
  MaxAttempts, \* opts.attempts, where there is a queue
  MaxStalled,  \* how many times a job may lose its lock: BullMQ's maxStalledCount
  MaxFaults    \* bound: processes that die or are slow, calls that fail

Monitored == {"agent-task", "attachment-process", "ai-process", "workflow-run", "stripe-webhook"}

ASSUME JobQueueAssumption ==
  /\ {Jobs, MaxAttempts} \subseteq Nat \ {0}
  /\ {MaxStalled, MaxFaults} \subseteq Nat
  /\ NoJob \notin 1..Jobs
  /\ Nobody \notin Worker /\ IsFiniteSet(Worker)
  /\ Queues \subseteq Monitored \union {"webhook-delivery"}

VARIABLES
  queue,      \* the queue this behaviour is about: queues share only processes
  redis,      \* whether there is one
  job,        \* its jobs
  worker,     \* what each worker works on, and the step it is at
  failedSeen, \* the failures of each job that each process has yet to look at
  deadLetter, \* the BackgroundJobFailure rows of each job
  faults      \* faults so far

queueVars == <<queue, redis, job, worker, failedSeen, deadLetter, faults>>

Job == 1..Jobs

JobState == [state : {"none", "waiting", "active", "done", "failed"},
             by : Worker \union {Nobody}, made : 0..MaxAttempts, stalled : 0..MaxStalled]

NotAdded == [state |-> "none", by |-> Nobody, made |-> 0, stalled |-> 0]

Idle == [job |-> NoJob, at |-> "idle", attempt |-> 0]

QueueInit ==
  /\ queue \in Queues
  /\ redis \in BOOLEAN
  /\ job = [j \in Job |-> NotAdded]
  /\ worker = [w \in Worker |-> Idle]
  /\ failedSeen = [j \in Job |-> [w \in Worker |-> 0]]
  /\ deadLetter = [j \in Job |-> 0]
  /\ faults = 0

-----------------------------------------------------------------------------
(* What the actions of the queues' producers and processors are made of.    *)

Attempts == IF redis THEN MaxAttempts ELSE 1

At(w, step) == worker[w].at = step

Goto(w, step) == worker' = [worker EXCEPT ![w].at = step]

Holds(w, j) == job[j].state = "active" /\ job[j].by = w

\* The worker that took the job does not work on it any more.
Orphaned(j) == \E w \in Worker : Holds(w, j) /\ worker[w].job # j

Fault ==
  /\ faults < MaxFaults
  /\ faults' = faults + 1

Add(j) == job' = IF job[j] = NotAdded THEN [job EXCEPT ![j].state = "waiting"] ELSE job

\* Which attempt it is was read with the job: attemptsMade + 1.
IsFinalAttempt(w) == worker[w].attempt >= Attempts

\* A worker takes a job and begins with the given step of its processor.
Take(w, j, step) ==
  /\ worker[w] = Idle
  /\ job[j].state = "waiting"
  /\ job' = [job EXCEPT ![j].state = "active", ![j].by = w]
  /\ worker' = [worker EXCEPT ![w] = [job |-> j, at |-> step, attempt |-> job[j].made + 1]]

\* process() returns: the job is done if the worker still holds its lock.
Return(w) == LET j == worker[w].job IN
  /\ job' = IF Holds(w, j) THEN [job EXCEPT ![j].state = "done", ![j].by = Nobody] ELSE job
  /\ worker' = [worker EXCEPT ![w] = Idle]

\* Every process that listens to the queue is told that the job has failed.
TellFailed(j) ==
  failedSeen' = IF redis /\ queue \in Monitored
                  THEN [failedSeen EXCEPT ![j] = [w \in Worker |-> failedSeen[j][w] + 1]]
                  ELSE failedSeen

\* process() throws: another attempt follows, or the job is given up.
Throw(w) == LET j == worker[w].job IN
  /\ IF Holds(w, j)
       THEN /\ job' = [job EXCEPT ![j].made = @ + 1, ![j].by = Nobody,
                         ![j].state = IF IsFinalAttempt(w) THEN "failed" ELSE "waiting"]
            /\ TellFailed(j)
       ELSE UNCHANGED <<job, failedSeen>>
  /\ worker' = [worker EXCEPT ![w] = Idle]

-----------------------------------------------------------------------------
(* What happens to any queue.                                               *)

\* The lock of a job expires: it goes back, but not for ever.  Whether giving
\* it up counts as an attempt depends on the version of the library.
LoseLock(j) ==
  /\ redis
  /\ job[j].state = "active"
  /\ \/ /\ job[j].stalled < MaxStalled
        /\ job' = [job EXCEPT ![j].state = "waiting", ![j].by = Nobody,
                                ![j].stalled = @ + 1]
        /\ UNCHANGED failedSeen
     \/ /\ job[j].stalled = MaxStalled
        /\ \E counted \in 0..1 : job' =
             [job EXCEPT ![j].state = "failed", ![j].by = Nobody, ![j].made = @ + counted]
        /\ TellFailed(j)
  /\ UNCHANGED <<queue, redis, worker, deadLetter>>

\* The worker is dead, or it lives and is too slow.
Stall(j) == Orphaned(j) /\ LoseLock(j) /\ UNCHANGED faults

StallAlive(j) == ~Orphaned(j) /\ LoseLock(j) /\ Fault

\* A process dies: the lock of its job stays, and what it was told is lost.
Die(w) ==
  /\ Fault
  /\ worker[w] # Idle \/ \E j \in Job : failedSeen[j][w] > 0
  /\ worker' = [worker EXCEPT ![w] = Idle]
  /\ failedSeen' = [j \in Job |-> [failedSeen[j] EXCEPT ![w] = 0]]
  /\ UNCHANGED <<queue, redis, job, deadLetter>>

\* Mutant: every failure goes on record.
HandleEveryFailure(w, j) ==
  /\ failedSeen[j][w] > 0
  /\ failedSeen' = [failedSeen EXCEPT ![j][w] = @ - 1]
  /\ deadLetter' = [deadLetter EXCEPT ![j] = @ + 1]
  /\ UNCHANGED <<queue, redis, job, worker, faults>>

\* Mutant: off by one, none ever does.
HandleNoFailure(w, j) ==
  /\ failedSeen[j][w] > 0
  /\ failedSeen' = [failedSeen EXCEPT ![j][w] = @ - 1]
  /\ deadLetter' = [deadLetter EXCEPT ![j] = @ + IF job[j].made > Attempts THEN 1 ELSE 0]
  /\ UNCHANGED <<queue, redis, job, worker, faults>>

\* DeadLetterListenerService.handleFailed looks at the job as it is by then.
HandleFailed(w, j) ==
  /\ failedSeen[j][w] > 0
  /\ failedSeen' = [failedSeen EXCEPT ![j][w] = @ - 1]
  /\ IF job[j].made < Attempts
       THEN UNCHANGED <<deadLetter, faults>>
       ELSE \/ deadLetter' = [deadLetter EXCEPT ![j] = @ + 1] /\ UNCHANGED faults
            \/ Fault /\ UNCHANGED deadLetter
  /\ UNCHANGED <<queue, redis, job, worker>>

QueueNext ==
  \/ \E j \in Job : Stall(j) \/ StallAlive(j) \/ \E w \in Worker : HandleFailed(w, j)
  \/ \E w \in Worker : Die(w)

\* The stalled check finds the jobs of dead workers; a listener does its work.
QueueFairness ==
  /\ \A j \in Job : WF_queueVars(Stall(j))
  /\ \A j \in Job, w \in Worker : WF_queueVars(HandleFailed(w, j))

-----------------------------------------------------------------------------
\* Where the processors of the queues may be with a job.
Step == {"find", "endpoint", "post", "accepted", "rejected", "refuse",
         "look", "create", "update", "lines", "mark", "load"}

QueueTypeOK ==
  /\ queue \in Queues
  /\ redis \in BOOLEAN
  /\ job \in [Job -> JobState]
  /\ \A j \in Job : (job[j].state = "active") <=> (job[j].by # Nobody)
  /\ worker \in [Worker -> [job : Job \union {NoJob}, at : Step \union {"idle"},
                           attempt : 0..MaxAttempts]]
  /\ \A w \in Worker : (worker[w].job = NoJob) <=> (worker[w].at = "idle")
  /\ failedSeen \in [Job -> [Worker -> Nat]]
  /\ deadLetter \in [Job -> Nat]
  /\ faults \in 0..MaxFaults

\* What is on record is a job that has used up its attempts, whatever is delivered
\* late; each process that listens adds a row for each failure it was told of.
DeadLettersAccountedFor ==
  \A j \in Job : deadLetter[j] > 0 =>
    /\ job[j].state = "failed" /\ job[j].made = MaxAttempts
    /\ deadLetter[j] <= MaxAttempts * Cardinality(Worker)

\* A job of a monitored queue that has used up its attempts gets on record,
\* unless a process dies or a call fails.
ExhaustedIsRecorded ==
  \A j \in Job :
    (redis /\ queue \in Monitored /\ job[j].made = MaxAttempts)
      ~> (deadLetter[j] > 0 \/ faults > 0)

=============================================================================
