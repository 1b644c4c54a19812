-------------------------------- MODULE RunQueue --------------------------------
(***************************************************************************)
(* The queue of workflow runs.                                             *)
(*                                                                         *)
(* A request, or a schedule that fires, creates a run and puts it on the   *)
(* queue under its id and version; a request with the idempotency key of a *)
(* run that is still PENDING puts it there again, which does nothing.  The *)
(* worker that takes the job calls executeRun, whose first read asks for   *)
(* a tenant: a worker has none.  Where there is no queue, the one who      *)
(* creates the run also drives it, in a tenant.                            *)
(***************************************************************************)
EXTENDS JobQueue

VARIABLES
  runStatus,  \* the workflow_runs rows, the n-th for the n-th job
  requesting  \* the runs that some request has created or found

runQueueVars == <<runStatus, requesting>>

RunQueueInit ==
  /\ runStatus = [j \in Job |-> "none"]
  /\ requesting = {}

-----------------------------------------------------------------------------
CreateRun(j) ==
  /\ runStatus[j] = "none"
  /\ runStatus' = [runStatus EXCEPT ![j] = "PENDING"]
  /\ requesting' = requesting \union {j}
  /\ UNCHANGED queueVars

\* The idempotency key is known, and the run was not begun.
FindPendingRun(j) ==
  /\ runStatus[j] = "PENDING"
  /\ requesting' = requesting \union {j}
  /\ UNCHANGED <<queueVars, runStatus>>

EnqueueRun(j) ==
  /\ j \in requesting
  /\ Add(j)
  /\ requesting' = requesting \ {j}
  /\ UNCHANGED <<queue, redis, worker, failedSeen, deadLetter, faults, runStatus>>

\* The queue is out of reach, or the process dies.
EnqueueRunFails(j) ==
  /\ j \in requesting
  /\ Fault
  /\ requesting' = requesting \ {j}
  /\ UNCHANGED <<queue, redis, job, worker, failedSeen, deadLetter, runStatus>>

DeliverRun(w, j) ==
  /\ Take(w, j, "load")
  /\ UNCHANGED <<queue, redis, failedSeen, deadLetter, faults, runQueueVars>>

\* In the tenant of the request the run is loaded, and the engine drives it.
LoadRun(w) ==
  /\ At(w, "load") /\ ~redis
  /\ runStatus' = [runStatus EXCEPT ![worker[w].job] = "DRIVEN"]
  /\ Return(w)
  /\ UNCHANGED <<queue, redis, failedSeen, deadLetter, faults, requesting>>

\* loadVersionForRun asks for the tenant of a worker; or a call fails.
LoadRunThrows(w) ==
  /\ At(w, "load")
  /\ IF redis THEN UNCHANGED faults ELSE Fault
  /\ Throw(w)
  /\ UNCHANGED <<queue, redis, deadLetter, runQueueVars>>

RunQueueNext ==
  \/ \E j \in Job : \/ CreateRun(j) \/ FindPendingRun(j)
                    \/ EnqueueRun(j) \/ EnqueueRunFails(j)
                    \/ \E w \in Worker : DeliverRun(w, j)
  \/ \E w \in Worker : LoadRun(w) \/ LoadRunThrows(w)

\* Workers that live take jobs and go on with them.
RunQueueFairness ==
  /\ \A j \in Job : WF_<<queueVars, runQueueVars>>(\E w \in Worker : DeliverRun(w, j))
  /\ \A w \in Worker : WF_<<queueVars, runQueueVars>>(LoadRun(w) \/ LoadRunThrows(w))

RunQueueTypeOK ==
  /\ runStatus \in [Job -> {"none", "PENDING", "DRIVEN", "FAILED"}]
  /\ requesting \subseteq Job

\* A run whose job has used up its attempts says so itself.
FailedRunSaysSo ==
  \A j \in Job : redis /\ job[j].state = "failed" => runStatus[j] = "FAILED"

=============================================================================
