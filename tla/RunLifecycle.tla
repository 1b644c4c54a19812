----------------------------- MODULE RunLifecycle -----------------------------
(***************************************************************************)
(* What a workflow run promises to whoever looks at its row, without       *)
(* drivers, versions, copies or step generators: a status, the steps that  *)
(* are done, those of them that succeeded, and the outputs gathered and    *)
(* lost.                                                                   *)
(*                                                                         *)
(* WorkflowEngine implements it while one driver at a time drives the run. *)
(***************************************************************************)
CONSTANTS
  Step,
  DependsOn,
  MayCrash,  \* whether a process may die
  MayFail    \* whether the calls that record a success may fail

VARIABLES status, done, succeeded, outputs, lost

vars == <<status, done, succeeded, outputs, lost>>

Init ==
  /\ status = "PENDING"
  /\ done = {}
  /\ succeeded = {}
  /\ outputs = {}
  /\ lost = {}

To(from, to) ==
  /\ status \in from
  /\ status' = to
  /\ UNCHANGED <<done, succeeded, outputs, lost>>

Start    == To({"PENDING", "PAUSED", "WAITING_APPROVAL"}, "RUNNING")
Pause    == To({"RUNNING"}, "PAUSED")
Park     == To({"RUNNING", "FAILED"}, "WAITING_APPROVAL")

\* From anywhere: an abort may reach a driver that goes over a run that had ended,
\* a later attempt's or one whose idempotency key was used again.
Cancel   == To({"PENDING", "RUNNING", "PAUSED", "WAITING_APPROVAL", "FAILED", "SUCCEEDED"},
               "CANCELLED")

Retry    == To({"FAILED"}, "PAUSED")

\* A failure found while a pause or a cancellation landed still ends the run.
Fail     == To({"RUNNING", "PAUSED", "CANCELLED"}, "FAILED")

\* A failed run may be driven again and then succeed.
Complete ==
  /\ done = Step
  /\ outputs = succeeded \ lost
  /\ To({"RUNNING", "FAILED"}, "SUCCEEDED")

\* Steps are done, by skipping, by succeeding or by being aborted, never before
\* what they depend on, each once; those in flight may end after the run was stopped.
Finish(steps, ran) ==
  /\ status \notin {"PENDING", "SUCCEEDED"}
  /\ steps \intersect done = {}
  /\ \A s \in steps : DependsOn[s] \subseteq done
  /\ done' = done \union steps
  /\ succeeded' = succeeded \union ran
  /\ UNCHANGED <<status, outputs, lost>>

\* Each output is gathered once...
Gather(s) ==
  /\ s \in succeeded \ (outputs \union lost)
  /\ status \notin {"PENDING", "SUCCEEDED"}
  /\ outputs' = outputs \union {s}
  /\ UNCHANGED <<status, done, succeeded, lost>>

\* ...or made again, when the step is taken back because its success could not be
\* recorded, whatever became of the run meanwhile...
TakeBack(s) ==
  /\ MayFail
  /\ s \in succeeded \ (outputs \union lost)
  /\ status \notin {"PENDING", "SUCCEEDED"}
  /\ done' = done \ {s}
  /\ succeeded' = succeeded \ {s}
  /\ UNCHANGED <<status, outputs, lost>>

\* ...or lost once, in a crash or because the run was cancelled: two writers came
\* between the driver and the row, and of those the second can only cancel.
Lose(steps) ==
  /\ MayCrash \/ status = "CANCELLED"
  /\ status \notin {"PENDING", "SUCCEEDED"}
  /\ steps \subseteq succeeded \ (outputs \union lost)
  /\ lost' = lost \union steps
  /\ UNCHANGED <<status, done, succeeded, outputs>>

Next ==
  \/ Start \/ Pause \/ Park \/ Cancel \/ Retry \/ Fail \/ Complete
  \/ \E steps \in SUBSET Step : Finish(steps, {}) \/ Lose(steps)
  \/ \E s \in Step : Finish({s}, {s}) \/ Gather(s) \/ TakeBack(s)

Spec == Init /\ [][Next]_vars

=============================================================================
