--------------------------- MODULE WorkflowSchedules ---------------------------
(***************************************************************************)
(* Schedules: workflows that start by themselves.                          *)
(*                                                                         *)
(* Every process polls for delayed schedules that are due, runs the cron   *)
(* jobs it has registered, and fires the schedules of an event it emits.   *)
(* To fire is to start a run; whatever fails on the way is logged.  A cron *)
(* job is registered where its schedule was created and where a process    *)
(* starts, and taken back only where the schedule is disabled.             *)
(***************************************************************************)
EXTENDS Processes

CONSTANTS
  MaxArmed, \* bound: times the schedule is enabled
  MaxFires  \* bound: runs that a process starts

ASSUME ScheduleAssumption == {MaxArmed, MaxFires} \subseteq Nat

VARIABLES
  trigger,    \* the schedule's type
  enabled,    \* its row: whether it is enabled
  due,        \* its row: whether nextRunAt is set
  registered, \* the processes whose cron job it is
  firing,     \* what each process is doing with the schedule
  fires,      \* history: runs each process started
  armed       \* history: times the schedule was enabled with nextRunAt set

scheduleVars == <<trigger, enabled, due, registered, firing, fires, armed>>

\* The schedule was created in some process.
ScheduleInit ==
  /\ trigger \in {"DELAYED", "CRON", "EVENT"}
  /\ enabled = TRUE
  /\ due = (trigger = "DELAYED")
  /\ \E p \in Process : registered = IF trigger = "CRON" THEN {p} ELSE {}
  /\ firing = [p \in Process |-> "no"]
  /\ fires = [p \in Process |-> 0]
  /\ armed = IF due THEN 1 ELSE 0

-----------------------------------------------------------------------------
(* WorkflowSchedulerService.                                                *)

Goes(p, from, to) ==
  /\ firing[p] = from
  /\ firing' = [firing EXCEPT ![p] = to]

\* A delayed schedule is found to be due.
ListDue(p) ==
  /\ trigger = "DELAYED" /\ enabled /\ due
  /\ Goes(p, "no", "disable")
  /\ UNCHANGED <<trigger, enabled, due, registered, fires, armed>>

\* Mutant: the schedule stays enabled.
DisableNothing(p) ==
  /\ Goes(p, "disable", "fire")
  /\ UNCHANGED <<trigger, enabled, due, registered, fires, armed>>

\* Whoever else has found it as well.
DisableDue(p) ==
  /\ Goes(p, "disable", "fire")
  /\ enabled' = FALSE
  /\ UNCHANGED <<trigger, due, registered, fires, armed>>

\* The time of a cron job comes, without a look at the schedule's row; or the
\* enabled schedules of an event are read.
Trigger(p) ==
  /\ \/ trigger = "CRON" /\ p \in registered
     \/ trigger = "EVENT" /\ enabled
  /\ Goes(p, "no", "fire")
  /\ UNCHANGED <<trigger, enabled, due, registered, fires, armed>>

\* runWorkflow, in the name of the workflow's owner.
FireSchedule(p) ==
  /\ fires[p] < MaxFires
  /\ Goes(p, "fire", "mark")
  /\ fires' = [fires EXCEPT ![p] = @ + 1]
  /\ UNCHANGED <<trigger, enabled, due, registered, armed>>

MarkRun(p) ==
  /\ Goes(p, "mark", "no")
  /\ due' = FALSE
  /\ UNCHANGED <<trigger, enabled, registered, fires, armed>>

\* The workflow is not published, its owner is no member any more, or a call fails.
FireFails(p) ==
  /\ firing[p] # "no"
  /\ Goes(p, firing[p], "no")
  /\ UNCHANGED <<trigger, enabled, due, registered, fires, armed>>

\* The process stops and starts: onModuleInit registers what is enabled by then.
Restart(p) ==
  /\ Goes(p, firing[p], "no")
  /\ registered' = IF trigger = "CRON" /\ enabled THEN registered \union {p} ELSE registered \ {p}
  /\ UNCHANGED <<trigger, enabled, due, fires, armed>>

-----------------------------------------------------------------------------
(* WorkflowScheduleService.setEnabled, in the process that has the request. *)

EnableSchedule(p) ==
  /\ armed < MaxArmed
  /\ enabled' = TRUE
  /\ registered' = IF trigger = "CRON" THEN registered \union {p} ELSE registered
  /\ armed' = IF due /\ ~enabled THEN armed + 1 ELSE armed
  /\ UNCHANGED <<trigger, due, firing, fires>>

DisableSchedule(p) ==
  /\ enabled' = FALSE
  /\ registered' = registered \ {p}
  /\ UNCHANGED <<trigger, due, firing, fires, armed>>

ScheduleStep(p) ==
  \/ ListDue(p) \/ DisableDue(p) \/ Trigger(p) \/ FireSchedule(p) \/ MarkRun(p)
  \/ FireFails(p) \/ Restart(p)
  \/ EnableSchedule(p) \/ DisableSchedule(p)

ScheduleNext == \E p \in Process : ScheduleStep(p)

ScheduleSpec == ScheduleInit /\ [][ScheduleNext]_scheduleVars

-----------------------------------------------------------------------------
ScheduleTypeOK ==
  /\ trigger \in {"DELAYED", "CRON", "EVENT"}
  /\ {enabled, due} \subseteq BOOLEAN
  /\ registered \subseteq Process
  /\ firing \in [Process -> {"no", "disable", "fire", "mark"}]
  /\ fires \in [Process -> Nat]
  /\ armed \in Nat

\* A process starts at most one run for each time a delayed schedule was enabled,
\* while its time was still kept: polls that overlap cost one run for each process,
\* and to enable the schedule again before markRun costs another.
FiresAccountedFor ==
  trigger = "DELAYED" => \A p \in Process : fires[p] <= armed

=============================================================================
