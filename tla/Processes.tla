------------------------------- MODULE Processes -------------------------------
(***************************************************************************)
(* The processes that serve the platform, all alike, and their clock.      *)
(* Whatever a process does at once, polls that overlap and requests too,   *)
(* counts as a process of its own here.                                    *)
(***************************************************************************)
EXTENDS Naturals, FiniteSets

CONSTANTS
  Process,
  MaxTime  \* bound: the time at which a behaviour ends

ASSUME ProcessAssumption == MaxTime \in Nat /\ IsFiniteSet(Process)

VARIABLE now

Tick ==
  /\ now < MaxTime
  /\ now' = now + 1

=============================================================================
