-------------------------- MODULE MCAgentCoordination --------------------------
(* The coordination of agents, on trees small enough for TLC.               *)
EXTENDS AgentCoordination

\* A deep tree; batches that follow one another, with a run that is resumed.
DeepTree == [depth |-> 2, targets |-> 2, resumes |-> 0, runs |-> 6]
TwoBatches == [depth |-> 1, targets |-> 3, resumes |-> 1, runs |-> 9]

DeepAndBatched == {DeepTree, TwoBatches}
OnePair == {[depth |-> 1, targets |-> 2, resumes |-> 0, runs |-> 4]}
=============================================================================
