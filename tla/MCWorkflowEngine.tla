--------------------------- MODULE MCWorkflowEngine ---------------------------
(* Definitions of workflows and deployments small enough for TLC.           *)
EXTENDS WorkflowEngine, TLC

CONSTANTS a, b, c, d1, d2, p1

\* a -> b
Pair == [s \in {a, b} |-> IF s = b THEN {a} ELSE {}]

\* a -> b -> c
Chain == [s \in {a, b, c} |-> IF s = b THEN {a} ELSE IF s = c THEN {b} ELSE {}]

\* b and c, after a
Branch == [s \in {a, b, c} |-> IF s = a THEN {} ELSE {a}]

\* a and b, then c
Join == [s \in {a, b, c} |-> IF s = c THEN {a, b} ELSE {}]

\* a and b, independent
Fork == [s \in {a, b} |-> {}]

\* Drivers of one process are interchangeable.
DriverSymmetry == Permutations(Driver)

OneProcess == [d \in Driver |-> p1]
=============================================================================
