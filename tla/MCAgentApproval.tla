---------------------------- MODULE MCAgentApproval ----------------------------
(* Sets of approvals, tools and executors small enough for TLC.             *)
EXTENDS AgentApproval, TLC

CONSTANTS n1, n2, n3, t1, t2, e1, e2, e3

Workers == Permutations(Executor \ {Starter})
=============================================================================
