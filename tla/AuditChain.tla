------------------------------- MODULE AuditChain -------------------------------
(***************************************************************************)
(* The audit log of one organization, and the chain its rows make.         *)
(*                                                                         *)
(* A row names the row before it, which is the latest by time and id when  *)
(* the row is written, under a lock that only one writer of the            *)
(* organization has.  The time is the writer's own; the id is random.      *)
(***************************************************************************)
EXTENDS Processes

CONSTANTS
  LogId,  \* the ids of rows: numbers, as they are compared
  MaxSkew \* bound: by how much the clock of a process may be ahead

ASSUME AuditAssumption == LogId \subseteq Nat \ {0} /\ MaxSkew \in Nat

VARIABLES
  log,     \* the audit_logs rows, and the number of rows when each was written
  skew,    \* by how much the clock of each process is ahead
  writing  \* what each process that has the lock took for the latest row: its id

auditVars == <<now, log, skew, writing>>

Root == 0

NotWriting == [locked |-> FALSE, previous |-> Root]

AuditInit ==
  /\ now = 0
  /\ log = {}
  /\ skew \in [Process -> 0..MaxSkew]
  /\ writing = [p \in Process |-> NotWriting]

-----------------------------------------------------------------------------
\* The order of findFirst and of verifyChain.
Before(a, b) == a.time < b.time \/ (a.time = b.time /\ a.id < b.id)

\* The id of the row that comes last among some rows.
Latest(rows) ==
  IF rows = {} THEN Root ELSE (CHOOSE a \in rows : \A b \in rows \ {a} : Before(b, a)).id

\* Mutant: no lock.
ReadUnlocked(p) ==
  /\ ~writing[p].locked
  /\ writing' = [writing EXCEPT ![p] = [locked |-> TRUE, previous |-> Latest(log)]]
  /\ UNCHANGED <<now, log, skew>>

\* The advisory lock is taken and the latest row read.
LockAndRead(p) ==
  /\ \A q \in Process : ~writing[q].locked
  /\ writing' = [writing EXCEPT ![p] = [locked |-> TRUE, previous |-> Latest(log)]]
  /\ UNCHANGED <<now, log, skew>>

\* The row is written and the transaction committed, which frees the lock.
Link(p, id) ==
  /\ writing[p].locked
  /\ \A a \in log : a.id # id
  /\ log' = log \union {[id |-> id, time |-> now + skew[p], previous |-> writing[p].previous,
                         nth |-> Cardinality(log)]}
  /\ writing' = [writing EXCEPT ![p] = NotWriting]
  /\ UNCHANGED <<now, skew>>

\* The transaction fails, or takes too long.
RollBack(p) ==
  /\ writing[p].locked
  /\ writing' = [writing EXCEPT ![p] = NotWriting]
  /\ UNCHANGED <<now, log, skew>>

AuditNext ==
  \/ Tick /\ UNCHANGED <<log, skew, writing>>
  \/ \E p \in Process : \/ LockAndRead(p) \/ RollBack(p)
                        \/ \E id \in LogId : Link(p, id)

AuditSpec == AuditInit /\ [][AuditNext]_auditVars

AuditTypeOK ==
  /\ now \in 0..MaxTime
  /\ log \subseteq [id : LogId, time : Nat, previous : LogId \union {Root}, nth : Nat]
  /\ skew \in [Process -> 0..MaxSkew]
  /\ writing \in [Process -> [locked : BOOLEAN, previous : LogId \union {Root}]]

-----------------------------------------------------------------------------
\* verifyChain: each row, in order, names the one before.
ChainVerifies(rows) == \A a \in rows : a.previous = Latest({b \in rows : Before(b, a)})

\* The times of the rows tell in which order they were written.
TimesTell == \A a, b \in log : a.nth < b.nth => a.time < b.time

\* The chain verifies after every write, as long as no two rows were written in
\* the same millisecond or by clocks that disagree; the lock alone does not make it so.
ChainIsLinear == TimesTell => ChainVerifies(log)

=============================================================================
