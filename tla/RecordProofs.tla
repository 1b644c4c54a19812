------------------------------ MODULE RecordProofs ------------------------------
(***************************************************************************)
(* What holds of the rows that processes share without a queue, for any    *)
(* number of processes, rows, happenings and messages, and however polls,  *)
(* requests, failures and restarts interleave: delayed schedules, the      *)
(* audit chain, the ingestion of a document, the events of a connection,   *)
(* the messages of a conversation; and then all of them side by side.      *)
(***************************************************************************)
EXTENDS MCRecords, CredentialsProofs, FiniteSetTheorems, TLAPS

-----------------------------------------------------------------------------
(* Schedules: types.                                                        *)

\* The state of a schedule is well typed, for every process that serves it.
THEOREM ScheduleTypeCorrect == ScheduleSpec => []ScheduleTypeOK
<1>1. ScheduleInit => ScheduleTypeOK
  BY DEF ScheduleInit, ScheduleTypeOK
<1>2. ScheduleTypeOK /\ [ScheduleNext]_scheduleVars => ScheduleTypeOK'
  <2> SUFFICES ASSUME ScheduleTypeOK, [ScheduleNext]_scheduleVars
               PROVE  ScheduleTypeOK'
    OBVIOUS
  <2> USE DEF ScheduleTypeOK, Goes
  <2>1. ASSUME NEW p \in Process, ListDue(p)
        PROVE  ScheduleTypeOK'
    BY <2>1 DEF ListDue
  <2>2. ASSUME NEW p \in Process, DisableDue(p)
        PROVE  ScheduleTypeOK'
    BY <2>2 DEF DisableDue
  <2>3. ASSUME NEW p \in Process, Trigger(p)
        PROVE  ScheduleTypeOK'
    BY <2>3 DEF Trigger
  <2>4. ASSUME NEW p \in Process, FireSchedule(p)
        PROVE  ScheduleTypeOK'
    BY <2>4 DEF FireSchedule
  <2>5. ASSUME NEW p \in Process, MarkRun(p)
        PROVE  ScheduleTypeOK'
    BY <2>5 DEF MarkRun
  <2>6. ASSUME NEW p \in Process, FireFails(p)
        PROVE  ScheduleTypeOK'
    BY <2>6 DEF FireFails
  <2>7. ASSUME NEW p \in Process, Restart(p)
        PROVE  ScheduleTypeOK'
    BY <2>7 DEF Restart
  <2>8. ASSUME NEW p \in Process, EnableSchedule(p)
        PROVE  ScheduleTypeOK'
    BY <2>8 DEF EnableSchedule
  <2>9. ASSUME NEW p \in Process, DisableSchedule(p)
        PROVE  ScheduleTypeOK'
    BY <2>9 DEF DisableSchedule
  <2>10. CASE UNCHANGED scheduleVars
    BY <2>10 DEF scheduleVars
  <2> QED
    BY <2>1, <2>2, <2>3, <2>4, <2>5, <2>6, <2>7, <2>8, <2>9, <2>10 DEF ScheduleNext, ScheduleStep
<1> QED
  BY <1>1, <1>2, PTL DEF ScheduleSpec

-----------------------------------------------------------------------------
(* Delayed schedules.  What is inductive is FiresLeft: a process that has   *)
(* found the schedule due, or could find it so, has not started all the     *)
(* runs it may.                                                             *)

\* With it, what makes it inductive: a process that has found the schedule due, or
\* could find it so, has not started all the runs it may.
FiresLeft ==
  trigger = "DELAYED" => \A p \in Process :
    /\ fires[p] <= armed
    /\ firing[p] \in {"disable", "fire"} => fires[p] < armed
    /\ enabled /\ due /\ firing[p] # "fire" => fires[p] < armed
    /\ enabled /\ due /\ firing[p] = "fire" => fires[p] + 1 < armed

\* Whatever a process does with a delayed schedule, it keeps the runs that each may
\* still start.
LEMMA StepKeepsFiresLeft ==
  ASSUME ScheduleTypeOK, FiresLeft, NEW p \in Process, ScheduleStep(p)
  PROVE  FiresLeft'
<1> SUFFICES ASSUME trigger' = "DELAYED", NEW q \in Process
             PROVE  /\ fires'[q] <= armed'
                    /\ firing'[q] \in {"disable", "fire"} => fires'[q] < armed'
                    /\ enabled' /\ due' /\ firing'[q] # "fire" => fires'[q] < armed'
                    /\ enabled' /\ due' /\ firing'[q] = "fire" => fires'[q] + 1 < armed'
  BY DEF FiresLeft
<1>1. trigger = "DELAYED"
  BY DEF ScheduleStep, ListDue, DisableDue, Trigger, FireSchedule, MarkRun, FireFails, Restart,
         EnableSchedule, DisableSchedule
<1>2. /\ fires[q] <= armed
      /\ firing[q] \in {"disable", "fire"} => fires[q] < armed
      /\ enabled /\ due /\ firing[q] # "fire" => fires[q] < armed
      /\ enabled /\ due /\ firing[q] = "fire" => fires[q] + 1 < armed
  BY <1>1 DEF FiresLeft
<1> USE <1>1, <1>2 DEF ScheduleTypeOK, Goes
\* Who finds the schedule due could have started a run before.
<1>3. CASE ListDue(p)
  BY <1>3 DEF ListDue
\* Nobody finds it due any more.
<1>4. CASE DisableDue(p)
  BY <1>4 DEF DisableDue
<1>5. CASE Trigger(p)
  BY <1>5 DEF Trigger
\* The run that is started is one that was left.
<1>6. CASE FireSchedule(p)
  BY <1>6 DEF FireSchedule
<1>7. CASE MarkRun(p)
  BY <1>7 DEF MarkRun
<1>8. CASE FireFails(p)
  BY <1>8 DEF FireFails
<1>9. CASE Restart(p)
  BY <1>9 DEF Restart
\* To enable it again leaves everybody one more run.
<1>10. CASE EnableSchedule(p)
  BY <1>10 DEF EnableSchedule
<1>11. CASE DisableSchedule(p)
  BY <1>11 DEF DisableSchedule
<1> QED
  BY <1>3, <1>4, <1>5, <1>6, <1>7, <1>8, <1>9, <1>10, <1>11 DEF ScheduleStep

\* A process starts at most one run for each time a delayed schedule was enabled
\* while its time was still kept.
THEOREM FiresBounded == ScheduleSpec => []FiresAccountedFor
<1>1. ScheduleInit => FiresLeft
  BY DEF ScheduleInit, FiresLeft
<1>2. ScheduleTypeOK /\ FiresLeft /\ [ScheduleNext]_scheduleVars => FiresLeft'
  <2> SUFFICES ASSUME ScheduleTypeOK, FiresLeft, [ScheduleNext]_scheduleVars
               PROVE  FiresLeft'
    OBVIOUS
  <2>1. CASE ScheduleNext
    BY <2>1, StepKeepsFiresLeft DEF ScheduleNext
  <2>2. CASE UNCHANGED scheduleVars
    BY <2>2 DEF scheduleVars, FiresLeft
  <2> QED
    BY <2>1, <2>2
<1>3. FiresLeft => FiresAccountedFor
  BY DEF FiresLeft, FiresAccountedFor
<1> QED
  BY <1>1, <1>2, <1>3, ScheduleTypeCorrect, PTL DEF ScheduleSpec

-----------------------------------------------------------------------------
(* The chain of the audit log.  The lock makes what its holder has read the *)
(* latest row until it writes.  If the times of the rows tell their order,  *)
(* then a new row comes after all others, so that nothing changes for them  *)
(* and it names the last.                                                   *)

\* As much of AuditTypeOK as the chain needs.
AuditTyped ==
  /\ now \in Nat
  /\ skew \in [Process -> Nat]
  /\ writing = [p \in Process |-> writing[p]]
  /\ \A a \in log : {a.time, a.id, a.nth} \subseteq Nat

\* Rows are numbered in the order in which they were written.
Numbered == IsFiniteSet(log) /\ \A a \in log : a.nth < Cardinality(log)

\* One process at a time has the lock, and knows the latest row.
LockHeld ==
  \A p \in Process : writing[p].locked =>
    /\ writing[p].previous = Latest(log)
    /\ \A q \in Process : writing[q].locked => q = p

AuditInv == AuditTyped /\ Numbered /\ LockHeld /\ ChainIsLinear

-----------------------------------------------------------------------------
\* In an empty log there is nothing to verify.
LEMMA AuditInvInit == AuditInit => AuditInv
<1> SUFFICES ASSUME AuditInit
             PROVE  AuditInv
  OBVIOUS
<1> USE AuditAssumption DEF AuditInit
<1>1. AuditTyped
  BY DEF AuditTyped
<1>2. Numbered
  BY FS_EmptySet DEF Numbered
<1>3. LockHeld
  BY DEF LockHeld, NotWriting
<1>4. ChainIsLinear
  BY DEF ChainIsLinear, ChainVerifies
<1> QED
  BY <1>1, <1>2, <1>3, <1>4 DEF AuditInv

\* The row that the holder of the lock writes verifies, and disturbs no other.
LEMMA LinkKeepsInv ==
  ASSUME AuditInv, NEW p \in Process, NEW id \in LogId, Link(p, id)
  PROVE  AuditInv'
<1> DEFINE row == [id |-> id, time |-> now + skew[p], previous |-> writing[p].previous,
                   nth |-> Cardinality(log)]
<1> USE AuditAssumption DEF AuditInv
<1>1. log' = log \union {row} /\ UNCHANGED <<now, skew>>
  BY DEF Link
<1>2. IsFiniteSet(log) /\ Cardinality(log) \in Nat
  BY FS_CardinalityType DEF Numbered
<1>3. row \notin log /\ \A a \in log : a.nth < row.nth
  BY <1>2 DEF Numbered, AuditTyped
<1>4. {row.time, row.id, row.nth} \subseteq Nat
  BY <1>2 DEF AuditTyped
<1>5. AuditTyped'
  BY <1>1, <1>4 DEF AuditTyped, Link
<1>6. Numbered'
  <2>1. IsFiniteSet(log') /\ Cardinality(log') = Cardinality(log) + 1
    BY <1>1, <1>2, <1>3, FS_AddElement
  <2>2. \A a \in log : a.nth < Cardinality(log) + 1
    BY <1>2 DEF Numbered, AuditTyped
  <2>3. row.nth < Cardinality(log) + 1
    BY <1>2
  <2> HIDE DEF row
  <2> QED
    BY <1>1, <2>1, <2>2, <2>3 DEF Numbered
<1>7. LockHeld'
  <2> SUFFICES ASSUME NEW q \in Process
               PROVE  ~writing'[q].locked
    BY DEF LockHeld
  <2>1. writing[q].locked => q = p
    BY DEF Link, LockHeld
  <2> QED
    BY <2>1 DEF Link, AuditTyped, NotWriting
<1>8. ChainIsLinear'
  <2> SUFFICES ASSUME TimesTell'
               PROVE  ChainVerifies(log)'
    BY DEF ChainIsLinear
  <2>1. \A a \in log : a.time < row.time
    BY <1>1, <1>3 DEF TimesTell
  <2>2. ChainVerifies(log)
    BY <1>1 DEF ChainIsLinear, TimesTell
  <2>3. \A a \in log : Before(a, row) /\ ~Before(row, a)
    BY <1>4, <2>1 DEF Before, AuditTyped
  <2>4. ~Before(row, row)
    BY <1>4 DEF Before
  <2> SUFFICES ASSUME NEW a \in log'
               PROVE  a.previous = Latest({b \in log' : Before(b, a)})
    BY DEF ChainVerifies, Latest, Before
  <2>5. CASE a = row
    <3>1. {b \in log' : Before(b, a)} = log
      BY <1>1, <2>3, <2>4, <2>5
    <3>2. row.previous = Latest(log)
      BY DEF Link, LockHeld
    <3> QED
      BY <2>5, <3>1, <3>2
  <2>6. CASE a \in log
    <3>1. {b \in log' : Before(b, a)} = {b \in log : Before(b, a)}
      BY <1>1, <2>3, <2>6
    <3> QED
      BY <2>2, <2>6, <3>1 DEF ChainVerifies
  <2> QED
    BY <1>1, <2>5, <2>6
<1> QED
  BY <1>5, <1>6, <1>7, <1>8

\* Every other step leaves the log alone.
LEMMA AuditInvNext == AuditInv /\ [AuditNext]_auditVars => AuditInv'
<1> SUFFICES ASSUME AuditInv, [AuditNext]_auditVars
             PROVE  AuditInv'
  OBVIOUS
<1>1. ASSUME UNCHANGED log, AuditTyped', LockHeld'
      PROVE  AuditInv'
  <2>1. Numbered'
    BY <1>1 DEF AuditInv, Numbered
  <2>2. ChainIsLinear'
    BY <1>1 DEF AuditInv, ChainIsLinear, TimesTell, ChainVerifies, Latest, Before
  <2> QED
    BY <1>1, <2>1, <2>2 DEF AuditInv
<1> USE DEF AuditInv, AuditTyped, LockHeld
<1>2. ASSUME Tick, UNCHANGED <<log, skew, writing>>
      PROVE  AuditInv'
  BY <1>1, <1>2 DEF Tick, Latest, Before
<1>3. ASSUME NEW p \in Process, LockAndRead(p)
      PROVE  AuditInv'
  <2>1. writing' = [writing EXCEPT ![p] = [locked |-> TRUE, previous |-> Latest(log)]]
        /\ UNCHANGED <<now, log, skew>>
    BY <1>3 DEF LockAndRead
  <2>2. Latest(log)' = Latest(log)
    BY <2>1 DEF Latest, Before
  <2>3. AuditTyped'
    BY <2>1
  <2>4. \A q \in Process : writing'[q].locked => q = p /\ writing'[q].previous = Latest(log)
    BY <1>3, <2>1 DEF LockAndRead
  <2>5. LockHeld'
    BY <2>2, <2>4
  <2> QED
    BY <1>1, <2>1, <2>3, <2>5
<1>4. ASSUME NEW p \in Process, RollBack(p)
      PROVE  AuditInv'
  BY <1>1, <1>4 DEF RollBack, NotWriting, Latest, Before
<1>5. CASE UNCHANGED auditVars
  BY <1>1, <1>5 DEF auditVars, Latest, Before
<1> QED
  BY <1>2, <1>3, <1>4, <1>5, LinkKeepsInv DEF AuditNext

-----------------------------------------------------------------------------
\* The chain verifies as long as the times of its rows tell in which order they were
\* written, whatever the transactions, the failures and the ids.
THEOREM ChainHolds == AuditSpec => []ChainIsLinear
<1>1. AuditInv => ChainIsLinear
  BY DEF AuditInv
<1> QED
  BY <1>1, AuditInvInit, AuditInvNext, PTL DEF AuditSpec

\* The last row, which a process that takes the lock reads: each row is before it.
HasLast == log = {} \/ \E a \in log : \A b \in log \ {a} : Before(b, a)

\* Its id is an id.
LEMMA LatestTyped ==
  ASSUME AuditTypeOK, HasLast
  PROVE  Latest(log) \in LogId \union {Root}
<1> DEFINE Last(a) == \A b \in log \ {a} : Before(b, a)
<1>1. CASE log = {}
  BY <1>1 DEF Latest
<1>2. CASE log # {}
  <2>1. \E a \in log : Last(a)
    BY <1>2 DEF HasLast
  <2>2. (CHOOSE a \in log : Last(a)) \in log
    <3> HIDE DEF Last
    <3> QED
      BY <2>1
  <2>3. Latest(log) = (CHOOSE a \in log : Last(a)).id
    BY <1>2 DEF Latest
  <2>4. \A a \in log : a.id \in LogId
    BY DEF AuditTypeOK
  <2> HIDE DEF Last
  <2> QED
    BY <2>2, <2>3, <2>4
<1> QED
  BY <1>1, <1>2

\* A row is last of all, or before the one that was.
LEMMA LinkKeepsLast ==
  ASSUME AuditTypeOK, HasLast, NEW p \in Process, NEW id \in LogId, Link(p, id)
  PROVE  HasLast'
<1> DEFINE row == [id |-> id, time |-> now + skew[p], previous |-> writing[p].previous,
                   nth |-> Cardinality(log)]
<1>1. log' = log \union {row} /\ \A a \in log : a.id # id
  BY DEF Link
<1>2. row.time \in Nat /\ row.id = id /\ id \in Nat
  BY AuditAssumption, ProcessAssumption DEF AuditTypeOK
<1>3. \A a \in log : a.time \in Nat /\ a.id \in Nat
  BY AuditAssumption DEF AuditTypeOK
<1> HIDE DEF row
<1>4. CASE log = {}
  BY <1>1, <1>4 DEF HasLast
<1>5. ASSUME NEW l \in log, \A b \in log \ {l} : Before(b, l)
      PROVE  HasLast'
  <2>1. CASE Before(l, row)
    <3>1. \A b \in log : Before(b, row)
      BY <1>2, <1>3, <1>5, <2>1 DEF Before
    <3> QED
      BY <1>1, <3>1 DEF HasLast, Before
  <2>2. CASE ~Before(l, row)
    <3>1. Before(row, l)
      BY <1>1, <1>2, <1>3, <2>2 DEF Before
    <3> QED
      BY <1>1, <1>5, <3>1 DEF HasLast, Before
  <2> QED
    BY <2>1, <2>2
<1> QED
  BY <1>4, <1>5 DEF HasLast

\* The rows of the audit log and the transactions that write them are well typed.
THEOREM AuditTypeCorrect == AuditSpec => []AuditTypeOK
<1>1. AuditInit => AuditTypeOK /\ HasLast
  BY AuditAssumption, ProcessAssumption DEF AuditInit, AuditTypeOK, HasLast, NotWriting, Root
<1>2. AuditInv /\ AuditTypeOK /\ HasLast /\ [AuditNext]_auditVars => AuditTypeOK' /\ HasLast'
  <2> SUFFICES ASSUME AuditInv, AuditTypeOK, HasLast, [AuditNext]_auditVars
               PROVE  AuditTypeOK' /\ HasLast'
    OBVIOUS
  <2>1. ASSUME NEW p \in Process, LockAndRead(p)
        PROVE  AuditTypeOK' /\ HasLast'
    <3>1. HasLast'
      BY <2>1 DEF LockAndRead, HasLast, Before
    <3> QED
      BY <2>1, <3>1, LatestTyped DEF LockAndRead, AuditTypeOK
  <2>2. ASSUME NEW p \in Process, NEW id \in LogId, Link(p, id)
        PROVE  AuditTypeOK' /\ HasLast'
    <3>1. Cardinality(log) \in Nat /\ now + skew[p] \in Nat
          /\ writing[p].previous \in LogId \union {Root}
      BY FS_CardinalityType, AuditAssumption, ProcessAssumption DEF AuditInv, Numbered, AuditTypeOK
    <3> DEFINE row == [id |-> id, time |-> now + skew[p], previous |-> writing[p].previous,
                       nth |-> Cardinality(log)]
               Row == [id : LogId, time : Nat, previous : LogId \union {Root}, nth : Nat]
    <3>2. row \in Row
      BY <3>1
    <3>3. log \subseteq Row /\ log' = log \union {row}
      BY <2>2 DEF AuditTypeOK, Link
    <3>4. log' \subseteq Row
      <4> HIDE DEF row, Row
      <4> QED
        BY <3>2, <3>3
    <3>5. /\ now' = now /\ skew' = skew
          /\ writing' \in [Process -> [locked : BOOLEAN, previous : LogId \union {Root}]]
      BY <2>2 DEF Link, AuditTypeOK, NotWriting
    <3> QED
      BY <2>2, <3>4, <3>5, LinkKeepsLast DEF AuditTypeOK
  <2>3. ASSUME NEW p \in Process, RollBack(p)
        PROVE  AuditTypeOK' /\ HasLast'
    BY <2>3 DEF RollBack, AuditTypeOK, NotWriting, HasLast, Before
  <2>4. CASE Tick /\ UNCHANGED <<log, skew, writing>>
    BY <2>4, ProcessAssumption DEF Tick, AuditTypeOK, HasLast, Before
  <2>5. CASE UNCHANGED auditVars
    BY <2>5 DEF auditVars, AuditTypeOK, HasLast, Before
  <2> QED
    BY <2>1, <2>2, <2>3, <2>4, <2>5 DEF AuditNext
<1> QED
  BY <1>1, <1>2, AuditInvInit, AuditInvNext, PTL DEF AuditSpec

-----------------------------------------------------------------------------
(* The ingestion of a document.  Types first.                               *)

IngestStep == {"no", "create", "start", "delete", "embed", "finish", "mark", "fail"}

Ingestion ==
  [at : IngestStep, doc : SUBSET Process, text : Text, again : BOOLEAN]

\* What the steps of an ingestion have in common: one process moves, the others stay.
IngestMoved(p, step, doc, t, again) ==
  /\ ingest' \in [Process -> Ingestion]
  /\ ingest'[p].at = step /\ ingest'[p].doc = doc
  /\ ingest'[p].text = t /\ ingest'[p].again = again
  /\ \A q \in Process \ {p} : ingest'[q] = ingest[q]

LEMMA IngestSet ==
  ASSUME KnowledgeTypeOK, NEW p \in Process, NEW step \in IngestStep, NEW doc \in SUBSET Process,
         NEW t \in Text, NEW again \in BOOLEAN,
         ingest' = [ingest EXCEPT ![p] = [at |-> step, doc |-> doc, text |-> t, again |-> again]]
  PROVE  IngestMoved(p, step, doc, t, again)
  BY DEF KnowledgeTypeOK, Ingestion, IngestStep, IngestMoved

LEMMA IndexGotoMoves ==
  ASSUME KnowledgeTypeOK, NEW p \in Process, NEW step \in IngestStep, IndexGoto(p, step)
  PROVE  IngestMoved(p, step, ingest[p].doc, ingest[p].text, ingest[p].again)
  BY DEF KnowledgeTypeOK, Ingestion, IngestStep, IndexGoto, IngestMoved

LEMMA IngestLeft ==
  ASSUME KnowledgeTypeOK, NEW p \in Process, ingest' = [ingest EXCEPT ![p] = NotIngesting]
  PROVE  IngestMoved(p, "no", {}, "blank", FALSE)
  BY IngestSet DEF NotIngesting, IngestStep, Text

\* A step of an ingestion is about one document from "start" on; what is yet to be
\* created is not reindexed.
Named ==
  \A p \in Process :
    /\ IF ingest[p].at \in {"no", "create"} THEN ingest[p].doc = {}
       ELSE \E d \in Process : ingest[p].doc = {d}
    /\ ingest[p].at = "create" => ~ingest[p].again

\* Then the document is the one there is, and has a row.
LEMMA DocIs ==
  ASSUME KnowledgeTypeOK, Named, NEW p \in Process, ingest[p].at \notin {"no", "create"}
  PROVE  /\ Doc(p) \in Process /\ ingest[p].doc = {Doc(p)}
         /\ document[Doc(p)] # "none"
  BY DEF KnowledgeTypeOK, Named, Doc, Documents

\* A document has what its text comes to: one set of chunks, or none.
Holds(d, t) ==
  \/ t = "blank" /\ chunks[d] = {}
  \/ t = "words" /\ \E q \in Process : chunks[d] = {q}

\* If ingestions never crossed, one at a time is at work, on the only document; and
\* what says INDEXED has exactly what the last ingestion stored of the text it kept.
Uncrossed ==
  ~crossed =>
    /\ \A p, q \in Process : ingest[p].at # "no" /\ ingest[q].at # "no" => p = q
    /\ \A d, e \in Process : document[d] # "none" /\ document[e] # "none" => d = e
    /\ \A d \in Process : document[d] = "INDEXED" => Holds(d, text[d])
    /\ \A p \in Process :
         /\ ingest[p].at = "create" => \A d \in Process : document[d] = "none"
         /\ \A d \in ingest[p].doc :
              /\ ingest[p].at \in {"delete", "embed", "finish"} => document[d] # "INDEXED"
              /\ ingest[p].at = "embed" => chunks[d] = {} /\ ingest[p].text = "words"
              /\ ingest[p].at = "finish" => Holds(d, ingest[p].text)
              /\ ingest[p].again => ingest[p].text = text[d]

\* Something of a document is found, or about to be stored.
Stored(d) ==
  chunks[d] # {} \/ \E q \in Process : ingest[q].at = "embed" /\ d \in ingest[q].doc

\* It is INDEXED, or about to be.
Due(d) ==
  document[d] = "INDEXED" \/ \E p \in Process : ingest[p].at = "finish" /\ d \in ingest[p].doc

\* If no ingestion broke, and each found words, what says INDEXED, or is about to, is
\* found or about to be.
Unbroken ==
  ~broken => \A d \in Process : Due(d) /\ d \notin empty => Stored(d)

KnowledgeInv == KnowledgeTypeOK /\ Named /\ Uncrossed /\ Unbroken

\* Where nobody crossed, the others do nothing.
LEMMA AloneUncrossed ==
  ASSUME KnowledgeInv, ~crossed, NEW p \in Process, ingest[p].at # "no",
         NEW q \in Process \ {p}
  PROVE  ingest[q].at = "no" /\ ingest[q].doc = {}
  BY DEF KnowledgeInv, Uncrossed, Named

LEMMA KnowledgeInvInit == KnowledgeInit => KnowledgeInv
<1> SUFFICES ASSUME KnowledgeInit
             PROVE  KnowledgeInv
  OBVIOUS
<1> USE DEF KnowledgeInit, NotIngesting, Text
<1>1. KnowledgeTypeOK
  BY DEF KnowledgeTypeOK, Documents
<1>2. Named
  BY DEF Named
<1>3. Uncrossed /\ Unbroken
  BY DEF Uncrossed, Unbroken, Due, Holds
<1> QED
  BY <1>1, <1>2, <1>3 DEF KnowledgeInv

-----------------------------------------------------------------------------
LEMMA ArrivalKeepsInv ==
  ASSUME KnowledgeInv, NEW p \in Process, IngestDocument(p) \/ ReindexDocument(p)
  PROVE  KnowledgeInv'
<1>1. UNCHANGED <<document, text, chunks, broken, empty>> /\ ingest[p].at = "no"
  BY DEF IngestDocument, ReindexDocument, Begin
<1>2. /\ crossed \in BOOLEAN /\ crossed' \in BOOLEAN
      /\ ~crossed' => ~crossed /\ \A q \in Process : ingest[q].at = "no"
  BY DEF KnowledgeInv, KnowledgeTypeOK, IngestDocument, ReindexDocument, Begin, AtWork
<1>3. \/ /\ Documents = {}
         /\ \E t \in Text : IngestMoved(p, "create", {}, t, FALSE)
      \/ \E d \in Documents, t \in Text, again \in BOOLEAN :
           IngestMoved(p, "start", {d}, t, again) /\ (again => t = text[d])
  <2>1. ASSUME NEW t \in Text, Begin(p, "create", {}, t, FALSE)
        PROVE  IngestMoved(p, "create", {}, t, FALSE)
    BY <2>1, IngestSet DEF Begin, IngestStep, KnowledgeInv
  <2>2. ASSUME NEW d \in Documents, NEW t \in Text, NEW again \in BOOLEAN,
               Begin(p, "start", {d}, t, again)
        PROVE  IngestMoved(p, "start", {d}, t, again)
    BY <2>2, IngestSet DEF Begin, IngestStep, KnowledgeInv, Documents
  <2>3. \A d \in Documents : text[d] # "none" => text[d] \in Text
    BY DEF KnowledgeInv, KnowledgeTypeOK, Documents
  <2>4. CASE IngestDocument(p)
    BY <2>1, <2>2, <2>4 DEF IngestDocument
  <2>5. CASE ReindexDocument(p)
    BY <2>2, <2>3, <2>5 DEF ReindexDocument
  <2> QED
    BY <2>4, <2>5
<1> USE DEF IngestMoved
<1>4. KnowledgeTypeOK'
  BY <1>1, <1>2, <1>3 DEF KnowledgeInv, KnowledgeTypeOK, Documents, Ingestion, IngestStep, Text
<1>5. Named'
  BY <1>1, <1>3 DEF KnowledgeInv, Named, Documents
<1>6. Uncrossed'
  BY <1>1, <1>2, <1>3 DEF KnowledgeInv, Uncrossed, Documents, Holds
<1>7. Unbroken'
  BY <1>1, <1>3 DEF KnowledgeInv, Unbroken, Stored, Due
<1> QED
  BY <1>4, <1>5, <1>6, <1>7 DEF KnowledgeInv

\* The row that is created is the only one, if nobody crossed.
LEMMA CreateKeepsInv ==
  ASSUME KnowledgeInv, NEW p \in Process, CreateDocument(p)
  PROVE  KnowledgeInv'
<1>1. /\ ingest[p].at = "create" /\ UNCHANGED <<text, chunks, crossed, broken, empty>>
      /\ document' = [document EXCEPT ![p] = "PENDING"]
  BY DEF CreateDocument
<1>2. IngestMoved(p, "start", {p}, ingest[p].text, FALSE)
  <2>1. ingest[p] \in Ingestion /\ ~ingest[p].again /\ ingest \in [Process -> Ingestion]
    BY <1>1 DEF KnowledgeInv, KnowledgeTypeOK, Named, Ingestion, IngestStep
  <2>2. ingest' = [ingest EXCEPT ![p].at = "start", ![p].doc = {p}]
    BY DEF CreateDocument
  <2> QED
    BY <2>1, <2>2 DEF Ingestion, IngestStep, IngestMoved
<1> USE DEF IngestMoved
<1>10. KnowledgeTypeOK'
  <2>1. document' \in [Process -> {"none", "PENDING", "INDEXING", "INDEXED", "FAILED"}]
    BY <1>1 DEF KnowledgeInv, KnowledgeTypeOK
  <2>2. Documents' = Documents \union {p}
    BY <1>1 DEF KnowledgeInv, KnowledgeTypeOK, Documents
  <2> QED
    BY <1>1, <1>2, <2>1, <2>2 DEF KnowledgeInv, KnowledgeTypeOK, Ingestion, IngestStep
<1>11. Named'
  BY <1>1, <1>2 DEF KnowledgeInv, Named, Documents
<1>12. Uncrossed'
  <2> SUFFICES ASSUME ~crossed
               PROVE  Uncrossed'
    BY <1>1 DEF Uncrossed
  <2>1. \A q \in Process \ {p} : ingest'[q].at = "no" /\ ingest'[q].doc = {}
    BY <1>1, <1>2, AloneUncrossed
  <2>2. \A d \in Process : document[d] = "none"
    BY <1>1 DEF KnowledgeInv, Uncrossed
  <2>3. \A d \in Process : document'[d] = IF d = p THEN "PENDING" ELSE "none"
    BY <1>1, <2>2 DEF KnowledgeInv, KnowledgeTypeOK
  <2> QED
    BY <1>1, <1>2, <2>1, <2>3 DEF Uncrossed
<1>13. Unbroken'
  <2> SUFFICES ASSUME ~broken, NEW e \in Process, Due(e)', e \notin empty'
               PROVE  Stored(e)'
    BY <1>1 DEF Unbroken, Due
  <2>1. Due(e) /\ e \notin empty => Stored(e)
    BY DEF KnowledgeInv, Unbroken, Due
  <2> QED
    BY <1>1, <1>2, <2>1 DEF Stored, Due, KnowledgeInv, KnowledgeTypeOK
<1> QED
  BY <1>10, <1>11, <1>12, <1>13 DEF KnowledgeInv

\* From here on the document does not say INDEXED.
LEMMA StartKeepsInv ==
  ASSUME KnowledgeInv, NEW p \in Process, StartIndexing(p)
  PROVE  KnowledgeInv'
<1> DEFINE d == Doc(p)
<1>1. /\ ingest[p].at = "start" /\ d \in Process /\ ingest[p].doc = {d} /\ document[d] # "none"
      /\ UNCHANGED <<text, chunks, crossed, broken, empty>>
      /\ document' = [document EXCEPT ![d] = "INDEXING"]
  BY DocIs DEF StartIndexing, KnowledgeInv, KnowledgeTypeOK
<1> HIDE DEF d
<1>2. IngestMoved(p, "delete", {d}, ingest[p].text, ingest[p].again)
  BY <1>1, IndexGotoMoves DEF StartIndexing, KnowledgeInv, IngestStep
<1> USE DEF IngestMoved
<1>10. KnowledgeTypeOK'
  <2>1. document' \in [Process -> {"none", "PENDING", "INDEXING", "INDEXED", "FAILED"}]
    BY <1>1 DEF KnowledgeInv, KnowledgeTypeOK
  <2>2. Documents' = Documents
    BY <1>1 DEF KnowledgeInv, KnowledgeTypeOK, Documents
  <2> QED
    BY <1>1, <1>2, <2>1, <2>2 DEF KnowledgeInv, KnowledgeTypeOK, Ingestion, IngestStep
<1>11. Named'
  BY <1>1, <1>2 DEF KnowledgeInv, Named, Documents
<1>c. \A e \in Process : document'[e] = IF e = d THEN "INDEXING" ELSE document[e]
  BY <1>1 DEF KnowledgeInv, KnowledgeTypeOK
<1>12. Uncrossed'
  <2> SUFFICES ASSUME ~crossed
               PROVE  Uncrossed'
    BY <1>1 DEF Uncrossed
  <2>1. \A q \in Process \ {p} : ingest'[q].at = "no" /\ ingest'[q].doc = {}
    BY <1>1, <1>2, AloneUncrossed
  <2> QED
    BY <1>1, <1>2, <1>c, <2>1 DEF KnowledgeInv, Uncrossed, Holds
<1>13. Unbroken'
  <2> SUFFICES ASSUME ~broken, NEW e \in Process, Due(e)', e \notin empty'
               PROVE  Stored(e)'
    BY <1>1 DEF Unbroken, Due
  <2>1. Due(e) /\ e \notin empty => Stored(e)
    BY DEF KnowledgeInv, Unbroken, Due
  <2> QED
    BY <1>1, <1>2, <1>c, <2>1 DEF Stored, Due
<1> QED
  BY <1>10, <1>11, <1>12, <1>13 DEF KnowledgeInv

\* Who deletes the chunks of a document is about to store its own, unless its text has
\* no words.
LEMMA DeleteKeepsInv ==
  ASSUME KnowledgeInv, NEW p \in Process, DeleteByDocument(p)
  PROVE  KnowledgeInv'
<1> DEFINE d == Doc(p)
<1>1. /\ ingest[p].at = "delete" /\ d \in Process /\ ingest[p].doc = {d} /\ document[d] # "none"
      /\ UNCHANGED <<document, text, crossed, broken>>
      /\ chunks' = [chunks EXCEPT ![d] = {}]
  BY DocIs DEF DeleteByDocument, KnowledgeInv, KnowledgeTypeOK
<1> HIDE DEF d
<1>2. \/ /\ IngestMoved(p, "embed", {d}, ingest[p].text, ingest[p].again)
         /\ ingest[p].text = "words" /\ empty' = empty
      \/ /\ IngestMoved(p, "finish", {d}, ingest[p].text, ingest[p].again)
         /\ ingest[p].text = "blank" /\ empty' = empty \union {d}
  BY <1>1, IndexGotoMoves DEF DeleteByDocument, KnowledgeInv, IngestStep, d
<1> USE DEF IngestMoved
<1>10. KnowledgeTypeOK'
  <2>1. chunks' \in [Process -> SUBSET Process]
    BY <1>1 DEF KnowledgeInv, KnowledgeTypeOK
  <2>2. Documents' = Documents
    BY <1>1 DEF Documents
  <2>3. empty' \subseteq Process
    BY <1>1, <1>2 DEF KnowledgeInv, KnowledgeTypeOK
  <2>4. ingest' \in [Process -> Ingestion] /\ \A q \in Process : ingest'[q].doc \subseteq Documents
    BY <1>1, <1>2 DEF KnowledgeInv, KnowledgeTypeOK, Documents
  <2> QED
    BY <1>1, <2>1, <2>2, <2>3, <2>4 DEF KnowledgeInv, KnowledgeTypeOK, Ingestion, IngestStep
<1>11. Named'
  BY <1>1, <1>2 DEF KnowledgeInv, Named, Documents
<1>c. \A e \in Process : chunks'[e] = IF e = d THEN {} ELSE chunks[e]
  BY <1>1 DEF KnowledgeInv, KnowledgeTypeOK
<1>12. Uncrossed'
  <2> SUFFICES ASSUME ~crossed
               PROVE  Uncrossed'
    BY <1>1 DEF Uncrossed
  <2>1. \A q \in Process \ {p} : ingest'[q].at = "no" /\ ingest'[q].doc = {}
    BY <1>1, <1>2, AloneUncrossed
  <2> QED
    BY <1>1, <1>2, <1>c, <2>1 DEF KnowledgeInv, Uncrossed, Holds
<1>13. Unbroken'
  <2> SUFFICES ASSUME ~broken, NEW e \in Process, Due(e)', e \notin empty'
               PROVE  Stored(e)'
    BY <1>1 DEF Unbroken, Due
  <2>1. Due(e) /\ e \notin empty => Stored(e)
    BY DEF KnowledgeInv, Unbroken, Due
  <2> QED
    BY <1>1, <1>2, <1>c, <2>1 DEF Stored, Due
<1> QED
  BY <1>10, <1>11, <1>12, <1>13 DEF KnowledgeInv

\* The chunks come to a document that has none, if nobody crossed.
LEMMA ChunksKeepInv ==
  ASSUME KnowledgeInv, NEW p \in Process, CreateChunks(p)
  PROVE  KnowledgeInv'
<1> DEFINE d == Doc(p)
<1>1. /\ ingest[p].at = "embed" /\ d \in Process /\ ingest[p].doc = {d} /\ document[d] # "none"
      /\ UNCHANGED <<document, text, crossed, broken, empty>>
      /\ chunks' = [chunks EXCEPT ![d] = @ \union {p}]
  BY DocIs DEF CreateChunks, KnowledgeInv, KnowledgeTypeOK
<1> HIDE DEF d
<1>2. IngestMoved(p, "finish", {d}, ingest[p].text, ingest[p].again)
  BY <1>1, IndexGotoMoves DEF CreateChunks, KnowledgeInv, IngestStep
<1> USE DEF IngestMoved
<1>10. KnowledgeTypeOK'
  <2>1. chunks' \in [Process -> SUBSET Process]
    BY <1>1 DEF KnowledgeInv, KnowledgeTypeOK
  <2>2. Documents' = Documents
    BY <1>1 DEF Documents
  <2> QED
    BY <1>1, <1>2, <2>1, <2>2 DEF KnowledgeInv, KnowledgeTypeOK, Ingestion, IngestStep
<1>11. Named'
  BY <1>1, <1>2 DEF KnowledgeInv, Named, Documents
<1>c. \A e \in Process : chunks'[e] = IF e = d THEN chunks[e] \union {p} ELSE chunks[e]
  BY <1>1 DEF KnowledgeInv, KnowledgeTypeOK
<1>12. Uncrossed'
  <2> SUFFICES ASSUME ~crossed
               PROVE  Uncrossed'
    BY <1>1 DEF Uncrossed
  <2>1. \A q \in Process \ {p} : ingest'[q].at = "no" /\ ingest'[q].doc = {}
    BY <1>1, <1>2, AloneUncrossed
  <2>2. chunks'[d] = {p} /\ ingest[p].text = "words" /\ (ingest[p].again => text[d] = "words")
    BY <1>1 DEF KnowledgeInv, KnowledgeTypeOK, Uncrossed
  <2>3. document[d] # "INDEXED" /\ \A e \in Process : document[e] # "none" => e = d
    BY <1>1 DEF KnowledgeInv, Uncrossed
  <2> QED
    BY <1>1, <1>2, <1>c, <2>1, <2>2, <2>3 DEF Uncrossed, Holds
<1>13. Unbroken'
  <2> SUFFICES ASSUME ~broken, NEW e \in Process, Due(e)', e \notin empty'
               PROVE  Stored(e)'
    BY <1>1 DEF Unbroken, Due
  <2>1. Due(e) /\ e \notin empty => Stored(e)
    BY DEF KnowledgeInv, Unbroken, Due
  <2>2. CASE e = d
    BY <1>c, <2>2 DEF Stored
  <2>3. CASE e # d
    BY <1>1, <1>2, <1>c, <2>1, <2>3 DEF Stored, Due
  <2> QED
    BY <2>2, <2>3
<1> QED
  BY <1>10, <1>11, <1>12, <1>13 DEF KnowledgeInv

\* INDEXED is said of what has been stored, of the text that is kept.
LEMMA FinishKeepsInv ==
  ASSUME KnowledgeInv, NEW p \in Process, FinishIndexing(p)
  PROVE  KnowledgeInv'
<1> DEFINE d == Doc(p)
<1>1. /\ ingest[p].at = "finish" /\ d \in Process /\ ingest[p].doc = {d} /\ document[d] # "none"
      /\ UNCHANGED <<chunks, crossed, broken, empty>>
      /\ document' = [document EXCEPT ![d] = "INDEXED"]
      /\ text' = IF ingest[p].again THEN text ELSE [text EXCEPT ![d] = ingest[p].text]
  BY DocIs DEF FinishIndexing, KnowledgeInv, KnowledgeTypeOK
<1> HIDE DEF d
<1>2. IngestMoved(p, "mark", {d}, ingest[p].text, ingest[p].again)
  BY <1>1, IndexGotoMoves DEF FinishIndexing, KnowledgeInv, IngestStep
<1>3. ingest[p].text \in Text
  BY DEF KnowledgeInv, KnowledgeTypeOK
<1> USE DEF IngestMoved
<1>10. KnowledgeTypeOK'
  <2>1. document' \in [Process -> {"none", "PENDING", "INDEXING", "INDEXED", "FAILED"}]
    BY <1>1 DEF KnowledgeInv, KnowledgeTypeOK
  <2>2. Documents' = Documents
    BY <1>1 DEF KnowledgeInv, KnowledgeTypeOK, Documents
  <2>3. /\ text' \in [Process -> Text \union {"none"}]
        /\ \A e \in Process : text'[e] # "none" => e \in Documents
    BY <1>1, <1>3 DEF KnowledgeInv, KnowledgeTypeOK, Documents
  <2> QED
    BY <1>1, <1>2, <2>1, <2>2, <2>3 DEF KnowledgeInv, KnowledgeTypeOK, Ingestion, IngestStep
<1>11. Named'
  BY <1>1, <1>2 DEF KnowledgeInv, Named, Documents
<1>c. \A e \in Process : document'[e] = IF e = d THEN "INDEXED" ELSE document[e]
  BY <1>1 DEF KnowledgeInv, KnowledgeTypeOK
<1>12. Uncrossed'
  <2> SUFFICES ASSUME ~crossed
               PROVE  Uncrossed'
    BY <1>1 DEF Uncrossed
  <2>1. \A q \in Process \ {p} : ingest'[q].at = "no" /\ ingest'[q].doc = {}
    BY <1>1, <1>2, AloneUncrossed
  <2> QED
    BY <1>1, <1>2, <1>c, <2>1 DEF KnowledgeInv, KnowledgeTypeOK, Uncrossed, Holds
<1>13. Unbroken'
  <2> SUFFICES ASSUME ~broken, NEW e \in Process, Due(e)', e \notin empty'
               PROVE  Stored(e)'
    BY <1>1 DEF Unbroken, Due
  <2>1. Due(e) /\ e \notin empty => Stored(e)
    BY DEF KnowledgeInv, Unbroken, Due
  <2> QED
    BY <1>1, <1>2, <1>c, <2>1 DEF Stored, Due
<1> QED
  BY <1>10, <1>11, <1>12, <1>13 DEF KnowledgeInv

\* What the source is told changes nothing of the document.
LEMMA MarkKeepsInv ==
  ASSUME KnowledgeInv, NEW p \in Process, MarkIndexed(p)
  PROVE  KnowledgeInv'
<1>1. /\ ingest[p].at = "mark" /\ UNCHANGED <<document, text, chunks, crossed, broken, empty>>
  BY DEF MarkIndexed
<1>2. IngestMoved(p, "no", {}, "blank", FALSE)
  BY IngestLeft DEF MarkIndexed, KnowledgeInv
<1> USE DEF IngestMoved
<1>10. KnowledgeTypeOK'
  <2>1. Documents' = Documents
    BY <1>1 DEF Documents
  <2> QED
    BY <1>1, <1>2, <2>1 DEF KnowledgeInv, KnowledgeTypeOK, Ingestion, IngestStep
<1>11. Named'
  BY <1>1, <1>2 DEF KnowledgeInv, Named, Documents
<1>12. Uncrossed'
  <2> SUFFICES ASSUME ~crossed
               PROVE  Uncrossed'
    BY <1>1 DEF Uncrossed
  <2>1. \A q \in Process \ {p} : ingest'[q].at = "no" /\ ingest'[q].doc = {}
    BY <1>1, <1>2, AloneUncrossed
  <2> QED
    BY <1>1, <1>2, <2>1 DEF KnowledgeInv, Uncrossed, Holds
<1>13. Unbroken'
  BY <1>1, <1>2 DEF KnowledgeInv, Unbroken, Stored, Due
<1> QED
  BY <1>10, <1>11, <1>12, <1>13 DEF KnowledgeInv

\* A failure breaks the ingestion, and leaves everything as it is.
LEMMA FailureKeepsInv ==
  ASSUME KnowledgeInv, NEW p \in Process, IngestionFails(p)
  PROVE  KnowledgeInv'
<1> DEFINE d == Doc(p)
<1>1. /\ ingest[p].at \in {"start", "delete", "embed", "finish", "mark"}
      /\ d \in Process /\ ingest[p].doc = {d} /\ document[d] # "none"
      /\ UNCHANGED <<document, text, chunks, crossed, empty>> /\ broken' = TRUE
  BY DocIs DEF IngestionFails, KnowledgeInv, KnowledgeTypeOK
<1> HIDE DEF d
<1>2. IngestMoved(p, "fail", {d}, ingest[p].text, ingest[p].again)
  BY <1>1, IndexGotoMoves DEF IngestionFails, KnowledgeInv, IngestStep
<1> USE DEF IngestMoved
<1>10. KnowledgeTypeOK'
  <2>1. Documents' = Documents
    BY <1>1 DEF Documents
  <2> QED
    BY <1>1, <1>2, <2>1 DEF KnowledgeInv, KnowledgeTypeOK, Ingestion, IngestStep
<1>11. Named'
  BY <1>1, <1>2 DEF KnowledgeInv, Named, Documents
<1>12. Uncrossed'
  <2> SUFFICES ASSUME ~crossed
               PROVE  Uncrossed'
    BY <1>1 DEF Uncrossed
  <2>1. \A q \in Process \ {p} : ingest'[q].at = "no" /\ ingest'[q].doc = {}
    BY <1>1, <1>2, AloneUncrossed
  <2> QED
    BY <1>1, <1>2, <2>1 DEF KnowledgeInv, Uncrossed, Holds
<1>13. Unbroken'
  BY <1>1 DEF Unbroken
<1> QED
  BY <1>10, <1>11, <1>12, <1>13 DEF KnowledgeInv

\* What failed does not say INDEXED.
LEMMA RecordFailureKeepsInv ==
  ASSUME KnowledgeInv, NEW p \in Process, RecordFailure(p)
  PROVE  KnowledgeInv'
<1> DEFINE d == Doc(p)
<1>1. /\ ingest[p].at = "fail" /\ d \in Process /\ ingest[p].doc = {d} /\ document[d] # "none"
      /\ UNCHANGED <<text, chunks, crossed, broken, empty>>
      /\ document' = [document EXCEPT ![d] = "FAILED"]
  BY DocIs DEF RecordFailure, KnowledgeInv, KnowledgeTypeOK
<1> HIDE DEF d
<1>2. IngestMoved(p, "no", {}, "blank", FALSE)
  BY IngestLeft DEF RecordFailure, KnowledgeInv
<1> USE DEF IngestMoved
<1>10. KnowledgeTypeOK'
  <2>1. document' \in [Process -> {"none", "PENDING", "INDEXING", "INDEXED", "FAILED"}]
    BY <1>1 DEF KnowledgeInv, KnowledgeTypeOK
  <2>2. Documents' = Documents
    BY <1>1 DEF KnowledgeInv, KnowledgeTypeOK, Documents
  <2> QED
    BY <1>1, <1>2, <2>1, <2>2 DEF KnowledgeInv, KnowledgeTypeOK, Ingestion, IngestStep
<1>11. Named'
  BY <1>1, <1>2 DEF KnowledgeInv, Named, Documents
<1>c. \A e \in Process : document'[e] = IF e = d THEN "FAILED" ELSE document[e]
  BY <1>1 DEF KnowledgeInv, KnowledgeTypeOK
<1>12. Uncrossed'
  <2> SUFFICES ASSUME ~crossed
               PROVE  Uncrossed'
    BY <1>1 DEF Uncrossed
  <2>1. \A q \in Process \ {p} : ingest'[q].at = "no" /\ ingest'[q].doc = {}
    BY <1>1, <1>2, AloneUncrossed
  <2> QED
    BY <1>1, <1>2, <1>c, <2>1 DEF KnowledgeInv, Uncrossed, Holds
<1>13. Unbroken'
  <2> SUFFICES ASSUME ~broken, NEW e \in Process, Due(e)', e \notin empty'
               PROVE  Stored(e)'
    BY <1>1 DEF Unbroken, Due
  <2>1. Due(e) /\ e \notin empty => Stored(e)
    BY DEF KnowledgeInv, Unbroken, Due
  <2> QED
    BY <1>1, <1>2, <1>c, <2>1 DEF Stored, Due
<1> QED
  BY <1>10, <1>11, <1>12, <1>13 DEF KnowledgeInv

\* A process that dies leaves the document as it is.
LEMMA StopKeepsInv ==
  ASSUME KnowledgeInv, NEW p \in Process, IngestionStops(p)
  PROVE  KnowledgeInv'
<1>1. /\ ingest[p].at # "no" /\ UNCHANGED <<document, text, chunks, crossed, empty>>
      /\ broken' = TRUE
  BY DEF IngestionStops
<1>2. IngestMoved(p, "no", {}, "blank", FALSE)
  BY IngestLeft DEF IngestionStops, KnowledgeInv
<1> USE DEF IngestMoved
<1>10. KnowledgeTypeOK'
  <2>1. Documents' = Documents
    BY <1>1 DEF Documents
  <2> QED
    BY <1>1, <1>2, <2>1 DEF KnowledgeInv, KnowledgeTypeOK, Ingestion, IngestStep
<1>11. Named'
  BY <1>1, <1>2 DEF KnowledgeInv, Named, Documents
<1>12. Uncrossed'
  <2> SUFFICES ASSUME ~crossed
               PROVE  Uncrossed'
    BY <1>1 DEF Uncrossed
  <2>1. \A q \in Process \ {p} : ingest'[q].at = "no" /\ ingest'[q].doc = {}
    BY <1>1, <1>2, AloneUncrossed
  <2> QED
    BY <1>1, <1>2, <2>1 DEF KnowledgeInv, Uncrossed, Holds
<1>13. Unbroken'
  BY <1>1 DEF Unbroken
<1> QED
  BY <1>10, <1>11, <1>12, <1>13 DEF KnowledgeInv

LEMMA KnowledgeInvNext == KnowledgeInv /\ [KnowledgeNext]_knowledgeVars => KnowledgeInv'
<1> SUFFICES ASSUME KnowledgeInv, [KnowledgeNext]_knowledgeVars
             PROVE  KnowledgeInv'
  OBVIOUS
<1>1. CASE KnowledgeNext
  BY <1>1, ArrivalKeepsInv, CreateKeepsInv, StartKeepsInv, DeleteKeepsInv, ChunksKeepInv,
     FinishKeepsInv, MarkKeepsInv, FailureKeepsInv, RecordFailureKeepsInv, StopKeepsInv DEF KnowledgeNext
<1>2. CASE UNCHANGED knowledgeVars
  BY <1>2 DEF knowledgeVars, KnowledgeInv, KnowledgeTypeOK, Documents, Named, Uncrossed, Holds,
              Unbroken, Stored, Due
<1> QED
  BY <1>1, <1>2

-----------------------------------------------------------------------------
\* The document, its chunks and who is at work on it are well typed.
THEOREM KnowledgeTypeCorrect == KnowledgeSpec => []KnowledgeTypeOK
<1>1. KnowledgeInv => KnowledgeTypeOK
  BY DEF KnowledgeInv
<1> QED
  BY <1>1, KnowledgeInvInit, KnowledgeInvNext, PTL DEF KnowledgeSpec

\* What is INDEXED when nobody is at work is the only document, with one set of chunks,
\* or none for a text without words, if ingestions never crossed; and has one at least,
\* if none ever broke and each found words.
THEOREM IndexedWhole == KnowledgeSpec => []IndexedIsWhole
<1>1. KnowledgeInv => IndexedIsWhole
  <2> SUFFICES ASSUME KnowledgeInv, \A p \in Process : ingest[p].at = "no"
               PROVE  /\ ~crossed => Cardinality(Documents) <= 1
                      /\ \A d \in Documents : document[d] = "INDEXED" =>
                           /\ ~crossed =>
                                Cardinality(chunks[d]) = IF text[d] = "blank" THEN 0 ELSE 1
                           /\ ~broken /\ d \notin empty => chunks[d] # {}
    BY DEF IndexedIsWhole, AtWork
  <2>1. ASSUME ~crossed
        PROVE  Cardinality(Documents) <= 1
    <3>1. \A d, e \in Documents : d = e
      BY <2>1 DEF KnowledgeInv, Uncrossed, Documents
    <3>2. Documents = {} \/ \E d \in Documents : Documents = {d}
      BY <3>1
    <3> QED
      BY <3>2, FS_EmptySet, FS_Singleton
  <2>2. ASSUME NEW d \in Documents, document[d] = "INDEXED", ~crossed
        PROVE  Cardinality(chunks[d]) = IF text[d] = "blank" THEN 0 ELSE 1
    <3>1. \/ text[d] = "blank" /\ chunks[d] = {}
          \/ text[d] = "words" /\ \E q \in Process : chunks[d] = {q}
      BY <2>2 DEF KnowledgeInv, Uncrossed, Holds, Documents
    <3> QED
      BY <3>1, FS_EmptySet, FS_Singleton
  <2>3. ASSUME NEW d \in Documents, document[d] = "INDEXED", ~broken, d \notin empty
        PROVE  chunks[d] # {}
    BY <2>3 DEF KnowledgeInv, Unbroken, Stored, Due, Documents
  <2> QED
    BY <2>1, <2>2, <2>3
<1> QED
  BY <1>1, KnowledgeInvInit, KnowledgeInvNext, PTL DEF KnowledgeSpec

-----------------------------------------------------------------------------
(* The events of a connection.  Types first.                                *)

Config == [cursor : 0..MaxTime, source : BOOLEAN]

Syncing == [at : {"no", "ask", "store", "contribute"}, config : Config,
            todo : SUBSET Happening, event : SUBSET Happening, next : 0..MaxTime]

\* A process that syncs gets one place, the others keep theirs.
SyncMoved(p, step, copy, todo, event, next) ==
  /\ sync' \in [Process -> Syncing]
  /\ SyncAt(p, "contribute")' <=> event # {}
  /\ sync'[p].at = step /\ sync'[p].config = copy /\ sync'[p].todo = todo
  /\ sync'[p].event = event /\ sync'[p].next = next
  /\ \A q \in Process \ {p} : sync'[q] = sync[q]

LEMMA SyncSet ==
  ASSUME SyncTypeOK, NEW p \in Process, NEW row \in Syncing,
         row.at = "contribute" <=> row.event # {},
         sync' = [sync EXCEPT ![p] = row]
  PROVE  SyncMoved(p, row.at, row.config, row.todo, row.event, row.next)
  BY DEF SyncTypeOK, Syncing, Config, SyncMoved, SyncAt

\* The fields that a step does not name stay.
LEMMA SyncFields ==
  ASSUME SyncTypeOK, NEW p \in Process
  PROVE  /\ sync[p] \in Syncing
         /\ sync[p] = [at |-> sync[p].at, config |-> sync[p].config, todo |-> sync[p].todo,
                       event |-> sync[p].event, next |-> sync[p].next]
         /\ SyncAt(p, "contribute") <=> sync[p].event # {}
         /\ config \in Config
         /\ NotSyncing \in Syncing
  BY ProcessAssumption DEF SyncTypeOK, Syncing, Config, NotSyncing, EmptyConfig, Unset

LEMMA SyncLeft ==
  ASSUME SyncTypeOK, NEW p \in Process, sync' = [sync EXCEPT ![p] = NotSyncing]
  PROVE  SyncMoved(p, "no", EmptyConfig, {}, {}, 0)
<1>1. NotSyncing \in Syncing
  BY SyncFields
<1> QED
  BY <1>1, SyncSet DEF NotSyncing, Unset

\* The rows of an event are accounted for: what it became, and who is about to make more
\* of it.
Documented ==
  \A h \in Happening :
    /\ "id" \in carries[h] => rows[h] <= 1
    /\ contributed[h] + Cardinality(Contributing(h)) <= rows[h]
    /\ "knowledge" \in carries[h] /\ h \notin dropped =>
         contributed[h] + Cardinality(Contributing(h)) = rows[h]

\* What has not come about has no row, and is in nobody's hands.
Known ==
  /\ \A p \in Process : sync[p].todo \subseteq Arrived
  /\ \A h \in Happening \ Arrived : rows[h] = 0

\* What came about before a time is stored, excused, or in somebody's hands.
Covered(time, hands) ==
  \A h \in Happening :
    arrived[h] < time => rows[h] > 0 \/ h \in hands \union skipped \union dropped

\* Whatever cursor may yet be written leaves nothing behind.
CursorsCover ==
  /\ now \in 0..MaxTime
  /\ Covered(config.cursor, {})
  /\ \A p \in Process :
       Covered(sync[p].config.cursor, {}) /\ Covered(sync[p].next, sync[p].todo)

SyncInv == SyncTypeOK /\ Documented /\ Known /\ CursorsCover

LEMMA SyncInvInit == now = 0 /\ SyncInit => SyncInv
<1> SUFFICES ASSUME now = 0, SyncInit
             PROVE  SyncInv
  OBVIOUS
<1> USE ProcessAssumption DEF SyncInit, NotSyncing, EmptyConfig, Unset, NotYet, SyncAt
<1>1. SyncTypeOK
  BY DEF SyncTypeOK
<1>2. \A h \in Happening : Contributing(h) = {}
  BY DEF Contributing
<1>3. Documented
  <2>1. \A h \in Happening : contributed[h] = 0 /\ rows[h] = 0 /\ Cardinality(Contributing(h)) = 0
    BY <1>2, FS_EmptySet
  <2> QED
    BY <2>1 DEF Documented
<1>4. Known
  BY DEF Known
<1>5. CursorsCover
  BY DEF CursorsCover, Covered
<1> QED
  BY <1>1, <1>3, <1>4, <1>5 DEF SyncInv

-----------------------------------------------------------------------------
\* Who moves counts among those about to make a document by the event it has, and had.
LEMMA HandsCounted ==
  ASSUME NEW p \in Process, NEW h \in Happening,
         NEW step, NEW copy, NEW todo, NEW event, NEW next,
         SyncMoved(p, step, copy, todo, event, next)
  PROVE  /\ Cardinality(Contributing(h)) \in Nat /\ Cardinality(Contributing(h)') \in Nat
         /\ h \in event /\ h \notin sync[p].event =>
              Cardinality(Contributing(h)') = Cardinality(Contributing(h)) + 1
         /\ h \notin event /\ h \in sync[p].event =>
              Cardinality(Contributing(h)') = Cardinality(Contributing(h)) - 1
         /\ (h \in event <=> h \in sync[p].event) =>
              Cardinality(Contributing(h)') = Cardinality(Contributing(h))
<1> DEFINE C == Contributing(h)
           D == {q \in Process : h \in sync'[q].event}
<1>1. Contributing(h)' = D
  BY DEF Contributing
<1>2. IsFiniteSet(C) /\ IsFiniteSet(D)
  BY ProcessAssumption, FS_Subset DEF Contributing
<1>3. /\ p \in C <=> h \in sync[p].event
      /\ p \in D <=> h \in event
      /\ C \ {p} = D \ {p}
  BY DEF Contributing, SyncMoved
<1> HIDE DEF C, D
<1>4. /\ h \in event /\ h \notin sync[p].event => p \notin C /\ D = C \union {p}
      /\ h \notin event /\ h \in sync[p].event => p \in C /\ D = C \ {p}
      /\ (h \in event <=> h \in sync[p].event) => C = D
  BY <1>3
<1> QED
  BY <1>1, <1>2, <1>4, FS_CardinalityType, FS_AddElement, FS_RemoveElement DEF C

\* The same of the time after a step.
CoveredNext(time, hands) ==
  \A h \in Happening :
    arrived'[h] < time => rows'[h] > 0 \/ h \in hands \union skipped' \union dropped'

\* Nothing that is stored or excused is forgotten.
NothingForgotten ==
  /\ \A h \in Happening : rows[h] > 0 => rows'[h] > 0
  /\ skipped \subseteq skipped' /\ dropped \subseteq dropped'
  /\ UNCHANGED <<now, arrived>>

LEMMA CoverageGrows ==
  ASSUME NothingForgotten, NEW time, NEW hands, Covered(time, hands)
  PROVE  CoveredNext(time, hands)
  BY DEF NothingForgotten, Covered, CoveredNext

\* One process moves, and the cursors that it holds or writes leave nothing behind.
LEMMA CursorsKept ==
  ASSUME SyncInv, NothingForgotten, NEW p \in Process,
         NEW step, NEW copy, NEW todo, NEW event, NEW next,
         SyncMoved(p, step, copy, todo, event, next),
         CoveredNext(config'.cursor, {}), CoveredNext(copy.cursor, {}), CoveredNext(next, todo)
  PROVE  CursorsCover'
<1>1. now' = now /\ now \in 0..MaxTime
  BY DEF NothingForgotten, SyncInv, CursorsCover
<1>2. Covered(config.cursor, {})'
  BY DEF Covered, CoveredNext
<1>3. ASSUME NEW q \in Process
      PROVE  Covered(sync[q].config.cursor, {})' /\ Covered(sync[q].next, sync[q].todo)'
  <2>1. CASE q = p
    BY <2>1 DEF SyncMoved, Covered, CoveredNext
  <2>2. CASE q # p
    <3>1. sync'[q] = sync[q]
      BY <2>2 DEF SyncMoved
    <3>2. CoveredNext(sync[q].config.cursor, {}) /\ CoveredNext(sync[q].next, sync[q].todo)
      BY CoverageGrows DEF SyncInv, CursorsCover
    <3> QED
      BY <3>1, <3>2 DEF Covered, CoveredNext
  <2> QED
    BY <2>1, <2>2
<1> QED
  BY <1>1, <1>2, <1>3 DEF CursorsCover

\* What the documents depend on besides the moving process's event.
LEMMA DocumentsKept ==
  ASSUME SyncInv, NEW p \in Process, NEW step, NEW copy, NEW todo, NEW event, NEW next,
         SyncMoved(p, step, copy, todo, event, next), event = sync[p].event,
         UNCHANGED <<carries, rows, contributed>>, dropped \subseteq dropped'
  PROVE  Documented'
<1>1. \A h \in Happening : Contributing(h)' = Contributing(h)
  BY DEF SyncMoved, Contributing
<1> QED
  BY <1>1 DEF SyncInv, Documented

LEMMA KnownKept ==
  ASSUME SyncInv, NEW p \in Process, NEW step, NEW copy, NEW todo, NEW event, NEW next,
         SyncMoved(p, step, copy, todo, event, next),
         UNCHANGED arrived, todo \subseteq Arrived,
         \A h \in Happening \ Arrived : rows'[h] = rows[h]
  PROVE  Known'
  BY DEF SyncInv, Known, Arrived, SyncMoved

LEMMA SyncTypesKept ==
  ASSUME SyncInv, NEW p \in Process, NEW step, NEW copy, NEW todo, NEW event, NEW next,
         SyncMoved(p, step, copy, todo, event, next), (step = "contribute") <=> (event # {}),
         UNCHANGED <<polled, arrived, carries>>, config' \in Config,
         rows' \in [Happening -> Nat], contributed' \in [Happening -> Nat],
         skipped' \union dropped' \subseteq Happening
  PROVE  SyncTypeOK'
<1>1. \A q \in Process : SyncAt(q, "contribute")' <=> sync'[q].event # {}
  BY DEF SyncMoved, SyncInv, SyncTypeOK, SyncAt
<1> QED
  BY <1>1 DEF SyncInv, SyncTypeOK, SyncMoved, Syncing, Config

\* No time is before the first, and a copy of the config is as good as the config.
LEMMA CursorsAtStart ==
  ASSUME SyncInv
  PROVE  Covered(0, {}) /\ Covered(config.cursor, {}) /\ \A hands : Covered(0, hands)
  BY DEF SyncInv, CursorsCover, SyncTypeOK, Covered, NotYet

\* A sync begins with what is listed in its hands, a delivery with what is posted.
LEMMA BeginningKeepsSync ==
  ASSUME SyncInv, NEW p \in Process, SyncAt(p, "no"),
         NEW step \in {"ask", "store"}, NEW todo \in SUBSET Arrived,
         sync' = [sync EXCEPT ![p] = [NotSyncing EXCEPT !.at = step, !.config = config,
                                                        !.todo = todo]],
         UNCHANGED <<now, polled, arrived, carries, config, rows, contributed, skipped, dropped>>
  PROVE  SyncInv'
<1> DEFINE row == [NotSyncing EXCEPT !.at = step, !.config = config, !.todo = todo]
<1>1. /\ row \in Syncing
      /\ row.at = step /\ row.config = config /\ row.todo = todo /\ row.event = {} /\ row.next = 0
  <2>1. config \in Config /\ NotSyncing \in Syncing
    BY SyncFields DEF SyncInv
  <2>2. todo \in SUBSET Happening
    BY DEF Arrived
  <2>3. NotSyncing.event = {} /\ NotSyncing.next = 0
    BY DEF NotSyncing, Unset
  <2> QED
    BY <2>1, <2>2, <2>3 DEF Syncing
<1>2. SyncMoved(p, step, config, todo, {}, 0)
  <2>1. sync' = [sync EXCEPT ![p] = row]
    OBVIOUS
  <2> HIDE DEF row
  <2>2. SyncMoved(p, row.at, row.config, row.todo, row.event, row.next)
    BY <1>1, <2>1, SyncSet DEF SyncInv
  <2> QED
    BY <1>1, <2>2
<1>3. sync[p].event = {}
  BY SyncFields DEF SyncInv, SyncAt
<1>4. NothingForgotten
  BY DEF NothingForgotten
<1>5. CursorsCover'
  BY <1>2, <1>4, CursorsAtStart, CursorsKept, CoverageGrows
<1>6. SyncTypeOK'
  BY <1>2, SyncTypesKept DEF SyncInv, SyncTypeOK, Config
<1>7. Documented'
  BY <1>2, <1>3, DocumentsKept
<1>8. Known'
  BY <1>2, KnownKept
<1> QED
  BY <1>5, <1>6, <1>7, <1>8 DEF SyncInv

\* What the cursor to come passes is in hands, was passed before, or is noted as skipped.
LEMMA EndPollKeepsSync ==
  ASSUME SyncInv, NEW p \in Process, UNCHANGED now, EndPoll(p)
  PROVE  SyncInv'
<1>0. sync[p].at = "ask" /\ sync[p].event = {}
  BY SyncFields DEF EndPoll, SyncInv, SyncAt
<1>p. PICK next \in 1..MaxTime :
           /\ sync' = [sync EXCEPT ![p].at = "store", ![p].next = next]
           /\ skipped' = skipped \union Passed(p, next)
  BY DEF EndPoll
<1> DEFINE row == [sync[p] EXCEPT !.at = "store", !.next = next]
<1>1. /\ row \in Syncing
      /\ row.at = "store" /\ row.config = sync[p].config /\ row.todo = sync[p].todo
      /\ row.event = {} /\ row.next = next
  <2>1. sync[p] \in Syncing
    BY SyncFields DEF SyncInv
  <2>2. next \in 0..MaxTime
    BY ProcessAssumption
  <2> QED
    BY <1>0, <2>1, <2>2 DEF Syncing
<1>2. SyncMoved(p, "store", sync[p].config, sync[p].todo, {}, next)
  <2>1. sync' = [sync EXCEPT ![p] = row]
    BY <1>p
  <2> HIDE DEF row
  <2>2. SyncMoved(p, row.at, row.config, row.todo, row.event, row.next)
    BY <1>1, <2>1, SyncSet DEF SyncInv
  <2> QED
    BY <1>1, <2>2
<1>3. UNCHANGED <<now, polled, arrived, carries, config, rows, contributed, dropped>>
  BY DEF EndPoll
<1>4. Covered(config.cursor, {}) /\ Covered(sync[p].config.cursor, {})
  BY DEF SyncInv, CursorsCover
<1>5. NothingForgotten
  BY <1>p, <1>3 DEF NothingForgotten
<1>6. CoveredNext(next, sync[p].todo)
  <2> SUFFICES ASSUME NEW h \in Happening, arrived[h] < next
               PROVE  rows[h] > 0 \/ h \in sync[p].todo \union skipped' \union dropped
    BY <1>3 DEF CoveredNext
  <2>0. sync[p] \in Syncing
    BY SyncFields DEF SyncInv
  <2>1. /\ arrived[h] \in Int /\ sync[p].config.cursor \in Int
        /\ next \in Int /\ NotYet \in Int /\ next < NotYet
    BY <2>0, ProcessAssumption DEF SyncInv, SyncTypeOK, Syncing, Config, NotYet
  <2>2. CASE arrived[h] < sync[p].config.cursor
    BY <1>p, <1>4, <2>2 DEF Covered
  <2>3. CASE sync[p].config.cursor <= arrived[h]
    <3>1. h \in Passed(p, next) \/ h \in sync[p].todo
      BY <2>1, <2>3 DEF Passed, Arrived
    <3> QED
      BY <1>p, <3>1
  <2> QED
    BY <2>1, <2>2, <2>3
<1>7. CursorsCover'
  BY <1>2, <1>3, <1>4, <1>5, <1>6, CursorsKept, CoverageGrows
<1>8. SyncTypeOK'
  BY <1>p, <1>2, <1>3, SyncTypesKept DEF SyncInv, SyncTypeOK, Config, Passed, Arrived
<1>9. Documented'
  BY <1>0, <1>2, <1>3, DocumentsKept
<1>10. Known'
  BY <1>2, <1>3, KnownKept DEF SyncInv, Known
<1> QED
  BY <1>7, <1>8, <1>9, <1>10 DEF SyncInv

\* A process leaves with no cursor written, and drops what it had not contributed.
LEMMA LeavingKeepsSync ==
  ASSUME SyncInv, NEW p \in Process, SyncMoved(p, "no", EmptyConfig, {}, {}, 0),
         UNCHANGED <<now, polled, arrived, carries, config, rows, contributed, skipped>>,
         dropped' = dropped \union sync[p].event
  PROVE  SyncInv'
<1>1. EmptyConfig.cursor = 0
  BY DEF EmptyConfig, Unset
<1>2. sync[p].event \subseteq Happening
  BY SyncFields DEF SyncInv, Syncing
<1>3. NothingForgotten
  BY DEF NothingForgotten
<1>5. CursorsCover'
  BY <1>1, <1>3, CursorsAtStart, CursorsKept, CoverageGrows
<1>6. SyncTypeOK'
  BY <1>2, SyncTypesKept DEF SyncInv, SyncTypeOK, Config
<1>7. Documented'
  <2> SUFFICES ASSUME NEW h \in Happening
               PROVE  /\ "id" \in carries[h] => rows[h] <= 1
                      /\ contributed[h] + Cardinality(Contributing(h)') <= rows[h]
                      /\ "knowledge" \in carries[h] /\ h \notin dropped' =>
                           contributed[h] + Cardinality(Contributing(h)') = rows[h]
    BY DEF Documented
  <2>1. contributed[h] \in Nat /\ rows[h] \in Nat
    BY DEF SyncInv, SyncTypeOK
  <2>2. /\ Cardinality(Contributing(h)) \in Nat /\ Cardinality(Contributing(h)') \in Nat
        /\ IF h \in sync[p].event
             THEN Cardinality(Contributing(h)') = Cardinality(Contributing(h)) - 1
             ELSE Cardinality(Contributing(h)') = Cardinality(Contributing(h))
    BY HandsCounted
  <2> QED
    BY <2>1, <2>2 DEF SyncInv, Documented
<1>8. Known'
  BY KnownKept
<1> QED
  BY <1>5, <1>6, <1>7, <1>8 DEF SyncInv

\* An event is stored, and a new one may be about to become a document.
LEMMA CreateKeepsSync ==
  ASSUME SyncInv, NEW p \in Process, NEW h \in Happening, UNCHANGED now, CreateIfNew(p, h)
  PROVE  SyncInv'
<1> DEFINE goes == IsNew(h) /\ "knowledge" \in carries[h]
           step == IF goes THEN "contribute" ELSE "store"
           event == IF goes THEN {h} ELSE {}
           todo == sync[p].todo \ {h}
           row == IF goes
                    THEN [sync[p] EXCEPT !.at = "contribute", !.todo = @ \ {h}, !.event = {h}]
                    ELSE [sync[p] EXCEPT !.todo = @ \ {h}]
<1>0. sync[p].at = "store" /\ sync[p].event = {} /\ h \in sync[p].todo
  BY SyncFields DEF CreateIfNew, SyncInv, SyncAt
<1> HIDE DEF goes
<1>1. /\ row \in Syncing
      /\ row.at = step /\ row.config = sync[p].config /\ row.todo = todo
      /\ row.event = event /\ row.next = sync[p].next
  <2>1. CASE goes
    BY <1>0, <2>1, SyncFields DEF SyncInv, Syncing
  <2>2. CASE ~goes
    BY <1>0, <2>2, SyncFields DEF SyncInv, Syncing
  <2> QED
    BY <2>1, <2>2
<1>2. SyncMoved(p, step, sync[p].config, todo, event, sync[p].next)
  <2>1. sync' = [sync EXCEPT ![p] = row]
    <3>1. CASE goes
      <4>1. row = [sync[p] EXCEPT !.at = "contribute", !.todo = @ \ {h}, !.event = {h}]
        BY <3>1
      <4>2. sync' = [sync EXCEPT ![p].at = "contribute", ![p].todo = @ \ {h}, ![p].event = {h}]
        BY <3>1 DEF CreateIfNew, goes
      <4> HIDE DEF row
      <4> QED
        BY <4>1, <4>2
    <3>2. CASE ~goes
      <4>1. row = [sync[p] EXCEPT !.todo = @ \ {h}]
        BY <3>2
      <4>2. sync' = [sync EXCEPT ![p].todo = @ \ {h}]
        BY <3>2 DEF CreateIfNew, goes
      <4> HIDE DEF row
      <4> QED
        BY <4>1, <4>2
    <3> QED
      BY <3>1, <3>2
  <2> HIDE DEF row
  <2>2. SyncMoved(p, row.at, row.config, row.todo, row.event, row.next)
    <3>1. step = "contribute" <=> event # {}
      OBVIOUS
    <3> QED
      BY <1>1, <2>1, <3>1, SyncSet DEF SyncInv
  <2> QED
    BY <1>1, <2>2
<1>3. UNCHANGED <<now, polled, arrived, carries, config, contributed, skipped, dropped>>
  BY DEF CreateIfNew
<1>4. /\ rows' \in [Happening -> Nat]
      /\ rows'[h] = IF IsNew(h) THEN rows[h] + 1 ELSE rows[h]
      /\ \A e \in Happening \ {h} : rows'[e] = rows[e]
  BY DEF CreateIfNew, SyncInv, SyncTypeOK
<1>5. rows[h] \in Nat /\ rows'[h] > 0
  BY <1>4 DEF SyncInv, SyncTypeOK, IsNew
<1>6. NothingForgotten
  BY <1>3, <1>4, <1>5 DEF NothingForgotten
<1>7. /\ Covered(config.cursor, {}) /\ Covered(sync[p].config.cursor, {})
      /\ Covered(sync[p].next, sync[p].todo)
  BY DEF SyncInv, CursorsCover
<1>8. CoveredNext(sync[p].next, todo)
  <2>1. CoveredNext(sync[p].next, sync[p].todo)
    BY <1>6, <1>7, CoverageGrows
  <2> QED
    BY <1>5, <2>1 DEF CoveredNext
<1>9. step = "contribute" <=> event # {}
  OBVIOUS
<1>10. h \in event <=> goes
  OBVIOUS
<1>11. event \subseteq {h} /\ todo \subseteq sync[p].todo
  OBVIOUS
<1> HIDE DEF step, event, todo
<1>12. CursorsCover'
  BY <1>2, <1>3, <1>6, <1>7, <1>8, CursorsKept, CoverageGrows
<1>13. SyncTypeOK'
  BY <1>2, <1>3, <1>4, <1>9, SyncTypesKept DEF SyncInv, SyncTypeOK, Config
<1>14. Documented'
  <2> SUFFICES ASSUME NEW e \in Happening
               PROVE  /\ "id" \in carries[e] => rows'[e] <= 1
                      /\ contributed[e] + Cardinality(Contributing(e)') <= rows'[e]
                      /\ "knowledge" \in carries[e] /\ e \notin dropped =>
                           contributed[e] + Cardinality(Contributing(e)') = rows'[e]
    BY <1>3 DEF Documented
  <2>1. contributed[e] \in Nat /\ rows[e] \in Nat /\ rows'[e] \in Nat
    BY <1>4 DEF SyncInv, SyncTypeOK
  <2>2. /\ Cardinality(Contributing(e)) \in Nat /\ Cardinality(Contributing(e)') \in Nat
        /\ IF e \in event
             THEN Cardinality(Contributing(e)') = Cardinality(Contributing(e)) + 1
             ELSE Cardinality(Contributing(e)') = Cardinality(Contributing(e))
    BY <1>0, <1>2, HandsCounted
  <2>3. CASE e = h
    BY <1>4, <1>10, <2>1, <2>2, <2>3 DEF SyncInv, Documented, IsNew, goes
  <2>4. CASE e # h
    BY <1>4, <1>11, <2>1, <2>2, <2>4 DEF SyncInv, Documented
  <2> QED
    BY <2>3, <2>4
<1>15. Known'
  <2>1. h \in Arrived /\ todo \subseteq Arrived
    BY <1>0, <1>11 DEF SyncInv, Known
  <2> QED
    BY <1>2, <1>3, <1>4, <2>1, KnownKept
<1> QED
  BY <1>12, <1>13, <1>14, <1>15 DEF SyncInv

\* An event leaves the hands of a process; the config has a cursor that was read.
LEMMA HandingKeepsSync ==
  ASSUME SyncInv, NEW p \in Process,
         sync' = [sync EXCEPT ![p].at = "store", ![p].event = {}],
         config' \in {config, ResolvedConfig(p)},
         UNCHANGED <<now, polled, arrived, carries, rows, skipped>>,
         contributed' \in [Happening -> Nat],
         dropped \subseteq dropped', dropped' \subseteq Happening
  PROVE  /\ SyncMoved(p, "store", sync[p].config, sync[p].todo, {}, sync[p].next)
         /\ SyncTypeOK' /\ CursorsCover' /\ Known'
<1> DEFINE row == [sync[p] EXCEPT !.at = "store", !.event = {}]
<1>1. /\ row \in Syncing
      /\ row.at = "store" /\ row.config = sync[p].config /\ row.todo = sync[p].todo
      /\ row.event = {} /\ row.next = sync[p].next
  BY SyncFields DEF Syncing, SyncInv
<1>2. SyncMoved(p, "store", sync[p].config, sync[p].todo, {}, sync[p].next)
  <2>1. sync' = [sync EXCEPT ![p] = row]
    OBVIOUS
  <2> HIDE DEF row
  <2>2. SyncMoved(p, row.at, row.config, row.todo, row.event, row.next)
    BY <1>1, <2>1, SyncSet DEF SyncInv
  <2> QED
    BY <1>1, <2>2
<1>3. NothingForgotten
  BY DEF NothingForgotten
<1>4. /\ Covered(config.cursor, {}) /\ Covered(sync[p].config.cursor, {})
      /\ Covered(sync[p].next, sync[p].todo)
  BY DEF SyncInv, CursorsCover
<1>5. /\ config' \in Config
      /\ config'.cursor = config.cursor \/ config'.cursor = sync[p].config.cursor
  <2>1. config \in Config /\ sync[p].config \in Config
    BY SyncFields DEF SyncInv, Syncing
  <2>2. CASE config' = config
    BY <2>1, <2>2
  <2>3. CASE config' = [sync[p].config EXCEPT !.source = TRUE]
    BY <2>1, <2>3 DEF Config
  <2> QED
    BY <2>2, <2>3 DEF ResolvedConfig
<1>6. CursorsCover'
  BY <1>2, <1>3, <1>4, <1>5, CursorsKept, CoverageGrows
<1>7. SyncTypeOK'
  <2>1. rows' \in [Happening -> Nat] /\ skipped' \union dropped' \subseteq Happening
    BY DEF SyncInv, SyncTypeOK
  <2> QED
    BY <1>2, <1>5, <2>1, SyncTypesKept
<1>8. Known'
  BY <1>2, KnownKept DEF SyncInv, Known
<1> QED
  BY <1>2, <1>6, <1>7, <1>8

\* An event becomes a document, or is dropped.
LEMMA ContributeKeepsSync ==
  ASSUME SyncInv, NEW p \in Process, UNCHANGED now, Contribute(p) \/ ContributeFails(p)
  PROVE  SyncInv'
<1>1. contributed' \in [Happening -> Nat] /\ sync[p].event \subseteq Happening
  BY SyncFields DEF SyncInv, SyncTypeOK, Syncing, Contribute, ContributeFails
<1>2. /\ sync' = [sync EXCEPT ![p].at = "store", ![p].event = {}]
      /\ config' \in {config, ResolvedConfig(p)}
      /\ UNCHANGED <<now, polled, arrived, carries, rows, skipped>>
      /\ dropped \subseteq dropped' /\ dropped' \subseteq Happening
  BY <1>1 DEF Contribute, ContributeFails, SyncInv, SyncTypeOK
<1>3. /\ SyncMoved(p, "store", sync[p].config, sync[p].todo, {}, sync[p].next)
      /\ SyncTypeOK' /\ CursorsCover' /\ Known'
  BY <1>1, <1>2, HandingKeepsSync
<1>4. Documented'
  <2> SUFFICES ASSUME NEW h \in Happening
               PROVE  /\ "id" \in carries[h] => rows[h] <= 1
                      /\ contributed'[h] + Cardinality(Contributing(h)') <= rows[h]
                      /\ "knowledge" \in carries[h] /\ h \notin dropped' =>
                           contributed'[h] + Cardinality(Contributing(h)') = rows[h]
    BY <1>2 DEF Documented
  <2>1. contributed[h] \in Nat /\ rows[h] \in Nat
    BY DEF SyncInv, SyncTypeOK
  <2>2. /\ Cardinality(Contributing(h)) \in Nat /\ Cardinality(Contributing(h)') \in Nat
        /\ IF h \in sync[p].event
             THEN Cardinality(Contributing(h)') = Cardinality(Contributing(h)) - 1
             ELSE Cardinality(Contributing(h)') = Cardinality(Contributing(h))
    BY <1>3, HandsCounted
  <2>3. CASE Contribute(p)
    <3>1. contributed'[h] = contributed[h] + IF h \in sync[p].event THEN 1 ELSE 0
      BY <2>3 DEF Contribute
    <3>2. dropped' = dropped
      BY <2>3 DEF Contribute
    <3> QED
      BY <2>1, <2>2, <3>1, <3>2 DEF SyncInv, Documented
  <2>4. CASE ContributeFails(p)
    <3>1. contributed' = contributed /\ dropped' = dropped \union sync[p].event
      BY <2>4 DEF ContributeFails
    <3> QED
      BY <2>1, <2>2, <3>1 DEF SyncInv, Documented
  <2> QED
    BY <2>3, <2>4
<1> QED
  BY <1>3, <1>4 DEF SyncInv

\* A sync counts what it could not store; who received it by a post leaves.
LEMMA CreateFailsKeepsSync ==
  ASSUME SyncInv, NEW p \in Process, NEW h \in Happening, UNCHANGED now, CreateFails(p, h)
  PROVE  SyncInv'
<1>0. sync[p].at = "store" /\ sync[p].event = {}
  BY SyncFields DEF CreateFails, SyncInv, SyncAt
<1>a. CASE ~polled
  <2>1. sync' = [sync EXCEPT ![p] = NotSyncing] /\ dropped' = dropped \union sync[p].event
        /\ UNCHANGED <<now, polled, arrived, carries, config, rows, contributed, skipped>>
    BY <1>0, <1>a DEF CreateFails
  <2> QED
    BY <2>1, SyncLeft, LeavingKeepsSync DEF SyncInv
<1>b. CASE polled
  <2> DEFINE row == [sync[p] EXCEPT !.todo = @ \ {h}]
             todo == sync[p].todo \ {h}
  <2>1. /\ row \in Syncing
        /\ row.at = "store" /\ row.config = sync[p].config /\ row.todo = todo
        /\ row.event = {} /\ row.next = sync[p].next
    BY <1>0, SyncFields DEF Syncing, SyncInv
  <2>2. SyncMoved(p, "store", sync[p].config, todo, {}, sync[p].next)
    <3>1. sync' = [sync EXCEPT ![p] = row]
      BY <1>b DEF CreateFails
    <3> HIDE DEF row
    <3>2. SyncMoved(p, row.at, row.config, row.todo, row.event, row.next)
      BY <2>1, <3>1, SyncSet DEF SyncInv
    <3> QED
      BY <2>1, <3>2
  <2>3. /\ UNCHANGED <<now, polled, arrived, carries, config, rows, contributed, skipped>>
        /\ dropped' = dropped \union {h}
    BY <1>b DEF CreateFails
  <2>4. /\ Covered(config.cursor, {}) /\ Covered(sync[p].config.cursor, {})
        /\ Covered(sync[p].next, sync[p].todo)
    BY DEF SyncInv, CursorsCover
  <2>5. NothingForgotten
    BY <2>3 DEF NothingForgotten
  <2>6. CoveredNext(sync[p].next, todo)
    BY <2>3, <2>4 DEF Covered, CoveredNext
  <2>7. todo \subseteq Arrived
    BY DEF SyncInv, Known
  <2> HIDE DEF todo
  <2>8. CursorsCover'
    BY <2>2, <2>3, <2>4, <2>5, <2>6, CursorsKept, CoverageGrows
  <2>9. SyncTypeOK'
    BY <2>2, <2>3, SyncTypesKept DEF SyncInv, SyncTypeOK, Config
  <2>10. Documented'
    BY <1>0, <2>2, <2>3, DocumentsKept
  <2>11. Known'
    BY <2>2, <2>3, <2>7, KnownKept
  <2> QED
    BY <2>8, <2>9, <2>10, <2>11 DEF SyncInv
<1> QED
  BY <1>a, <1>b

\* The cursor is written when nothing is left in hands.
LEMMA FinishKeepsSync ==
  ASSUME SyncInv, NEW p \in Process, UNCHANGED now, FinishSync(p)
  PROVE  SyncInv'
<1>1. SyncMoved(p, "no", EmptyConfig, {}, {}, 0)
  BY SyncLeft DEF FinishSync, SyncInv
<1>2. /\ UNCHANGED <<now, polled, arrived, carries, rows, contributed, skipped, dropped>>
      /\ sync[p].event = {} /\ sync[p].todo = {}
  BY SyncFields DEF FinishSync, SyncInv, SyncAt
<1>3. config' \in Config /\ (config'.cursor = config.cursor \/ config'.cursor = sync[p].next)
  <2>1. config \in Config /\ sync[p].config \in Config /\ sync[p].next \in 0..MaxTime
    BY SyncFields DEF SyncInv, Syncing
  <2>2. CASE ~polled
    BY <2>1, <2>2 DEF FinishSync
  <2>3. CASE polled
    <3>1. config' = [sync[p].config EXCEPT !.cursor = sync[p].next]
      BY <2>3 DEF FinishSync
    <3> QED
      BY <2>1, <3>1 DEF Config
  <2> QED
    BY <2>2, <2>3
<1>4. Covered(config.cursor, {}) /\ Covered(sync[p].next, {})
  BY <1>2 DEF SyncInv, CursorsCover
<1>5. EmptyConfig.cursor = 0
  BY DEF EmptyConfig, Unset
<1>6. NothingForgotten
  BY <1>2 DEF NothingForgotten
<1>7. CursorsCover'
  BY <1>1, <1>3, <1>4, <1>5, <1>6, CursorsAtStart, CursorsKept, CoverageGrows
<1>8. SyncTypeOK'
  BY <1>1, <1>2, <1>3, SyncTypesKept DEF SyncInv, SyncTypeOK
<1>9. Documented'
  BY <1>1, <1>2, DocumentsKept
<1>10. Known'
  BY <1>1, <1>2, KnownKept
<1> QED
  BY <1>7, <1>8, <1>9, <1>10 DEF SyncInv

\* What comes about has no row yet, and is noted if a cursor is ahead of it.
LEMMA HappenKeepsSync ==
  ASSUME SyncInv, NEW h \in Happening, UNCHANGED now, Happen(h)
  PROVE  SyncInv'
<1>1. /\ h \in Happening \ Arrived /\ now \in 0..MaxTime /\ NotYet \notin 0..MaxTime
      /\ UNCHANGED <<now, polled, config, sync, rows, contributed, dropped>>
      /\ skipped \subseteq skipped' /\ skipped' \subseteq skipped \union {h}
      /\ (\E c \in Cursors : now < c) => h \in skipped'
  BY ProcessAssumption DEF Happen, Arrived, NotYet, SyncInv, CursorsCover
<1>2. /\ arrived' \in [Happening -> 0..NotYet]
      /\ arrived'[h] = now /\ \A e \in Happening \ {h} : arrived'[e] = arrived[e]
  BY <1>1, ProcessAssumption DEF Happen, SyncInv, SyncTypeOK, NotYet
<1>3. /\ carries' \in [Happening -> SUBSET {"id", "knowledge"}]
      /\ \A e \in Happening \ {h} : carries'[e] = carries[e]
  BY DEF Happen, SyncInv, SyncTypeOK
<1>4. SyncTypeOK'
  BY <1>1, <1>2, <1>3 DEF SyncInv, SyncTypeOK, SyncAt
<1>5. Documented'
  <2>1. \A e \in Happening : Contributing(e)' = Contributing(e)
    BY <1>1 DEF Contributing
  <2>2. /\ rows[h] = 0 /\ contributed[h] \in Nat
        /\ contributed[h] + Cardinality(Contributing(h)) <= 0
        /\ Cardinality(Contributing(h)) \in Nat
    <3>1. IsFiniteSet(Contributing(h))
      BY ProcessAssumption, FS_Subset DEF Contributing
    <3> QED
      BY <1>1, <3>1, FS_CardinalityType DEF SyncInv, SyncTypeOK, Documented, Known
  <2>3. contributed[h] + Cardinality(Contributing(h)) = 0
    BY <2>2
  <2> QED
    BY <1>1, <1>3, <2>1, <2>2, <2>3 DEF SyncInv, Documented
<1>6. Known'
  BY <1>1, <1>2 DEF SyncInv, Known, Arrived
<1>7. ASSUME NEW time \in Cursors, NEW hands, Covered(time, hands)
      PROVE  CoveredNext(time, hands)
  BY <1>1, <1>2, <1>7 DEF Covered, CoveredNext
<1>8. CursorsCover'
  <2>1. /\ CoveredNext(config.cursor, {})
        /\ \A p \in Process :
             /\ CoveredNext(sync[p].config.cursor, {})
             /\ CoveredNext(sync[p].next, sync[p].todo)
    BY <1>7 DEF SyncInv, CursorsCover, Cursors
  <2> QED
    BY <1>1, <2>1 DEF CursorsCover, Covered, CoveredNext
<1> QED
  BY <1>4, <1>5, <1>6, <1>8 DEF SyncInv

\* A client empties the config; time passes.
LEMMA OutsideKeepsSync ==
  ASSUME SyncInv,
         UNCHANGED <<polled, arrived, carries, sync, rows, contributed, skipped, dropped>>,
         (UNCHANGED now /\ UpdateConfig) \/ (Tick /\ UNCHANGED config)
  PROVE  SyncInv'
<1>1. Documented' /\ Known'
  BY DEF SyncInv, Documented, Known, Contributing, Arrived
<1>2. config' = config \/ config' = EmptyConfig
  BY DEF UpdateConfig
<1>3. config \in Config /\ EmptyConfig \in Config /\ EmptyConfig.cursor = 0
  BY ProcessAssumption DEF SyncInv, SyncTypeOK, EmptyConfig, Unset, Config
<1>4. SyncTypeOK'
  BY <1>2, <1>3 DEF SyncInv, SyncTypeOK, Config, SyncAt
<1>5. now' \in 0..MaxTime
  BY ProcessAssumption DEF SyncInv, CursorsCover, Tick
<1>6. CoveredNext(config'.cursor, {})
  BY <1>2, <1>3, CursorsAtStart DEF Covered, CoveredNext
<1>7. CursorsCover'
  BY <1>5, <1>6 DEF SyncInv, CursorsCover, Covered, CoveredNext
<1> QED
  BY <1>1, <1>4, <1>7 DEF SyncInv

LEMMA SyncInvNext == SyncInv /\ [SyncNext]_<<now, syncVars>> => SyncInv'
<1> SUFFICES ASSUME SyncInv, [SyncNext]_<<now, syncVars>>
             PROVE  SyncInv'
  OBVIOUS
<1>1. ASSUME NEW p \in Process, UNCHANGED now, SyncStops(p)
      PROVE  SyncInv'
  <2>1. SyncMoved(p, "no", EmptyConfig, {}, {}, 0)
    BY <1>1, SyncLeft DEF SyncStops, SyncInv
  <2> QED
    BY <1>1, <2>1, LeavingKeepsSync DEF SyncStops
<1>2. CASE Tick /\ UNCHANGED syncVars
  BY <1>2, OutsideKeepsSync DEF syncVars
<1>3. CASE UNCHANGED now /\ UpdateConfig
  BY <1>3, OutsideKeepsSync DEF UpdateConfig
<1>4. CASE UNCHANGED <<now, syncVars>>
  BY <1>4 DEF syncVars, SyncInv, SyncTypeOK, Documented, Contributing, Known, Arrived,
              CursorsCover, Covered, SyncAt
<1>5. ASSUME NEW p \in Process, UNCHANGED now, StartSync(p)
      PROVE  SyncInv'
  BY <1>5, BeginningKeepsSync DEF StartSync
<1>6. ASSUME NEW p \in Process, UNCHANGED now, Receive(p)
      PROVE  SyncInv'
  BY <1>6, BeginningKeepsSync DEF Receive
<1> QED
  BY <1>1, <1>2, <1>3, <1>4, <1>5, <1>6, HappenKeepsSync, EndPollKeepsSync, CreateKeepsSync,
     ContributeKeepsSync, CreateFailsKeepsSync, FinishKeepsSync DEF SyncNext

-----------------------------------------------------------------------------
\* The connection, its events and who syncs are well typed.
THEOREM SyncTypeCorrect == SyncSpec => []SyncTypeOK
<1>1. SyncInv => SyncTypeOK
  BY DEF SyncInv
<1> QED
  BY <1>1, SyncInvInit, SyncInvNext, PTL DEF SyncSpec

\* An event with an id has one row, every row of the kind becomes one document, and what
\* a cursor leaves behind without a row was dropped by a failure, or listed by no poll.
THEOREM EventsKept == SyncSpec => []EventsAccountedFor
<1>1. SyncInv => EventsAccountedFor
  <2> SUFFICES ASSUME SyncInv, NEW h \in Happening
               PROVE  /\ "id" \in carries[h] => rows[h] <= 1
                      /\ contributed[h] + Cardinality(Contributing(h)) <= rows[h]
                      /\ "knowledge" \in carries[h] /\ h \notin dropped =>
                           contributed[h] + Cardinality(Contributing(h)) = rows[h]
                      /\ rows[h] = 0 /\ arrived[h] < config.cursor =>
                           h \in skipped \union dropped
    BY DEF EventsAccountedFor
  <2>1. arrived[h] < config.cursor => rows[h] > 0 \/ h \in skipped \union dropped
    BY DEF SyncInv, CursorsCover, Covered
  <2> QED
    BY <2>1 DEF SyncInv, Documented
<1> QED
  BY <1>1, SyncInvInit, SyncInvNext, PTL DEF SyncSpec

-----------------------------------------------------------------------------
(* The messages of a conversation.                                          *)

Receiving == [at : {"no", "look", "thread", "open", "store", "tell"}, message : SUBSET Inbound]

ReceivingMoved(p, step, message) ==
  /\ receiving' \in [Process -> Receiving]
  /\ receiving'[p].at = step /\ receiving'[p].message = message
  /\ \A q \in Process \ {p} : receiving'[q] = receiving[q]

LEMMA ReceivingSet ==
  ASSUME receiving \in [Process -> Receiving], NEW p \in Process, NEW row \in Receiving,
         receiving' = [receiving EXCEPT ![p] = row]
  PROVE  ReceivingMoved(p, row.at, row.message)
  BY DEF Receiving, ReceivingMoved

LEMMA IngestGotoMoves ==
  ASSUME receiving \in [Process -> Receiving], NEW p \in Process, NEW step,
         step \in {"look", "thread", "open", "store", "tell"}, IngestGoto(p, step)
  PROVE  ReceivingMoved(p, step, receiving[p].message)
  BY DEF Receiving, ReceivingMoved, IngestGoto

LEMMA ReceivingLeft ==
  ASSUME receiving \in [Process -> Receiving], NEW p \in Process,
         receiving' = [receiving EXCEPT ![p] = NotIngestingMessage]
  PROVE  ReceivingMoved(p, "no", {})
  BY DEF Receiving, ReceivingMoved, NotIngestingMessage

\* Who will store the message without looking again.
Storers(m) ==
  {p \in Process : m \in receiving[p].message /\ receiving[p].at \in {"thread", "open", "store"}}

\* A process that ingests has one message in its hands.
OneInHands ==
  \A p \in Process :
    IF receiving[p].at = "no" THEN receiving[p].message = {}
    ELSE \E m \in Inbound : receiving[p].message = {m}

\* What was answered is stored; of what is stored the platform was told, or will be,
\* unless somebody stopped halfway.
StoredAndTold ==
  \A m \in Inbound :
    /\ m \in answered => copies[m] > 0
    /\ \A p \in Process : receiving[p].at = "tell" /\ m \in receiving[p].message => copies[m] > 0
    /\ copies[m] > 0 => \/ m \in told \union halfway
                        \/ \E p \in Process : receiving[p].at = "tell" /\ m \in receiving[p].message

\* A message that was never in two hands at once is about to be stored only if it is not.
OnceIfNotTwice ==
  \A m \in Inbound \ twice :
    /\ \A p, q \in Process : m \in receiving[p].message /\ m \in receiving[q].message => p = q
    /\ \A p \in Storers(m) : copies[m] = 0
    /\ copies[m] <= 1

\* Who looked before there was a copy may store one more, and nobody else.
CopiesLeft ==
  \A m \in Inbound : copies[m] + Cardinality(Storers(m)) <= Cardinality(Process)

\* Where it was never crowded, who opens a conversation opens the first.
OneIfNotCrowded ==
  ~crowded =>
    /\ \A p, q \in Process : receiving[p].at # "no" /\ receiving[q].at # "no" => p = q
    /\ \A p \in Process : receiving[p].at = "open" => opened = {}
    /\ \A p, q \in opened : p = q

\* Reports come after the channel's id, each after those before it, and the row says
\* what the last of them said.
ReportsInOrder ==
  /\ outbound.at \in {"create", "send"} => fate = << >> /\ applied = 0 /\ ~outbound.hasExternalId
  /\ ~unreliable =>
       /\ outbound.at = "save" => reports = DOMAIN fate /\ applied = 0 /\ ~outbound.hasExternalId
       /\ outbound.at \in {"record", "done"} /\ fate # << >> => outbound.hasExternalId
       /\ \A n \in DOMAIN fate \ reports : n <= applied
       /\ applied # 0 => outbound.status = fate[applied]

ConversationInv ==
  /\ ConversationTypeOK
  /\ OneInHands /\ StoredAndTold /\ OnceIfNotTwice /\ CopiesLeft /\ OneIfNotCrowded
  /\ ReportsInOrder

LEMMA ConversationInvInit == ConversationInit => ConversationInv
<1> SUFFICES ASSUME ConversationInit
             PROVE  ConversationInv
  OBVIOUS
<1> USE DEF ConversationInit, NotIngestingMessage
<1>1. ConversationTypeOK
  BY DEF ConversationTypeOK, Status
<1>2. OneInHands /\ StoredAndTold /\ OnceIfNotTwice /\ OneIfNotCrowded
  BY DEF OneInHands, StoredAndTold, OnceIfNotTwice, OneIfNotCrowded, Storers
<1>3. CopiesLeft
  <2>1. \A m \in Inbound : Storers(m) = {}
    BY DEF Storers
  <2>2. Cardinality(Process) \in Nat /\ Cardinality({}) = 0
    BY FS_EmptySet, FS_CardinalityType, ProcessAssumption
  <2>3. ASSUME NEW m \in Inbound
        PROVE  copies[m] + Cardinality(Storers(m)) <= Cardinality(Process)
    <3>1. copies[m] = 0 /\ Cardinality(Storers(m)) = 0
      BY <2>1, <2>2
    <3> QED
      BY <2>2, <3>1
  <2> QED
    BY <2>3 DEF CopiesLeft
<1>4. ReportsInOrder
  BY DEF ReportsInOrder
<1> QED
  BY <1>1, <1>2, <1>3, <1>4 DEF ConversationInv

-----------------------------------------------------------------------------
\* Who may still store a message is a finite set.
LEMMA StorersFinite ==
  ASSUME NEW m \in Inbound
  PROVE  /\ IsFiniteSet(Storers(m)) /\ Cardinality(Storers(m)) \in Nat
         /\ Cardinality(Process) \in Nat /\ Cardinality(Storers(m)) <= Cardinality(Process)
         /\ IsFiniteSet(Storers(m)') /\ Cardinality(Storers(m)') \in Nat
         /\ Cardinality(Storers(m)') <= Cardinality(Process)
<1>1. Storers(m) \subseteq Process /\ Storers(m)' \subseteq Process
  BY DEF Storers
<1> QED
  BY <1>1, FS_Subset, FS_CardinalityType, ProcessAssumption

LEMMA CopiesKept ==
  ASSUME CopiesLeft, NEW m \in Inbound, copies[m] \in Nat,
         copies'[m] = 0 \/ (copies'[m] = copies[m] /\ Storers(m)' \subseteq Storers(m))
  PROVE  copies'[m] + Cardinality(Storers(m)') <= Cardinality(Process)
<1>1. CASE copies'[m] = 0
  BY <1>1, StorersFinite
<1>2. CASE copies'[m] = copies[m] /\ Storers(m)' \subseteq Storers(m)
  <2>1. Cardinality(Storers(m)') <= Cardinality(Storers(m))
    BY <1>2, StorersFinite, FS_Subset
  <2> QED
    BY <1>2, <2>1, StorersFinite DEF CopiesLeft
<1> QED
  BY <1>1, <1>2

\* What an ingestion does not touch.
LEMMA OutboundKept ==
  ASSUME ConversationInv, UNCHANGED <<direction, outboundVars>>
  PROVE  ReportsInOrder'
  BY DEF ConversationInv, ReportsInOrder, outboundVars

LEMMA InboundTypes ==
  ASSUME ConversationInv, UNCHANGED <<direction, outboundVars>>,
         opened' \subseteq Process, copies' \in [Inbound -> Nat],
         receiving' \in [Process -> Receiving],
         answered' \union told' \union twice' \union halfway' \subseteq Inbound,
         crowded' \in BOOLEAN
  PROVE  ConversationTypeOK'
  BY DEF ConversationInv, ConversationTypeOK, outboundVars, Receiving

\* What the state of those who ingest is made of.
LEMMA InboundTyped ==
  ASSUME ConversationInv
  PROVE  /\ opened \subseteq Process /\ copies \in [Inbound -> Nat]
         /\ receiving \in [Process -> Receiving]
         /\ answered \union told \union twice \union halfway \subseteq Inbound
         /\ crowded \in BOOLEAN
  BY DEF ConversationInv, ConversationTypeOK, Receiving

\* Who takes a message that somebody has makes it one of those in two hands.
LEMMA ReceiveKeepsInv ==
  ASSUME ConversationInv, NEW p \in Process, NEW m \in Inbound, ReceiveMessage(p, m)
  PROVE  ConversationInv'
<1> USE InboundTyped
<1>1. /\ UNCHANGED <<direction, opened, copies, answered, told, halfway, outboundVars>>
      /\ receiving[p].at = "no"
      /\ twice' = IF \E q \in Process : m \in receiving[q].message THEN twice \union {m} ELSE twice
      /\ crowded' = (crowded \/ \E q \in Process : receiving[q].at # "no")
  BY DEF ReceiveMessage, Ingesting, IngestAt
<1>2. ReceivingMoved(p, "look", {m})
  <2> DEFINE row == [at |-> "look", message |-> {m}]
  <2>1. row \in Receiving /\ receiving' = [receiving EXCEPT ![p] = row]
    BY DEF ReceiveMessage, Receiving
  <2>2. ReceivingMoved(p, row.at, row.message)
    BY <2>1, ReceivingSet
  <2> QED
    BY <2>2
<1>3. ReportsInOrder'
  BY <1>1, OutboundKept
<1> USE DEF ReceivingMoved, ConversationInv
<1>4. ConversationTypeOK'
  BY <1>1, <1>2, InboundTypes
<1>5. OneInHands'
  BY <1>1, <1>2 DEF OneInHands
<1>6. StoredAndTold'
  BY <1>1, <1>2 DEF StoredAndTold, OneInHands
<1>7. OnceIfNotTwice'
  BY <1>1, <1>2 DEF OnceIfNotTwice, Storers, OneInHands
<1>8. OneIfNotCrowded'
  BY <1>1, <1>2 DEF OneIfNotCrowded
<1>9. CopiesLeft'
  <2> SUFFICES ASSUME NEW n \in Inbound
               PROVE  copies'[n] + Cardinality(Storers(n)') <= Cardinality(Process)
    BY DEF CopiesLeft
  <2>1. copies'[n] = copies[n] /\ Storers(n)' \subseteq Storers(n)
    BY <1>1, <1>2 DEF Storers
  <2> QED
    BY <2>1, CopiesKept
<1> QED
  BY <1>3, <1>4, <1>5, <1>6, <1>7, <1>8, <1>9

\* A conversation is opened after none was found.
LEMMA ThreadKeepsInv ==
  ASSUME ConversationInv, NEW p \in Process, FindConversation(p)
  PROVE  ConversationInv'
<1> USE InboundTyped
<1>1. /\ UNCHANGED <<direction, opened, copies, answered, told, twice, crowded, halfway,
                     outboundVars>>
      /\ receiving[p].at = "thread"
  BY DEF FindConversation, IngestAt
<1>2. IF opened = {} THEN ReceivingMoved(p, "open", receiving[p].message)
                     ELSE ReceivingMoved(p, "store", receiving[p].message)
  BY IngestGotoMoves DEF FindConversation
<1>3. ReportsInOrder'
  BY <1>1, OutboundKept
<1> USE DEF ReceivingMoved, ConversationInv
<1>4. ConversationTypeOK'
  BY <1>1, <1>2, InboundTypes
<1>5. OneInHands'
  BY <1>1, <1>2 DEF OneInHands
<1>6. StoredAndTold'
  BY <1>1, <1>2 DEF StoredAndTold, OneInHands
<1>7. OnceIfNotTwice'
  BY <1>1, <1>2 DEF OnceIfNotTwice, Storers, OneInHands
<1>8. OneIfNotCrowded'
  BY <1>1, <1>2 DEF OneIfNotCrowded
<1>9. CopiesLeft'
  <2> SUFFICES ASSUME NEW m \in Inbound
               PROVE  copies'[m] + Cardinality(Storers(m)') <= Cardinality(Process)
    BY DEF CopiesLeft
  <2>1. copies'[m] = copies[m] /\ Storers(m)' \subseteq Storers(m)
    BY <1>1, <1>2 DEF Storers
  <2> QED
    BY <2>1, CopiesKept
<1> QED
  BY <1>3, <1>4, <1>5, <1>6, <1>7, <1>8, <1>9

\* It is the only one, where it was never crowded.
LEMMA OpenKeepsInv ==
  ASSUME ConversationInv, NEW p \in Process, CreateConversation(p)
  PROVE  ConversationInv'
<1> USE InboundTyped
<1>1. /\ UNCHANGED <<direction, copies, answered, told, twice, crowded, halfway, outboundVars>>
      /\ receiving[p].at = "open" /\ opened' = opened \union {p}
  BY DEF CreateConversation, IngestAt
<1>2. ReceivingMoved(p, "store", receiving[p].message)
  BY IngestGotoMoves DEF CreateConversation
<1>3. ReportsInOrder'
  BY <1>1, OutboundKept
<1> USE DEF ReceivingMoved, ConversationInv
<1>4. ConversationTypeOK'
  BY <1>1, <1>2, InboundTypes
<1>5. OneInHands'
  BY <1>1, <1>2 DEF OneInHands
<1>6. StoredAndTold'
  BY <1>1, <1>2 DEF StoredAndTold, OneInHands
<1>7. OnceIfNotTwice'
  BY <1>1, <1>2 DEF OnceIfNotTwice, Storers, OneInHands
<1>8. OneIfNotCrowded'
  BY <1>1, <1>2 DEF OneIfNotCrowded
<1>9. CopiesLeft'
  <2> SUFFICES ASSUME NEW m \in Inbound
               PROVE  copies'[m] + Cardinality(Storers(m)') <= Cardinality(Process)
    BY DEF CopiesLeft
  <2>1. copies'[m] = copies[m] /\ Storers(m)' \subseteq Storers(m)
    BY <1>1, <1>2 DEF Storers
  <2> QED
    BY <2>1, CopiesKept
<1> QED
  BY <1>3, <1>4, <1>5, <1>6, <1>7, <1>8, <1>9

\* A message is answered after it was stored.
LEMMA TellKeepsInv ==
  ASSUME ConversationInv, NEW p \in Process, Tell(p)
  PROVE  ConversationInv'
<1> USE InboundTyped
<1>1. /\ UNCHANGED <<direction, opened, copies, twice, crowded, halfway, outboundVars>>
      /\ receiving[p].at = "tell" /\ receiving[p].message \subseteq Inbound
      /\ told' = told \union receiving[p].message
      /\ answered' = answered \union receiving[p].message
  BY DEF Tell, IngestAt, Answer, Receiving
<1>2. ReceivingMoved(p, "no", {})
  BY ReceivingLeft DEF Tell, Answer
<1>3. ReportsInOrder'
  BY <1>1, OutboundKept
<1> USE DEF ReceivingMoved, ConversationInv
<1>4. ConversationTypeOK'
  BY <1>1, <1>2, InboundTypes
<1>5. OneInHands'
  BY <1>1, <1>2 DEF OneInHands
<1>6. StoredAndTold'
  BY <1>1, <1>2 DEF StoredAndTold, OneInHands
<1>7. OnceIfNotTwice'
  BY <1>1, <1>2 DEF OnceIfNotTwice, Storers, OneInHands
<1>8. OneIfNotCrowded'
  BY <1>1, <1>2 DEF OneIfNotCrowded
<1>9. CopiesLeft'
  <2> SUFFICES ASSUME NEW m \in Inbound
               PROVE  copies'[m] + Cardinality(Storers(m)') <= Cardinality(Process)
    BY DEF CopiesLeft
  <2>1. copies'[m] = copies[m] /\ Storers(m)' \subseteq Storers(m)
    BY <1>1, <1>2 DEF Storers
  <2> QED
    BY <2>1, CopiesKept
<1> QED
  BY <1>3, <1>4, <1>5, <1>6, <1>7, <1>8, <1>9

\* Who stops after it stored a message stops halfway.
LEMMA StopKeepsMessages ==
  ASSUME ConversationInv, NEW p \in Process, IngestStops(p)
  PROVE  ConversationInv'
<1> USE InboundTyped
<1>1. /\ UNCHANGED <<direction, opened, copies, answered, told, twice, crowded, outboundVars>>
      /\ receiving[p].at # "no" /\ receiving[p].message \subseteq Inbound
      /\ halfway' = IF receiving[p].at = "tell" THEN halfway \union receiving[p].message
                    ELSE halfway
  BY DEF IngestStops, Receiving
<1>2. ReceivingMoved(p, "no", {})
  BY ReceivingLeft DEF IngestStops
<1>3. ReportsInOrder'
  BY <1>1, OutboundKept
<1> USE DEF ReceivingMoved, ConversationInv
<1>4. ConversationTypeOK'
  BY <1>1, <1>2, InboundTypes
<1>5. OneInHands'
  BY <1>1, <1>2 DEF OneInHands
<1>6. StoredAndTold'
  BY <1>1, <1>2 DEF StoredAndTold, OneInHands
<1>7. OnceIfNotTwice'
  BY <1>1, <1>2 DEF OnceIfNotTwice, Storers, OneInHands
<1>8. OneIfNotCrowded'
  BY <1>1, <1>2 DEF OneIfNotCrowded
<1>9. CopiesLeft'
  <2> SUFFICES ASSUME NEW m \in Inbound
               PROVE  copies'[m] + Cardinality(Storers(m)') <= Cardinality(Process)
    BY DEF CopiesLeft
  <2>1. copies'[m] = copies[m] /\ Storers(m)' \subseteq Storers(m)
    BY <1>1, <1>2 DEF Storers
  <2> QED
    BY <2>1, CopiesKept
<1> QED
  BY <1>3, <1>4, <1>5, <1>6, <1>7, <1>8, <1>9

\* Who finds the message stored answers it; who does not may store it.
LEMMA LookKeepsInv ==
  ASSUME ConversationInv, NEW p \in Process, FindByExternalId(p)
  PROVE  ConversationInv'
<1> USE InboundTyped
<1>1. /\ UNCHANGED <<direction, opened, copies, told, twice, crowded, halfway, outboundVars>>
      /\ receiving[p].at = "look" /\ receiving[p].message \subseteq Inbound
  BY DEF FindByExternalId, IngestAt, Receiving
<1>2. \/ /\ \E m \in receiving[p].message : copies[m] > 0
         /\ answered' = answered \union receiving[p].message
         /\ ReceivingMoved(p, "no", {})
      \/ /\ \A m \in receiving[p].message : copies[m] = 0
         /\ UNCHANGED answered
         /\ ReceivingMoved(p, "thread", receiving[p].message)
  <2>1. CASE \E m \in receiving[p].message : copies[m] > 0
    BY <2>1, ReceivingLeft DEF FindByExternalId, Answer
  <2>2. CASE ~\E m \in receiving[p].message : copies[m] > 0
    <3>1. \A m \in receiving[p].message : copies[m] = 0
      BY <1>1, <2>2
    <3> QED
      BY <2>2, <3>1, IngestGotoMoves DEF FindByExternalId
  <2> QED
    BY <2>1, <2>2
<1>3. ReportsInOrder'
  BY <1>1, OutboundKept
<1> USE DEF ReceivingMoved, ConversationInv
<1>4. ConversationTypeOK'
  BY <1>1, <1>2, InboundTypes
<1>5. OneInHands'
  BY <1>1, <1>2 DEF OneInHands
<1>6. StoredAndTold'
  BY <1>1, <1>2 DEF StoredAndTold, OneInHands
<1>7. OnceIfNotTwice'
  BY <1>1, <1>2 DEF OnceIfNotTwice, Storers, OneInHands
<1>8. OneIfNotCrowded'
  BY <1>1, <1>2 DEF OneIfNotCrowded
<1>9. CopiesLeft'
  <2> SUFFICES ASSUME NEW m \in Inbound
               PROVE  copies'[m] + Cardinality(Storers(m)') <= Cardinality(Process)
    BY DEF CopiesLeft
  <2>1. copies'[m] = 0 \/ (copies'[m] = copies[m] /\ Storers(m)' \subseteq Storers(m))
    BY <1>1, <1>2 DEF Storers
  <2> QED
    BY <2>1, CopiesKept
<1> QED
  BY <1>3, <1>4, <1>5, <1>6, <1>7, <1>8, <1>9

\* Who stores a copy will not store another.
LEMMA MessageKeepsInv ==
  ASSUME ConversationInv, NEW p \in Process, CreateMessage(p)
  PROVE  ConversationInv'
<1> USE InboundTyped
<1>1. /\ UNCHANGED <<direction, opened, answered, told, twice, crowded, halfway, outboundVars>>
      /\ receiving[p].at = "store" /\ receiving[p].message \subseteq Inbound
      /\ copies' = [m \in Inbound |-> copies[m] + IF m \in receiving[p].message THEN 1 ELSE 0]
  BY DEF CreateMessage, IngestAt, Receiving
<1>2. ReceivingMoved(p, "tell", receiving[p].message)
  BY IngestGotoMoves DEF CreateMessage
<1>3. ReportsInOrder'
  BY <1>1, OutboundKept
<1> USE DEF ReceivingMoved, ConversationInv
<1>4. ConversationTypeOK'
  BY <1>1, <1>2, InboundTypes
<1>5. OneInHands'
  BY <1>1, <1>2 DEF OneInHands
<1>6. StoredAndTold'
  BY <1>1, <1>2 DEF StoredAndTold, OneInHands
<1>7. OnceIfNotTwice'
  BY <1>1, <1>2 DEF OnceIfNotTwice, Storers, OneInHands
<1>8. OneIfNotCrowded'
  BY <1>1, <1>2 DEF OneIfNotCrowded
<1>9. CopiesLeft'
  <2> SUFFICES ASSUME NEW m \in Inbound
               PROVE  copies'[m] + Cardinality(Storers(m)') <= Cardinality(Process)
    BY DEF CopiesLeft
  <2>1. CASE m \notin receiving[p].message
    <3>1. copies'[m] = copies[m] /\ Storers(m)' \subseteq Storers(m)
      BY <1>1, <1>2, <2>1 DEF Storers
    <3> QED
      BY <3>1, CopiesKept
  <2>2. CASE m \in receiving[p].message
    <3>1. copies'[m] = copies[m] + 1 /\ Storers(m)' = Storers(m) \ {p} /\ p \in Storers(m)
      BY <1>1, <1>2, <2>2 DEF Storers
    <3>2. Cardinality(Storers(m)') = Cardinality(Storers(m)) - 1
      <4>1. IsFiniteSet(Storers(m))
        BY StorersFinite
      <4> QED
        BY <3>1, <4>1, FS_RemoveElement
    <3> QED
      BY <3>1, <3>2, StorersFinite DEF CopiesLeft
  <2> QED
    BY <2>1, <2>2
<1> QED
  BY <1>3, <1>4, <1>5, <1>6, <1>7, <1>8, <1>9

-----------------------------------------------------------------------------
\* What is sent, and reported of it, leaves what comes in alone.
LEMMA InboundKept ==
  ASSUME ConversationInv, UNCHANGED inboundVars
  PROVE  OneInHands' /\ StoredAndTold' /\ OnceIfNotTwice' /\ CopiesLeft' /\ OneIfNotCrowded'
<1>1. UNCHANGED <<opened, copies, receiving, answered, told, twice, crowded, halfway>>
  BY DEF inboundVars
<1>2. \A m \in Inbound : Storers(m)' = Storers(m)
  BY <1>1 DEF Storers
<1> QED
  BY <1>1, <1>2
     DEF ConversationInv, OneInHands, StoredAndTold, OnceIfNotTwice, CopiesLeft, OneIfNotCrowded

LEMMA OutboundTyped ==
  ASSUME ConversationInv
  PROVE  /\ fate \in Seq({"DELIVERED", "READ", "FAILED"}) /\ Len(fate) \in Nat
         /\ DOMAIN fate = 1..Len(fate) /\ fate # << >> => Len(fate) > 0
         /\ reports \subseteq 1..Len(fate) /\ applied \in 0..Len(fate)
         /\ outbound \in [status : Status, hasExternalId : BOOLEAN,
                         at : {"create", "send", "save", "record", "done"}]
         /\ unreliable \in BOOLEAN
<1>1. /\ fate \in Fates \union {<< >>} /\ reports \subseteq DOMAIN fate
      /\ applied \in {0} \union DOMAIN fate /\ unreliable \in BOOLEAN
      /\ outbound \in [status : Status, hasExternalId : BOOLEAN,
                      at : {"create", "send", "save", "record", "done"}]
  BY DEF ConversationInv, ConversationTypeOK
<1>2. fate \in Seq({"DELIVERED", "READ", "FAILED"})
  <2>1. CASE fate \in Fates
    BY <2>1, FateAssumption
  <2>2. CASE fate = << >>
    BY <2>2
  <2> QED
    BY <1>1, <2>1, <2>2
<1>3. Len(fate) \in Nat /\ DOMAIN fate = 1..Len(fate) /\ (fate # << >> => Len(fate) > 0)
  BY <1>2
<1> QED
  BY <1>1, <1>2, <1>3

LEMMA SendingTyped ==
  ASSUME ConversationInv, NEW from, NEW to, NEW said,
         to \in {"create", "send", "save", "record", "done"}, said \in Status,
         Sending(from, to, said)
  PROVE  /\ outbound' \in [status : Status, hasExternalId : BOOLEAN,
                           at : {"create", "send", "save", "record", "done"}]
         /\ outbound.at = from /\ outbound'.at = to /\ outbound'.status = said
         /\ outbound'.hasExternalId = outbound.hasExternalId
<1>1. outbound \in [status : Status, hasExternalId : BOOLEAN,
                   at : {"create", "send", "save", "record", "done"}]
  BY OutboundTyped
<1>2. /\ outbound' = [outbound EXCEPT !.at = to, !.status = said]
      /\ outbound.at = from
  BY DEF Sending
<1>3. /\ outbound'.at = to /\ outbound'.status = said
      /\ outbound'.hasExternalId = outbound.hasExternalId
  BY <1>1, <1>2
<1>4. outbound' \in [status : Status, hasExternalId : BOOLEAN,
                    at : {"create", "send", "save", "record", "done"}]
  BY <1>1, <1>2
<1> QED
  BY <1>2, <1>3, <1>4

\* Everything about sending that a step of it could break.
OutboundNext ==
  /\ outbound' \in [status : Status, hasExternalId : BOOLEAN,
                    at : {"create", "send", "save", "record", "done"}]
  /\ fate' \in Fates \union {<< >>} /\ reports' \subseteq DOMAIN fate'
  /\ applied' \in {0} \union DOMAIN fate' /\ unreliable' \in BOOLEAN
  /\ ReportsInOrder'

LEMMA OutboundKeepsInv ==
  ASSUME ConversationInv, UNCHANGED <<direction, inboundVars>>, OutboundNext
  PROVE  ConversationInv'
<1>1. UNCHANGED <<direction, opened, copies, receiving, answered, told, twice, crowded, halfway>>
  BY DEF inboundVars
<1>2. ConversationTypeOK'
  BY <1>1 DEF ConversationInv, ConversationTypeOK, OutboundNext
<1> QED
  BY <1>2, InboundKept DEF OutboundNext, ConversationInv

LEMMA SendingKeepsInv ==
  ASSUME ConversationInv,
         CreateOutbound \/ ChannelRefuses \/ FinishSending \/ SendingFails \/ SenderStops
  PROVE  ConversationInv'
<1>1. /\ UNCHANGED <<direction, inboundVars, fate, reports, applied>>
      /\ unreliable' \in BOOLEAN
      /\ \/ Sending("create", "send", "QUEUED") /\ UNCHANGED unreliable
         \/ Sending("send", "done", "FAILED") /\ UNCHANGED unreliable
         \/ Sending("record", "done", outbound.status) /\ UNCHANGED unreliable
         \/ /\ outbound.at \in {"save", "record"}
            /\ Sending(outbound.at, "done", "FAILED")
            /\ unreliable'
         \/ /\ outbound.at \in {"send", "save", "record"}
            /\ Sending(outbound.at, "done", outbound.status)
            /\ unreliable' = (unreliable \/ outbound.at # "record")
  BY OutboundTyped
     DEF CreateOutbound, ChannelRefuses, FinishSending, SendingFails, SenderStops, Sending
<1>2. /\ outbound.status \in Status /\ {"QUEUED", "FAILED"} \subseteq Status
      /\ unreliable \in BOOLEAN
  BY OutboundTyped DEF Status
<1>3. /\ outbound' \in [status : Status, hasExternalId : BOOLEAN,
                        at : {"create", "send", "save", "record", "done"}]
      /\ outbound'.hasExternalId = outbound.hasExternalId
      /\ \/ /\ outbound.at = "create" /\ outbound'.at = "send"
            /\ outbound'.status = "QUEUED" /\ unreliable' = unreliable
         \/ /\ outbound.at = "send" /\ outbound'.at = "done"
            /\ outbound'.status = "FAILED" /\ unreliable' = unreliable
         \/ /\ outbound.at = "record" /\ outbound'.at = "done"
            /\ outbound'.status = outbound.status /\ unreliable' = unreliable
         \/ outbound.at \in {"send", "save", "record"} /\ outbound'.at = "done" /\ unreliable'
  BY <1>1, <1>2, SendingTyped
<1>4. ReportsInOrder'
  BY <1>1, <1>2, <1>3 DEF ConversationInv, ReportsInOrder
<1> QED
  BY <1>1, <1>3, <1>4, OutboundKeepsInv DEF OutboundNext, ConversationInv, ConversationTypeOK

\* The channel begins to report when nothing of the message is kept yet.
LEMMA AcceptKeepsInv ==
  ASSUME ConversationInv, ChannelAccepts
  PROVE  ConversationInv'
<1>1. /\ Sending("send", "save", "QUEUED") /\ fate' \in Fates /\ reports' = DOMAIN fate'
      /\ UNCHANGED <<direction, inboundVars, applied, unreliable>>
  BY DEF ChannelAccepts, Sending
<1>2. /\ outbound' \in [status : Status, hasExternalId : BOOLEAN,
                        at : {"create", "send", "save", "record", "done"}]
      /\ outbound.at = "send" /\ outbound'.at = "save"
      /\ outbound'.hasExternalId = outbound.hasExternalId
  BY <1>1, SendingTyped DEF Status
<1>3. applied = 0 /\ ~outbound.hasExternalId /\ unreliable \in BOOLEAN
  BY <1>2, OutboundTyped DEF ConversationInv, ReportsInOrder
<1>4. ReportsInOrder'
  BY <1>1, <1>2, <1>3 DEF ReportsInOrder
<1> QED
  BY <1>1, <1>2, <1>3, <1>4, OutboundKeepsInv DEF OutboundNext

LEMMA SaveKeepsInv ==
  ASSUME ConversationInv, SaveSent
  PROVE  ConversationInv'
<1>1. /\ outbound.at = "save" /\ outbound'.at = "record" /\ outbound'.hasExternalId
      /\ outbound' \in [status : Status, hasExternalId : BOOLEAN,
                        at : {"create", "send", "save", "record", "done"}]
      /\ UNCHANGED <<direction, inboundVars, fate, reports, applied, unreliable>>
  BY DEF SaveSent, Status
<1>2. ReportsInOrder'
  BY <1>1, OutboundTyped DEF ConversationInv, ReportsInOrder
<1> QED
  BY <1>1, <1>2, OutboundKeepsInv DEF OutboundNext, ConversationInv, ConversationTypeOK

\* A report that does not come late is the latest.
LEMMA ReportKeepsInv ==
  ASSUME ConversationInv, NEW n \in reports, ReportStatus(n)
  PROVE  ConversationInv'
<1>1. /\ UNCHANGED <<direction, inboundVars, fate>> /\ reports' \in {reports, reports \ {n}}
      /\ n \in 1..Len(fate) /\ n \in DOMAIN fate /\ fate[n] \in Status
  BY OutboundTyped DEF ReportStatus, Status
<1>2. CASE outbound.hasExternalId
  <2>1. /\ outbound' = [outbound EXCEPT !.status = fate[n]]
        /\ applied' = n /\ unreliable' = (unreliable \/ n < applied)
    BY <1>2 DEF ReportStatus
  <2>2. /\ outbound' \in [status : Status, hasExternalId : BOOLEAN,
                          at : {"create", "send", "save", "record", "done"}]
        /\ outbound'.at = outbound.at /\ outbound'.hasExternalId /\ outbound'.status = fate[n]
    BY <1>1, <1>2, <2>1, OutboundTyped
  <2>3. outbound.at \notin {"create", "send"} /\ (~unreliable => outbound.at # "save")
    BY <1>2 DEF ConversationInv, ReportsInOrder
  <2>4. ASSUME ~unreliable'
        PROVE  \A k \in DOMAIN fate \ reports' : k <= n
    <3>1. ~unreliable /\ ~(n < applied)
      BY <2>1, <2>4
    <3>2. \A k \in DOMAIN fate \ reports : k <= applied
      BY <3>1 DEF ConversationInv, ReportsInOrder
    <3> QED
      BY <1>1, <3>1, <3>2, OutboundTyped
  <2>5. ReportsInOrder'
    BY <1>1, <2>1, <2>2, <2>3, <2>4, OutboundTyped DEF ReportsInOrder
  <2> QED
    BY <1>1, <2>1, <2>2, <2>5, OutboundTyped, OutboundKeepsInv
       DEF OutboundNext, ConversationInv, ConversationTypeOK
<1>3. CASE ~outbound.hasExternalId
  <2>1. UNCHANGED <<outbound, applied>> /\ unreliable' = (unreliable \/ outbound.at = "save")
    BY <1>3 DEF ReportStatus
  <2>2. outbound.at \notin {"create", "send"}
    BY <1>1, OutboundTyped DEF ConversationInv, ReportsInOrder
  <2>3. unreliable'
    <3>1. fate # << >>
      BY <1>1
    <3>2. outbound.at \in {"save", "record", "done"} /\ unreliable \in BOOLEAN
      BY <2>2, OutboundTyped
    <3>3. ~unreliable => outbound.at \notin {"record", "done"}
      BY <1>3, <3>1 DEF ConversationInv, ReportsInOrder
    <3> QED
      BY <2>1, <3>2, <3>3
  <2>4. ReportsInOrder'
    BY <2>1, <2>2, <2>3 DEF ReportsInOrder
  <2> QED
    BY <1>1, <2>1, <2>3, <2>4, OutboundTyped, OutboundKeepsInv
       DEF OutboundNext, ConversationInv, ConversationTypeOK
<1> QED
  BY <1>2, <1>3

LEMMA ConversationInvNext ==
  ConversationInv /\ [ConversationNext]_conversationVars => ConversationInv'
<1> SUFFICES ASSUME ConversationInv, [ConversationNext]_conversationVars
             PROVE  ConversationInv'
  OBVIOUS
<1>1. CASE UNCHANGED conversationVars
  <2>1. UNCHANGED <<direction, inboundVars, outbound, fate, reports, applied, unreliable>>
    BY <1>1 DEF conversationVars, outboundVars
  <2>2. OutboundNext
    BY <2>1 DEF OutboundNext, ConversationInv, ConversationTypeOK, ReportsInOrder
  <2> QED
    BY <2>1, <2>2, OutboundKeepsInv
<1>2. CASE ConversationNext
  BY <1>2, ReceiveKeepsInv, LookKeepsInv, ThreadKeepsInv, OpenKeepsInv, MessageKeepsInv,
     TellKeepsInv, StopKeepsMessages, SendingKeepsInv, AcceptKeepsInv, SaveKeepsInv, ReportKeepsInv
     DEF ConversationNext
<1> QED
  BY <1>1, <1>2

-----------------------------------------------------------------------------
\* What comes in, what goes out and who is at work on it are well typed.
THEOREM ConversationTypeCorrect == ConversationSpec => []ConversationTypeOK
<1>1. ConversationInv => ConversationTypeOK
  BY DEF ConversationInv
<1> QED
  BY <1>1, ConversationInvInit, ConversationInvNext, PTL DEF ConversationSpec

\* A message that was answered is stored, and told of unless who stored it stopped; it is
\* stored once, in one conversation, unless two had it, or the thread, in their hands.
THEOREM StoredOnce == ConversationSpec => []InboundOnce
<1>1. ConversationInv => InboundOnce
  <2> SUFFICES ASSUME ConversationInv, NEW m \in Inbound
               PROVE  /\ m \in answered => copies[m] > 0
                      /\ m \in answered => m \in told \union halfway \/ Ingesting(m) # {}
                      /\ m \notin twice => copies[m] <= 1
                      /\ ~crowded => Cardinality(opened) <= 1
                      /\ copies[m] <= Cardinality(Process)
    BY DEF InboundOnce
  <2>1. m \in answered => copies[m] > 0
    BY DEF ConversationInv, StoredAndTold
  <2>2. copies[m] > 0 => m \in told \union halfway \/ Ingesting(m) # {}
    BY DEF ConversationInv, StoredAndTold, Ingesting
  <2>3. m \notin twice => copies[m] <= 1
    BY DEF ConversationInv, OnceIfNotTwice
  <2>4. ASSUME ~crowded
        PROVE  Cardinality(opened) <= 1
    <3>1. \A p, q \in opened : p = q
      BY <2>4 DEF ConversationInv, OneIfNotCrowded
    <3>2. opened = {} \/ \E p \in opened : opened = {p}
      BY <3>1
    <3> QED
      BY <3>2, FS_EmptySet, FS_Singleton
  <2>5. copies[m] <= Cardinality(Process)
    BY StorersFinite, InboundTyped DEF ConversationInv, CopiesLeft
  <2> QED
    BY <2>1, <2>2, <2>3, <2>4, <2>5
<1> QED
  BY <1>1, ConversationInvInit, ConversationInvNext, PTL DEF ConversationSpec

\* When the channel has no more to report, the row says what it reported last, unless a
\* report overtook another or the channel's id, or a call failed after sending.
THEOREM LatestStatus == ConversationSpec => []StatusIsLatest
<1>1. ConversationInv => StatusIsLatest
  <2> SUFFICES ASSUME ConversationInv, fate # << >>, reports = {}, ~unreliable,
                      outbound.at = "done"
               PROVE  outbound.status = fate[Len(fate)]
    BY DEF StatusIsLatest
  <2>1. Len(fate) \in DOMAIN fate /\ applied \in 0..Len(fate) /\ Len(fate) \in Nat /\ Len(fate) > 0
    BY OutboundTyped
  <2>2. Len(fate) <= applied
    BY <2>1 DEF ConversationInv, ReportsInOrder
  <2>3. applied = Len(fate) /\ applied # 0
    BY <2>1, <2>2
  <2> QED
    BY <2>3 DEF ConversationInv, ReportsInOrder
<1> QED
  BY <1>1, ConversationInvInit, ConversationInvNext, PTL DEF ConversationSpec

-----------------------------------------------------------------------------
(* The parts side by side.                                                  *)

\* What a behaviour of all parts does is a behaviour of each.
LEMMA PartsBehave ==
  Spec => /\ ScheduleSpec /\ AuditSpec /\ KnowledgeSpec
          /\ SyncSpec /\ CredentialSpec /\ ConversationSpec
<1>1. Init => /\ ScheduleInit /\ AuditInit /\ KnowledgeInit
              /\ now = 0 /\ SyncInit /\ CredentialInit /\ ConversationInit
  BY DEF Init, AuditInit
<1>2. [Next]_vars => /\ [ScheduleNext]_scheduleVars /\ [AuditNext]_auditVars
                     /\ [KnowledgeNext]_knowledgeVars /\ [SyncNext]_<<now, syncVars>>
                     /\ [CredentialNext]_credentialVars /\ [ConversationNext]_conversationVars
  <2> SUFFICES ASSUME [Next]_vars
               PROVE  /\ [ScheduleNext]_scheduleVars /\ [AuditNext]_auditVars
                      /\ [KnowledgeNext]_knowledgeVars /\ [SyncNext]_<<now, syncVars>>
                      /\ [CredentialNext]_credentialVars /\ [ConversationNext]_conversationVars
    OBVIOUS
  \* The audit log and the connections have the clock in common.
  <2>1. ASSUME Tick, UNCHANGED <<logVars, syncVars>>
        PROVE  [AuditNext]_auditVars /\ [SyncNext]_<<now, syncVars>>
    BY <2>1 DEF AuditNext, SyncNext, logVars
  <2>2. ASSUME UNCHANGED <<now, logVars>>
        PROVE  UNCHANGED auditVars
    BY <2>2 DEF auditVars, logVars
  <2>3. CASE ScheduleOnly
    BY <2>2, <2>3 DEF ScheduleOnly
  <2>4. CASE AuditOnly
    <3>1. UNCHANGED now \/ (Tick /\ UNCHANGED logVars)
      BY <2>4 DEF AuditOnly, AuditNext, LockAndRead, RollBack, Link, logVars
    <3> QED
      BY <2>1, <2>4, <3>1 DEF AuditOnly
  <2>5. CASE KnowledgeOnly
    BY <2>2, <2>5 DEF KnowledgeOnly
  <2>6. CASE SyncOnly
    <3>1. UNCHANGED now \/ (Tick /\ UNCHANGED syncVars)
      BY <2>6 DEF SyncOnly, SyncNext
    <3> QED
      BY <2>1, <2>2, <2>6, <3>1 DEF SyncOnly
  <2>7. CASE CredentialOnly
    BY <2>2, <2>7 DEF CredentialOnly
  <2>8. CASE ConversationOnly
    BY <2>2, <2>8 DEF ConversationOnly
  <2>9. CASE UNCHANGED vars
    BY <2>2, <2>9 DEF vars
  <2> QED
    BY <2>3, <2>4, <2>5, <2>6, <2>7, <2>8, <2>9 DEF Next
<1> QED
  BY <1>1, <1>2, PTL DEF Spec, ScheduleSpec, AuditSpec, KnowledgeSpec, SyncSpec, CredentialSpec,
                         ConversationSpec

\* All the rows, and whoever works on them, are well typed.
THEOREM RecordsTyped == Spec => []TypeOK
  BY PartsBehave, ScheduleTypeCorrect, AuditTypeCorrect, KnowledgeTypeCorrect, SyncTypeCorrect,
     TypeCorrect, ConversationTypeCorrect, PTL DEF TypeOK

=============================================================================
