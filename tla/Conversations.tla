----------------------------- MODULE Conversations -----------------------------
(***************************************************************************)
(* The messages of one conversation, in from its channel and out to it.    *)
(*                                                                         *)
(* A channel posts a message until it is answered with 200, or a poll      *)
(* lists it until one has come to its end.  Whoever ingests it looks for   *)
(* its id, finds or creates the conversation, stores the message, and      *)
(* tells the rest of the platform; no id is unique in the database.        *)
(* A message that is sent gets the channel's id once the channel has       *)
(* taken it, and the channel reports what becomes of it under that id.     *)
(***************************************************************************)
EXTENDS Processes, Sequences

CONSTANTS
  Inbound, \* the messages of one thread that come in
  Fates    \* what a channel may report of a message: sequences of statuses

Status == {"none", "QUEUED", "SENT", "DELIVERED", "READ", "FAILED"}

ASSUME FateAssumption == Fates \subseteq Seq({"DELIVERED", "READ", "FAILED"})

VARIABLES
  direction,    \* whether this behaviour is about what comes in or what goes out
  opened,       \* the conversations of the thread, by the process that created each
  copies,       \* how often each message was stored
  receiving,    \* the step of each process that ingests, its message and its conversation
  answered,     \* the messages that were answered with 200
  told,         \* history: the messages the platform was told of
  twice,        \* history: messages that two processes had in their hands at once
  crowded,      \* history: two processes had messages of the thread in their hands
  halfway,      \* history: messages that were stored by a process that did not finish
  outbound,     \* the row of the message that goes out, and the sender's step
  fate,         \* what the channel reports of it
  reports,      \* the reports the channel has yet to make, by their place in fate
  applied,      \* history: the latest report that was applied
  unreliable    \* history: a report came early or late, or a call failed

inboundVars == <<opened, copies, receiving, answered, told, twice, crowded, halfway>>
outboundVars == <<outbound, fate, reports, applied, unreliable>>
conversationVars == <<direction, inboundVars, outboundVars>>

NotIngestingMessage == [at |-> "no", message |-> {}]

ConversationInit ==
  /\ direction \in {"INBOUND", "OUTBOUND"}
  /\ opened = {}
  /\ copies = [m \in Inbound |-> 0]
  /\ receiving = [p \in Process |-> NotIngestingMessage]
  /\ answered = {} /\ told = {} /\ twice = {} /\ halfway = {}
  /\ outbound = [status |-> "none", hasExternalId |-> FALSE, at |-> "create"]
  /\ fate = << >>
  /\ reports = {}
  /\ applied = 0
  /\ crowded = FALSE
  /\ unreliable = FALSE

-----------------------------------------------------------------------------
(* ConversationService.ingestInboundMessage, and who calls it.              *)

IngestAt(p, step) == direction = "INBOUND" /\ receiving[p].at = step

IngestGoto(p, step) == receiving' = [receiving EXCEPT ![p].at = step]

Ingesting(m) == {p \in Process : m \in receiving[p].message}

ReceiveMessage(p, m) ==
  /\ IngestAt(p, "no") /\ m \notin answered
  /\ receiving' = [receiving EXCEPT ![p] = [at |-> "look", message |-> {m}]]
  /\ twice' = IF Ingesting(m) # {} THEN twice \union {m} ELSE twice
  /\ crowded' = (crowded \/ \E q \in Process : receiving[q].at # "no")
  /\ UNCHANGED <<direction, opened, copies, answered, told, halfway, outboundVars>>

Answer(p) ==
  /\ answered' = answered \union receiving[p].message
  /\ receiving' = [receiving EXCEPT ![p] = NotIngestingMessage]

\* Mutant: nobody looks.
FindNothing(p) ==
  /\ IngestAt(p, "look")
  /\ IngestGoto(p, "thread")
  /\ UNCHANGED <<direction, opened, copies, answered, told, twice, crowded, halfway, outboundVars>>

\* A message that is known is not ingested again.
FindByExternalId(p) ==
  /\ IngestAt(p, "look")
  /\ IF \E m \in receiving[p].message : copies[m] > 0
       THEN Answer(p) ELSE IngestGoto(p, "thread") /\ UNCHANGED answered
  /\ UNCHANGED <<direction, opened, copies, told, twice, crowded, halfway, outboundVars>>

FindConversation(p) ==
  /\ IngestAt(p, "thread")
  /\ IngestGoto(p, IF opened = {} THEN "open" ELSE "store")
  /\ UNCHANGED <<direction, opened, copies, answered, told, twice, crowded, halfway, outboundVars>>

CreateConversation(p) ==
  /\ IngestAt(p, "open")
  /\ opened' = opened \union {p}
  /\ IngestGoto(p, "store")
  /\ UNCHANGED <<direction, copies, answered, told, twice, crowded, halfway, outboundVars>>

CreateMessage(p) ==
  /\ IngestAt(p, "store")
  /\ copies' = [m \in Inbound |-> copies[m] + IF m \in receiving[p].message THEN 1 ELSE 0]
  /\ IngestGoto(p, "tell")
  /\ UNCHANGED <<direction, opened, answered, told, twice, crowded, halfway, outboundVars>>

\* The attachments are stored, the conversation becomes unread, workflows are started
\* or a summary asked for, and the channel gets its answer.
Tell(p) ==
  /\ IngestAt(p, "tell")
  /\ told' = told \union receiving[p].message
  /\ Answer(p)
  /\ UNCHANGED <<direction, opened, copies, twice, crowded, halfway, outboundVars>>

\* A call fails or the process dies: the message comes again.
IngestStops(p) ==
  /\ direction = "INBOUND" /\ receiving[p].at # "no"
  /\ halfway' = IF receiving[p].at = "tell" THEN halfway \union receiving[p].message ELSE halfway
  /\ receiving' = [receiving EXCEPT ![p] = NotIngestingMessage]
  /\ UNCHANGED <<direction, opened, copies, answered, told, twice, crowded, outboundVars>>

-----------------------------------------------------------------------------
(* ConversationService.sendMessage, and what the channel reports.           *)

Sending(from, to, status) ==
  /\ direction = "OUTBOUND" /\ outbound.at = from
  /\ outbound' = [outbound EXCEPT !.at = to, !.status = status]

CreateOutbound ==
  /\ Sending("create", "send", "QUEUED")
  /\ UNCHANGED <<direction, inboundVars, fate, reports, applied, unreliable>>

\* The channel has taken the message, and may begin to report.
ChannelAccepts ==
  /\ Sending("send", "save", "QUEUED")
  /\ fate' \in Fates
  /\ reports' = DOMAIN fate'
  /\ UNCHANGED <<direction, inboundVars, applied, unreliable>>

ChannelRefuses ==
  /\ Sending("send", "done", "FAILED")
  /\ UNCHANGED <<direction, inboundVars, fate, reports, applied, unreliable>>

\* Mutant: the channel's id is not kept.
SaveSentWithoutId ==
  /\ Sending("save", "record", "SENT")
  /\ UNCHANGED <<direction, inboundVars, fate, reports, applied, unreliable>>

SaveSent ==
  /\ direction = "OUTBOUND" /\ outbound.at = "save"
  /\ outbound' = [status |-> "SENT", hasExternalId |-> TRUE, at |-> "record"]
  /\ UNCHANGED <<direction, inboundVars, fate, reports, applied, unreliable>>

\* The conversation and the audit log have been written.
FinishSending ==
  /\ Sending("record", "done", outbound.status)
  /\ UNCHANGED <<direction, inboundVars, fate, reports, applied, unreliable>>

\* A call after the channel's answer fails: the catch clause says that sending did.
SendingFails ==
  /\ outbound.at \in {"save", "record"}
  /\ Sending(outbound.at, "done", "FAILED")
  /\ unreliable' = TRUE
  /\ UNCHANGED <<direction, inboundVars, fate, reports, applied>>

\* The process dies.
SenderStops ==
  /\ outbound.at \in {"send", "save", "record"}
  /\ Sending(outbound.at, "done", outbound.status)
  /\ unreliable' = (unreliable \/ outbound.at # "record")
  /\ UNCHANGED <<direction, inboundVars, fate, reports, applied>>

\* ingestStatusUpdate: without a row of that id there is nothing to do.  It is answered
\* with 200, unless the event that records it could not be written.
ReportStatus(n) ==
  /\ direction = "OUTBOUND" /\ n \in reports
  /\ reports' \in {reports, reports \ {n}}
  /\ IF outbound.hasExternalId
       THEN /\ outbound' = [outbound EXCEPT !.status = fate[n]]
            /\ applied' = n
            /\ unreliable' = (unreliable \/ n < applied)
       ELSE /\ n \notin reports'
            /\ unreliable' = (unreliable \/ outbound.at = "save")
            /\ UNCHANGED <<outbound, applied>>
  /\ UNCHANGED <<direction, inboundVars, fate>>

ConversationNext ==
  \/ \E p \in Process : \/ FindByExternalId(p) \/ FindConversation(p) \/ CreateConversation(p)
                        \/ CreateMessage(p) \/ Tell(p) \/ IngestStops(p)
                        \/ \E m \in Inbound : ReceiveMessage(p, m)
  \/ CreateOutbound \/ ChannelAccepts \/ ChannelRefuses \/ SaveSent \/ FinishSending
  \/ SendingFails \/ SenderStops
  \/ \E n \in reports : ReportStatus(n)

ConversationSpec == ConversationInit /\ [][ConversationNext]_conversationVars

ConversationTypeOK ==
  /\ direction \in {"INBOUND", "OUTBOUND"}
  /\ opened \subseteq Process
  /\ copies \in [Inbound -> Nat]
  /\ receiving \in [Process -> [at : {"no", "look", "thread", "open", "store", "tell"},
                             message : SUBSET Inbound]]
  /\ answered \union told \union twice \union halfway \subseteq Inbound
  /\ outbound \in [status : Status, hasExternalId : BOOLEAN,
                   at : {"create", "send", "save", "record", "done"}]
  /\ fate \in Fates \union {<< >>}
  /\ reports \subseteq DOMAIN fate
  /\ applied \in {0} \union DOMAIN fate
  /\ {crowded, unreliable} \subseteq BOOLEAN

-----------------------------------------------------------------------------
\* A message that was answered is stored, and the platform was told of it, unless who
\* stored it stopped before: whoever finds it stored tells nobody.  It is stored once, in
\* one conversation, unless two had it, or two messages of the thread, in their hands at
\* once; and never more often than there are processes.
InboundOnce ==
  \A m \in Inbound :
    /\ m \in answered => copies[m] > 0
    /\ m \in answered => m \in told \union halfway \/ Ingesting(m) # {}
    /\ m \notin twice => copies[m] <= 1
    /\ ~crowded => Cardinality(opened) <= 1
    /\ copies[m] <= Cardinality(Process)

\* When the channel has no more to report, the row says what it reported last, unless a
\* report overtook the channel's id or a later report, or a call failed after sending.
StatusIsLatest ==
  (outbound.at = "done" /\ fate # << >> /\ reports = {} /\ ~unreliable) =>
    outbound.status = fate[Len(fate)]

=============================================================================
