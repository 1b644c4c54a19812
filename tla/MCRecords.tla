------------------------------- MODULE MCRecords -------------------------------
(***************************************************************************)
(* The parts whose processes share rows but no queue, checked side by      *)
(* side.  Each behaviour is about one of them, while the others stay at    *)
(* their start.                                                            *)
(***************************************************************************)
EXTENDS WorkflowSchedules, AuditChain, KnowledgeIngestion, IntegrationSync, Credentials,
        Conversations, TLC

VARIABLE part \* what this behaviour is about

\* Where it does not matter which, the others have one start.
Init ==
  /\ part \in {"schedule", "audit", "knowledge", "sync", "credential", "conversation"}
  /\ ScheduleInit /\ AuditInit /\ KnowledgeInit
  /\ SyncInit /\ CredentialInit /\ ConversationInit
  /\ part # "schedule" => trigger = "DELAYED"
  /\ part # "audit" => \A p \in Process : skew[p] = 0
  /\ part # "sync" => polled
  /\ part # "credential" => rotates
  /\ part # "conversation" => direction = "INBOUND"

logVars == <<log, skew, writing>>
vars == <<part, now, scheduleVars, logVars, knowledgeVars, syncVars, credentialVars,
          conversationVars>>

ScheduleOnly ==
  /\ part = "schedule" /\ ScheduleNext
  /\ UNCHANGED <<part, now, logVars, knowledgeVars, syncVars, credentialVars, conversationVars>>

AuditOnly ==
  /\ part = "audit" /\ AuditNext
  /\ UNCHANGED <<part, scheduleVars, knowledgeVars, syncVars, credentialVars, conversationVars>>

KnowledgeOnly ==
  /\ part = "knowledge" /\ KnowledgeNext
  /\ UNCHANGED <<part, now, scheduleVars, logVars, syncVars, credentialVars, conversationVars>>

SyncOnly ==
  /\ part = "sync" /\ SyncNext
  /\ UNCHANGED <<part, scheduleVars, logVars, knowledgeVars, credentialVars, conversationVars>>

CredentialOnly ==
  /\ part = "credential" /\ CredentialNext
  /\ UNCHANGED <<part, now, scheduleVars, logVars, knowledgeVars, syncVars, conversationVars>>

ConversationOnly ==
  /\ part = "conversation" /\ ConversationNext
  /\ UNCHANGED <<part, now, scheduleVars, logVars, knowledgeVars, syncVars, credentialVars>>

Next ==
  \/ ScheduleOnly \/ AuditOnly \/ KnowledgeOnly
  \/ SyncOnly \/ CredentialOnly \/ ConversationOnly

Spec == Init /\ [][Next]_vars

TypeOK ==
  /\ ScheduleTypeOK /\ AuditTypeOK /\ KnowledgeTypeOK
  /\ SyncTypeOK /\ CredentialTypeOK /\ ConversationTypeOK

\* What channels report of a message, in the order in which it happens.
FatesOfTwo == {<<"DELIVERED", "READ">>, <<"FAILED">>}

\* The processes are all alike, and so are the messages that come in.
RecordSymmetry == Permutations(Process) \union Permutations(Inbound)

=============================================================================
