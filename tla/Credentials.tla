------------------------------ MODULE Credentials ------------------------------
(***************************************************************************)
(* The OAuth credential of one connection, and its status.                 *)
(*                                                                         *)
(* Whoever uses the connection reads the stored credential and, if its     *)
(* access token expires soon, has it refreshed and stores what came back,  *)
(* in place of whatever is stored by then.  A provider may hand out a new  *)
(* refresh token each time, and refuse the old one from then on.  Users    *)
(* connect the connection again, and revoke it, meanwhile.                 *)
(***************************************************************************)
EXTENDS Processes

CONSTANT MaxTokens \* bound: refresh tokens a provider hands out

ASSUME CredentialAssumption == MaxTokens \in Nat \ {0}

VARIABLES
  rotates,   \* whether the provider replaces refresh tokens
  handedOut, \* how many it has handed out
  accepted,  \* the ones it accepts
  credential,\* the one in the credential's row
  status,    \* the connection's
  acting,    \* the step of each process, the token it holds, its copy of status
  lost,      \* history: the token that replaced the stored one never got stored
  revoked,   \* history: the credential was deleted, and no user has connected since
  overtaken  \* history: it was deleted while some process had its token refreshed

pastVars == <<lost, revoked, overtaken>>
credentialVars == <<rotates, handedOut, accepted, credential, status, acting, pastVars>>

NoToken == 0

NotActing == [at |-> "no", use |-> "none", token |-> NoToken, status |-> "CONNECTED"]

CredentialInit ==
  /\ rotates \in BOOLEAN
  /\ handedOut = 1
  /\ accepted = {1}
  /\ credential = 1
  /\ status = "CONNECTED"
  /\ acting = [p \in Process |-> NotActing]
  /\ lost = FALSE
  /\ revoked = FALSE
  /\ overtaken = FALSE

-----------------------------------------------------------------------------
ActingAt(p, step) == acting[p].at = step

Proceed(p, from, to) ==
  /\ ActingAt(p, from)
  /\ acting' = IF to = "no" THEN [acting EXCEPT ![p] = NotActing] ELSE [acting EXCEPT ![p].at = to]

HandOut ==
  /\ handedOut < MaxTokens
  /\ handedOut' = handedOut + 1

\* The connection is read: execute, checkHealth, a sync, and refreshToken begin so.
\* Who names no connection gets one that is CONNECTED; by its id it is read in any
\* status.  Only execute looks at the status it has read.
Resolve(p) ==
  /\ ActingAt(p, "no")
  /\ \E use \in {"action", "health", "sync", "force"} :
       acting' = [acting EXCEPT ![p] = [NotActing EXCEPT !.at = "read", !.use = use,
                    !.status = IF use = "action" THEN status ELSE @]]
  /\ UNCHANGED <<rotates, handedOut, accepted, credential, status, pastVars>>

\* getValidCredential, forceRefreshCredential: without a credential they throw.
ReadCredential(p) ==
  /\ ActingAt(p, "read") /\ credential # NoToken
  /\ \E next \in {"use", "refresh"} :
       /\ acting[p].use = "force" => next = "refresh"
       /\ acting' = [acting EXCEPT ![p].at = next,
                       ![p].token = IF next = "refresh" THEN credential ELSE NoToken]
  /\ UNCHANGED <<rotates, handedOut, accepted, credential, status, pastVars>>

\* The provider refreshes the token.
RefreshAccessToken(p) ==
  /\ ActingAt(p, "refresh")
  /\ acting[p].token \in accepted
  /\ IF rotates
       THEN /\ HandOut
            /\ accepted' = (accepted \ {acting[p].token}) \union {handedOut'}
            /\ acting' = [acting EXCEPT ![p].at = "store", ![p].token = handedOut']
       ELSE /\ Proceed(p, "refresh", "store")
            /\ UNCHANGED <<handedOut, accepted>>
  /\ UNCHANGED <<rotates, credential, status, pastVars>>

\* Where the refreshed credential is not the end of it, its access token is used.
Refreshed(p) ==
  /\ ActingAt(p, "store")
  /\ acting' = [acting EXCEPT ![p] = IF @.use = "force" THEN NotActing
                                     ELSE [@ EXCEPT !.at = "use", !.token = NoToken]]

\* Mutant: the refresh token that came back is not the one that is stored.
UpsertOldToken(p) ==
  /\ Refreshed(p)
  /\ credential' = IF credential = NoToken THEN acting[p].token ELSE credential
  /\ UNCHANGED <<rotates, handedOut, accepted, status, pastVars>>

\* The row is created if there is none.
UpsertCredential(p) ==
  /\ Refreshed(p)
  /\ credential' = acting[p].token
  /\ UNCHANGED <<rotates, handedOut, accepted, status, pastVars>>

\* The access token is used, and it works or not.  The status is then written, if at
\* all, whatever it has become since it was read.
Outcome(p) ==
  CASE acting[p].use = "health" -> {"CONNECTED", "ERROR"}
    [] acting[p].use = "action" ->
         {"ERROR", IF acting[p].status = "CONNECTED" THEN "no" ELSE "CONNECTED"}
    [] OTHER -> {"no"}

UseConnection(p) ==
  /\ \E to \in Outcome(p) : Proceed(p, "use", to)
  /\ UNCHANGED <<rotates, handedOut, accepted, credential, status, pastVars>>

WriteStatus(p) ==
  /\ acting[p].at \in {"CONNECTED", "ERROR"}
  /\ status' = acting[p].at
  /\ Proceed(p, acting[p].at, "no")
  /\ UNCHANGED <<rotates, handedOut, accepted, credential, pastVars>>

\* A call throws, the provider's refusal of a token above all, or the process dies.
ActingStops(p) ==
  /\ ~ActingAt(p, "no")
  /\ Proceed(p, acting[p].at, "no")
  /\ lost' = (lost \/ (rotates /\ ActingAt(p, "store")))
  /\ UNCHANGED <<rotates, handedOut, accepted, credential, status, revoked, overtaken>>

-----------------------------------------------------------------------------
(* Users.                                                                   *)

\* completeOAuth: the code is exchanged for a token; older grants stay.
ExchangeCode(p) ==
  /\ ActingAt(p, "no")
  /\ HandOut
  /\ accepted' = accepted \union {handedOut'}
  /\ acting' = [acting EXCEPT ![p] = [NotActing EXCEPT !.at = "connect", !.token = handedOut']]
  /\ UNCHANGED <<rotates, credential, status, pastVars>>

StoreConnected(p) ==
  /\ ActingAt(p, "connect")
  /\ acting' = [acting EXCEPT ![p] = [NotActing EXCEPT !.at = "CONNECTED"]]
  /\ credential' = acting[p].token
  /\ lost' = FALSE
  /\ revoked' = FALSE
  /\ overtaken' = FALSE
  /\ UNCHANGED <<rotates, handedOut, accepted, status>>

\* revokeConnection: the credential is deleted, then the status written.
DeleteCredential(p) ==
  /\ Proceed(p, "no", "revoke")
  /\ credential' = NoToken
  /\ revoked' = TRUE
  /\ overtaken' = (overtaken \/ \E q \in Process : acting[q].at \in {"refresh", "store"})
  /\ UNCHANGED <<rotates, handedOut, accepted, status, lost>>

\* What the deletion throws is swallowed.
DeleteCredentialFails(p) ==
  /\ Proceed(p, "no", "revoke")
  /\ UNCHANGED <<rotates, handedOut, accepted, credential, status, pastVars>>

WriteRevoked(p) ==
  /\ Proceed(p, "revoke", "no")
  /\ status' = "REVOKED"
  /\ UNCHANGED <<rotates, handedOut, accepted, credential, pastVars>>

CredentialNext == \E p \in Process :
  \/ Resolve(p) \/ ReadCredential(p) \/ RefreshAccessToken(p) \/ UpsertCredential(p)
  \/ UseConnection(p) \/ WriteStatus(p) \/ ActingStops(p)
  \/ ExchangeCode(p) \/ StoreConnected(p) \/ WriteRevoked(p)
  \/ DeleteCredential(p) \/ DeleteCredentialFails(p)

CredentialSpec == CredentialInit /\ [][CredentialNext]_credentialVars

CredentialTypeOK ==
  /\ {rotates, lost, revoked, overtaken} \subseteq BOOLEAN
  /\ handedOut \in 1..MaxTokens
  /\ accepted \subseteq 1..handedOut
  /\ credential \in 0..handedOut
  /\ status \in {"CONNECTED", "ERROR", "REVOKED"}
  /\ acting \in [Process -> [
       at : {"no", "read", "refresh", "store", "use", "CONNECTED", "ERROR", "connect", "revoke"},
       use : {"none", "action", "health", "sync", "force"},
       token : 0..handedOut,
       status : {"CONNECTED", "ERROR", "REVOKED"}]]

-----------------------------------------------------------------------------
\* However many refresh one credential at once, the token that is stored is one the
\* provider accepts, or its replacement is about to be stored, or was lost when a call
\* failed or a process died.  A connection that was revoked gets no credential until a
\* user connects it again, unless somebody was having it refreshed when it was deleted.
GrantKept ==
  /\ \/ credential \in accepted \union {NoToken} \/ lost
     \/ \E p \in Process : ActingAt(p, "store") /\ acting[p].token \in accepted
  /\ revoked /\ credential # NoToken => overtaken

=============================================================================
