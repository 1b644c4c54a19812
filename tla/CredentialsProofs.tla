---------------------------- MODULE CredentialsProofs ----------------------------
(***************************************************************************)
(* The stored credential, for any number of processes that refresh it and  *)
(* users that connect and revoke the connection meanwhile.                 *)
(***************************************************************************)
EXTENDS Credentials, TLAPS

-----------------------------------------------------------------------------
(* Types, in three parts: the rows and tokens, the flags, and who acts.     *)

Step == {"no", "read", "refresh", "store", "use", "CONNECTED", "ERROR", "connect", "revoke"}
Use == {"none", "action", "health", "sync", "force"}
Statuses == {"CONNECTED", "ERROR", "REVOKED"}

Acting == [at : Step, use : Use, token : 0..handedOut, status : Statuses]

Rows ==
  /\ handedOut \in 1..MaxTokens
  /\ accepted \subseteq 1..handedOut
  /\ credential \in 0..handedOut
  /\ status \in Statuses

Flags == {rotates, lost, revoked, overtaken} \subseteq BOOLEAN

Actings == acting \in [Process -> Acting]

\* The parts make up the type of the state.
LEMMA TypesInParts == CredentialTypeOK <=> Rows /\ Flags /\ Actings
  BY DEF CredentialTypeOK, Rows, Flags, Actings, Acting, Step, Use, Statuses

\* Who does nothing is well typed.
LEMMA NotActingTyped == Rows => NotActing \in Acting
  BY CredentialAssumption DEF Rows, NotActing, NoToken, Acting, Step, Use, Statuses

\* A process is given a well-typed place while no token is handed out ...
LEMMA ActingsKept ==
  ASSUME Rows, Actings, UNCHANGED handedOut, NEW p \in Process, NEW a \in Acting,
         acting' = [acting EXCEPT ![p] = a]
  PROVE  Actings'
<1>1. Acting' = Acting
  BY DEF Acting
<1> QED
  BY <1>1 DEF Actings

\* ... or the token that is handed out.
LEMMA ActingsGrow ==
  ASSUME Rows, Actings, HandOut, NEW p \in Process, NEW a \in Acting,
         acting' = [acting EXCEPT ![p] = [a EXCEPT !.token = handedOut']]
  PROVE  Actings'
<1>1. Acting \subseteq Acting' /\ handedOut' \in 0..handedOut'
  BY CredentialAssumption DEF HandOut, Rows, Acting
<1>2. [a EXCEPT !.token = handedOut'] \in Acting'
  BY <1>1 DEF Acting
<1> QED
  BY <1>1, <1>2 DEF Actings

\* A step from one place to another.
LEMMA ProceedKeepsActings ==
  ASSUME Rows, Actings, UNCHANGED handedOut, NEW p \in Process, NEW from,
         NEW to \in Step, Proceed(p, from, to)
  PROVE  Actings'
<1>1. CASE to = "no"
  <2>1. NotActing \in Acting /\ acting' = [acting EXCEPT ![p] = NotActing]
    BY <1>1, NotActingTyped DEF Proceed
  <2> QED
    BY <2>1, ActingsKept
<1>2. CASE to # "no"
  <2>1. acting' = [acting EXCEPT ![p] = [acting[p] EXCEPT !.at = to]]
    BY <1>2 DEF Proceed, Actings
  <2>2. [acting[p] EXCEPT !.at = to] \in Acting
    BY DEF Actings, Acting
  <2> QED
    BY <2>1, <2>2, ActingsKept
<1> QED
  BY <1>1, <1>2

\* A process that begins with the connection.
LEMMA ResolveTyped ==
  ASSUME Rows, Flags, Actings, NEW p \in Process, Resolve(p)
  PROVE  Actings'
<1>1. PICK use \in {"action", "health", "sync", "force"} :
        acting' = [acting EXCEPT ![p] = [NotActing EXCEPT !.at = "read", !.use = use,
                     !.status = IF use = "action" THEN status ELSE @]]
  BY DEF Resolve
<1>2. NotActing \in Acting
  BY NotActingTyped
<1>3. [NotActing EXCEPT !.at = "read", !.use = use,
         !.status = IF use = "action" THEN status ELSE @] \in Acting
  BY <1>2 DEF Acting, Step, Use, Statuses, Rows
<1> QED
  BY <1>1, <1>3, ActingsKept DEF Resolve

\* One that reads the credential.
LEMMA ReadTyped ==
  ASSUME Rows, Flags, Actings, NEW p \in Process, ReadCredential(p)
  PROVE  Actings'
<1>1. PICK next \in {"use", "refresh"} :
        acting' = [acting EXCEPT ![p].at = next,
                     ![p].token = IF next = "refresh" THEN credential ELSE NoToken]
  BY DEF ReadCredential
<1> DEFINE a == [acting[p] EXCEPT !.at = next,
                   !.token = IF next = "refresh" THEN credential ELSE NoToken]
<1>2. acting[p] \in Acting
  BY DEF Actings
<1>3. (IF next = "refresh" THEN credential ELSE NoToken) \in 0..handedOut
  BY CredentialAssumption DEF NoToken, Rows
<1>4. a \in Acting
  BY <1>2, <1>3 DEF Acting, Step
<1>5. acting' = [acting EXCEPT ![p] = a]
  BY <1>1 DEF Actings
<1> HIDE DEF a
<1> QED
  BY <1>4, <1>5, ActingsKept DEF ReadCredential

\* One that has the token refreshed.
LEMMA RefreshTyped ==
  ASSUME Rows, Flags, Actings, NEW p \in Process, RefreshAccessToken(p)
  PROVE  Rows' /\ Actings'
<1>1. CASE rotates
  <2>1. Rows'
    BY <1>1, CredentialAssumption DEF RefreshAccessToken, HandOut, Rows
  <2> DEFINE a == [acting[p] EXCEPT !.at = "store"]
  <2>2. a \in Acting
    BY DEF Actings, Acting, Step
  <2>3. acting' = [acting EXCEPT ![p] = [a EXCEPT !.token = handedOut']] /\ HandOut
    BY <1>1 DEF RefreshAccessToken, Actings, Acting
  <2> HIDE DEF a
  <2> QED
    BY <2>1, <2>2, <2>3, ActingsGrow
<1>2. CASE ~rotates
  <2>1. Rows' /\ UNCHANGED handedOut /\ Proceed(p, "refresh", "store") /\ "store" \in Step
    BY <1>2 DEF RefreshAccessToken, Rows, Step
  <2> QED
    BY <2>1, ProceedKeepsActings
<1> QED
  BY <1>1, <1>2

\* One that stores what came back.
LEMMA UpsertTyped ==
  ASSUME Rows, Flags, Actings, NEW p \in Process, UpsertCredential(p)
  PROVE  Rows' /\ Actings'
<1>1. Rows'
  BY DEF UpsertCredential, Rows, Actings, Acting
<1> DEFINE a == IF acting[p].use = "force" THEN NotActing
                ELSE [acting[p] EXCEPT !.at = "use", !.token = NoToken]
<1>2. a \in Acting
  <2>1. NotActing \in Acting /\ NoToken \in 0..handedOut
    BY CredentialAssumption, NotActingTyped DEF NoToken, Rows
  <2>2. [acting[p] EXCEPT !.at = "use", !.token = NoToken] \in Acting
    BY <2>1 DEF Actings, Acting, Step
  <2> QED
    BY <2>1, <2>2
<1>3. acting' = [acting EXCEPT ![p] = a] /\ UNCHANGED handedOut
  BY DEF UpsertCredential, Refreshed, Actings
<1> HIDE DEF a
<1> QED
  BY <1>1, <1>2, <1>3, ActingsKept

\* A user's code becomes a token.
LEMMA ExchangeTyped ==
  ASSUME Rows, Flags, Actings, NEW p \in Process, ExchangeCode(p)
  PROVE  Rows' /\ Actings'
<1>1. Rows'
  BY CredentialAssumption DEF ExchangeCode, HandOut, Rows
<1> DEFINE a == [NotActing EXCEPT !.at = "connect"]
<1>2. a \in Acting
  BY NotActingTyped DEF Acting, Step
<1>3. acting' = [acting EXCEPT ![p] = [a EXCEPT !.token = handedOut']] /\ HandOut
  BY DEF ExchangeCode, NotActing
<1> HIDE DEF a
<1> QED
  BY <1>1, <1>2, <1>3, ActingsGrow

\* The token of a user's code is stored.
LEMMA ConnectedTyped ==
  ASSUME Rows, Flags, Actings, NEW p \in Process, StoreConnected(p)
  PROVE  Rows' /\ Actings'
<1>1. Rows'
  BY DEF StoreConnected, Rows, Actings, Acting
<1> DEFINE a == [NotActing EXCEPT !.at = "CONNECTED"]
<1>2. a \in Acting
  BY NotActingTyped DEF Acting, Step
<1>3. acting' = [acting EXCEPT ![p] = a] /\ UNCHANGED handedOut
  BY DEF StoreConnected
<1> HIDE DEF a
<1> QED
  BY <1>1, <1>2, <1>3, ActingsKept

\* No step of a process leaves the types.
LEMMA TypesKept ==
  ASSUME CredentialTypeOK, NEW p \in Process,
         \/ Resolve(p) \/ ReadCredential(p) \/ RefreshAccessToken(p) \/ UpsertCredential(p)
         \/ UseConnection(p) \/ WriteStatus(p) \/ ActingStops(p)
         \/ ExchangeCode(p) \/ StoreConnected(p) \/ WriteRevoked(p)
         \/ DeleteCredential(p) \/ DeleteCredentialFails(p)
  PROVE  CredentialTypeOK'
<1>1. Rows /\ Flags /\ Actings
  BY TypesInParts
<1> SUFFICES Rows' /\ Flags' /\ Actings'
  BY DEF CredentialTypeOK, Rows, Flags, Actings, Acting, Step, Use, Statuses
<1> USE DEF pastVars
<1>2. CASE Resolve(p)
  BY <1>1, <1>2, ResolveTyped DEF Resolve, Rows, Flags
<1>3. CASE ReadCredential(p)
  BY <1>1, <1>3, ReadTyped DEF ReadCredential, Rows, Flags
<1>4. CASE RefreshAccessToken(p)
  BY <1>1, <1>4, RefreshTyped DEF RefreshAccessToken, Flags
<1>5. CASE UpsertCredential(p)
  BY <1>1, <1>5, UpsertTyped DEF UpsertCredential, Flags
<1>6. CASE UseConnection(p)
  <2>1. PICK to \in Step : Proceed(p, "use", to)
    BY <1>6 DEF UseConnection, Outcome, Step
  <2> QED
    BY <1>1, <1>6, <2>1, ProceedKeepsActings DEF UseConnection, Rows, Flags
<1>7. CASE WriteStatus(p)
  BY <1>1, <1>7, ProceedKeepsActings DEF WriteStatus, Rows, Flags, Step, Statuses
<1>8. CASE ActingStops(p)
  <2>1. Flags'
    BY <1>1, <1>8 DEF ActingStops, Flags, ActingAt
  <2> QED
    BY <1>1, <1>8, <2>1, ProceedKeepsActings DEF ActingStops, Rows, Step
<1>9. CASE ExchangeCode(p)
  BY <1>1, <1>9, ExchangeTyped DEF ExchangeCode, Flags
<1>10. CASE StoreConnected(p)
  BY <1>1, <1>10, ConnectedTyped DEF StoreConnected, Flags
<1>11. CASE WriteRevoked(p)
  BY <1>1, <1>11, ProceedKeepsActings DEF WriteRevoked, Rows, Flags, Step, Statuses
<1>12. CASE DeleteCredential(p)
  <2>1. Flags'
    BY <1>1, <1>12 DEF DeleteCredential, Flags
  <2>2. Rows'
    BY <1>1, <1>12, CredentialAssumption DEF DeleteCredential, Rows, NoToken
  <2> QED
    BY <1>1, <1>12, <2>1, <2>2, ProceedKeepsActings DEF DeleteCredential, Step
<1>13. CASE DeleteCredentialFails(p)
  BY <1>1, <1>13, ProceedKeepsActings DEF DeleteCredentialFails, Rows, Flags, Step
<1> QED
  BY <1>2, <1>3, <1>4, <1>5, <1>6, <1>7, <1>8, <1>9, <1>10, <1>11, <1>12, <1>13

\* The types hold of a connection that was just made.
LEMMA CredentialInitTyped == CredentialInit => CredentialTypeOK
<1> SUFFICES ASSUME CredentialInit
             PROVE  Rows /\ Flags /\ Actings
  BY TypesInParts
<1>1. Rows
  BY CredentialAssumption DEF CredentialInit, Rows, Statuses
<1>2. Flags
  BY DEF CredentialInit, Flags
<1> QED
  BY <1>1, <1>2, NotActingTyped DEF CredentialInit, Actings

\* The credential, its tokens and whoever acts on it are well typed.
THEOREM TypeCorrect == CredentialSpec => []CredentialTypeOK
<1>1. CredentialTypeOK /\ [CredentialNext]_credentialVars => CredentialTypeOK'
  <2> SUFFICES ASSUME CredentialTypeOK, [CredentialNext]_credentialVars
               PROVE  CredentialTypeOK'
    OBVIOUS
  <2>1. CASE CredentialNext
    BY <2>1, TypesKept DEF CredentialNext
  <2>2. CASE UNCHANGED credentialVars
    BY <2>2 DEF credentialVars, pastVars, CredentialTypeOK
  <2> QED
    BY <2>1, <2>2
<1> QED
  BY CredentialInitTyped, <1>1, PTL DEF CredentialSpec

-----------------------------------------------------------------------------
(* The grant.  GrantKept alone is not inductive.                            *)

Acted == {p \in Process : acting[p].at \in {"refresh", "store", "connect"}}
Storing == {p \in Process : acting[p].at \in {"store", "connect"}}

\* A token that is about to be stored is one the provider accepts.
StoresAccepted == \A p \in Storing : acting[p].token \in accepted

\* And where tokens are replaced, it is nobody else's and not the stored one, so that
\* nobody can have it replaced meanwhile.
StoresOwn ==
  rotates => \A p \in Storing : /\ acting[p].token # credential
                                /\ \A q \in Acted \ {p} : acting[q].token # acting[p].token

\* Where tokens are not replaced, all that were handed out are accepted.
OldTokensStay == ~rotates => accepted = 1..handedOut

\* Where a deletion met nobody who had the token refreshed, nobody will store one.
RevokedMeetsNobody ==
  revoked /\ ~overtaken =>
    credential = NoToken /\ \A p \in Process : acting[p].at \notin {"refresh", "store"}

GrantInv ==
  CredentialTypeOK /\ StoresAccepted /\ StoresOwn /\ OldTokensStay /\ RevokedMeetsNobody
  /\ GrantKept

\* The first grant is accepted, and nobody has it in hand.
LEMMA GrantInvInit == CredentialInit => GrantInv
  BY CredentialInitTyped
  DEF CredentialInit, GrantInv, StoresAccepted, StoresOwn, OldTokensStay, RevokedMeetsNobody,
      GrantKept, Acted, Storing, NotActing

\* A process that neither had anything to store nor is going to.
LEMMA BystanderKeepsGrant ==
  ASSUME GrantInv, CredentialTypeOK', NEW p \in Process,
         \A q \in Process \ {p} : acting'[q] = acting[q],
         acting[p].at # "store" \/ lost' \/ ~rotates,
         acting'[p].at \notin {"refresh", "store", "connect"},
         UNCHANGED <<rotates, handedOut, accepted>>,
         credential' \in {credential, NoToken},
         lost => lost',
         RevokedMeetsNobody'
  PROVE  GrantInv'
<1> USE DEF CredentialTypeOK
<1>1. \A q \in Process \ {p} : acting'[q] = acting[q]
  OBVIOUS
<1>2. Storing' = Storing \ {p} /\ Acted' = Acted \ {p}
  BY <1>1 DEF Storing, Acted
<1>3. StoresAccepted'
  BY <1>1, <1>2 DEF GrantInv, StoresAccepted, Storing
<1>4. StoresOwn'
  <2> SUFFICES ASSUME rotates, NEW q \in Storing \ {p}
               PROVE  /\ acting[q].token # credential'
                      /\ \A r \in Acted \ {p, q} : acting[r].token # acting[q].token
    BY <1>1, <1>2 DEF StoresOwn, Storing, Acted
  <2>1. acting[q].token \in accepted /\ acting[q].token # NoToken
    BY CredentialAssumption DEF GrantInv, StoresAccepted, NoToken
  <2> QED
    BY <2>1 DEF GrantInv, StoresOwn
<1>5. OldTokensStay'
  BY DEF GrantInv, OldTokensStay
<1>6. GrantKept'
  <2>1. revoked' /\ credential' # NoToken => overtaken'
    BY DEF RevokedMeetsNobody
  <2>2. CASE credential \in accepted \union {NoToken} \/ lost \/ lost'
    BY <2>1, <2>2 DEF GrantKept
  <2>3. ~rotates => credential \in accepted \union {NoToken}
    BY CredentialAssumption DEF GrantInv, OldTokensStay, NoToken
  <2>4. CASE /\ acting[p].at # "store"
             /\ \E q \in Process : ActingAt(q, "store") /\ acting[q].token \in accepted
    BY <1>1, <2>1, <2>4 DEF GrantKept, ActingAt
  <2> QED
    BY <2>2, <2>3, <2>4 DEF GrantInv, GrantKept
<1> QED
  BY <1>3, <1>4, <1>5, <1>6 DEF GrantInv

\* A process stores the token in its hands.
LEMMA StoreKeepsGrant ==
  ASSUME GrantInv, CredentialTypeOK', NEW p \in Process,
         \A q \in Process \ {p} : acting'[q] = acting[q],
         p \in Storing,
         acting'[p].at \notin {"refresh", "store", "connect"},
         UNCHANGED <<rotates, handedOut, accepted>>,
         credential' = acting[p].token,
         RevokedMeetsNobody'
  PROVE  GrantInv'
<1> USE DEF CredentialTypeOK
<1>1. \A q \in Process \ {p} : acting'[q] = acting[q]
  OBVIOUS
<1>2. Storing' = Storing \ {p} /\ Acted' = Acted \ {p}
  BY <1>1 DEF Storing, Acted
<1>3. StoresAccepted'
  BY <1>1, <1>2 DEF GrantInv, StoresAccepted, Storing
<1>4. StoresOwn'
  BY <1>1, <1>2 DEF GrantInv, StoresOwn, Storing, Acted
<1>5. OldTokensStay'
  BY DEF GrantInv, OldTokensStay
<1>6. GrantKept'
  BY DEF GrantInv, GrantKept, StoresAccepted, RevokedMeetsNobody
<1> QED
  BY <1>3, <1>4, <1>5, <1>6 DEF GrantInv

\* A process takes the stored token to have it refreshed.
LEMMA ReadKeepsGrant ==
  ASSUME GrantInv, CredentialTypeOK', NEW p \in Process, ReadCredential(p)
  PROVE  GrantInv'
<1> USE DEF CredentialTypeOK, pastVars
<1>1. PICK next \in {"use", "refresh"} :
        acting' = [acting EXCEPT ![p].at = next,
                     ![p].token = IF next = "refresh" THEN credential ELSE NoToken]
  BY DEF ReadCredential
<1>2. \A q \in Process \ {p} : acting'[q] = acting[q]
  BY <1>1
<1>3. acting'[p].at = next /\ (next = "refresh" => acting'[p].token = credential)
  BY <1>1
<1>4. acting[p].at = "read"
  BY DEF ReadCredential, ActingAt
<1>5. ~(revoked /\ ~overtaken)
  BY DEF ReadCredential, GrantInv, RevokedMeetsNobody
<1>6. RevokedMeetsNobody'
  BY <1>5 DEF ReadCredential, RevokedMeetsNobody
<1>7. CASE next = "use"
  BY <1>2, <1>3, <1>4, <1>6, <1>7, BystanderKeepsGrant DEF ReadCredential
<1>8. CASE next = "refresh"
  <2>1. Storing' = Storing /\ Acted' = Acted \union {p} /\ p \notin Storing
    BY <1>2, <1>3, <1>4, <1>8 DEF Storing, Acted
  <2>2. StoresAccepted'
    BY <1>2, <2>1 DEF GrantInv, StoresAccepted, ReadCredential, Storing
  <2>3. StoresOwn'
    BY <1>2, <1>3, <1>4, <1>8, <2>1 DEF GrantInv, StoresOwn, ReadCredential, Storing, Acted
  <2>4. OldTokensStay'
    BY DEF GrantInv, OldTokensStay, ReadCredential
  <2>5. GrantKept'
    BY <1>2, <1>3, <1>4, <1>5 DEF GrantInv, GrantKept, ActingAt, ReadCredential
  <2> QED
    BY <1>6, <2>2, <2>3, <2>4, <2>5 DEF GrantInv
<1> QED
  BY <1>7, <1>8

\* The provider refreshes a token: nobody who has one to store loses it.
LEMMA RefreshKeepsGrant ==
  ASSUME GrantInv, CredentialTypeOK', NEW p \in Process, RefreshAccessToken(p)
  PROVE  GrantInv'
<1> USE DEF CredentialTypeOK, pastVars
<1>1. /\ acting[p].at = "refresh" /\ acting[p].token \in accepted
      /\ UNCHANGED <<rotates, credential, lost, revoked, overtaken>>
  BY DEF RefreshAccessToken, ActingAt
<1>2. ~(revoked /\ ~overtaken)
  BY <1>1 DEF GrantInv, RevokedMeetsNobody
<1>3. RevokedMeetsNobody'
  BY <1>1, <1>2 DEF RevokedMeetsNobody
<1>4. \A q \in Process \ {p} : acting'[q] = acting[q]
  BY DEF RefreshAccessToken, Proceed
<1>5. acting'[p].at = "store"
  BY DEF RefreshAccessToken, Proceed
<1>6. Storing' = Storing \union {p} /\ Acted' = Acted /\ p \in Acted /\ p \notin Storing
  BY <1>1, <1>4, <1>5 DEF Storing, Acted
<1>7. CASE rotates
  <2>1. /\ handedOut' = handedOut + 1
        /\ accepted' = (accepted \ {acting[p].token}) \union {handedOut'}
        /\ acting'[p].token = handedOut'
    BY <1>7 DEF RefreshAccessToken, HandOut
  <2>2. credential # handedOut' /\ \A q \in Process : acting[q].token # handedOut'
    <3>1. handedOut \in Nat /\ credential \in 0..handedOut
      BY CredentialAssumption DEF GrantInv
    <3>2. \A q \in Process : acting[q].token \in 0..handedOut
      BY DEF GrantInv
    <3> QED
      BY <2>1, <3>1, <3>2
  <2>3. \A q \in Storing : acting[q].token \in accepted /\ acting[q].token # acting[p].token
    BY <1>6, <1>7 DEF GrantInv, StoresAccepted, StoresOwn
  <2>4. StoresAccepted'
    BY <1>4, <1>6, <2>1, <2>3 DEF StoresAccepted, Storing
  <2>5. StoresOwn'
    BY <1>1, <1>4, <1>6, <2>1, <2>2 DEF GrantInv, StoresOwn, Storing, Acted
  <2>6. OldTokensStay'
    BY <1>1, <1>7 DEF OldTokensStay
  <2>7. GrantKept'
    BY <1>1, <1>2, <1>5, <2>1 DEF GrantKept, ActingAt
  <2> QED
    BY <1>3, <2>4, <2>5, <2>6, <2>7 DEF GrantInv
<1>8. CASE ~rotates
  <2>1. UNCHANGED <<handedOut, accepted>> /\ acting'[p].token = acting[p].token
    BY <1>8 DEF RefreshAccessToken, Proceed
  <2>2. StoresAccepted'
    BY <1>1, <1>4, <1>6, <2>1 DEF GrantInv, StoresAccepted, Storing
  <2>3. StoresOwn'
    BY <1>1, <1>8 DEF StoresOwn
  <2>4. OldTokensStay'
    BY <1>1, <2>1 DEF GrantInv, OldTokensStay
  <2>5. GrantKept'
    BY <1>1, <1>2, <1>5, <2>1 DEF GrantInv, GrantKept, ActingAt
  <2> QED
    BY <1>3, <2>2, <2>3, <2>4, <2>5 DEF GrantInv
<1> QED
  BY <1>7, <1>8

\* A user's code is exchanged for a token that nobody has.
LEMMA ExchangeKeepsGrant ==
  ASSUME GrantInv, CredentialTypeOK', NEW p \in Process, ExchangeCode(p)
  PROVE  GrantInv'
<1> USE DEF CredentialTypeOK, pastVars
<1>1. /\ acting[p].at = "no"
      /\ handedOut' = handedOut + 1
      /\ accepted' = accepted \union {handedOut'}
      /\ UNCHANGED <<rotates, credential, lost, revoked, overtaken>>
  BY DEF ExchangeCode, ActingAt, HandOut
<1>2. \A q \in Process \ {p} : acting'[q] = acting[q]
  BY DEF ExchangeCode
<1>3. acting'[p].at = "connect" /\ acting'[p].token = handedOut'
  BY DEF ExchangeCode, NotActing
<1>4. Storing' = Storing \union {p} /\ Acted' = Acted \union {p} /\ p \notin Acted
  BY <1>1, <1>2, <1>3 DEF Storing, Acted
<1>5. credential # handedOut' /\ \A q \in Process : acting[q].token # handedOut'
  <2>1. handedOut \in Nat /\ credential \in 0..handedOut
    BY CredentialAssumption DEF GrantInv
  <2>2. \A q \in Process : acting[q].token \in 0..handedOut
    BY DEF GrantInv
  <2> QED
    BY <1>1, <2>1, <2>2
<1>6. StoresAccepted'
  BY <1>1, <1>2, <1>3, <1>4 DEF GrantInv, StoresAccepted, Storing
<1>7. StoresOwn'
  BY <1>1, <1>2, <1>3, <1>4, <1>5 DEF GrantInv, StoresOwn, Storing, Acted
<1>8. OldTokensStay'
  BY <1>1, CredentialAssumption DEF GrantInv, OldTokensStay
<1>9. RevokedMeetsNobody'
  BY <1>1, <1>2, <1>3 DEF GrantInv, RevokedMeetsNobody
<1>10. GrantKept'
  BY <1>1, <1>2 DEF GrantInv, GrantKept, ActingAt
<1> QED
  BY <1>6, <1>7, <1>8, <1>9, <1>10 DEF GrantInv

\* Every step of a process keeps the grant.
LEMMA StepKeepsGrant ==
  ASSUME GrantInv, NEW p \in Process,
         \/ Resolve(p) \/ ReadCredential(p) \/ RefreshAccessToken(p) \/ UpsertCredential(p)
         \/ UseConnection(p) \/ WriteStatus(p) \/ ActingStops(p)
         \/ ExchangeCode(p) \/ StoreConnected(p) \/ WriteRevoked(p)
         \/ DeleteCredential(p) \/ DeleteCredentialFails(p)
  PROVE  GrantInv'
<1>1. CredentialTypeOK /\ CredentialTypeOK'
  BY TypesKept DEF GrantInv
<1>2. acting = [q \in Process |-> acting[q]]
  BY <1>1 DEF CredentialTypeOK
<1> USE DEF pastVars, ActingAt
<1>3. CASE Resolve(p)
  <2>1. (\A q \in Process \ {p} : acting'[q] = acting[q]) /\ acting'[p].at = "read"
    BY <1>2, <1>3 DEF Resolve, NotActing
  <2>2. RevokedMeetsNobody'
    BY <1>3, <2>1 DEF Resolve, GrantInv, RevokedMeetsNobody
  <2> QED
    BY <1>1, <1>3, <2>1, <2>2, BystanderKeepsGrant DEF Resolve
<1>4. CASE UpsertCredential(p)
  <2>1. (\A q \in Process \ {p} : acting'[q] = acting[q]) /\ acting'[p].at \in {"no", "use"}
    BY <1>1, <1>4 DEF UpsertCredential, Refreshed, NotActing, CredentialTypeOK
  <2>2. ~(revoked /\ ~overtaken) /\ p \in Storing
    BY <1>4 DEF UpsertCredential, Refreshed, GrantInv, RevokedMeetsNobody, Storing
  <2>3. RevokedMeetsNobody'
    BY <1>4, <2>2 DEF UpsertCredential, RevokedMeetsNobody
  <2> QED
    BY <1>1, <1>4, <2>1, <2>2, <2>3, StoreKeepsGrant DEF UpsertCredential
<1>5. CASE StoreConnected(p)
  <2>1. (\A q \in Process \ {p} : acting'[q] = acting[q]) /\ acting'[p].at = "CONNECTED"
    BY <1>2, <1>5 DEF StoreConnected, NotActing
  <2>2. RevokedMeetsNobody' /\ p \in Storing
    BY <1>5 DEF StoreConnected, RevokedMeetsNobody, Storing
  <2> QED
    BY <1>1, <1>5, <2>1, <2>2, StoreKeepsGrant DEF StoreConnected
<1>6. ASSUME NEW from, NEW to \in {"no", "CONNECTED", "ERROR", "revoke"}, Proceed(p, from, to),
             UNCHANGED <<rotates, handedOut, accepted>>, credential' \in {credential, NoToken},
             from # "store" \/ lost' \/ ~rotates, lost => lost',
             UNCHANGED <<revoked, overtaken>> \/ DeleteCredential(p)
      PROVE  GrantInv'
  <2>1. (\A q \in Process \ {p} : acting'[q] = acting[q]) /\ acting'[p].at = to
    BY <1>1, <1>6 DEF Proceed, NotActing, CredentialTypeOK
  <2>2. CASE UNCHANGED <<revoked, overtaken>>
    <3>1. RevokedMeetsNobody'
      BY <1>6, <2>1, <2>2 DEF GrantInv, RevokedMeetsNobody
    <3> QED
      BY <1>1, <1>6, <2>1, <3>1, BystanderKeepsGrant DEF Proceed
  <2>3. CASE DeleteCredential(p)
    <3>1. RevokedMeetsNobody'
      BY <2>1, <2>3 DEF DeleteCredential, RevokedMeetsNobody
    <3> QED
      BY <1>1, <1>6, <2>1, <3>1, BystanderKeepsGrant DEF Proceed
  <2> QED
    BY <1>6, <2>2, <2>3
<1>7. CASE UseConnection(p)
  <2>1. PICK to \in {"no", "CONNECTED", "ERROR"} : Proceed(p, "use", to)
    BY <1>7 DEF UseConnection, Outcome
  <2> QED
    BY <1>6, <1>7, <2>1 DEF UseConnection
<1>8. CASE WriteStatus(p)
  BY <1>6, <1>8 DEF WriteStatus
<1>9. CASE ActingStops(p)
  BY <1>6, <1>9 DEF ActingStops
<1>10. CASE WriteRevoked(p)
  BY <1>6, <1>10 DEF WriteRevoked
<1>11. CASE DeleteCredential(p)
  BY <1>6, <1>11 DEF DeleteCredential
<1>12. CASE DeleteCredentialFails(p)
  BY <1>6, <1>12 DEF DeleteCredentialFails
<1> QED
  BY <1>1, <1>3, <1>4, <1>5, <1>7, <1>8, <1>9, <1>10, <1>11, <1>12,
     ReadKeepsGrant, RefreshKeepsGrant, ExchangeKeepsGrant

\* However many refresh one credential at once, die or fail, and whatever users do
\* meanwhile, the stored token is accepted, about to be replaced, or its replacement
\* lost; and nothing revoked comes back that nobody was refreshing.
THEOREM GrantSafe == CredentialSpec => []GrantKept
<1>1. GrantInv /\ [CredentialNext]_credentialVars => GrantInv'
  <2> SUFFICES ASSUME GrantInv, [CredentialNext]_credentialVars
               PROVE  GrantInv'
    OBVIOUS
  <2>1. CASE CredentialNext
    BY <2>1, StepKeepsGrant DEF CredentialNext
  <2>2. CASE UNCHANGED credentialVars
    BY <2>2 DEF credentialVars, pastVars, GrantInv, CredentialTypeOK, StoresAccepted,
                StoresOwn, OldTokensStay, RevokedMeetsNobody, GrantKept, Acted, Storing, ActingAt
  <2> QED
    BY <2>1, <2>2
<1>2. GrantInv => GrantKept
  BY DEF GrantInv
<1> QED
  BY GrantInvInit, <1>1, <1>2, PTL DEF CredentialSpec

=============================================================================
