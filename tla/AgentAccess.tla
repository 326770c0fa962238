---------------------------- MODULE AgentAccess ----------------------------
(***************************************************************************)
(* Credentials and access tokens of bound agents: claimCredential,         *)
(* pollDeviceEnrollmentToken, createChallenge and verifyChallenge          *)
(* (src/src/services/ceremony.ts), issueKyaCredential                      *)
(* (src/src/credentials/jws.ts) and the check of an access token           *)
(* (src/src/auth/agent-access.ts).                                         *)
(*                                                                         *)
(* Signatures are valid or the request ends.  Re-signing an active         *)
(* credential changes nothing.                                             *)
(***************************************************************************)
EXTENDS Ceremony

CONSTANT
    MaxCredentials   \* bound: credentials issued

ASSUME AccessAssumption == MaxCredentials \in Nat

VARIABLES
    nonce,          \* [Nonce -> [state, agent]]
    accessTokens    \* AccessTokenRecord, with the nonce that earned it

accessVars == <<nonce, accessTokens>>

AccessTypeOK ==
    /\ nonce \in [Nonce -> [state : {"free", "issued", "lapsed", "consumed"},
                            agent : Agent \cup {None}]]
    /\ accessTokens \subseteq
         [jti : Nat, nonce : Nonce, agent : Agent, principal : Owner,
          key : Key, cred : Nat]

AccessInit ==
    /\ nonce = [n \in Nonce |-> [state |-> "free", agent |-> None]]
    /\ accessTokens = {}

-----------------------------------------------------------------------------
(* Credentials. *)

(* claimCredential reads the store: enrollment, KYC and active credential.  *)
ClaimRead(c, a) ==
    LET e == enrollment[a]
    IN  /\ e.status = "bound" /\ e.agentId # None
        /\ KycActive(e.principal)
        /\ Begin(c, [Idle EXCEPT !.op = "claim", !.agent = a,
                                 !.owner = e.principal, !.seen = e,
                                 !.cred = ActiveCredential(a)])
        /\ UNCHANGED <<storeVars, kycSession, accessVars>>

(* The chain is asked for the owner.  A credential that was active is       *)
(* signed again and the request is over.                                    *)
ClaimOwner(c) ==
    /\ call[c].op = "claim"
    /\ tokenOwner[call[c].seen.agentId] = call[c].owner
    /\ call[c].seen.owner \in {None, call[c].owner}
    /\ IF call[c].cred # 0 THEN Finish(c) ELSE Goto(c, "claim_owned")
    /\ UNCHANGED <<storeVars, kycSession, accessVars>>

CredentialFor(request) ==
    [agent |-> request.agent, principal |-> request.owner,
     key |-> request.seen.key, agentId |-> request.seen.agentId,
     owner |-> request.owner, status |-> "active", lapsed |-> FALSE]

(* issueKyaCredential: one lock, without a look at the enrollment.          *)
ClaimIssue(c) ==
    /\ call[c].op = "claim_owned"
    /\ Len(credentials) < MaxCredentials
    /\ credentials' = Append(MarkCredentials(call[c].agent, {"active"}, "revoked"),
                             CredentialFor(call[c]))
    /\ Finish(c)
    /\ UNCHANGED <<enrollment, kyc, approvals, kycSession, accessVars>>

CredentialLapses(i) ==
    /\ "credential" \in Lapses
    /\ ~credentials[i].lapsed
    /\ credentials' = [credentials EXCEPT ![i].lapsed = TRUE]
    /\ UNCHANGED <<enrollment, kyc, approvals, call, kycSession, accessVars>>

(* pollDeviceEnrollmentToken hands the credential to the device, once.      *)
PollDeviceToken(a) ==
    /\ ~enrollment[a].delivered
    /\ enrollment[a].status = "bound"
    /\ ActiveCredential(a) # 0
    /\ enrollment' = [enrollment EXCEPT ![a].delivered = TRUE]
    /\ UNCHANGED <<kyc, credentials, approvals, call, kycSession, accessVars>>

-----------------------------------------------------------------------------
(* Challenges. *)

CreateChallenge(n, a) ==
    /\ nonce[n].state = "free"
    /\ enrollment[a].status = "bound"
    /\ nonce' = [nonce EXCEPT ![n] = [state |-> "issued", agent |-> a]]
    /\ UNCHANGED <<storeVars, call, kycSession, accessTokens>>

NonceLapses(n) ==
    /\ "nonce" \in Lapses
    /\ nonce[n].state = "issued"
    /\ nonce' = [nonce EXCEPT ![n].state = "lapsed"]
    /\ UNCHANGED <<storeVars, call, kycSession, accessTokens>>

\* Deviation (mutant): a credential that was revoked is not told apart.
CredentialMatchesRevoked(cred, e, principal) ==
    /\ cred.principal = principal
    /\ cred.key = e.key
    /\ cred.agentId = e.agentId
    /\ cred.owner = principal

(* The credential carries exactly the enrollment's binding. *)
CredentialMatches(cred, e, principal) ==
    /\ cred.status = "active" /\ ~cred.lapsed
    /\ cred.principal = principal
    /\ cred.key = e.key
    /\ cred.agentId = e.agentId
    /\ cred.owner = principal

(* verifyChallenge takes the first active credential, expired or not ... *)
FirstActive(a) ==
    LET active == {i \in DOMAIN credentials : credentials[i].agent = a /\
                                              credentials[i].status = "active"}
    IN  IF active = {} THEN 0
        ELSE CHOOSE i \in active : \A j \in active : i <= j

(* ... and checks binding and nonce on the snapshot.                        *)
VerifyRead(c, n) ==
    LET a == nonce[n].agent
        e == enrollment[a]
        i == FirstActive(a)
    IN  /\ nonce[n].state = "issued"
        /\ e.status = "bound"
        /\ i # 0
        /\ KycActive(e.principal)
        /\ e.owner = e.principal
        /\ CredentialMatches(credentials[i], e, e.principal)
        /\ Begin(c, [Idle EXCEPT !.op = "verify", !.agent = a,
                                 !.owner = e.principal, !.seen = e,
                                 !.cred = i, !.nonce = n])
        /\ UNCHANGED <<storeVars, kycSession, accessVars>>

(* The signature holds; the chain is asked for the owner; a token is built. *)
VerifyOwner(c) ==
    /\ call[c].op = "verify"
    /\ tokenOwner[call[c].seen.agentId] = call[c].owner
    /\ Goto(c, "verify_owned")
    /\ UNCHANGED <<storeVars, kycSession, accessVars>>

(* What the last lock compares with the snapshot. *)
SameBinding(e, seen) ==
    /\ e.status = "bound"
    /\ e.principal = seen.principal
    /\ e.key = seen.key
    /\ e.agentId = seen.agentId
    /\ e.owner = seen.owner

\* Deviation (mutant): a nonce is looked up, not checked for use.
NonceKnown(n, a) == nonce[n].agent = a

NonceUsable(n, a) == nonce[n] = [state |-> "issued", agent |-> a]

(* Everything is checked again in the lock that consumes the nonce and      *)
(* appends the token.                                                       *)
VerifyCommit(c) ==
    LET a == call[c].agent
        e == enrollment[a]
        n == call[c].nonce
    IN  /\ call[c].op = "verify_owned"
        /\ NonceUsable(n, a)
        /\ SameBinding(e, call[c].seen)
        /\ KycActive(e.principal)
        /\ CredentialMatches(credentials[call[c].cred], e, e.principal)
        /\ nonce' = [nonce EXCEPT ![n].state = "consumed"]
        /\ accessTokens' = accessTokens \cup
             {[jti |-> Cardinality(accessTokens) + 1, nonce |-> n,
               agent |-> a, principal |-> call[c].owner,
               key |-> call[c].seen.key, cred |-> call[c].cred]}
        /\ Finish(c)
        /\ UNCHANGED <<storeVars, kycSession>>

(* requireAgentAuth accepts a request with this token: the context resolves *)
(* (resolveAuthenticatedAgentContext) and the chain names the same owner.   *)
Authenticated(token) ==
    LET e == enrollment[token.agent]
        cred == credentials[token.cred]
    IN  /\ e.status = "bound"
        /\ e.principal = token.principal
        /\ e.key = token.key
        /\ CredentialMatches(cred, e, token.principal)
        /\ KycActive(token.principal)
        /\ e.owner \in {None, token.principal}
        /\ tokenOwner[e.agentId] = token.principal

AccessNext ==
    \/ \E c \in Call : \/ \E a \in Agent : ClaimRead(c, a)
                       \/ ClaimOwner(c)
                       \/ ClaimIssue(c)
                       \/ \E n \in Nonce : VerifyRead(c, n)
                       \/ VerifyOwner(c)
                       \/ VerifyCommit(c)
    \/ \E i \in DOMAIN credentials : CredentialLapses(i)
    \/ \E a \in Agent : \/ PollDeviceToken(a)
                        \/ \E n \in Nonce : CreateChallenge(n, a)
    \/ \E n \in Nonce : NonceLapses(n)

=============================================================================
