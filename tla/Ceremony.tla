------------------------------ MODULE Ceremony ------------------------------
(***************************************************************************)
(* The identity ceremony: CeremonyService (src/src/services/ceremony.ts)   *)
(* from device enrollment to on-chain registration, then key rotation,     *)
(* revocation and rebinding after a transfer, in live mode.                *)
(*                                                                         *)
(* A session acts for its own wallet, and the human is shown the current   *)
(* thumbprint: requests with another wallet or thumbprint are refused and  *)
(* change nothing.                                                         *)
(***************************************************************************)
EXTENDS KyaStore

CONSTANTS
    Session,    \* hosted KYC sessions
    KycEvent    \* normalized statuses the KYC provider reports

ASSUME CeremonyAssumption ==
    KycEvent \subseteq {"pending", "verified", "needs_review", "rejected",
                        "expired"}

VARIABLE
    kycSession  \* [Session -> [owner, webhookEventIds]]

ceremonyVars == <<storeVars, call, kycSession>>

CeremonyTypeOK ==
    /\ StoreTypeOK
    /\ kycSession \in [Session -> [owner : Owner \cup {None},
                                   events : SUBSET KycEvent]]

CeremonyInit ==
    /\ StoreInit
    /\ kycSession = [s \in Session |-> [owner |-> None, events |-> {}]]

-----------------------------------------------------------------------------
(* Pairing. *)

(* startDeviceEnrollment. *)
StartEnrollment(a, k) ==
    /\ enrollment[a].status = "absent"
    /\ enrollment' = [enrollment EXCEPT ![a].status = "awaiting_human",
                                        ![a].key = k]
    /\ UNCHANGED <<kyc, credentials, approvals, call, kycSession>>

(* pairingExpiresAt passes. *)
PairingLapses(a) ==
    /\ "pairing" \in Lapses
    /\ enrollment[a].status # "absent" /\ ~enrollment[a].lapsed
    /\ enrollment' = [enrollment EXCEPT ![a].lapsed = TRUE]
    /\ UNCHANGED <<kyc, credentials, approvals, call, kycSession>>

(* findOrCreatePrincipal, on sign-in. *)
SignIn(o) ==
    /\ kyc[o] = "absent"
    /\ kyc' = [kyc EXCEPT ![o] = "pending"]
    /\ UNCHANGED <<enrollment, credentials, approvals, call, kycSession>>

(* claimDeviceEnrollment reads the principal before it takes the lock ... *)
PairRead(c, a, o) ==
    /\ enrollment[a].status # "absent" /\ kyc[o] # "absent"
    /\ Begin(c, [Idle EXCEPT !.op = "pair", !.agent = a, !.owner = o,
                             !.kyc = kyc[o]])
    /\ UNCHANGED <<storeVars, kycSession>>

(* ... and decides with what it read whether KYC is needed. *)
PairedStatus(e, kycRead) ==
    IF e.status \in {"awaiting_human", "awaiting_kyc"}
    THEN IF kycRead = "verified" THEN "awaiting_fingerprint" ELSE "awaiting_kyc"
    ELSE e.status

PairCommit(c) ==
    LET a == call[c].agent
        e == enrollment[a]
    IN  /\ call[c].op = "pair"
        /\ ~e.claimed /\ ~e.lapsed
        /\ e.principal \in {None, call[c].owner}
        /\ enrollment' = [enrollment EXCEPT
                            ![a].principal = call[c].owner,
                            ![a].claimed = TRUE,
                            ![a].status = PairedStatus(e, call[c].kyc)]
        /\ Finish(c)
        /\ UNCHANGED <<kyc, credentials, approvals, kycSession>>

-----------------------------------------------------------------------------
(* KYC of the person. *)

(* startKyc: a new session every time, while KYC is needed.  The record is  *)
(* pushed after the provider answered, but nothing looks at it before its   *)
(* first webhook, so check and push are one step.                           *)
StartKyc(s, o) ==
    /\ kyc[o] # "absent" /\ ~KycActive(o)
    /\ kycSession[s].owner = None
    /\ kycSession' = [kycSession EXCEPT ![s].owner = o]
    /\ UNCHANGED <<storeVars, call>>

(* The principal's enrollments that wait for KYC move on. *)
AfterVerified(o) ==
    [a \in Agent |->
       IF enrollment[a].principal = o /\ enrollment[a].status = "awaiting_kyc"
       THEN [enrollment[a] EXCEPT !.status = "awaiting_fingerprint"]
       ELSE enrollment[a]]

(* handleKycWebhook: events come once per id, in any order. *)
KycWebhook(s, status) ==
    LET o == kycSession[s].owner
    IN  /\ o # None
        /\ status \notin kycSession[s].events
        /\ kycSession' = [kycSession EXCEPT ![s].events = @ \cup {status}]
        /\ kyc' = [kyc EXCEPT ![o] = status]
        /\ enrollment' = IF status = "verified" THEN AfterVerified(o)
                                                ELSE enrollment
        /\ UNCHANGED <<credentials, approvals, call>>

(* kycExpiresAt passes. *)
KycLapses(o) ==
    /\ "kyc" \in Lapses
    /\ kyc[o] = "verified"
    /\ kyc' = [kyc EXCEPT ![o] = "lapsed"]
    /\ UNCHANGED <<enrollment, credentials, approvals, call, kycSession>>

-----------------------------------------------------------------------------
(* Fingerprint approval and registration. *)

(* With an agentId the enrollment is bound again, to the session's wallet.  *)
Approved(e) ==
    IF e.agentId # None
    THEN [e EXCEPT !.status = "bound", !.approved = TRUE, !.owner = e.principal]
    ELSE [e EXCEPT !.status = "awaiting_register", !.approved = TRUE]

CanApprove(e) ==
    /\ e.principal # None
    /\ KycActive(e.principal)
    /\ e.status \in {"suspended", "awaiting_fingerprint"}

Approve(a) ==
    /\ CanApprove(enrollment[a])
    /\ enrollment' = [enrollment EXCEPT ![a] = Approved(enrollment[a])]
    /\ approvals' = approvals \cup
         {<<a, enrollment[a].principal, enrollment[a].key>>}
    /\ UNCHANGED <<kyc, credentials>>

(* approveFingerprint, by the wallet of the principal. *)
ApproveFingerprint(a) ==
    /\ Approve(a)
    /\ UNCHANGED <<call, kycSession>>

(* prepareRegistrationIntent and prepareRegister check on what they read,   *)
(* ask the chain whether the registry is ready ...                          *)
PrepareRead(c, a) ==
    LET e == enrollment[a]
    IN  /\ e.status \in {"awaiting_register", "awaiting_onchain"}
        /\ KycActive(e.principal) /\ e.approved
        /\ Begin(c, [Idle EXCEPT !.op = "prepare", !.agent = a])
        /\ UNCHANGED <<storeVars, kycSession>>

(* ... and store the intent whatever the enrollment has become.             *)
PrepareCommit(c) ==
    LET a == call[c].agent
    IN  /\ call[c].op = "prepare"
        /\ enrollment' = [enrollment EXCEPT
                            ![a].intent = TRUE,
                            ![a].status = IF @ = "awaiting_register"
                                          THEN "awaiting_onchain" ELSE @]
        /\ Finish(c)
        /\ UNCHANGED <<kyc, credentials, approvals, kycSession>>

(* recordRegistrationSubmission: the hash is the client's word, kept once.  *)
RecordSubmission(a, t) ==
    /\ enrollment[a].principal # None
    /\ enrollment[a].intent /\ enrollment[a].userOp = None
    /\ enrollment' = [enrollment EXCEPT ![a].userOp = t]
    /\ UNCHANGED <<kyc, credentials, approvals, call, kycSession>>

\* Deviation (mutant): asked only before the status has moved on.
ResolveSubmissionEarly(a) ==
    LET e == enrollment[a]
    IN  /\ e.userOp # None /\ e.tx = None
        /\ e.status = "awaiting_register"
        /\ Minted(e.userOp, e.principal)
        /\ enrollment' = [enrollment EXCEPT ![a].tx = e.userOp]
        /\ UNCHANGED <<kyc, credentials, approvals, call, kycSession>>

(* resolveRegistrationSubmission: the provider reports the transaction of   *)
(* an operation of the principal's own account.  The hash it was asked for  *)
(* is never replaced, so read, answer and lock are one step.                *)
ResolveSubmission(a) ==
    LET e == enrollment[a]
    IN  /\ e.userOp # None /\ e.tx = None
        /\ Minted(e.userOp, e.principal)
        /\ enrollment' = [enrollment EXCEPT ![a].tx = e.userOp]
        /\ UNCHANGED <<kyc, credentials, approvals, call, kycSession>>

-----------------------------------------------------------------------------
(* Rotation, revocation, rebinding. *)

\* Deviation (mutant): the approval of the old key covers the new one.
RotateKeyKeepsApproval(a, k) ==
    /\ enrollment[a].principal # None /\ enrollment[a].agentId # None
    /\ enrollment' = [enrollment EXCEPT ![a].key = k]
    /\ credentials' = MarkCredentials(a, {"active", "suspended"}, "revoked")
    /\ UNCHANGED <<kyc, approvals, call, kycSession>>

(* rotateKey: from any status of an enrollment that has an agentId. *)
RotateKey(a, k) ==
    /\ enrollment[a].principal # None /\ enrollment[a].agentId # None
    /\ enrollment' = [enrollment EXCEPT ![a].key = k,
                                        ![a].status = "awaiting_fingerprint",
                                        ![a].approved = FALSE]
    /\ credentials' = MarkCredentials(a, {"active", "suspended"}, "revoked")
    /\ UNCHANGED <<kyc, approvals, call, kycSession>>

(* revokeAgent: from any status. *)
RevokeAgent(a) ==
    /\ enrollment[a].principal # None
    /\ enrollment' = [enrollment EXCEPT ![a].status = "revoked"]
    /\ credentials' = MarkCredentials(a, {"active", "suspended"}, "revoked")
    /\ UNCHANGED <<kyc, approvals, call, kycSession>>

(* rebindAfterTransfer reads the enrollment ... *)
RebindRead(c, a, o) ==
    LET e == enrollment[a]
    IN  /\ e.status = "suspended" /\ e.agentId # None /\ e.owner = o
        /\ Begin(c, [Idle EXCEPT !.op = "rebind", !.agent = a, !.owner = o,
                                 !.seen = e])
        /\ UNCHANGED <<storeVars, kycSession>>

(* ... asks the chain for the owner ... *)
RebindOwner(c) ==
    /\ call[c].op = "rebind"
    /\ tokenOwner[call[c].seen.agentId] = call[c].owner
    /\ Goto(c, "rebind_owned")
    /\ UNCHANGED <<storeVars, kycSession>>

(* ... looks up the wallet's principal and its KYC ... *)
RebindKyc(c) ==
    /\ call[c].op = "rebind_owned"
    /\ KycActive(call[c].owner)
    /\ Goto(c, "rebind_kyc")
    /\ UNCHANGED <<storeVars, kycSession>>

(* ... hands the enrollment over ... *)
RebindCommit(c) ==
    LET a == call[c].agent
    IN  /\ call[c].op = "rebind_kyc"
        /\ enrollment[a].status = "suspended"
        /\ enrollment' = [enrollment EXCEPT
                            ![a].principal = call[c].owner,
                            ![a].owner = call[c].owner,
                            ![a].status = "awaiting_fingerprint",
                            ![a].approved = FALSE]
        /\ credentials' = MarkCredentials(a, {"active", "suspended"}, "revoked")
        /\ Goto(c, "rebind_done")
        /\ UNCHANGED <<kyc, approvals, kycSession>>

(* ... and approves the key under a second lock. *)
RebindApprove(c) ==
    LET a == call[c].agent
    IN  /\ call[c].op = "rebind_done"
        /\ enrollment[a].principal = call[c].owner
        /\ enrollment[a].key = call[c].seen.key
        /\ Approve(a)
        /\ Finish(c)
        /\ UNCHANGED kycSession

CeremonyNext ==
    \/ \E a \in Agent : \/ PairingLapses(a)
                        \/ ApproveFingerprint(a)
                        \/ ResolveSubmission(a)
                        \/ RevokeAgent(a)
                        \/ \E k \in Key : StartEnrollment(a, k) \/ RotateKey(a, k)
                        \/ \E t \in Token : RecordSubmission(a, t)
    \/ \E o \in Owner : \/ SignIn(o)
                        \/ KycLapses(o)
                        \/ \E s \in Session : StartKyc(s, o)
    \/ \E s \in Session, status \in KycEvent : KycWebhook(s, status)
    \/ \E c \in Call : \/ \E a \in Agent : \/ PrepareRead(c, a)
                                           \/ \E o \in Owner : \/ PairRead(c, a, o)
                                                               \/ RebindRead(c, a, o)
                       \/ PairCommit(c)
                       \/ PrepareCommit(c)
                       \/ RebindOwner(c)
                       \/ RebindKyc(c)
                       \/ RebindCommit(c)
                       \/ RebindApprove(c)

=============================================================================
