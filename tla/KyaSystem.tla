------------------------------ MODULE KyaSystem ------------------------------
(***************************************************************************)
(* The identity platform: the ceremony, credentials and access tokens, the *)
(* registry watcher and the chain, composed.                               *)
(***************************************************************************)
EXTENDS RegistryWatcher

vars == <<chainVars, ceremonyVars, accessVars, watcherVars>>

TypeOK == ChainTypeOK /\ CeremonyTypeOK /\ AccessTypeOK /\ WatcherTypeOK

Init == ChainInit /\ CeremonyInit /\ AccessInit /\ WatcherInit

Next ==
    \/ ChainNext /\ UNCHANGED <<ceremonyVars, accessVars, watcherVars>>
    \/ CeremonyNext /\ UNCHANGED <<chainVars, accessVars, watcherVars>>
    \/ AccessNext /\ UNCHANGED <<chainVars, watcherVars>>
    \/ \E c \in Call : /\ Abandon(c)
                       /\ UNCHANGED <<chainVars, kycSession, accessVars,
                                      watcherVars>>
    \/ WatcherNext /\ UNCHANGED <<chainVars, kycSession, accessVars>>

Spec == Init /\ [][Next]_vars

(* The timers of the watcher keep firing, and the client polls the          *)
(* resolution of its submission while the page is open.                     *)
Fairness ==
    /\ WF_vars(PollBegin /\ UNCHANGED <<chainVars, kycSession, accessVars>>)
    /\ WF_vars(PollTake /\ UNCHANGED <<chainVars, kycSession, accessVars>>)
    /\ WF_vars(PollEnd /\ UNCHANGED <<chainVars, kycSession, accessVars>>)
    /\ \A i \in 1..MaxHeight :
         SF_vars(/\ i \in LogIndex /\ FlushTake(i)
                 /\ UNCHANGED <<chainVars, kycSession, accessVars>>)
    /\ \A w \in Loop :
         WF_vars(/\ \/ ReadOwner(w) \/ ApplyRegistered(w) \/ KeepPending(w)
                    \/ DropPending(w) \/ ApplyTransfer(w)
                    \/ SuspendRead(w) \/ SuspendWrite(w)
                 /\ UNCHANGED <<chainVars, kycSession, accessVars>>)
    /\ \A a \in Agent :
         WF_vars(/\ ResolveSubmission(a)
                 /\ UNCHANGED <<chainVars, accessVars, watcherVars>>)

FairSpec == Spec /\ Fairness

-----------------------------------------------------------------------------
(* Properties. *)

(* Nobody's key acts for a person who has not approved it: a bound          *)
(* enrollment, a credential and an access token carry a key its principal   *)
(* approved - after every rotation, rebinding and stale read (approval      *)
(* "MUST be invalidated by key rotation or re-pairing").                    *)
KeyIsApproved ==
    /\ \A a \in Agent :
         enrollment[a].status \in {"awaiting_register", "awaiting_onchain",
                                   "bound"}
           => <<a, enrollment[a].principal, enrollment[a].key>> \in approvals
    /\ \A i \in DOMAIN credentials :
         <<credentials[i].agent, credentials[i].principal, credentials[i].key>>
            \in approvals

(* An agent has at most one active credential, whichever requests raced to  *)
(* issue one.                                                               *)
OneActiveCredential ==
    \A i, j \in DOMAIN credentials :
        /\ credentials[i].agent = credentials[j].agent
        /\ credentials[i].status = "active" /\ credentials[j].status = "active"
        => i = j

(* A challenge yields one access token, and none is burned without one      *)
(* ("Nonce consumption and access-token metadata append share one lock").   *)
NonceYieldsToken ==
    /\ \A n \in Nonce : (nonce[n].state = "consumed") <=>
                        (\E t \in accessTokens : t.nonce = n)
    /\ \A s, t \in accessTokens : s.nonce = t.nonce => s = t

(* The agentId of an enrollment was minted under its own URI, by the        *)
(* operation its principal submitted, and the enrollment belongs to a       *)
(* wallet that held the token: its minter, or one it was transferred to.    *)
AgentIdIsEvidenced ==
    \A a \in Agent :
        enrollment[a].agentId # None =>
            /\ enrollment[a].userOp = enrollment[a].agentId
            /\ \E i \in processedEvents :
                 /\ logs[i].kind = "Registered"
                 /\ logs[i].token = enrollment[a].agentId
                 /\ logs[i].agent = a
            /\ \E i \in LogIndex : /\ logs[i].token = enrollment[a].agentId
                                   /\ logs[i].owner = enrollment[a].principal

(* Whoever holds the agent's token on the chain is the person an accepted   *)
(* request acts for, and that person approved the key it is signed with;    *)
(* the access token was earned with the agent's one active credential.  So  *)
(* a suspension, a rotation or a revocation that has been written cuts      *)
(* every earlier token off, for good.                                       *)
AccessFollowsBinding ==
    \A t \in accessTokens :
        Authenticated(t) =>
            LET e == enrollment[t.agent]
            IN  /\ <<t.agent, tokenOwner[e.agentId], t.key>> \in approvals
                /\ t.cred = FirstActive(t.agent)

(* Evidence the watcher has read is not lost: while an enrollment waits for *)
(* the registration its principal submitted and minted, the log is queued   *)
(* or being applied ("Re-queue on transient failure so we don't drop        *)
(* permanently").                                                           *)
EvidenceIsKept ==
    \A i \in LogIndex :
        LET e == enrollment[logs[i].agent]
        IN  /\ logs[i].kind = "Registered"
            /\ logs[i].block <= lastPolledBlock
            /\ e.status = "awaiting_onchain"
            /\ e.userOp = logs[i].token /\ e.principal = logs[i].owner
            /\ tokenOwner[logs[i].token] = logs[i].owner
            => \/ i \in pending \cup Elements(durable)
               \/ \E w \in Loop : job[w].log = i

(* A registration that was submitted and mined binds the agent, unless its  *)
(* owner revokes it first.                                                  *)
RegistrationBinds ==
    \A a \in Agent, t \in Token :
        (/\ enrollment[a].status = "awaiting_onchain"
         /\ enrollment[a].userOp = t
         /\ \E i \in LogIndex : /\ logs[i].kind = "Registered"
                                /\ logs[i].token = t /\ logs[i].agent = a
                                /\ logs[i].owner = enrollment[a].principal)
        ~> (enrollment[a].agentId = t \/ enrollment[a].status = "revoked")

-----------------------------------------------------------------------------
(* What the documents and comments say and the code does not do. *)

(* ENROLLMENT_TRANSITIONS: a status changes along the table only. *)
FollowsTransitionTable ==
    [][\A a \in Agent :
         enrollment'[a].status # enrollment[a].status =>
           enrollment'[a].status \in ENROLLMENT_TRANSITIONS[enrollment[a].status]
      ]_vars

(* "ownership transfer MUST suspend the binding until current chain         *)
(* evidence is valid again": a suspension is lifted only for the account    *)
(* that holds the token.                                                    *)
SuspensionNeedsChainOwner ==
    [][\A a \in Agent :
         enrollment[a].status = "suspended" /\ enrollment'[a].status = "bound" =>
           tokenOwner[enrollment[a].agentId] = enrollment'[a].owner
      ]_vars

(* "Issuance must atomically bind the credential to the current thumbprint  *)
(* and enrollment status": no active credential for a revoked agent or for  *)
(* a key it no longer has.                                                  *)
ActiveCredentialIsCurrent ==
    \A i \in DOMAIN credentials :
        credentials[i].status = "active" =>
            /\ enrollment[credentials[i].agent].status # "revoked"
            /\ enrollment[credentials[i].agent].key = credentials[i].key

(* "Re-KYC only if that person lacks active verification": an agent of a    *)
(* verified person does not wait for KYC.                                   *)
VerifiedNeedsNoKyc ==
    \A a \in Agent :
        enrollment[a].status = "awaiting_kyc" => ~KycActive(enrollment[a].principal)

=============================================================================
