--------------------------- MODULE OpenMandates ---------------------------
(***************************************************************************)
(* Open mandates and the trusted surface that activates them.              *)
(*                                                                         *)
(*  - InMemoryOpenMandateRegistry (src/src/mandates/autonomy.ts): create,  *)
(*    getAuthorizedActive, activateWithVerifiedSignature and revoke, the   *)
(*    last two serialized by one promise chain;                            *)
(*  - Eip712TrustedSurfaceService and InMemoryTrustedSurfaceApprovalStore  *)
(*    (src/src/mandates/trusted-surface.ts): approval challenges, checked  *)
(*    against KYA and consumed inside the activation critical section.     *)
(*                                                                         *)
(* Payload hashes are frozen at create() and never change, so the hash     *)
(* comparisons are left out; a challenge is always for one mandate and the *)
(* wallet that owns it.  A signature is valid or the call aborts.          *)
(***************************************************************************)
EXTENDS Integers, FiniteSets

CONSTANTS
    Mandate,
    expiresAt,     \* [Mandate -> Nat]: end of the mandate's validity
    Challenge,     \* identifiers of approval challenges
    Approval,      \* concurrent calls of verifyAndRecordApproval
    challengeTtl,
    MaxClock,      \* bound: the last instant of the clock
    None

ASSUME MandateAssumption ==
    /\ expiresAt \in [Mandate -> Nat]
    /\ challengeTtl \in Nat \ {0}
    /\ MaxClock \in Nat
    /\ None \notin Mandate \cup Challenge \cup Approval

VARIABLES
    mandate,    \* registry: [Mandate -> [status, proof]]
    challenge,  \* approval store: [Challenge -> record]
    approval,   \* the calls of verifyAndRecordApproval in flight
    lock,       \* the registry's promise chain: the call that holds it
    kya,        \* mandates whose agent is bound, KYC'd and credentialed
    clock

registryVars == <<mandate, challenge, approval, lock>>

Statuses == {"absent", "awaiting_user_signature", "active", "revoked"}

NoChallenge == [state |-> "free", mandate |-> None, at |-> 0]
NoApproval == [pc |-> "idle", challenge |-> None, now |-> 0]

MandatesTypeOK ==
    /\ mandate \in [Mandate -> [status : Statuses,
                                proof : Challenge \cup {None}]]
    /\ challenge \in [Challenge ->
                        [state : {"free", "drafting", "issued", "consumed"},
                         mandate : Mandate \cup {None}, at : Nat]]
    /\ approval \in [Approval ->
                       [pc : {"idle", "read", "verified", "critical", "commit"},
                        challenge : Challenge \cup {None}, now : Nat]]
    /\ lock \in Approval \cup {None}
    /\ kya \subseteq Mandate
    /\ clock \in Nat

MandatesInit ==
    /\ mandate = [m \in Mandate |-> [status |-> "absent", proof |-> None]]
    /\ challenge = [c \in Challenge |-> NoChallenge]
    /\ approval = [a \in Approval |-> NoApproval]
    /\ lock = None
    /\ kya = Mandate
    /\ clock = 0

-----------------------------------------------------------------------------
(* registry.create: a mandate is valid from the moment it is created. *)
Create(m) ==
    /\ mandate[m].status = "absent"
    /\ mandate' = [mandate EXCEPT ![m].status = "awaiting_user_signature"]
    /\ UNCHANGED <<challenge, approval, lock, kya, clock>>

Unexpired(m, now) == expiresAt[m] > now

(* createApprovalChallenge reads clock and mandate, then awaits the KYA     *)
(* store before the challenge exists.                                       *)
ChallengeBegin(c, m) ==
    /\ challenge[c].state = "free"
    /\ mandate[m].status = "awaiting_user_signature"
    /\ Unexpired(m, clock)
    /\ challenge' = [challenge EXCEPT
                       ![c] = [state |-> "drafting", mandate |-> m,
                               at |-> clock]]
    /\ UNCHANGED <<mandate, approval, lock, kya, clock>>

(* assertKyaUserCanApprove, then approvalStore.create. *)
ChallengeCreate(c) ==
    /\ challenge[c].state = "drafting"
    /\ challenge' = [challenge EXCEPT
                       ![c] = IF challenge[c].mandate \in kya
                              THEN [challenge[c] EXCEPT !.state = "issued"]
                              ELSE NoChallenge]
    /\ UNCHANGED <<mandate, approval, lock, kya, clock>>

(* The window of a challenge ends with its ttl or with its mandate. *)
ChallengeExpired(c, now) ==
    challenge[c].at + challengeTtl <= now
      \/ ~Unexpired(challenge[c].mandate, now)

(* verifyAndRecordApproval: clock, challenge and mandate are read ...       *)
ApproveRead(a, c) ==
    /\ approval[a].pc = "idle"
    /\ challenge[c].state = "issued"
    /\ ~ChallengeExpired(c, clock)
    /\ approval' = [approval EXCEPT
                      ![a] = [pc |-> "read", challenge |-> c, now |-> clock]]
    /\ UNCHANGED <<mandate, challenge, lock, kya, clock>>

(* ... then KYA is checked and the signature verified ...                   *)
ApproveVerify(a) ==
    /\ approval[a].pc = "read"
    /\ challenge[approval[a].challenge].mandate \in kya
    /\ approval' = [approval EXCEPT ![a].pc = "verified"]
    /\ UNCHANGED <<mandate, challenge, lock, kya, clock>>

(* ... then activateWithVerifiedSignature waits for the registry's chain    *)
(* and checks the mandate again, against the clock read at the start.       *)
ApproveEnter(a) ==
    LET m == challenge[approval[a].challenge].mandate
    IN  /\ approval[a].pc = "verified"
        /\ lock = None
        /\ mandate[m].status = "awaiting_user_signature"
        /\ Unexpired(m, approval[a].now)
        /\ lock' = a
        /\ approval' = [approval EXCEPT ![a].pc = "critical"]
        /\ UNCHANGED <<mandate, challenge, kya, clock>>

(* persistProof: approvalStore.consume, a step of its own on the store's    *)
(* chain.                                                                   *)
ApproveConsume(a) ==
    LET c == approval[a].challenge
    IN  /\ approval[a].pc = "critical"
        /\ challenge[c].state = "issued"
        /\ ~ChallengeExpired(c, approval[a].now)
        /\ challenge' = [challenge EXCEPT ![c].state = "consumed"]
        /\ approval' = [approval EXCEPT ![a].pc = "commit"]
        /\ UNCHANGED <<mandate, lock, kya, clock>>

(* The record read on entering the section is stored as active. *)
ApproveCommit(a) ==
    LET c == approval[a].challenge
    IN  /\ approval[a].pc = "commit"
        /\ mandate' = [mandate EXCEPT
                         ![challenge[c].mandate] =
                           [status |-> "active", proof |-> c]]
        /\ approval' = [approval EXCEPT ![a] = NoApproval]
        /\ lock' = None
        /\ UNCHANGED <<challenge, kya, clock>>

\* Deviation (mutant): a failure after the challenge is spent, too.
ApproveAbortLate(a) ==
    /\ approval[a].pc # "idle"
    /\ approval' = [approval EXCEPT ![a] = NoApproval]
    /\ lock' = IF lock = a THEN None ELSE lock
    /\ UNCHANGED <<mandate, challenge, kya, clock>>

(* Any check, the verification or persistProof fails: the call is over and  *)
(* the registry's chain moves on.                                           *)
ApproveAbort(a) ==
    /\ approval[a].pc \in {"read", "verified", "critical"}
    /\ approval' = [approval EXCEPT ![a] = NoApproval]
    /\ lock' = IF lock = a THEN None ELSE lock
    /\ UNCHANGED <<mandate, challenge, kya, clock>>

\* Deviation (mutant): revoke does not wait for the registry's chain.
RevokeUnlocked(m) ==
    /\ mandate[m].status \in {"awaiting_user_signature", "active"}
    /\ mandate' = [mandate EXCEPT ![m].status = "revoked"]
    /\ UNCHANGED <<challenge, approval, lock, kya, clock>>

(* registry.revoke waits for the same chain. *)
Revoke(m) ==
    /\ lock = None
    /\ mandate[m].status \in {"awaiting_user_signature", "active"}
    /\ mandate' = [mandate EXCEPT ![m].status = "revoked"]
    /\ UNCHANGED <<challenge, approval, lock, kya, clock>>

(* The identity side: an enrollment is suspended, its credential revoked,   *)
(* KYC expires - or the agent is bound again.                               *)
KyaChange(m) ==
    /\ kya' = IF m \in kya THEN kya \ {m} ELSE kya \cup {m}
    /\ UNCHANGED <<registryVars, clock>>

Tick ==
    /\ clock < MaxClock
    /\ clock' = clock + 1
    /\ UNCHANGED <<registryVars, kya>>

MandatesNext ==
    \/ \E m \in Mandate : \/ Create(m) \/ Revoke(m) \/ KyaChange(m)
                          \/ \E c \in Challenge : ChallengeBegin(c, m)
    \/ \E c \in Challenge : ChallengeCreate(c)
    \/ \E a \in Approval : \/ \E c \in Challenge : ApproveRead(a, c)
                           \/ ApproveVerify(a)
                           \/ ApproveEnter(a)
                           \/ ApproveConsume(a)
                           \/ ApproveCommit(a)
                           \/ ApproveAbort(a)
    \/ Tick

\* Deviation (mutant): a mandate that awaits its signature is good enough.
AuthorizedUnsigned(m, now) ==
    /\ mandate[m].status \in {"awaiting_user_signature", "active"}
    /\ Unexpired(m, now)

(* getAuthorizedActive, for the mandate's own user, agent, tenant and       *)
(* audience: active, within its validity, with an activation proof.         *)
AuthorizedActive(m, now) ==
    /\ mandate[m].status = "active"
    /\ Unexpired(m, now)
    /\ mandate[m].proof # None

-----------------------------------------------------------------------------
(* Properties. *)

(* A challenge is spent exactly when it activates its mandate: no failed or *)
(* overtaken approval uses one up, no other challenge is spent for the same *)
(* mandate ("a failed consume leaves the mandate awaiting signature and the *)
(* challenge retryable"), and an active mandate was approved by its owner   *)
(* through a challenge of its own that nobody can use again.                *)
ApprovalSpentOnce ==
    /\ \A c \in Challenge :
         challenge[c].state = "consumed" =>
             \/ mandate[challenge[c].mandate].proof = c
             \/ \E a \in Approval :
                  approval[a].challenge = c /\ approval[a].pc = "commit"
    /\ \A m \in Mandate :
         mandate[m].status = "active" =>
             /\ mandate[m].proof # None
             /\ challenge[mandate[m].proof].mandate = m
             /\ challenge[mandate[m].proof].state = "consumed"

(* A resolved revocation is final: no activation in flight writes over it   *)
(* ("a resolved revocation can never be overwritten by an in-flight         *)
(* activation").                                                            *)
RevokedIsFinal ==
    [][\A m \in Mandate :
         mandate[m].status = "revoked" => mandate'[m].status = "revoked"]_mandate

=============================================================================
