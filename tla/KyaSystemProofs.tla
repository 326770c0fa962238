-------------------------- MODULE KyaSystemProofs --------------------------
(***************************************************************************)
(* The identity platform, for any agents, people, keys, requests, chains   *)
(* and faults: whose key an agent acts with, whom it belongs to, what a    *)
(* challenge and a credential give, and that no registration is lost.      *)
(***************************************************************************)
EXTENDS MCKyaSystem, DeviceDelivery, SetFacts

(* Statuses of an enrollment that names a key. *)
Started == {"awaiting_human", "awaiting_kyc", "awaiting_fingerprint",
            "awaiting_register", "awaiting_onchain", "bound", "suspended"}

(* Statuses reached only with an approved key. *)
Approving == {"awaiting_register", "awaiting_onchain", "bound"}

(* Sections of rebindAfterTransfer, claimCredential and verifyChallenge. *)
Rebinding == {"rebind", "rebind_owned", "rebind_kyc", "rebind_done"}
Claiming == {"claim", "claim_owned"}
Verifying == {"verify", "verify_owned"}

(* Account o has held token t. *)
Held(t, o) == \E i \in LogIndex : logs[i].token = t /\ logs[i].owner = o

(* The chain knows its owners from its logs. *)
OwnersAreLogged ==
    /\ \A t \in Token : tokenOwner[t] # None => Held(t, tokenOwner[t])
    /\ \A i \in LogIndex : logs[i].kind = "Registered" => logs[i].agent \in Agent

(* The evidence for the agentId of e, the enrollment of agent a. *)
Evidence(a, e) ==
    /\ e.userOp = e.agentId
    /\ \E i \in processedEvents \cap LogIndex :
         /\ logs[i].kind = "Registered"
         /\ logs[i].token = e.agentId
         /\ logs[i].agent = a
    /\ Held(e.agentId, e.principal)

(* Where an enrollment is, and what it must have for that. *)
RecordSound(a, e) ==
    /\ e.status \in Started => e.key \in Key
    /\ e.status \in Approving => <<a, e.principal, e.key>> \in approvals
    /\ e.tx # None => e.tx = e.userOp
    /\ e.agentId # None => /\ e.status \in {"awaiting_fingerprint", "bound",
                                            "suspended", "revoked"}
                           /\ Evidence(a, e)

(* So for all enrollments. *)
EnrollmentsSound == \A a \in Agent : RecordSound(a, enrollment[a])

(* A credential of agent a. *)
CredentialOf(i, a) == i \in DOMAIN credentials /\ credentials[i].agent = a

(* What a request in flight has read still holds as far as the steps after  *)
(* it rely on it.                                                           *)
RequestSound(q) ==
    /\ q.op # "idle" => q.agent \in Agent
    /\ q.op \in {"pair"} \cup Rebinding \cup Claiming \cup Verifying
         => q.owner \in Owner
    /\ q.op \in Rebinding => /\ q.seen.agentId # None
                             /\ enrollment[q.agent].agentId = q.seen.agentId
    /\ q.op \in {"rebind_owned", "rebind_kyc"} => Held(q.seen.agentId, q.owner)
    /\ q.op \in Claiming => /\ q.seen.agentId # None
                            /\ <<q.agent, q.owner, q.seen.key>> \in approvals
    /\ q.op \in Verifying => CredentialOf(q.cred, q.agent) /\ q.nonce \in Nonce

(* So for the request in slot c. *)
CallSound(c) == RequestSound(call[c])

(* The job of a loop of the watcher. *)
JobRecord == [pc : {"idle", "owner", "apply", "keep", "drop", "transfer",
                    "suspend", "suspend_write"},
              log : Nat, owner : Owner \cup {None}, agent : Agent \cup {None},
              cred : Nat]

(* A loop applies a log that was read, of the kind the section is for. *)
TaskSound(j) ==
    /\ j.pc # "idle" => j.log \in LogIndex
    /\ j.pc \in {"owner", "apply"} => logs[j.log].kind = "Registered"

(* So for the job of loop w. *)
JobSound(w) == TaskSound(job[w])

(* The watcher has read the logs it works on. *)
WatcherSound ==
    /\ batch \subseteq LogIndex
    /\ job \in [Loop -> JobRecord]
    /\ \A w \in Loop : JobSound(w)

(* Challenges name agents, and tokens the credential they were earned with. *)
AccessSound ==
    /\ IsFiniteSet(accessTokens)
    /\ \A n \in Nonce : nonce[n].state = "issued" => nonce[n].agent \in Agent
    /\ \A t \in accessTokens : CredentialOf(t.cred, t.agent)

(* A credential carries a key its principal approved. *)
CredentialsApproved ==
    \A i \in DOMAIN credentials :
        <<credentials[i].agent, credentials[i].principal, credentials[i].key>>
           \in approvals

(* The types of everything but the queues of the watcher. *)
Typed == ChainTypeOK /\ CeremonyTypeOK /\ AccessTypeOK

(* The inductive invariant. *)
KyaInv ==
    /\ Typed
    /\ OwnersAreLogged
    /\ EnrollmentsSound
    /\ CredentialsApproved
    /\ OneActiveCredential
    /\ \A c \in Call : CallSound(c)
    /\ WatcherSound
    /\ AccessSound
    /\ NonceYieldsToken

-----------------------------------------------------------------------------
(* The chain. *)

(* The log grows. *)
Grown == /\ LogIndex \subseteq LogIndex'
         /\ \A i \in LogIndex : logs'[i] = logs[i]

(* A transaction appends its log. *)
LEMMA MineAppends ==
    ASSUME ChainTypeOK, NEW log \in LogRecord, Mine(log)
    PROVE  /\ Grown /\ logs' \in Seq(LogRecord) /\ height' \in Nat
           /\ LogIndex' = LogIndex \cup {Len(logs) + 1}
           /\ logs'[Len(logs) + 1] = log
<1>1. logs' = Append(logs, log) /\ logs \in Seq(LogRecord) /\ height' = height + 1
  BY DEF Mine, ChainTypeOK
<1>2. /\ logs' \in Seq(LogRecord) /\ LogIndex = 1..Len(logs)
      /\ LogIndex' = 1..(Len(logs) + 1) /\ Len(logs) \in Nat
      /\ \A i \in 1..Len(logs) : logs'[i] = logs[i]
      /\ logs'[Len(logs) + 1] = log
  BY <1>1 DEF LogIndex
<1>3. height' \in Nat
  BY <1>1 DEF ChainTypeOK
<1>4. QED
  BY <1>2, <1>3 DEF Grown

(* Who has held a token has held it for good. *)
LEMMA HeldStays ==
    ASSUME Grown, NEW t, NEW o, Held(t, o) PROVE Held(t, o)'
BY DEF Grown, Held

(* A token that changes hands, or is minted, with its log. *)
LEMMA TokenMoves ==
    ASSUME ChainTypeOK, OwnersAreLogged, NEW t \in Token, NEW o \in Owner,
           NEW log \in LogRecord, Mine(log), log.token = t, log.owner = o,
           log.kind = "Registered" => log.agent \in Agent,
           tokenOwner' = [tokenOwner EXCEPT ![t] = o]
    PROVE  ChainTypeOK' /\ Grown /\ OwnersAreLogged'
<1>1. /\ Grown /\ logs' \in Seq(LogRecord) /\ height' \in Nat
      /\ LogIndex' = LogIndex \cup {Len(logs) + 1}
      /\ logs'[Len(logs) + 1] = log
  BY MineAppends
<1>2. ChainTypeOK'
  BY <1>1 DEF ChainTypeOK
<1>3. Held(t, o)'
  BY <1>1 DEF Held
<1>4. ASSUME NEW u \in Token, tokenOwner'[u] # None
      PROVE  Held(u, tokenOwner[u])'
  <2>1. CASE u = t
    BY <2>1, <1>3 DEF ChainTypeOK
  <2>2. CASE u # t
    <3>1. tokenOwner'[u] = tokenOwner[u] /\ Held(u, tokenOwner[u])
      BY <2>2, <1>4 DEF ChainTypeOK, OwnersAreLogged
    <3>2. QED
      BY <3>1, <1>1 DEF Held, Grown
  <2>3. QED
    BY <2>1, <2>2
<1>5. \A i \in LogIndex' : logs'[i].kind = "Registered" => logs'[i].agent \in Agent
  BY <1>1 DEF Grown, OwnersAreLogged
<1>6. QED
  BY <1>1, <1>2, <1>4, <1>5 DEF OwnersAreLogged

(* The steps of the chain. *)
LEMMA ChainStep ==
    ASSUME ChainTypeOK, OwnersAreLogged, ChainNext
    PROVE  ChainTypeOK' /\ Grown /\ OwnersAreLogged'
<1>1. ASSUME NEW t \in Token, NEW o \in Owner, NEW a \in Agent, Register(t, o, a)
      PROVE  ChainTypeOK' /\ Grown /\ OwnersAreLogged'
  <2> DEFINE log == [kind |-> "Registered", token |-> t, agent |-> a,
                     owner |-> o, block |-> height + 1]
  <2>1. log \in LogRecord /\ log.token = t /\ log.owner = o /\ log.agent \in Agent
    BY DEF LogRecord, ChainTypeOK
  <2>2. Mine(log) /\ tokenOwner' = [tokenOwner EXCEPT ![t] = o]
    BY <1>1 DEF Register
  <2> HIDE DEF log
  <2>3. QED
    BY <2>1, <2>2, TokenMoves
<1>2. ASSUME NEW t \in Token, NEW o \in Owner, TransferToken(t, o)
      PROVE  ChainTypeOK' /\ Grown /\ OwnersAreLogged'
  <2> DEFINE log == [kind |-> "Transfer", token |-> t, agent |-> None,
                     owner |-> o, block |-> height + 1]
  <2>1. log \in LogRecord /\ log.token = t /\ log.owner = o /\ log.kind # "Registered"
    BY DEF LogRecord, ChainTypeOK
  <2>2. Mine(log) /\ tokenOwner' = [tokenOwner EXCEPT ![t] = o]
    BY <1>2 DEF TransferToken
  <2> HIDE DEF log
  <2>3. QED
    BY <2>1, <2>2, TokenMoves
<1>3. CASE EmptyBlock
  <2>1. UNCHANGED <<tokenOwner, logs>> /\ height' = height + 1
    BY <1>3 DEF EmptyBlock
  <2>2. QED
    BY <2>1 DEF ChainTypeOK, Grown, OwnersAreLogged, Held, LogIndex
<1>4. QED
  BY <1>1, <1>2, <1>3 DEF ChainNext

-----------------------------------------------------------------------------
(* Enrollments. *)

(* Enrollment a becomes r. *)
Takes(a, r) ==
    /\ r \in EnrollmentRecord
    /\ enrollment' \in [Agent -> EnrollmentRecord]
    /\ enrollment'[a] = r
    /\ \A b \in Agent \ {a} : enrollment'[b] = enrollment[b]

(* What each operation makes of the enrollment it works on. *)
LEMMA EnrollmentSteps ==
    ASSUME Typed, NEW a \in Agent
    PROVE  LET e == enrollment[a] IN
      /\ e \in EnrollmentRecord
      /\ \A k \in Key : StartEnrollment(a, k) =>
           Takes(a, [e EXCEPT !.status = "awaiting_human", !.key = k])
      /\ PairingLapses(a) => Takes(a, [e EXCEPT !.lapsed = TRUE])
      /\ Approve(a) => Takes(a, Approved(e))
      /\ \A t \in Token : RecordSubmission(a, t) => Takes(a, [e EXCEPT !.userOp = t])
      /\ ResolveSubmission(a) => Takes(a, [e EXCEPT !.tx = e.userOp])
      /\ \A k \in Key : RotateKey(a, k) =>
           Takes(a, [e EXCEPT !.key = k, !.status = "awaiting_fingerprint",
                              !.approved = FALSE])
      /\ RevokeAgent(a) => Takes(a, [e EXCEPT !.status = "revoked"])
      /\ PollDeviceToken(a) => Takes(a, [e EXCEPT !.delivered = TRUE])
<1> DEFINE e == enrollment[a]
<1>1. e \in EnrollmentRecord /\ enrollment \in [Agent -> EnrollmentRecord]
  BY DEF Typed, CeremonyTypeOK, StoreTypeOK
<1>2. ASSUME NEW r \in EnrollmentRecord, enrollment' = [enrollment EXCEPT ![a] = r]
      PROVE  Takes(a, r)
  BY <1>1, <1>2 DEF Takes
<1>3. ASSUME NEW k \in Key, StartEnrollment(a, k)
      PROVE  Takes(a, [e EXCEPT !.status = "awaiting_human", !.key = k])
  <2>1. [e EXCEPT !.status = "awaiting_human", !.key = k] \in EnrollmentRecord
    BY <1>1 DEF EnrollmentRecord, Statuses
  <2>2. enrollment' = [enrollment EXCEPT ![a] =
                         [e EXCEPT !.status = "awaiting_human", !.key = k]]
    BY <1>3, <1>1 DEF StartEnrollment
  <2>3. QED
    BY <2>1, <2>2, <1>2
<1>4. ASSUME PairingLapses(a) PROVE Takes(a, [e EXCEPT !.lapsed = TRUE])
  <2>1. [e EXCEPT !.lapsed = TRUE] \in EnrollmentRecord
    BY <1>1 DEF EnrollmentRecord
  <2>2. enrollment' = [enrollment EXCEPT ![a] = [e EXCEPT !.lapsed = TRUE]]
    BY <1>4, <1>1 DEF PairingLapses
  <2>3. QED
    BY <2>1, <2>2, <1>2
<1>5. ASSUME Approve(a) PROVE Takes(a, Approved(e))
  <2>1. Approved(e) \in EnrollmentRecord
    <3>1. CASE e.agentId # None
      <4>1. [e EXCEPT !.status = "bound", !.approved = TRUE, !.owner = e.principal]
              \in EnrollmentRecord
        BY <1>1 DEF EnrollmentRecord, Statuses
      <4>2. QED
        BY <4>1, <3>1 DEF Approved
    <3>2. CASE e.agentId = None
      <4>1. [e EXCEPT !.status = "awaiting_register", !.approved = TRUE]
              \in EnrollmentRecord
        BY <1>1 DEF EnrollmentRecord, Statuses
      <4>2. QED
        BY <4>1, <3>2 DEF Approved
    <3>3. QED
      BY <3>1, <3>2
  <2>2. enrollment' = [enrollment EXCEPT ![a] = Approved(e)]
    BY <1>5 DEF Approve
  <2>3. QED
    BY <2>1, <2>2, <1>2
<1>6. ASSUME NEW t \in Token, RecordSubmission(a, t)
      PROVE  Takes(a, [e EXCEPT !.userOp = t])
  <2>1. [e EXCEPT !.userOp = t] \in EnrollmentRecord
    BY <1>1 DEF EnrollmentRecord
  <2>2. enrollment' = [enrollment EXCEPT ![a] = [e EXCEPT !.userOp = t]]
    BY <1>6, <1>1 DEF RecordSubmission
  <2>3. QED
    BY <2>1, <2>2, <1>2
<1>7. ASSUME ResolveSubmission(a) PROVE Takes(a, [e EXCEPT !.tx = e.userOp])
  <2>1. [e EXCEPT !.tx = e.userOp] \in EnrollmentRecord
    BY <1>1 DEF EnrollmentRecord
  <2>2. enrollment' = [enrollment EXCEPT ![a] = [e EXCEPT !.tx = e.userOp]]
    BY <1>7, <1>1 DEF ResolveSubmission
  <2>3. QED
    BY <2>1, <2>2, <1>2
<1>8. ASSUME NEW k \in Key, RotateKey(a, k)
      PROVE  Takes(a, [e EXCEPT !.key = k, !.status = "awaiting_fingerprint",
                                !.approved = FALSE])
  <2> DEFINE r == [e EXCEPT !.key = k, !.status = "awaiting_fingerprint",
                            !.approved = FALSE]
  <2>1. r \in EnrollmentRecord
    BY <1>1 DEF EnrollmentRecord, Statuses
  <2>2. enrollment' = [enrollment EXCEPT ![a] = r]
    BY <1>8, <1>1 DEF RotateKey
  <2> HIDE DEF r
  <2>3. Takes(a, r)
    BY <2>1, <2>2, <1>2
  <2>4. QED
    BY <2>3 DEF r
<1>9. ASSUME RevokeAgent(a) PROVE Takes(a, [e EXCEPT !.status = "revoked"])
  <2>1. [e EXCEPT !.status = "revoked"] \in EnrollmentRecord
    BY <1>1 DEF EnrollmentRecord, Statuses
  <2>2. enrollment' = [enrollment EXCEPT ![a] = [e EXCEPT !.status = "revoked"]]
    BY <1>9, <1>1 DEF RevokeAgent
  <2>3. QED
    BY <2>1, <2>2, <1>2
<1>10. ASSUME PollDeviceToken(a) PROVE Takes(a, [e EXCEPT !.delivered = TRUE])
  <2>1. [e EXCEPT !.delivered = TRUE] \in EnrollmentRecord
    BY <1>1 DEF EnrollmentRecord
  <2>2. enrollment' = [enrollment EXCEPT ![a] = [e EXCEPT !.delivered = TRUE]]
    BY <1>10, <1>1 DEF PollDeviceToken
  <2>3. QED
    BY <2>1, <2>2, <1>2
<1> HIDE DEF e
<1>11. QED
  BY <1>1, <1>3, <1>4, <1>5, <1>6, <1>7, <1>8, <1>9, <1>10 DEF e

(* What requests make of the enrollment they work on. *)
LEMMA RequestSteps ==
    ASSUME Typed, NEW c \in Call, CallSound(c)
    PROVE  LET a == call[c].agent
               o == call[c].owner
               e == enrollment[a]
           IN
      /\ PairCommit(c) =>
           /\ a \in Agent /\ o \in Owner
           /\ Takes(a, [e EXCEPT !.principal = o, !.claimed = TRUE,
                                 !.status = PairedStatus(e, call[c].kyc)])
      /\ PrepareCommit(c) =>
           /\ a \in Agent
           /\ Takes(a, [e EXCEPT !.intent = TRUE,
                                 !.status = IF @ = "awaiting_register"
                                            THEN "awaiting_onchain" ELSE @])
      /\ RebindCommit(c) =>
           /\ a \in Agent /\ o \in Owner
           /\ Takes(a, [e EXCEPT !.principal = o, !.owner = o,
                                 !.status = "awaiting_fingerprint",
                                 !.approved = FALSE])
<1> DEFINE a == call[c].agent
           o == call[c].owner
           e == enrollment[a]
<1>1. enrollment \in [Agent -> EnrollmentRecord]
  BY DEF Typed, CeremonyTypeOK, StoreTypeOK
<1>2. ASSUME PairCommit(c)
      PROVE  /\ a \in Agent /\ o \in Owner
             /\ Takes(a, [e EXCEPT !.principal = o, !.claimed = TRUE,
                                   !.status = PairedStatus(e, call[c].kyc)])
  <2> DEFINE r == [e EXCEPT !.principal = o, !.claimed = TRUE,
                            !.status = PairedStatus(e, call[c].kyc)]
  <2>1. a \in Agent /\ o \in Owner
    BY <1>2 DEF CallSound, RequestSound, PairCommit
  <2>2. e \in EnrollmentRecord
    BY <1>1, <2>1
  <2>3. PairedStatus(e, call[c].kyc) \in Statuses
    BY <2>2 DEF PairedStatus, EnrollmentRecord, Statuses
  <2>4. r \in EnrollmentRecord
    BY <2>1, <2>2, <2>3 DEF EnrollmentRecord
  <2>5. enrollment' = [enrollment EXCEPT ![a] = r]
    BY <1>1, <1>2, <2>1 DEF PairCommit
  <2> HIDE DEF r
  <2>6. Takes(a, r)
    BY <1>1, <2>1, <2>4, <2>5 DEF Takes
  <2>7. QED
    BY <2>1, <2>6 DEF r
<1>3. ASSUME PrepareCommit(c)
      PROVE  /\ a \in Agent
             /\ Takes(a, [e EXCEPT !.intent = TRUE,
                                   !.status = IF @ = "awaiting_register"
                                              THEN "awaiting_onchain" ELSE @])
  <2> DEFINE r == [e EXCEPT !.intent = TRUE,
                            !.status = IF @ = "awaiting_register"
                                       THEN "awaiting_onchain" ELSE @]
  <2>1. a \in Agent
    BY <1>3 DEF CallSound, RequestSound, PrepareCommit
  <2>2. e \in EnrollmentRecord
    BY <1>1, <2>1
  <2>3. r \in EnrollmentRecord
    BY <2>2 DEF EnrollmentRecord, Statuses
  <2>4. enrollment' = [enrollment EXCEPT ![a] = r]
    BY <1>1, <1>3, <2>1 DEF PrepareCommit
  <2> HIDE DEF r
  <2>5. Takes(a, r)
    BY <1>1, <2>1, <2>3, <2>4 DEF Takes
  <2>6. QED
    BY <2>1, <2>5 DEF r
<1>4. ASSUME RebindCommit(c)
      PROVE  /\ a \in Agent /\ o \in Owner
             /\ Takes(a, [e EXCEPT !.principal = o, !.owner = o,
                                   !.status = "awaiting_fingerprint",
                                   !.approved = FALSE])
  <2> DEFINE r == [e EXCEPT !.principal = o, !.owner = o,
                            !.status = "awaiting_fingerprint",
                            !.approved = FALSE]
  <2>1. a \in Agent /\ o \in Owner
    BY <1>4 DEF CallSound, RequestSound, RebindCommit, Rebinding
  <2>2. e \in EnrollmentRecord
    BY <1>1, <2>1
  <2>3. r \in EnrollmentRecord
    BY <2>1, <2>2 DEF EnrollmentRecord, Statuses
  <2>4. enrollment' = [enrollment EXCEPT ![a] = r]
    BY <1>1, <1>4, <2>1 DEF RebindCommit
  <2> HIDE DEF r
  <2>5. Takes(a, r)
    BY <1>1, <2>1, <2>3, <2>4 DEF Takes
  <2>6. QED
    BY <2>1, <2>5 DEF r
<1> HIDE DEF a, o, e
<1>5. QED
  BY <1>2, <1>3, <1>4 DEF a, o, e

(* What every step keeps. *)
Monotone == /\ Grown
            /\ approvals \subseteq approvals'
            /\ processedEvents \subseteq processedEvents'

(* An agentId that is set stays. *)
AgentIdsStay ==
    \A a \in Agent : enrollment[a].agentId # None =>
                       enrollment'[a].agentId = enrollment[a].agentId

(* What a step keeps of the enrollments. *)
EnrollmentsKept == /\ enrollment' \in [Agent -> EnrollmentRecord]
                   /\ EnrollmentsSound' /\ AgentIdsStay

(* Evidence stays evidence. *)
LEMMA EvidenceStays ==
    ASSUME Monotone, NEW a, NEW e, Evidence(a, e) PROVE Evidence(a, e)'
<1>1. Held(e.agentId, e.principal)'
  BY HeldStays DEF Evidence, Monotone
<1>2. \E i \in processedEvents' \cap LogIndex' :
         /\ logs'[i].kind = "Registered"
         /\ logs'[i].token = e.agentId
         /\ logs'[i].agent = a
  BY DEF Evidence, Monotone, Grown
<1>3. QED
  BY <1>1, <1>2 DEF Evidence

(* An enrollment that is not touched stays sound. *)
LEMMA RecordStays ==
    ASSUME Monotone, NEW a, NEW e, RecordSound(a, e) PROVE RecordSound(a, e)'
BY EvidenceStays DEF RecordSound, Monotone

(* So does the whole when one enrollment becomes another sound one. *)
LEMMA TakesSound ==
    ASSUME EnrollmentsSound, Monotone, NEW a \in Agent, NEW r, Takes(a, r),
           RecordSound(a, r)',
           enrollment[a].agentId # None => r.agentId = enrollment[a].agentId
    PROVE  EnrollmentsKept
<1>1. ASSUME NEW b \in Agent PROVE RecordSound(b, enrollment[b])'
  <2>1. CASE b = a
    <3>1. enrollment'[a] = r
      BY DEF Takes
    <3>2. QED
      BY <2>1, <3>1 DEF RecordSound, Evidence, Held
  <2>2. CASE b # a
    <3>1. PICK e : e = enrollment[b]
      OBVIOUS
    <3>2. RecordSound(b, e)'
      BY <3>1, RecordStays DEF EnrollmentsSound
    <3>3. enrollment'[b] = e
      BY <3>1, <2>2 DEF Takes
    <3>4. QED
      BY <3>2, <3>3 DEF RecordSound, Evidence, Held
  <2>3. QED
    BY <2>1, <2>2
<1>2. QED
  BY <1>1 DEF EnrollmentsSound, AgentIdsStay, EnrollmentsKept, Takes

(* The evidence does not look at other fields. *)
LEMMA SameEvidence ==
    ASSUME NEW a, NEW e, NEW r, Evidence(a, e), r.userOp = e.userOp,
           r.agentId = e.agentId, r.principal = e.principal
    PROVE  Evidence(a, r)
BY DEF Evidence, Held

(* Who holds a token, or has approved a key, is somebody. *)
LEMMA SomebodyHolds ==
    ASSUME Typed
    PROVE  /\ \A t, o : Held(t, o) => o \in Owner /\ t \in Token
           /\ \A a, o, k : <<a, o, k>> \in approvals =>
                             a \in Agent /\ o \in Owner /\ k \in Key
           /\ None \notin Agent \cup Owner \cup Token \cup Key
<1>1. \A i \in LogIndex : logs[i].owner \in Owner /\ logs[i].token \in Token
  <2>1. \A i \in LogIndex : logs[i] \in LogRecord
    BY DEF Typed, ChainTypeOK, LogIndex
  <2>2. QED
    BY <2>1 DEF LogRecord
<1>2. \A a, o, k : <<a, o, k>> \in approvals =>
                             a \in Agent /\ o \in Owner /\ k \in Key
  BY DEF Typed, CeremonyTypeOK, StoreTypeOK
<1>3. QED
  BY <1>1, <1>2, RegistryAssumption, StoreAssumption DEF Held

(* Pairing, approval, submission, rotation, revocation and delivery keep    *)
(* enrollments sound.                                                       *)
LEMMA OwnerSteps ==
    ASSUME Typed, EnrollmentsSound, Monotone, NEW a \in Agent,
           \/ \E k \in Key : StartEnrollment(a, k) \/ RotateKey(a, k)
           \/ PairingLapses(a) \/ Approve(a) \/ ResolveSubmission(a)
           \/ RevokeAgent(a) \/ PollDeviceToken(a)
           \/ \E t \in Token : RecordSubmission(a, t)
    PROVE  EnrollmentsKept
<1>1. PICK e : e = enrollment[a]
  OBVIOUS
<1>2. e \in EnrollmentRecord /\ RecordSound(a, e)
  BY <1>1, EnrollmentSteps DEF EnrollmentsSound
<1>3. ASSUME NEW r, Takes(a, r), r.userOp = e.userOp, r.agentId = e.agentId,
             r.principal = e.principal, r.tx # None => r.tx = r.userOp,
             r.status \in Started => r.key \in Key,
             r.status \in Approving => <<a, r.principal, r.key>> \in approvals',
             r.agentId # None => r.status \in {"awaiting_fingerprint", "bound",
                                               "suspended", "revoked"}
      PROVE  EnrollmentsKept
  <2>1. r.agentId # None => Evidence(a, r)
    BY <1>2, <1>3, SameEvidence DEF RecordSound
  <2>2. r.agentId # None => Evidence(a, r)'
    BY <2>1, EvidenceStays
  <2>3. RecordSound(a, r)'
    BY <1>3, <2>2 DEF RecordSound
  <2>4. QED
    BY <1>1, <1>3, <2>3, TakesSound
<1>4. ASSUME NEW k \in Key, StartEnrollment(a, k)
      PROVE  EnrollmentsKept
  <2>1. PICK r : r = [e EXCEPT !.status = "awaiting_human", !.key = k]
    OBVIOUS
  <2>2. Takes(a, r) /\ e.status = "absent"
    BY <1>1, <1>4, <2>1, EnrollmentSteps DEF StartEnrollment
  <2>3. r.agentId = None
    BY <1>2, <2>1, <2>2 DEF RecordSound, EnrollmentRecord
  <2>4. QED
    BY <1>2, <1>3, <2>1, <2>2, <2>3
       DEF RecordSound, EnrollmentRecord, Started, Approving
<1>5. ASSUME NEW k \in Key, RotateKey(a, k)
      PROVE  EnrollmentsKept
  <2>1. PICK r : r = [e EXCEPT !.key = k, !.status = "awaiting_fingerprint",
                               !.approved = FALSE]
    OBVIOUS
  <2>2. Takes(a, r)
    BY <1>1, <1>5, <2>1, EnrollmentSteps
  <2>3. QED
    BY <1>2, <1>3, <2>1, <2>2
       DEF RecordSound, EnrollmentRecord, Started, Approving
<1>6. ASSUME PairingLapses(a) PROVE EnrollmentsKept
  <2>1. PICK r : r = [e EXCEPT !.lapsed = TRUE]
    OBVIOUS
  <2>2. Takes(a, r)
    BY <1>1, <1>6, <2>1, EnrollmentSteps
  <2>3. QED
    BY <1>2, <1>3, <2>1, <2>2 DEF RecordSound, EnrollmentRecord, Monotone
<1>7. ASSUME Approve(a) PROVE EnrollmentsKept
  <2>1. PICK r : r = Approved(e)
    OBVIOUS
  <2>2. Takes(a, r)
    BY <1>1, <1>7, <2>1, EnrollmentSteps
  <2>3. e.status \in {"suspended", "awaiting_fingerprint"}
        /\ <<a, e.principal, e.key>> \in approvals'
    BY <1>1, <1>7 DEF Approve, CanApprove
  <2>4. /\ r.principal = e.principal /\ r.key = e.key /\ r.tx = e.tx
        /\ r.userOp = e.userOp /\ r.agentId = e.agentId
        /\ r.status = IF e.agentId # None THEN "bound" ELSE "awaiting_register"
    BY <1>2, <2>1 DEF Approved, EnrollmentRecord
  <2>5. QED
    BY <1>2, <1>3, <2>2, <2>3, <2>4 DEF RecordSound, Started
<1>8. ASSUME ResolveSubmission(a) PROVE EnrollmentsKept
  <2>1. PICK r : r = [e EXCEPT !.tx = e.userOp]
    OBVIOUS
  <2>2. Takes(a, r)
    BY <1>1, <1>8, <2>1, EnrollmentSteps
  <2>3. QED
    BY <1>2, <1>3, <2>1, <2>2 DEF RecordSound, EnrollmentRecord, Monotone
<1>9. ASSUME RevokeAgent(a) PROVE EnrollmentsKept
  <2>1. PICK r : r = [e EXCEPT !.status = "revoked"]
    OBVIOUS
  <2>2. Takes(a, r)
    BY <1>1, <1>9, <2>1, EnrollmentSteps
  <2>3. QED
    BY <1>2, <1>3, <2>1, <2>2
       DEF RecordSound, EnrollmentRecord, Started, Approving
<1>10. ASSUME PollDeviceToken(a) PROVE EnrollmentsKept
  <2>1. PICK r : r = [e EXCEPT !.delivered = TRUE]
    OBVIOUS
  <2>2. Takes(a, r)
    BY <1>1, <1>10, <2>1, EnrollmentSteps
  <2>3. QED
    BY <1>2, <1>3, <2>1, <2>2 DEF RecordSound, EnrollmentRecord, Monotone
<1>11. ASSUME NEW t \in Token, RecordSubmission(a, t)
       PROVE  EnrollmentsKept
  <2>1. PICK r : r = [e EXCEPT !.userOp = t]
    OBVIOUS
  <2>2. Takes(a, r)
    BY <1>1, <1>11, <2>1, EnrollmentSteps
  <2>3. e.userOp = None
    BY <1>1, <1>11 DEF RecordSubmission
  <2>4. e.agentId = None /\ e.tx = None
    BY <1>2, <2>3, SomebodyHolds DEF RecordSound, Evidence
  <2>5. /\ r.agentId = None /\ r.tx = None /\ r.status = e.status
        /\ r.key = e.key /\ r.principal = e.principal
    BY <1>2, <2>1, <2>4 DEF EnrollmentRecord
  <2>6. RecordSound(a, r)'
    BY <1>2, <2>5 DEF RecordSound, Monotone
  <2>7. QED
    BY <1>1, <2>2, <2>4, <2>6, TakesSound
<1>12. QED
  BY <1>4, <1>5, <1>6, <1>7, <1>8, <1>9, <1>10, <1>11

(* So do the sections of pairing, preparation and rebinding that write.     *)
LEMMA RequestsSound ==
    ASSUME Typed, EnrollmentsSound, Monotone, NEW c \in Call, CallSound(c),
           PairCommit(c) \/ PrepareCommit(c) \/ RebindCommit(c)
    PROVE  EnrollmentsKept
<1>1. PICK a, e, o : a = call[c].agent /\ e = enrollment[a] /\ o = call[c].owner
  OBVIOUS
<1>2. a \in Agent /\ e \in EnrollmentRecord /\ RecordSound(a, e)
  <2>1. a \in Agent
    BY <1>1, RequestSteps
  <2>2. QED
    BY <1>1, <2>1, EnrollmentSteps DEF EnrollmentsSound
<1>3. CASE PairCommit(c)
  <2> DEFINE st == PairedStatus(e, call[c].kyc)
  <2>1. PICK r : r = [e EXCEPT !.principal = o, !.claimed = TRUE, !.status = st]
    OBVIOUS
  <2>2. Takes(a, r) /\ e.principal \in {None, o}
    BY <1>1, <1>3, <2>1, RequestSteps DEF PairCommit
  <2>3. \/ st = e.status
        \/ /\ e.status \in {"awaiting_human", "awaiting_kyc"}
           /\ st \in {"awaiting_fingerprint", "awaiting_kyc"}
    BY DEF PairedStatus
  <2>4. /\ r.principal = o /\ r.status = st /\ r.key = e.key /\ r.tx = e.tx
        /\ r.userOp = e.userOp /\ r.agentId = e.agentId
    BY <1>2, <2>1 DEF EnrollmentRecord
  <2> HIDE DEF st
  <2>5. e.agentId # None => e.principal = o /\ st = e.status
    BY <1>2, <2>2, <2>3, SomebodyHolds DEF RecordSound, Evidence
  <2>6. e.status \in Approving => e.principal = o /\ st = e.status
    BY <1>2, <2>2, <2>3, SomebodyHolds DEF RecordSound, Approving
  <2>7. e.agentId # None => Evidence(a, r)
    BY <1>2, <2>4, <2>5, SameEvidence DEF RecordSound
  <2>8. e.agentId # None => Evidence(a, r)'
    BY <2>7, EvidenceStays
  <2>9. /\ st \in Started => e.status \in Started
        /\ st \in Approving => e.status \in Approving
    BY <2>3 DEF Started, Approving
  <2>10. RecordSound(a, r)'
    BY <1>2, <2>4, <2>5, <2>6, <2>8, <2>9 DEF RecordSound, Monotone
  <2>11. QED
    BY <1>1, <1>2, <2>2, <2>4, <2>10, TakesSound
<1>4. CASE PrepareCommit(c)
  <2>1. PICK r : r = [e EXCEPT !.intent = TRUE,
                               !.status = IF @ = "awaiting_register"
                                          THEN "awaiting_onchain" ELSE @]
    OBVIOUS
  <2>2. Takes(a, r)
    BY <1>1, <1>4, <2>1, RequestSteps
  <2>3. /\ r.principal = e.principal /\ r.key = e.key /\ r.tx = e.tx
        /\ r.userOp = e.userOp /\ r.agentId = e.agentId
        /\ \/ r.status = e.status
           \/ /\ e.status = "awaiting_register"
              /\ r.status = "awaiting_onchain"
    BY <1>2, <2>1 DEF EnrollmentRecord
  <2>4. e.agentId # None => Evidence(a, r)
    BY <1>2, <2>3, SameEvidence DEF RecordSound
  <2>5. e.agentId # None => Evidence(a, r)'
    BY <2>4, EvidenceStays
  <2>6. RecordSound(a, r)'
    BY <1>2, <2>3, <2>5 DEF RecordSound, Monotone, Started, Approving
  <2>7. QED
    BY <1>1, <1>2, <2>2, <2>3, <2>6, TakesSound
<1>5. CASE RebindCommit(c)
  <2>1. PICK r : r = [e EXCEPT !.principal = o, !.owner = o,
                               !.status = "awaiting_fingerprint",
                               !.approved = FALSE]
    OBVIOUS
  <2>2. Takes(a, r)
    BY <1>1, <1>5, <2>1, RequestSteps
  <2>3. e.status = "suspended" /\ Held(e.agentId, o)
    BY <1>1, <1>5 DEF RebindCommit, CallSound, RequestSound, Rebinding
  <2>4. /\ r.principal = o /\ r.key = e.key /\ r.tx = e.tx
        /\ r.userOp = e.userOp /\ r.agentId = e.agentId
        /\ r.status = "awaiting_fingerprint"
    BY <1>2, <2>1 DEF EnrollmentRecord
  <2>5. e.agentId # None => Evidence(a, r)
    BY <1>2, <2>3, <2>4 DEF RecordSound, Evidence
  <2>6. e.agentId # None => Evidence(a, r)'
    BY <2>5, EvidenceStays
  <2>7. RecordSound(a, r)'
    BY <1>2, <2>3, <2>4, <2>6 DEF RecordSound, Started, Approving
  <2>8. QED
    BY <1>1, <1>2, <2>2, <2>4, <2>7, TakesSound
<1>6. QED
  BY <1>3, <1>4, <1>5

(* KYC and transfers move the status of enrollment e only: it becomes r. *)
StatusMoves(e, r) ==
    /\ r.principal = e.principal /\ r.key = e.key /\ r.tx = e.tx
    /\ r.userOp = e.userOp /\ r.agentId = e.agentId /\ r.intent = e.intent
    /\ \/ r.status = e.status
       \/ e.status = "awaiting_kyc" /\ r.status = "awaiting_fingerprint"
       \/ e.status = "bound" /\ r.status = "suspended"

(* Many enrollments may change status at once. *)
LEMMA StatusesSound ==
    ASSUME Typed, EnrollmentsSound, Monotone,
           enrollment' \in [Agent -> EnrollmentRecord],
           \A a \in Agent : StatusMoves(enrollment[a], enrollment'[a])
    PROVE  EnrollmentsKept
<1>1. ASSUME NEW a \in Agent PROVE RecordSound(a, enrollment[a])'
  <2>1. PICK e, r : e = enrollment[a] /\ r = enrollment'[a]
    OBVIOUS
  <2>2. RecordSound(a, e)
    BY <2>1 DEF EnrollmentsSound
  <2>3. /\ r.principal = e.principal /\ r.key = e.key /\ r.tx = e.tx
        /\ r.userOp = e.userOp /\ r.agentId = e.agentId
        /\ \/ r.status = e.status
           \/ e.status = "awaiting_kyc" /\ r.status = "awaiting_fingerprint"
           \/ e.status = "bound" /\ r.status = "suspended"
    BY <2>1 DEF StatusMoves
  <2>4. e.agentId # None => Evidence(a, r)
    BY <2>2, <2>3, SameEvidence DEF RecordSound
  <2>5. e.agentId # None => Evidence(a, r)'
    BY <2>4, EvidenceStays
  <2>6. RecordSound(a, r)'
    BY <2>2, <2>3, <2>5 DEF RecordSound, Monotone, Started, Approving
  <2>7. QED
    BY <2>1, <2>6 DEF RecordSound, Evidence, Held
<1>2. QED
  BY <1>1 DEF EnrollmentsSound, AgentIdsStay, EnrollmentsKept, StatusMoves

(* A verified person's enrollments move on. *)
LEMMA KycWebhookMoves ==
    ASSUME Typed, NEW s \in Session, NEW status \in KycEvent,
           KycWebhook(s, status)
    PROVE  /\ enrollment' \in [Agent -> EnrollmentRecord]
           /\ \A a \in Agent : StatusMoves(enrollment[a], enrollment'[a])
<1> DEFINE o == kycSession[s].owner
<1>1. enrollment \in [Agent -> EnrollmentRecord]
  BY DEF Typed, CeremonyTypeOK, StoreTypeOK
<1>2. \A e \in EnrollmentRecord :
        LET r == [e EXCEPT !.status = "awaiting_fingerprint"]
        IN  /\ r \in EnrollmentRecord
            /\ r.principal = e.principal /\ r.key = e.key /\ r.tx = e.tx
            /\ r.userOp = e.userOp /\ r.agentId = e.agentId
            /\ r.intent = e.intent /\ r.status = "awaiting_fingerprint"
  BY DEF EnrollmentRecord, Statuses
<1>3. enrollment' = AfterVerified(o) \/ enrollment' = enrollment
  BY DEF KycWebhook
<1>4. \A a \in Agent :
        \/ enrollment'[a] = enrollment[a]
        \/ /\ enrollment[a].status = "awaiting_kyc"
           /\ enrollment'[a] = [enrollment[a] EXCEPT !.status = "awaiting_fingerprint"]
  BY <1>3 DEF AfterVerified
<1>5. ASSUME NEW a \in Agent
      PROVE  /\ enrollment'[a] \in EnrollmentRecord
             /\ StatusMoves(enrollment[a], enrollment'[a])
  <2>1. enrollment[a] \in EnrollmentRecord
    BY <1>1
  <2>2. CASE enrollment'[a] = enrollment[a]
    BY <2>1, <2>2 DEF StatusMoves
  <2>3. CASE enrollment'[a] # enrollment[a]
    <3>1. PICK e, r : /\ e = enrollment[a] /\ r = enrollment'[a]
                      /\ r = [e EXCEPT !.status = "awaiting_fingerprint"]
      BY <1>4, <2>3
    <3>2. e.status = "awaiting_kyc"
      BY <1>4, <2>3, <3>1
    <3>3. QED
      BY <2>1, <3>1, <3>2, <1>2 DEF StatusMoves
  <2>4. QED
    BY <2>2, <2>3
<1>6. enrollment' = [a \in Agent |-> enrollment'[a]]
  BY <1>1, <1>3 DEF AfterVerified
<1>7. enrollment' \in [Agent -> EnrollmentRecord]
  BY <1>5, <1>6
<1>8. QED
  BY <1>5, <1>7

(* A transfer suspends the enrollments bound to its token. *)
LEMMA ApplyTransferSound ==
    ASSUME Typed, EnrollmentsSound, Monotone, NEW w \in Loop, WatcherSound,
           ApplyTransfer(w)
    PROVE  EnrollmentsKept
<1> DEFINE log == logs[job[w].log]
<1>1. enrollment \in [Agent -> EnrollmentRecord]
  BY DEF Typed, CeremonyTypeOK, StoreTypeOK
<1>2. log.owner \in Owner
  <2>1. job[w].log \in LogIndex
    BY DEF WatcherSound, JobSound, TaskSound, ApplyTransfer
  <2>2. log \in LogRecord
    BY <2>1 DEF Typed, ChainTypeOK, LogIndex
  <2>3. QED
    BY <2>2 DEF LogRecord
<1> DEFINE o == log.owner
<1>3. \A e \in EnrollmentRecord :
        LET r == [e EXCEPT !.status = "suspended", !.owner = o]
        IN  /\ r \in EnrollmentRecord
            /\ r.principal = e.principal /\ r.key = e.key /\ r.tx = e.tx
            /\ r.userOp = e.userOp /\ r.agentId = e.agentId
            /\ r.intent = e.intent /\ r.status = "suspended"
  <2>1. o \in Owner
    BY <1>2
  <2> HIDE DEF o
  <2>2. QED
    BY <2>1 DEF EnrollmentRecord, Statuses
<1>4. /\ enrollment' = [a \in Agent |-> enrollment'[a]]
      /\ \A a \in Agent :
           \/ enrollment'[a] = enrollment[a]
           \/ /\ enrollment[a].status = "bound"
              /\ enrollment'[a] = [enrollment[a] EXCEPT !.status = "suspended",
                                                        !.owner = o]
  <2> DEFINE hit == {a \in Agent : Suspends(log, enrollment[a])}
  <2>1. \/ enrollment' = enrollment
        \/ enrollment' = [a \in Agent |->
             IF a \in hit THEN [enrollment[a] EXCEPT !.status = "suspended",
                                                     !.owner = o]
             ELSE enrollment[a]]
    BY DEF ApplyTransfer
  <2>2. QED
    BY <1>1, <2>1 DEF Suspends
<1> HIDE DEF o, log
<1>5. ASSUME NEW a \in Agent
      PROVE  /\ enrollment'[a] \in EnrollmentRecord
             /\ StatusMoves(enrollment[a], enrollment'[a])
  <2>1. enrollment[a] \in EnrollmentRecord
    BY <1>1
  <2>2. CASE enrollment'[a] = enrollment[a]
    BY <2>1, <2>2 DEF StatusMoves
  <2>3. CASE enrollment'[a] # enrollment[a]
    <3>1. PICK e, r : /\ e = enrollment[a] /\ r = enrollment'[a]
                      /\ r = [e EXCEPT !.status = "suspended", !.owner = o]
      BY <1>4, <2>3
    <3>2. e.status = "bound"
      BY <1>4, <2>3, <3>1
    <3>3. /\ r \in EnrollmentRecord
          /\ r.principal = e.principal /\ r.key = e.key /\ r.tx = e.tx
          /\ r.userOp = e.userOp /\ r.agentId = e.agentId
          /\ r.intent = e.intent /\ r.status = "suspended"
      <4>1. e \in EnrollmentRecord
        BY <2>1, <3>1
      <4>2. QED
        BY <4>1, <3>1, <1>3
    <3>4. QED
      BY <3>1, <3>2, <3>3 DEF StatusMoves
  <2>4. QED
    BY <2>2, <2>3
<1>6. enrollment' \in [Agent -> EnrollmentRecord]
  BY <1>4, <1>5
<1>7. QED
  BY <1>5, <1>6, StatusesSound

(* What evidence makes of the enrollment it binds; without it, nothing. *)
LEMMA RegisteredMoves ==
    ASSUME Typed, OwnersAreLogged, NEW w \in Loop, WatcherSound,
           ApplyRegistered(w), NEW i, i = job[w].log, NEW l, l = logs[i],
           NEW e, e = enrollment[l.agent]
    PROVE  /\ i \in LogIndex /\ l \in LogRecord /\ l.kind = "Registered"
           /\ l.agent \in Agent /\ e \in EnrollmentRecord
           /\ \/ /\ AwaitsRegistration(e) /\ EvidenceHolds(l, e, job[w].owner)
                 /\ processedEvents' = processedEvents \cup {i}
                 /\ Takes(l.agent, [e EXCEPT !.status = "bound",
                                             !.agentId = l.token,
                                             !.owner = l.owner])
              \/ /\ UNCHANGED enrollment
                 /\ ~ /\ i \notin processedEvents /\ AwaitsRegistration(e)
                      /\ EvidenceHolds(l, e, job[w].owner)
<1>1. /\ i \in LogIndex /\ l \in LogRecord /\ l.kind = "Registered"
      /\ l.agent \in Agent
  <2>1. i \in LogIndex /\ l.kind = "Registered"
    BY DEF WatcherSound, JobSound, TaskSound, ApplyRegistered
  <2>2. QED
    BY <2>1 DEF Typed, ChainTypeOK, LogIndex, OwnersAreLogged
<1>2. enrollment \in [Agent -> EnrollmentRecord]
  BY DEF Typed, CeremonyTypeOK, StoreTypeOK
<1>3. PICK a, t, o : a = l.agent /\ t = l.token /\ o = l.owner
  OBVIOUS
<1>4. a \in Agent /\ t \in Token /\ o \in Owner /\ e \in EnrollmentRecord
  BY <1>1, <1>2, <1>3 DEF LogRecord
<1>5. \/ /\ UNCHANGED enrollment
         /\ ~ /\ i \notin processedEvents /\ AwaitsRegistration(e)
              /\ EvidenceHolds(l, e, job[w].owner)
      \/ /\ AwaitsRegistration(e) /\ EvidenceHolds(l, e, job[w].owner)
         /\ processedEvents' = processedEvents \cup {i}
         /\ enrollment' = [enrollment EXCEPT ![a].status = "bound",
                                             ![a].agentId = t,
                                             ![a].owner = o]
  BY <1>3 DEF ApplyRegistered
<1>6. CASE /\ AwaitsRegistration(e) /\ EvidenceHolds(l, e, job[w].owner)
           /\ processedEvents' = processedEvents \cup {i}
           /\ enrollment' = [enrollment EXCEPT ![a].status = "bound",
                                               ![a].agentId = t,
                                               ![a].owner = o]
  <2>1. PICK r : r = [e EXCEPT !.status = "bound", !.agentId = t, !.owner = o]
    OBVIOUS
  <2>2. r \in EnrollmentRecord
    BY <1>4, <2>1 DEF EnrollmentRecord, Statuses
  <2>3. enrollment' = [enrollment EXCEPT ![a] = r]
    BY <1>2, <1>3, <1>4, <1>6, <2>1
  <2>4. Takes(a, r)
    BY <1>2, <1>4, <2>2, <2>3 DEF Takes
  <2>5. QED
    BY <1>1, <1>3, <1>4, <1>6, <2>1, <2>4
<1>7. QED
  BY <1>1, <1>4, <1>5, <1>6

(* An enrollment is bound by evidence only. *)
LEMMA ApplyRegisteredSound ==
    ASSUME Typed, OwnersAreLogged, EnrollmentsSound, Monotone, NEW w \in Loop,
           WatcherSound, ApplyRegistered(w)
    PROVE  EnrollmentsKept
<1>1. PICK i, l, e : i = job[w].log /\ l = logs[i] /\ e = enrollment[l.agent]
  OBVIOUS
<1>2. PICK a, t, o : a = l.agent /\ t = l.token /\ o = l.owner
  OBVIOUS
<1>3. /\ i \in LogIndex /\ l \in LogRecord /\ l.kind = "Registered"
      /\ a \in Agent /\ e \in EnrollmentRecord
      /\ \/ /\ AwaitsRegistration(e) /\ EvidenceHolds(l, e, job[w].owner)
            /\ processedEvents' = processedEvents \cup {i}
            /\ Takes(a, [e EXCEPT !.status = "bound", !.agentId = t, !.owner = o])
         \/ UNCHANGED enrollment
  BY <1>1, <1>2, RegisteredMoves
<1>4. t \in Token /\ RecordSound(a, e)
  BY <1>1, <1>2, <1>3 DEF LogRecord, EnrollmentsSound
<1>5. CASE UNCHANGED enrollment
  <2>1. \A x \in Agent : StatusMoves(enrollment[x], enrollment'[x])
    BY <1>5 DEF StatusMoves
  <2>2. enrollment' \in [Agent -> EnrollmentRecord]
    BY <1>5 DEF Typed, CeremonyTypeOK, StoreTypeOK
  <2>3. QED
    BY <2>1, <2>2, StatusesSound
<1>6. ASSUME AwaitsRegistration(e), EvidenceHolds(l, e, job[w].owner),
             processedEvents' = processedEvents \cup {i},
             Takes(a, [e EXCEPT !.status = "bound", !.agentId = t, !.owner = o])
      PROVE  EnrollmentsKept
  <2>1. PICK r : r = [e EXCEPT !.status = "bound", !.agentId = t, !.owner = o]
    OBVIOUS
  <2>2. Takes(a, r)
    BY <1>6, <2>1
  <2>3. /\ r.principal = e.principal /\ r.key = e.key /\ r.tx = e.tx
        /\ r.userOp = e.userOp /\ r.agentId = t /\ r.status = "bound"
    BY <1>3, <2>1 DEF EnrollmentRecord
  <2>4. /\ e.status \in {"awaiting_onchain", "awaiting_register"}
        /\ e.tx = t /\ e.principal = o
    BY <1>2, <1>6 DEF AwaitsRegistration, EvidenceHolds
  <2>5. e.agentId = None
    BY <1>4, <2>4 DEF RecordSound
  <2>6. t # None
    BY <1>4, SomebodyHolds
  <2>7. e.userOp = t
    BY <1>4, <2>4, <2>6 DEF RecordSound
  <2>8. Held(t, o)
    BY <1>1, <1>2, <1>3 DEF Held
  <2>9. Held(r.agentId, r.principal)'
    BY <2>3, <2>4, <2>8, HeldStays DEF Monotone
  <2>10. \E j \in processedEvents' \cap LogIndex' :
           /\ logs'[j].kind = "Registered"
           /\ logs'[j].token = r.agentId
           /\ logs'[j].agent = a
    BY <1>1, <1>2, <1>3, <1>6, <2>3 DEF Monotone, Grown
  <2>11. Evidence(a, r)'
    BY <2>3, <2>7, <2>9, <2>10 DEF Evidence
  <2>12. RecordSound(a, r)'
    BY <1>4, <2>3, <2>4, <2>7, <2>11 DEF RecordSound, Monotone, Started, Approving
  <2>13. QED
    BY <1>1, <1>2, <1>3, <2>2, <2>5, <2>12, TakesSound
<1>7. QED
  BY <1>3, <1>5, <1>6

-----------------------------------------------------------------------------
(* Credentials. *)

(* A credential stays where it is, of its agent. *)
CredentialsStay ==
    \A i \in DOMAIN credentials :
        /\ i \in DOMAIN credentials'
        /\ credentials'[i].agent = credentials[i].agent

(* Credentials change their status, and none becomes active. *)
Marked ==
    /\ credentials' \in Seq(CredentialRecord)
    /\ DOMAIN credentials' = DOMAIN credentials
    /\ \A i \in DOMAIN credentials :
         LET r == credentials'[i]
             x == credentials[i]
         IN  /\ r.agent = x.agent /\ r.principal = x.principal /\ r.key = x.key
             /\ r.status = "active" => x.status = "active"

(* Such changes keep the approvals behind credentials, and their uniqueness. *)
LEMMA MarkedSound ==
    ASSUME Marked, approvals \subseteq approvals', CredentialsApproved,
           OneActiveCredential
    PROVE  CredentialsApproved' /\ OneActiveCredential' /\ CredentialsStay
BY DEF Marked, CredentialsApproved, OneActiveCredential, CredentialsStay

(* A function on the places of a sequence. *)
LEMMA SamePlaces ==
    ASSUME NEW R, NEW s \in Seq(R), NEW f, f = [i \in DOMAIN s |-> f[i]],
           \A i \in DOMAIN s : f[i] \in R
    PROVE  f \in Seq(R) /\ DOMAIN f = DOMAIN s /\ Len(f) = Len(s)
OBVIOUS

(* y is credential x, suspended, revoked, expired or as it was. *)
Edited(x, y) ==
    \/ y = x
    \/ \E st \in {"suspended", "revoked"} : y = [x EXCEPT !.status = st]
    \/ y = [x EXCEPT !.lapsed = TRUE]

(* The credentials after such changes in some places. *)
LEMMA EditsMark ==
    ASSUME Typed, NEW c, c = [i \in DOMAIN credentials |-> c[i]],
           \A i \in DOMAIN credentials : Edited(credentials[i], c[i])
    PROVE  /\ c \in Seq(CredentialRecord)
           /\ DOMAIN c = DOMAIN credentials /\ Len(c) = Len(credentials)
           /\ \A i \in DOMAIN credentials :
                /\ c[i].agent = credentials[i].agent
                /\ c[i].principal = credentials[i].principal
                /\ c[i].key = credentials[i].key
                /\ c[i].status = "active" => credentials[i].status = "active"
<1>1. credentials \in Seq(CredentialRecord)
  BY DEF Typed, CeremonyTypeOK, StoreTypeOK
<1>2. ASSUME NEW i \in DOMAIN credentials
      PROVE  /\ c[i] \in CredentialRecord
             /\ c[i].agent = credentials[i].agent
             /\ c[i].principal = credentials[i].principal
             /\ c[i].key = credentials[i].key
             /\ c[i].status = "active" => credentials[i].status = "active"
  <2>1. PICK x, y : x = credentials[i] /\ y = c[i]
    OBVIOUS
  <2>2. x \in CredentialRecord
    BY <1>1, <2>1
  <2>3. \/ y = x
        \/ \E st \in {"suspended", "revoked"} : y = [x EXCEPT !.status = st]
        \/ y = [x EXCEPT !.lapsed = TRUE]
    BY <2>1 DEF Edited
  <2>4. CASE y = x
    BY <2>1, <2>2, <2>4
  <2>5. ASSUME NEW st \in {"suspended", "revoked"}, y = [x EXCEPT !.status = st]
        PROVE  /\ y \in CredentialRecord /\ y.agent = x.agent
               /\ y.principal = x.principal /\ y.key = x.key
               /\ y.status # "active"
    BY <2>2, <2>5 DEF CredentialRecord
  <2>6. CASE \E st \in {"suspended", "revoked"} : y = [x EXCEPT !.status = st]
    BY <2>1, <2>5, <2>6
  <2>7. CASE y = [x EXCEPT !.lapsed = TRUE]
    <3>1. /\ y \in CredentialRecord /\ y.agent = x.agent
          /\ y.principal = x.principal /\ y.key = x.key
          /\ y.status = x.status
      BY <2>2, <2>7 DEF CredentialRecord
    <3>2. QED
      BY <2>1, <3>1
  <2>8. QED
    BY <2>3, <2>4, <2>6, <2>7
<1>3. QED
  BY <1>1, <1>2, SamePlaces

(* MarkCredentials edits the credentials of one agent; with the active ones  *)
(* among those it marks, the agent has none left.                           *)
LEMMA MarkingMarks ==
    ASSUME Typed, NEW a, NEW from, NEW st \in {"suspended", "revoked"}, NEW c,
           c = MarkCredentials(a, from, st)
    PROVE  /\ c = [i \in DOMAIN credentials |-> c[i]]
           /\ \A i \in DOMAIN credentials : Edited(credentials[i], c[i])
           /\ "active" \in from =>
                \A i \in DOMAIN credentials :
                  ~(c[i].agent = a /\ c[i].status = "active")
<1>1. credentials \in Seq(CredentialRecord)
  BY DEF Typed, CeremonyTypeOK, StoreTypeOK
<1>2. /\ c = [i \in DOMAIN credentials |-> c[i]]
      /\ \A i \in DOMAIN credentials :
           c[i] = IF credentials[i].agent = a /\ credentials[i].status \in from
                  THEN [credentials[i] EXCEPT !.status = st]
                  ELSE credentials[i]
  BY DEF MarkCredentials
<1>3. ASSUME "active" \in from, NEW i \in DOMAIN credentials, c[i].agent = a,
             c[i].status = "active"
      PROVE  FALSE
  <2>1. PICK x, y : x = credentials[i] /\ y = c[i]
    OBVIOUS
  <2>2. x \in CredentialRecord
    BY <1>1, <2>1
  <2>3. y = IF x.agent = a /\ x.status \in from THEN [x EXCEPT !.status = st] ELSE x
    BY <1>2, <2>1
  <2>4. QED
    BY <1>3, <2>1, <2>2, <2>3 DEF CredentialRecord
<1>4. \A i \in DOMAIN credentials : Edited(credentials[i], c[i])
  BY <1>2 DEF Edited
<1>5. QED
  BY <1>2, <1>3, <1>4

(* The steps that mark credentials. *)
LEMMA MarkingSteps ==
    ASSUME Typed,
           \/ \E a, from : credentials' = MarkCredentials(a, from, "revoked")
           \/ \E w \in Loop : SuspendWrite(w)
           \/ \E i \in DOMAIN credentials : CredentialLapses(i)
           \/ UNCHANGED credentials
    PROVE  Marked
<1>1. credentials \in Seq(CredentialRecord)
  BY DEF Typed, CeremonyTypeOK, StoreTypeOK
<1>2. ASSUME NEW c, c = credentials', c = [i \in DOMAIN credentials |-> c[i]],
             \A i \in DOMAIN credentials : Edited(credentials[i], c[i])
      PROVE  Marked
  <2>1. /\ c \in Seq(CredentialRecord)
        /\ DOMAIN c = DOMAIN credentials
        /\ \A i \in DOMAIN credentials :
             /\ c[i].agent = credentials[i].agent
             /\ c[i].principal = credentials[i].principal
             /\ c[i].key = credentials[i].key
             /\ c[i].status = "active" => credentials[i].status = "active"
    BY <1>2, EditsMark
  <2>2. QED
    BY <1>2, <2>1 DEF Marked
<1>3. PICK c : c = credentials'
  OBVIOUS
<1>4. CASE \E a, from : c = MarkCredentials(a, from, "revoked")
  BY <1>2, <1>3, <1>4, MarkingMarks
<1>5. ASSUME NEW w \in Loop, SuspendWrite(w) PROVE Marked
  <2>1. c = [credentials EXCEPT ![job[w].cred].status = "suspended"]
    BY <1>3, <1>5 DEF SuspendWrite
  <2>2. QED
    BY <1>1, <1>2, <1>3, <2>1 DEF Edited
<1>6. ASSUME NEW i \in DOMAIN credentials, CredentialLapses(i) PROVE Marked
  <2>1. c = [credentials EXCEPT ![i].lapsed = TRUE]
    BY <1>3, <1>6 DEF CredentialLapses
  <2>2. QED
    BY <1>1, <1>2, <1>3, <2>1 DEF Edited
<1>7. CASE UNCHANGED credentials
  BY <1>1, <1>7 DEF Marked
<1>8. QED
  BY <1>3, <1>4, <1>5, <1>6, <1>7

(* issueKyaCredential: the new credential is the agent's only active one,   *)
(* and its key was approved when the request read it.                       *)
LEMMA ClaimIssueSound ==
    ASSUME Typed, CredentialsApproved, OneActiveCredential,
           NEW c \in Call, CallSound(c), ClaimIssue(c)
    PROVE  /\ credentials' \in Seq(CredentialRecord)
           /\ CredentialsApproved' /\ OneActiveCredential' /\ CredentialsStay
<1> DEFINE a == call[c].agent
           n == Len(credentials) + 1
<1>1. PICK m : m = MarkCredentials(a, {"active"}, "revoked")
  OBVIOUS
<1>2. PICK x : x = CredentialFor(call[c])
  OBVIOUS
<1>3. credentials' = Append(m, x) /\ approvals' = approvals
  BY <1>1, <1>2 DEF ClaimIssue
<1>4. /\ m \in Seq(CredentialRecord)
      /\ DOMAIN m = DOMAIN credentials /\ Len(m) = Len(credentials)
      /\ \A i \in DOMAIN credentials :
           /\ m[i].agent = credentials[i].agent
           /\ m[i].principal = credentials[i].principal
           /\ m[i].key = credentials[i].key
           /\ m[i].status = "active" => credentials[i].status = "active"
           /\ ~(m[i].agent = a /\ m[i].status = "active")
  <2>1. /\ m = [i \in DOMAIN credentials |-> m[i]]
        /\ \A i \in DOMAIN credentials : Edited(credentials[i], m[i])
        /\ \A i \in DOMAIN credentials :
             ~(m[i].agent = a /\ m[i].status = "active")
    <3> HIDE DEF a
    <3>1. QED
      BY <1>1, MarkingMarks
  <2>2. QED
    BY <2>1, EditsMark
<1>5. x \in CredentialRecord /\ <<x.agent, x.principal, x.key>> \in approvals
      /\ x.agent = a
  <2>1. /\ <<a, call[c].owner, call[c].seen.key>> \in approvals
        /\ call[c].seen.agentId # None
    BY DEF CallSound, RequestSound, ClaimIssue, Claiming
  <2>2. call[c].seen.agentId \in Token
    <3>1. call[c].seen \in EnrollmentRecord
      BY DEF Typed, CeremonyTypeOK, StoreTypeOK
    <3>2. QED
      BY <2>1, <3>1 DEF EnrollmentRecord
  <2>3. a \in Agent /\ call[c].owner \in Owner /\ call[c].seen.key \in Key
    BY <2>1, SomebodyHolds
  <2>4. QED
    BY <1>2, <2>1, <2>2, <2>3 DEF CredentialFor, CredentialRecord
<1>6. /\ credentials' \in Seq(CredentialRecord)
      /\ DOMAIN credentials' = DOMAIN credentials \cup {n}
      /\ n \notin DOMAIN credentials
      /\ credentials'[n] = x
      /\ \A i \in DOMAIN credentials : credentials'[i] = m[i]
  <2>1. credentials \in Seq(CredentialRecord)
    BY DEF Typed, CeremonyTypeOK, StoreTypeOK
  <2>2. QED
    BY <1>3, <1>4, <1>5, <2>1
<1> HIDE DEF n, a
<1>7. CredentialsApproved'
  BY <1>3, <1>4, <1>5, <1>6 DEF CredentialsApproved
<1>8. OneActiveCredential'
  BY <1>4, <1>5, <1>6 DEF OneActiveCredential
<1>9. CredentialsStay
  BY <1>4, <1>6 DEF CredentialsStay
<1>10. QED
  BY <1>6, <1>7, <1>8, <1>9

-----------------------------------------------------------------------------
(* First credentials. *)

(* The first active and the first usable credential of an agent are among   *)
(* its active ones.                                                         *)
LEMMA FirstCredentials ==
    ASSUME Typed, NEW a
    PROVE  /\ FirstActive(a) \in Nat /\ ActiveCredential(a) \in Nat
           /\ FirstActive(a) # 0 => /\ CredentialOf(FirstActive(a), a)
                                    /\ credentials[FirstActive(a)].status = "active"
<1>1. /\ DOMAIN credentials = 1..Len(credentials) /\ Len(credentials) \in Nat
      /\ DOMAIN credentials \subseteq Nat
  BY DEF Typed, CeremonyTypeOK, StoreTypeOK
<1>2. ASSUME NEW S, S \subseteq DOMAIN credentials, S # {}
      PROVE  (CHOOSE i \in S : \A j \in S : i <= j) \in S
  <2>1. \E i \in S : \A j \in S : i <= j
    BY <1>1, <1>2, LeastPlace
  <2>2. QED
    BY <2>1
<1> DEFINE S == {i \in DOMAIN credentials : credentials[i].agent = a /\
                                             credentials[i].status = "active"}
<1>3. FirstActive(a) = IF S = {} THEN 0 ELSE CHOOSE i \in S : \A j \in S : i <= j
  BY DEF FirstActive
<1>4. S # {} => FirstActive(a) \in S
  BY <1>2, <1>3
<1>5. UsableCredentials(a) \subseteq DOMAIN credentials
  BY DEF UsableCredentials
<1>6. ActiveCredential(a) \in Nat
  BY <1>1, <1>2, <1>5 DEF ActiveCredential
<1>7. QED
  BY <1>1, <1>3, <1>4, <1>6 DEF CredentialOf

-----------------------------------------------------------------------------
(* Requests in flight. *)

(* A request in flight, wherever it is. *)
RequestRecord ==
    [op : Ops, agent : Agent \cup {None}, owner : Owner \cup {None},
     kyc : KycStatuses, seen : EnrollmentRecord, cred : Nat,
     nonce : Nonce \cup {None}]

(* All requests in flight. *)
CallsSound == /\ call \in [Call -> RequestRecord]
              /\ \A c \in Call : CallSound(c)

(* What a request has read stays as it relied on. *)
LEMMA RequestStays ==
    ASSUME Monotone, AgentIdsStay, CredentialsStay, NEW q, RequestSound(q)
    PROVE  RequestSound(q)'
<1>1. q.op \in Rebinding => /\ q.agent \in Agent /\ q.seen.agentId # None
                            /\ enrollment'[q.agent].agentId = q.seen.agentId
  BY DEF RequestSound, AgentIdsStay, Rebinding
<1>2. q.op \in {"rebind_owned", "rebind_kyc"} => Held(q.seen.agentId, q.owner)'
  BY HeldStays DEF RequestSound, Monotone
<1>3. q.op \in Claiming => <<q.agent, q.owner, q.seen.key>> \in approvals'
  BY DEF RequestSound, Monotone
<1>4. q.op \in Verifying => CredentialOf(q.cred, q.agent)'
  BY DEF RequestSound, CredentialOf, CredentialsStay
<1>5. QED
  BY <1>1, <1>2, <1>3, <1>4 DEF RequestSound

(* One request moves on, and the others stay where they are. *)
LEMMA RequestMoves ==
    ASSUME CallsSound, Monotone, AgentIdsStay, CredentialsStay,
           NEW c \in Call, NEW q \in RequestRecord, RequestSound(q)',
           call' = [call EXCEPT ![c] = q]
    PROVE  CallsSound'
<1>1. call' \in [Call -> RequestRecord]
  BY DEF CallsSound
<1>2. ASSUME NEW d \in Call PROVE CallSound(d)'
  <2>1. PICK p : p = call'[d]
    OBVIOUS
  <2>2. CASE d = c
    <3>1. p = q
      BY <2>1, <2>2 DEF CallsSound
    <3>2. QED
      BY <2>1, <3>1 DEF CallSound, RequestSound, Held, CredentialOf
  <2>3. CASE d # c
    <3>1. p = call[d]
      BY <2>1, <2>3 DEF CallsSound
    <3>2. RequestSound(p)'
      BY <3>1, RequestStays DEF CallsSound, CallSound
    <3>3. QED
      BY <2>1, <3>2 DEF CallSound, RequestSound, Held, CredentialOf
  <2>4. QED
    BY <2>2, <2>3
<1>3. QED
  BY <1>1, <1>2 DEF CallsSound

(* No request moves. *)
LEMMA RequestsStay ==
    ASSUME CallsSound, Monotone, AgentIdsStay, CredentialsStay, UNCHANGED call
    PROVE  CallsSound'
<1>1. ASSUME NEW d \in Call PROVE CallSound(d)'
  <2>1. PICK p : p = call[d]
    OBVIOUS
  <2>2. RequestSound(p)'
    BY <2>1, RequestStays DEF CallsSound, CallSound
  <2>3. QED
    BY <2>1, <2>2 DEF CallSound, RequestSound, Held, CredentialOf
<1>2. QED
  BY <1>1 DEF CallsSound

(* A slot without a request. *)
LEMMA IdleRequest == Idle \in RequestRecord /\ RequestSound(Idle) /\ Idle.op = "idle"
<1>1. NoEnrollment \in EnrollmentRecord
  BY DEF NoEnrollment, EnrollmentRecord, Statuses
<1>2. Idle = [op |-> "idle", agent |-> None, owner |-> None, kyc |-> "absent",
              seen |-> NoEnrollment, cred |-> 0, nonce |-> None]
  BY DEF Idle
<1>3. "idle" \in Ops /\ "absent" \in KycStatuses /\ 0 \in Nat
  BY DEF Ops, KycStatuses
<1>4. Idle \in RequestRecord /\ Idle.op = "idle"
  BY <1>1, <1>2, <1>3 DEF RequestRecord
<1>5. QED
  BY <1>4 DEF RequestSound, Rebinding, Claiming, Verifying

(* A request that begins has read what it relies on. *)
LEMMA Begins ==
    ASSUME Typed, EnrollmentsSound, AccessSound, NEW c \in Call,
           \/ \E a \in Agent, o \in Owner : PairRead(c, a, o) \/ RebindRead(c, a, o)
           \/ \E a \in Agent : PrepareRead(c, a) \/ ClaimRead(c, a)
           \/ \E n \in Nonce : VerifyRead(c, n)
    PROVE  \E q \in RequestRecord : /\ RequestSound(q)
                                    /\ call' = [call EXCEPT ![c] = q]
<1> DEFINE Goal == \E q \in RequestRecord : /\ RequestSound(q)
                                            /\ call' = [call EXCEPT ![c] = q]
<1>1. /\ \A a \in Agent : enrollment[a] \in EnrollmentRecord /\ RecordSound(a, enrollment[a])
      /\ \A o \in Owner : kyc[o] \in KycStatuses
  BY DEF Typed, CeremonyTypeOK, StoreTypeOK, EnrollmentsSound
<1>2. /\ NoEnrollment \in EnrollmentRecord
      /\ Idle = [op |-> "idle", agent |-> None, owner |-> None, kyc |-> "absent",
                 seen |-> NoEnrollment, cred |-> 0, nonce |-> None]
      /\ "absent" \in KycStatuses /\ 0 \in Nat
      /\ {"pair", "prepare", "rebind", "claim", "verify"} \subseteq Ops
  BY DEF Idle, NoEnrollment, EnrollmentRecord, Statuses, KycStatuses, Ops
<1>3. ASSUME NEW a \in Agent, NEW o \in Owner, PairRead(c, a, o) PROVE Goal
  <2>1. PICK q : q = [Idle EXCEPT !.op = "pair", !.agent = a, !.owner = o, !.kyc = kyc[o]]
    OBVIOUS
  <2>2. q = [op |-> "pair", agent |-> a, owner |-> o, kyc |-> kyc[o],
             seen |-> NoEnrollment, cred |-> 0, nonce |-> None]
    BY <1>2, <2>1
  <2>3. q \in RequestRecord
    BY <1>1, <1>2, <2>2 DEF RequestRecord
  <2>4. RequestSound(q)
    BY <2>2 DEF RequestSound, Rebinding, Claiming, Verifying
  <2>5. call' = [call EXCEPT ![c] = q]
    BY <1>3, <2>1 DEF PairRead, Begin
  <2>6. QED
    BY <2>3, <2>4, <2>5
<1>4. ASSUME NEW a \in Agent, NEW o \in Owner, RebindRead(c, a, o) PROVE Goal
  <2>1. PICK e : e = enrollment[a]
    OBVIOUS
  <2>2. PICK q : q = [Idle EXCEPT !.op = "rebind", !.agent = a, !.owner = o, !.seen = e]
    OBVIOUS
  <2>3. q = [op |-> "rebind", agent |-> a, owner |-> o, kyc |-> "absent",
             seen |-> e, cred |-> 0, nonce |-> None]
    BY <1>2, <2>2
  <2>4. q \in RequestRecord
    BY <1>1, <1>2, <2>1, <2>3 DEF RequestRecord
  <2>5. e.agentId # None
    BY <1>4, <2>1 DEF RebindRead
  <2>6. RequestSound(q)
    BY <2>1, <2>3, <2>5 DEF RequestSound, Rebinding, Claiming, Verifying
  <2>7. call' = [call EXCEPT ![c] = q]
    BY <1>4, <2>1, <2>2 DEF RebindRead, Begin
  <2>8. QED
    BY <2>4, <2>6, <2>7
<1>5. ASSUME NEW a \in Agent, PrepareRead(c, a) PROVE Goal
  <2>1. PICK q : q = [Idle EXCEPT !.op = "prepare", !.agent = a]
    OBVIOUS
  <2>2. q = [op |-> "prepare", agent |-> a, owner |-> None, kyc |-> "absent",
             seen |-> NoEnrollment, cred |-> 0, nonce |-> None]
    BY <1>2, <2>1
  <2>3. q \in RequestRecord
    BY <1>2, <2>2 DEF RequestRecord
  <2>4. RequestSound(q)
    BY <2>2 DEF RequestSound, Rebinding, Claiming, Verifying
  <2>5. call' = [call EXCEPT ![c] = q]
    BY <1>5, <2>1 DEF PrepareRead, Begin
  <2>6. QED
    BY <2>3, <2>4, <2>5
<1>6. ASSUME NEW a \in Agent, ClaimRead(c, a) PROVE Goal
  <2>1. PICK e, i : e = enrollment[a] /\ i = ActiveCredential(a)
    OBVIOUS
  <2>2. PICK q : q = [Idle EXCEPT !.op = "claim", !.agent = a, !.owner = e.principal,
                                  !.seen = e, !.cred = i]
    OBVIOUS
  <2>3. q = [op |-> "claim", agent |-> a, owner |-> e.principal, kyc |-> "absent",
             seen |-> e, cred |-> i, nonce |-> None]
    BY <1>2, <2>2
  <2>4. i \in Nat
    BY <2>1, FirstCredentials
  <2>5. e.agentId # None /\ <<a, e.principal, e.key>> \in approvals
    BY <1>1, <1>6, <2>1 DEF ClaimRead, RecordSound, Approving
  <2>6. e.principal \in Owner
    BY <2>5, SomebodyHolds
  <2>7. q \in RequestRecord
    BY <1>1, <1>2, <2>1, <2>3, <2>4, <2>6 DEF RequestRecord
  <2>8. RequestSound(q)
    BY <2>3, <2>5, <2>6 DEF RequestSound, Rebinding, Claiming, Verifying
  <2>9. call' = [call EXCEPT ![c] = q]
    BY <1>6, <2>1, <2>2 DEF ClaimRead, Begin
  <2>10. QED
    BY <2>7, <2>8, <2>9
<1>7. ASSUME NEW n \in Nonce, VerifyRead(c, n) PROVE Goal
  <2>1. PICK a, e, i : a = nonce[n].agent /\ e = enrollment[a] /\ i = FirstActive(a)
    OBVIOUS
  <2>2. PICK q : q = [Idle EXCEPT !.op = "verify", !.agent = a, !.owner = e.principal,
                                  !.seen = e, !.cred = i, !.nonce = n]
    OBVIOUS
  <2>3. q = [op |-> "verify", agent |-> a, owner |-> e.principal, kyc |-> "absent",
             seen |-> e, cred |-> i, nonce |-> n]
    BY <1>2, <2>2
  <2>4. nonce[n].state = "issued" /\ e.status = "bound" /\ i # 0
    BY <1>7, <2>1 DEF VerifyRead
  <2>5. a \in Agent
    BY <2>1, <2>4 DEF AccessSound
  <2>6. <<a, e.principal, e.key>> \in approvals
    BY <1>1, <2>1, <2>4, <2>5 DEF RecordSound, Approving
  <2>7. e.principal \in Owner
    BY <2>6, SomebodyHolds
  <2>8. i \in Nat /\ CredentialOf(i, a)
    BY <2>1, <2>4, FirstCredentials
  <2>9. q \in RequestRecord
    BY <1>1, <1>2, <2>1, <2>3, <2>5, <2>7, <2>8 DEF RequestRecord
  <2>10. RequestSound(q)
    BY <2>3, <2>5, <2>7, <2>8 DEF RequestSound, Rebinding, Claiming, Verifying
  <2>11. call' = [call EXCEPT ![c] = q]
    BY <1>7, <2>1, <2>2 DEF VerifyRead, Begin
  <2>12. QED
    BY <2>9, <2>10, <2>11
<1> HIDE DEF Goal
<1>8. Goal
  BY <1>3, <1>4, <1>5, <1>6, <1>7
<1>9. QED
  BY <1>8 DEF Goal

(* A request that goes on, or ends. *)
LEMMA GoesOn ==
    ASSUME Typed, OwnersAreLogged, CallsSound, NEW c \in Call,
           \/ PairCommit(c) \/ PrepareCommit(c) \/ RebindOwner(c) \/ RebindKyc(c)
           \/ RebindCommit(c) \/ RebindApprove(c) \/ ClaimOwner(c) \/ ClaimIssue(c)
           \/ VerifyOwner(c) \/ VerifyCommit(c) \/ Abandon(c)
    PROVE  \E q \in RequestRecord : /\ RequestSound(q)
                                    /\ call' = [call EXCEPT ![c] = q]
<1> DEFINE Goal == \E q \in RequestRecord : /\ RequestSound(q)
                                            /\ call' = [call EXCEPT ![c] = q]
<1>1. PICK p : p = call[c]
  OBVIOUS
<1>2. p \in RequestRecord /\ RequestSound(p) /\ call \in [Call -> RequestRecord]
  BY <1>1 DEF CallsSound, CallSound
<1>3. ASSUME Finish(c) PROVE Goal
  BY <1>3, IdleRequest DEF Finish
<1>4. ASSUME NEW op \in Ops, Goto(c, op),
             /\ op # "idle" => p.op # "idle"
             /\ op \in {"pair"} \cup Rebinding \cup Claiming \cup Verifying =>
                  p.op \in {"pair"} \cup Rebinding \cup Claiming \cup Verifying
             /\ op \in Rebinding => p.op \in Rebinding
             /\ op \in {"rebind_owned", "rebind_kyc"} => Held(p.seen.agentId, p.owner)
             /\ op \in Claiming => p.op \in Claiming
             /\ op \in Verifying => p.op \in Verifying
      PROVE  Goal
  <2>1. PICK q : q = [p EXCEPT !.op = op]
    OBVIOUS
  <2>2. /\ q \in RequestRecord /\ q.op = op /\ q.agent = p.agent /\ q.owner = p.owner
        /\ q.seen = p.seen /\ q.cred = p.cred /\ q.nonce = p.nonce
    BY <1>2, <2>1 DEF RequestRecord
  <2>3. call' = [call EXCEPT ![c] = q]
    BY <1>1, <1>2, <1>4, <2>1 DEF Goto
  <2>4. RequestSound(q)
    BY <1>2, <1>4, <2>2 DEF RequestSound
  <2>5. QED
    BY <2>2, <2>3, <2>4
<1>5. CASE \/ PairCommit(c) \/ PrepareCommit(c) \/ RebindApprove(c) \/ ClaimIssue(c)
           \/ VerifyCommit(c) \/ Abandon(c)
  <2>1. Finish(c)
    BY <1>5 DEF PairCommit, PrepareCommit, RebindApprove, ClaimIssue, VerifyCommit, Abandon
  <2>2. QED
    BY <2>1, <1>3
<1>6. CASE RebindOwner(c)
  <2>1. p.op = "rebind" /\ tokenOwner[p.seen.agentId] = p.owner /\ Goto(c, "rebind_owned")
    BY <1>1, <1>6 DEF RebindOwner
  <2>2. p.owner \in Owner /\ p.seen.agentId # None
    BY <1>2, <2>1 DEF RequestSound, Rebinding
  <2>3. p.seen.agentId \in Token
    BY <1>2, <2>2 DEF RequestRecord, EnrollmentRecord
  <2>4. Held(p.seen.agentId, p.owner)
    BY <2>1, <2>2, <2>3, RegistryAssumption DEF OwnersAreLogged
  <2>5. QED
    BY <1>4, <2>1, <2>4 DEF Ops, Rebinding, Claiming, Verifying
<1>7. CASE RebindKyc(c)
  <2>1. p.op = "rebind_owned" /\ Goto(c, "rebind_kyc")
    BY <1>1, <1>7 DEF RebindKyc
  <2>2. Held(p.seen.agentId, p.owner)
    BY <1>2, <2>1 DEF RequestSound
  <2>3. QED
    BY <1>4, <2>1, <2>2 DEF Ops, Rebinding, Claiming, Verifying
<1>8. CASE RebindCommit(c)
  <2>1. p.op = "rebind_kyc" /\ Goto(c, "rebind_done")
    BY <1>1, <1>8 DEF RebindCommit
  <2>2. QED
    BY <1>4, <2>1 DEF Ops, Rebinding, Claiming, Verifying
<1>9. CASE ClaimOwner(c)
  <2>1. p.op = "claim" /\ (Finish(c) \/ Goto(c, "claim_owned"))
    BY <1>1, <1>9 DEF ClaimOwner
  <2>2. QED
    BY <1>3, <1>4, <2>1 DEF Ops, Rebinding, Claiming, Verifying
<1>10. CASE VerifyOwner(c)
  <2>1. p.op = "verify" /\ Goto(c, "verify_owned")
    BY <1>1, <1>10 DEF VerifyOwner
  <2>2. QED
    BY <1>4, <2>1 DEF Ops, Rebinding, Claiming, Verifying
<1>11. QED
  BY <1>5, <1>6, <1>7, <1>8, <1>9, <1>10

-----------------------------------------------------------------------------
(* The watcher. *)

(* A loop's job stays sound while the log grows. *)
LEMMA TaskStays ==
    ASSUME Grown, NEW j, TaskSound(j) PROVE TaskSound(j)'
BY DEF Grown, TaskSound

(* One loop's job changes; the other's, and the batch, stay. *)
LEMMA TaskMoves ==
    ASSUME WatcherSound, Grown, batch' \subseteq LogIndex', NEW w \in Loop,
           NEW j \in JobRecord, TaskSound(j)', job' = [job EXCEPT ![w] = j]
    PROVE  WatcherSound'
<1>1. job' \in [Loop -> JobRecord]
  BY DEF WatcherSound
<1>2. ASSUME NEW v \in Loop PROVE JobSound(v)'
  <2>1. PICK x : x = job'[v]
    OBVIOUS
  <2>2. CASE v = w
    <3>1. x = j
      BY <2>1, <2>2 DEF WatcherSound
    <3>2. QED
      BY <2>1, <3>1 DEF JobSound, TaskSound
  <2>3. CASE v # w
    <3>1. x = job[v]
      BY <2>1, <2>3 DEF WatcherSound
    <3>2. TaskSound(x)'
      BY <3>1, TaskStays DEF WatcherSound, JobSound
    <3>3. QED
      BY <2>1, <3>2 DEF JobSound, TaskSound
  <2>4. QED
    BY <2>2, <2>3
<1>3. QED
  BY <1>1, <1>2 DEF WatcherSound

(* No job changes. *)
LEMMA TasksStay ==
    ASSUME WatcherSound, Grown, batch' \subseteq LogIndex', UNCHANGED job
    PROVE  WatcherSound'
<1>1. ASSUME NEW v \in Loop PROVE JobSound(v)'
  <2>1. PICK x : x = job[v]
    OBVIOUS
  <2>2. TaskSound(x)'
    BY <2>1, TaskStays DEF WatcherSound, JobSound
  <2>3. QED
    BY <2>1, <2>2 DEF JobSound, TaskSound
<1>2. QED
  BY <1>1 DEF WatcherSound

(* A loop without a job. *)
LEMMA NewJobs == NoJob \in JobRecord /\ TaskSound(NoJob)
<1>1. NoJob = [pc |-> "idle", log |-> 0, owner |-> None, agent |-> None, cred |-> 0]
  BY DEF NoJob
<1>2. NoJob \in JobRecord /\ NoJob.pc = "idle"
  BY <1>1 DEF JobRecord
<1>3. TaskSound(NoJob)
  BY <1>2 DEF TaskSound
<1>4. QED
  BY <1>2, <1>3

(* Starting the job of a log that was read. *)
LEMMA StartSound ==
    ASSUME Typed, WatcherSound, NEW w \in Loop, NEW i \in LogIndex,
           StartJob(w, i), UNCHANGED logs, batch' \subseteq LogIndex
    PROVE  WatcherSound'
<1>1. PICK p, j : /\ p = IF logs[i].kind = "Registered" THEN "owner" ELSE "transfer"
                  /\ j = [NoJob EXCEPT !.log = i, !.pc = p]
  OBVIOUS
<1>2. job' = [job EXCEPT ![w] = j]
  BY <1>1 DEF StartJob
<1>3. i \in Nat /\ p \in {"owner", "transfer"}
  BY <1>1 DEF Typed, ChainTypeOK, LogIndex
<1>4. /\ j \in JobRecord /\ j.log = i /\ j.pc = p
      /\ p = "owner" => logs[i].kind = "Registered"
  <2>1. j = [NoJob EXCEPT !.log = i, !.pc = p]
    BY <1>1
  <2>2. j \in JobRecord /\ j.log = i /\ j.pc = p
    BY <1>3, <2>1, NewJobs DEF JobRecord
  <2>3. QED
    BY <1>1, <2>2
<1>5. TaskSound(j)'
  BY <1>3, <1>4 DEF TaskSound, LogIndex
<1>6. Grown /\ LogIndex' = LogIndex
  BY DEF Grown, LogIndex
<1>7. QED
  BY <1>2, <1>4, <1>5, <1>6, TaskMoves

(* The least log of a batch is one of it. *)
LEMMA NextLogRead ==
    ASSUME Typed, batch \subseteq LogIndex, batch # {}
    PROVE  NextLog \in batch
<1>1. LogIndex = 1..Len(logs) /\ Len(logs) \in Nat
  BY DEF LogIndex, Typed, ChainTypeOK
<1>2. \E i \in batch : \A j \in batch : i <= j
  BY <1>1, LeastPlace
<1>3. QED
  BY <1>2 DEF NextLog

(* Polling and flushing. *)
LEMMA PollSteps ==
    ASSUME Typed, WatcherSound, UNCHANGED logs,
           PollBegin \/ PollTake \/ PollEnd \/ \E i \in LogIndex : FlushTake(i)
    PROVE  WatcherSound'
<1>1. Grown /\ LogIndex' = LogIndex
  BY DEF Grown, LogIndex
<1>2. CASE PollBegin
  <2>1. batch' \subseteq LogIndex /\ UNCHANGED job
    BY <1>2 DEF PollBegin
  <2>2. QED
    BY <1>1, <2>1, TasksStay
<1>3. CASE PollTake
  <2>1. NextLog \in LogIndex /\ batch' \subseteq LogIndex
    BY <1>3, NextLogRead DEF PollTake, WatcherSound
  <2>2. StartJob("poll", NextLog) \/ UNCHANGED job
    BY <1>3 DEF PollTake
  <2>3. "poll" \in Loop
    BY DEF Loop
  <2>4. QED
    BY <1>1, <2>1, <2>2, <2>3, StartSound, TasksStay
<1>4. CASE PollEnd
  <2>1. batch' \subseteq LogIndex /\ UNCHANGED job
    BY <1>4 DEF PollEnd, WatcherSound
  <2>2. QED
    BY <1>1, <2>1, TasksStay
<1>5. ASSUME NEW i \in LogIndex, FlushTake(i) PROVE WatcherSound'
  <2>1. StartJob("flush", i) /\ batch' \subseteq LogIndex
    BY <1>5 DEF FlushTake, WatcherSound
  <2>2. "flush" \in Loop
    BY DEF Loop
  <2>3. QED
    BY <2>1, <2>2, StartSound
<1>6. QED
  BY <1>2, <1>3, <1>4, <1>5

(* The sections of the two loops. *)
LEMMA LoopSteps ==
    ASSUME Typed, WatcherSound, UNCHANGED logs, NEW w \in Loop,
           \/ ReadOwner(w) \/ ReadOwnerFails(w) \/ ApplyRegistered(w)
           \/ KeepPending(w) \/ DropPending(w) \/ ApplyTransfer(w)
           \/ SuspendRead(w) \/ SuspendWrite(w) \/ JobFails(w)
    PROVE  WatcherSound'
<1>1. Grown /\ LogIndex' = LogIndex
  BY DEF Grown, LogIndex
<1>2. PICK p : p = job[w]
  OBVIOUS
<1>3. p \in JobRecord /\ TaskSound(p) /\ job \in [Loop -> JobRecord]
  BY <1>2 DEF WatcherSound, JobSound
<1>4. batch' \subseteq LogIndex'
  BY <1>1 DEF WatcherSound, ReadOwner, ReadOwnerFails, ApplyRegistered, KeepPending,
              DropPending, ApplyTransfer, SuspendRead, SuspendWrite, JobFails
<1>5. ASSUME EndJob(w) PROVE WatcherSound'
  <2>1. job' = [job EXCEPT ![w] = NoJob]
    BY <1>5 DEF EndJob
  <2>2. NoJob \in JobRecord /\ TaskSound(NoJob)'
    BY NewJobs, <1>1, TaskStays
  <2>3. QED
    BY <1>1, <1>4, <2>1, <2>2, TaskMoves
<1>6. ASSUME NEW j \in JobRecord, job' = [job EXCEPT ![w] = j],
             p.pc # "idle", j.log = p.log,
             j.pc \in {"owner", "apply"} => p.pc \in {"owner", "apply"}
      PROVE  WatcherSound'
  <2>1. TaskSound(j)
    BY <1>3, <1>6 DEF TaskSound
  <2>2. TaskSound(j)'
    BY <1>1, <2>1, TaskStays
  <2>3. QED
    BY <1>1, <1>4, <1>6, <2>2, TaskMoves
<1>7. CASE ReadOwner(w)
  <2>1. PICK o : o = tokenOwner[logs[p.log].token]
    OBVIOUS
  <2>2. p.pc = "owner"
    BY <1>2, <1>7 DEF ReadOwner
  <2>3. o \in Owner \cup {None}
    <3>1. p.log \in LogIndex
      BY <1>3, <2>2 DEF TaskSound
    <3>2. logs[p.log] \in LogRecord
      BY <3>1 DEF Typed, ChainTypeOK, LogIndex
    <3>3. logs[p.log].token \in Token
      BY <3>2 DEF LogRecord
    <3>4. QED
      BY <2>1, <3>3 DEF Typed, ChainTypeOK
  <2>4. PICK j : j = [p EXCEPT !.owner = o, !.pc = "apply"]
    OBVIOUS
  <2>5. j \in JobRecord /\ j.log = p.log
    BY <1>3, <2>3, <2>4 DEF JobRecord
  <2>6. job' = [job EXCEPT ![w] = j]
    BY <1>2, <1>3, <1>7, <2>1, <2>4 DEF ReadOwner
  <2>7. QED
    BY <1>6, <2>2, <2>5, <2>6
<1>8. CASE ReadOwnerFails(w)
  <2>1. PICK j : j = [p EXCEPT !.pc = "apply"]
    OBVIOUS
  <2>2. p.pc = "owner" /\ job' = [job EXCEPT ![w] = j]
    BY <1>2, <1>3, <1>8, <2>1 DEF ReadOwnerFails
  <2>3. j \in JobRecord /\ j.log = p.log
    BY <1>3, <2>1 DEF JobRecord
  <2>4. QED
    BY <1>6, <2>2, <2>3
<1>9. CASE ApplyRegistered(w)
  <2>1. PICK s \in {"keep", "drop"} : job' = [job EXCEPT ![w].pc = s]
    BY <1>9 DEF ApplyRegistered
  <2>2. PICK j : j = [p EXCEPT !.pc = s]
    OBVIOUS
  <2>3. p.pc = "apply" /\ job' = [job EXCEPT ![w] = j]
    BY <1>2, <1>3, <1>9, <2>1, <2>2 DEF ApplyRegistered
  <2>4. j \in JobRecord /\ j.log = p.log
    BY <1>3, <2>2 DEF JobRecord
  <2>5. QED
    BY <1>6, <2>3, <2>4
<1>10. CASE ApplyTransfer(w)
  <2> DEFINE log == logs[job[w].log]
             hit == {a \in Agent : Suspends(log, enrollment[a])}
  <2>1. CASE EndJob(w)
    BY <1>5, <2>1
  <2>2. CASE ~EndJob(w)
    <3>1. hit # {} /\ job' = [job EXCEPT ![w].pc = "suspend",
                                         ![w].agent = CHOOSE a \in hit : TRUE]
      BY <1>10, <2>2 DEF ApplyTransfer
    <3>2. PICK a : a = CHOOSE x \in hit : TRUE
      OBVIOUS
    <3>3. a \in Agent
      BY <3>1, <3>2
    <3>4. PICK j : j = [p EXCEPT !.pc = "suspend", !.agent = a]
      OBVIOUS
    <3>5. p.pc = "transfer"
      BY <1>2, <1>10 DEF ApplyTransfer
    <3>6. job' = [job EXCEPT ![w].pc = "suspend", ![w].agent = a]
      BY <3>1, <3>2
    <3> HIDE DEF hit, log
    <3>7. job' = [job EXCEPT ![w] = j]
      BY <1>2, <1>3, <3>4, <3>6
    <3>8. j \in JobRecord /\ j.log = p.log
      BY <1>3, <3>3, <3>4 DEF JobRecord
    <3>9. j.pc = "suspend"
      BY <1>3, <3>4 DEF JobRecord
    <3>10. QED
      BY <1>6, <3>5, <3>7, <3>8, <3>9
  <2>3. QED
    BY <2>1, <2>2
<1>11. CASE SuspendRead(w)
  <2>1. PICK i : i = FirstActive(job[w].agent)
    OBVIOUS
  <2>2. i \in Nat
    BY <2>1, FirstCredentials
  <2>3. CASE EndJob(w)
    BY <1>5, <2>3
  <2>4. CASE ~EndJob(w)
    <3>1. PICK j : j = [p EXCEPT !.pc = "suspend_write", !.cred = i]
      OBVIOUS
    <3>2. p.pc = "suspend" /\ job' = [job EXCEPT ![w] = j]
      BY <1>2, <1>3, <1>11, <2>1, <2>4, <3>1 DEF SuspendRead
    <3>3. j \in JobRecord /\ j.log = p.log /\ j.pc = "suspend_write"
      BY <1>3, <2>2, <3>1 DEF JobRecord
    <3>4. QED
      BY <1>6, <3>2, <3>3
  <2>5. QED
    BY <2>3, <2>4
<1>12. CASE KeepPending(w) \/ DropPending(w) \/ SuspendWrite(w) \/ JobFails(w)
  <2>1. EndJob(w)
    BY <1>12 DEF KeepPending, DropPending, SuspendWrite, JobFails
  <2>2. QED
    BY <1>5, <2>1
<1>13. QED
  BY <1>7, <1>8, <1>9, <1>10, <1>11, <1>12

-----------------------------------------------------------------------------
(* Challenges and access tokens. *)

(* What tokens rely on stays. *)
LEMMA TokensStay ==
    ASSUME CredentialsStay, NEW i, NEW a, CredentialOf(i, a)
    PROVE  CredentialOf(i, a)'
BY DEF CredentialOf, CredentialsStay

(* A challenge that was not used changes, and no token is issued. *)
LEMMA ChallengeMoves ==
    ASSUME AccessTypeOK, AccessSound, NonceYieldsToken, CredentialsStay,
           NEW n \in Nonce, NEW r, nonce' = [nonce EXCEPT ![n] = r],
           r \in [state : {"free", "issued", "lapsed"}, agent : Agent \cup {None}],
           r.state = "issued" => r.agent \in Agent,
           nonce[n].state # "consumed", UNCHANGED accessTokens
    PROVE  AccessTypeOK' /\ AccessSound' /\ NonceYieldsToken'
<1>1. /\ nonce'[n] = r
      /\ \A m \in Nonce \ {n} : nonce'[m] = nonce[m]
      /\ r.state # "consumed"
  BY DEF AccessTypeOK
<1>2. AccessTypeOK'
  BY DEF AccessTypeOK
<1>3. AccessSound'
  BY <1>1, TokensStay DEF AccessSound
<1>4. ~ \E t \in accessTokens : t.nonce = n
  BY DEF NonceYieldsToken
<1>5. ASSUME NEW m \in Nonce
      PROVE  (nonce'[m].state = "consumed") <=> (\E t \in accessTokens' : t.nonce = m)
  <2>1. CASE m = n
    BY <1>1, <1>4, <2>1
  <2>2. CASE m # n
    BY <1>1, <2>2 DEF NonceYieldsToken
  <2>3. QED
    BY <2>1, <2>2
<1>6. QED
  BY <1>2, <1>3, <1>5 DEF NonceYieldsToken

(* verifyChallenge uses a challenge up and adds its token. *)
LEMMA VerifyCommitSound ==
    ASSUME Typed, EnrollmentsSound, AccessSound, NonceYieldsToken, CredentialsStay,
           NEW c \in Call, CallSound(c), VerifyCommit(c)
    PROVE  AccessTypeOK' /\ AccessSound' /\ NonceYieldsToken'
<1>1. PICK a, o, k, n, i, e :
        /\ a = call[c].agent /\ o = call[c].owner /\ k = call[c].seen.key
        /\ n = call[c].nonce /\ i = call[c].cred /\ e = enrollment[a]
  OBVIOUS
<1>2. /\ a \in Agent /\ o \in Owner /\ n \in Nonce /\ CredentialOf(i, a)
      /\ i \in Nat
  <2>1. a \in Agent /\ o \in Owner /\ n \in Nonce /\ CredentialOf(i, a)
    BY <1>1 DEF CallSound, RequestSound, VerifyCommit, Verifying
  <2>2. QED
    BY <2>1 DEF CredentialOf, Typed, CeremonyTypeOK, StoreTypeOK
<1>3. e.status = "bound" /\ e.key = k /\ nonce[n].state = "issued"
  BY <1>1 DEF VerifyCommit, SameBinding, NonceUsable
<1>4. k \in Key
  BY <1>1, <1>2, <1>3 DEF EnrollmentsSound, RecordSound, Started
<1>5. PICK x : x = [jti |-> Cardinality(accessTokens) + 1, nonce |-> n, agent |-> a,
                    principal |-> o, key |-> k, cred |-> i]
  OBVIOUS
<1>6. /\ nonce' = [nonce EXCEPT ![n].state = "consumed"]
      /\ accessTokens' = accessTokens \cup {x}
  BY <1>1, <1>5 DEF VerifyCommit
<1>7. Cardinality(accessTokens) + 1 \in Nat /\ IsFiniteSet(accessTokens')
  BY <1>6, FS_CardinalityType, FS_AddElement DEF AccessSound
<1>8. /\ x \in [jti : Nat, nonce : Nonce, agent : Agent, principal : Owner,
                key : Key, cred : Nat]
      /\ x.nonce = n /\ x.agent = a /\ x.cred = i
  <2> DEFINE j == Cardinality(accessTokens) + 1
  <2>1. j \in Nat /\ x = [jti |-> j, nonce |-> n, agent |-> a, principal |-> o,
                          key |-> k, cred |-> i]
    BY <1>5, <1>7
  <2> HIDE DEF j
  <2>2. QED
    BY <1>2, <1>4, <2>1
<1>9. /\ nonce'[n].state = "consumed"
      /\ \A m \in Nonce \ {n} : nonce'[m] = nonce[m]
      /\ nonce' \in [Nonce -> [state : {"free", "issued", "lapsed", "consumed"},
                               agent : Agent \cup {None}]]
  BY <1>2, <1>6 DEF Typed, AccessTypeOK
<1>10. AccessTypeOK'
  BY <1>6, <1>8, <1>9 DEF Typed, AccessTypeOK
<1>11. AccessSound'
  <2>1. \A m \in Nonce : nonce'[m].state = "issued" => nonce'[m].agent \in Agent
    BY <1>9 DEF AccessSound
  <2>2. \A t \in accessTokens' : CredentialOf(t.cred, t.agent)
    BY <1>2, <1>6, <1>8 DEF AccessSound
  <2>3. \A t \in accessTokens' : CredentialOf(t.cred, t.agent)'
    BY <2>2, TokensStay
  <2>4. QED
    BY <1>7, <2>1, <2>3 DEF AccessSound, CredentialOf
<1>12. NonceYieldsToken'
  <2>1. \A t \in accessTokens : t.nonce # n
    BY <1>2, <1>3 DEF NonceYieldsToken
  <2>2. ASSUME NEW m \in Nonce
        PROVE  (nonce'[m].state = "consumed") <=> (\E t \in accessTokens' : t.nonce = m)
    BY <1>6, <1>8, <1>9 DEF NonceYieldsToken
  <2>3. \A s, t \in accessTokens' : s.nonce = t.nonce => s = t
    BY <1>6, <1>8, <2>1 DEF NonceYieldsToken
  <2>4. QED
    BY <2>2, <2>3 DEF NonceYieldsToken
<1>13. QED
  BY <1>10, <1>11, <1>12

(* The steps of challenges and tokens. *)
LEMMA AccessSteps ==
    ASSUME Typed, EnrollmentsSound, AccessSound, NonceYieldsToken, CredentialsStay,
           CallsSound,
           \/ \E c \in Call : VerifyCommit(c)
           \/ \E n \in Nonce, a \in Agent : CreateChallenge(n, a)
           \/ \E n \in Nonce : NonceLapses(n)
           \/ UNCHANGED accessVars
    PROVE  AccessTypeOK' /\ AccessSound' /\ NonceYieldsToken'
<1>1. AccessTypeOK
  BY DEF Typed
<1>2. ASSUME NEW c \in Call, VerifyCommit(c)
      PROVE  AccessTypeOK' /\ AccessSound' /\ NonceYieldsToken'
  BY <1>2, VerifyCommitSound DEF CallsSound
<1>3. ASSUME NEW n \in Nonce, NEW a \in Agent, CreateChallenge(n, a)
      PROVE  AccessTypeOK' /\ AccessSound' /\ NonceYieldsToken'
  <2>1. PICK r : r = [state |-> "issued", agent |-> a]
    OBVIOUS
  <2>2. /\ nonce' = [nonce EXCEPT ![n] = r] /\ nonce[n].state = "free"
        /\ UNCHANGED accessTokens
    BY <1>3, <2>1 DEF CreateChallenge
  <2>3. r \in [state : {"free", "issued", "lapsed"}, agent : Agent \cup {None}]
        /\ r.agent \in Agent
    BY <2>1
  <2>4. QED
    BY <1>1, <2>2, <2>3, ChallengeMoves
<1>4. ASSUME NEW n \in Nonce, NonceLapses(n)
      PROVE  AccessTypeOK' /\ AccessSound' /\ NonceYieldsToken'
  <2>1. PICK r : r = [nonce[n] EXCEPT !.state = "lapsed"]
    OBVIOUS
  <2>2. /\ nonce[n].state = "issued" /\ UNCHANGED accessTokens
        /\ nonce' = [nonce EXCEPT ![n] = r]
    BY <1>1, <1>4, <2>1 DEF NonceLapses, AccessTypeOK
  <2>3. r \in [state : {"free", "issued", "lapsed"}, agent : Agent \cup {None}]
        /\ r.state = "lapsed"
    BY <1>1, <2>1 DEF AccessTypeOK
  <2>4. QED
    BY <1>1, <2>2, <2>3, ChallengeMoves
<1>5. CASE UNCHANGED accessVars
  <2>1. UNCHANGED <<nonce, accessTokens>>
    BY <1>5 DEF accessVars
  <2>2. AccessSound'
    BY <2>1, TokensStay DEF AccessSound
  <2>3. QED
    BY <1>1, <2>1, <2>2 DEF AccessTypeOK, NonceYieldsToken
<1>6. QED
  BY <1>2, <1>3, <1>4, <1>5

-----------------------------------------------------------------------------
(* Which step changes what. *)

(* The steps that change an enrollment. *)
EnrollmentChanges ==
    \/ \E a \in Agent :
         \/ \E k \in Key : StartEnrollment(a, k) \/ RotateKey(a, k)
         \/ PairingLapses(a) \/ Approve(a) \/ ResolveSubmission(a)
         \/ RevokeAgent(a) \/ PollDeviceToken(a)
         \/ \E t \in Token : RecordSubmission(a, t)
    \/ \E c \in Call : PairCommit(c) \/ PrepareCommit(c) \/ RebindCommit(c)
                       \/ RebindApprove(c)
    \/ \E s \in Session, status \in KycEvent : KycWebhook(s, status)
    \/ \E w \in Loop : ApplyTransfer(w) \/ ApplyRegistered(w)
    \/ UNCHANGED enrollment

(* Those that change credentials. *)
CredentialChanges ==
    \/ \E a, from : credentials' = MarkCredentials(a, from, "revoked")
    \/ \E w \in Loop : SuspendWrite(w)
    \/ \E i \in DOMAIN credentials : CredentialLapses(i)
    \/ \E c \in Call : ClaimIssue(c)
    \/ UNCHANGED credentials

(* Those of requests: they begin, go on, or are gone with the server. *)
CallChanges ==
    \/ \E c \in Call :
         \/ \E a \in Agent, o \in Owner : PairRead(c, a, o) \/ RebindRead(c, a, o)
         \/ \E a \in Agent : PrepareRead(c, a) \/ ClaimRead(c, a)
         \/ \E n \in Nonce : VerifyRead(c, n)
    \/ \E c \in Call :
         \/ PairCommit(c) \/ PrepareCommit(c) \/ RebindOwner(c) \/ RebindKyc(c)
         \/ RebindCommit(c) \/ RebindApprove(c) \/ ClaimOwner(c) \/ ClaimIssue(c)
         \/ VerifyOwner(c) \/ VerifyCommit(c) \/ Abandon(c)
    \/ call' = [c \in Call |-> Idle]
    \/ UNCHANGED call

(* Those of challenges and tokens. *)
AccessChanges ==
    \/ \E c \in Call : VerifyCommit(c)
    \/ \E n \in Nonce, a \in Agent : CreateChallenge(n, a)
    \/ \E n \in Nonce : NonceLapses(n)
    \/ UNCHANGED accessVars

(* Those of people and their KYC sessions. *)
PersonChanges ==
    /\ \/ \E o \in Owner : SignIn(o) \/ KycLapses(o)
       \/ \E s \in Session, status \in KycEvent : KycWebhook(s, status)
       \/ UNCHANGED kyc
    /\ \/ \E o \in Owner, s \in Session : StartKyc(s, o)
       \/ \E s \in Session, status \in KycEvent : KycWebhook(s, status)
       \/ UNCHANGED kycSession

(* Those in which a person approves a key. *)
ApprovalChanges ==
    \/ \E a \in Agent : Approve(a)
    \/ \E c \in Call : RebindApprove(c)
    \/ UNCHANGED approvals

(* Nothing else changes them. *)
Changes == /\ EnrollmentChanges /\ CredentialChanges /\ CallChanges
           /\ AccessChanges /\ PersonChanges /\ ApprovalChanges

(* The ceremony's steps. *)
LEMMA CeremonyChanges ==
    ASSUME CeremonyNext, UNCHANGED accessVars PROVE Changes
<1>1. EnrollmentChanges
  BY DEF CeremonyNext, EnrollmentChanges, storeVars, ApproveFingerprint, SignIn, KycLapses,
         StartKyc, PrepareRead, PairRead, RebindRead, RebindOwner, RebindKyc
<1>2. CredentialChanges
  BY DEF CeremonyNext, CredentialChanges, storeVars, ApproveFingerprint, Approve, SignIn,
         KycLapses, StartKyc, PrepareRead, PairRead, RebindRead, RebindOwner, RebindKyc,
         StartEnrollment, RotateKey, PairingLapses, ResolveSubmission, RevokeAgent,
         RecordSubmission, KycWebhook, PairCommit, PrepareCommit, RebindCommit,
         RebindApprove
<1>3. CallChanges
  BY DEF CeremonyNext, CallChanges, storeVars, ApproveFingerprint, SignIn,
         KycLapses, StartKyc, StartEnrollment, RotateKey, PairingLapses,
         ResolveSubmission, RevokeAgent, RecordSubmission, KycWebhook
<1>4. AccessChanges
  BY DEF AccessChanges
<1>5. PersonChanges
  <2>1. \/ \E o \in Owner : SignIn(o) \/ KycLapses(o)
        \/ \E s \in Session, status \in KycEvent : KycWebhook(s, status)
        \/ UNCHANGED kyc
    BY DEF CeremonyNext, storeVars, ApproveFingerprint, Approve,
         StartKyc, PrepareRead, PairRead, RebindRead, RebindOwner, RebindKyc,
         StartEnrollment, RotateKey, PairingLapses, ResolveSubmission, RevokeAgent,
         RecordSubmission, PairCommit, PrepareCommit, RebindCommit, RebindApprove
  <2>2. \/ \E o \in Owner, s \in Session : StartKyc(s, o)
        \/ \E s \in Session, status \in KycEvent : KycWebhook(s, status)
        \/ UNCHANGED kycSession
    BY DEF CeremonyNext, ApproveFingerprint, SignIn, KycLapses,
         PrepareRead, PairRead, RebindRead, RebindOwner, RebindKyc,
         StartEnrollment, RotateKey, PairingLapses, ResolveSubmission, RevokeAgent,
         RecordSubmission, PairCommit, PrepareCommit, RebindCommit, RebindApprove
  <2>3. QED
    BY <2>1, <2>2 DEF PersonChanges
<1>6. ApprovalChanges
  BY DEF CeremonyNext, ApprovalChanges, storeVars, ApproveFingerprint, SignIn,
         KycLapses, StartKyc, PrepareRead, PairRead, RebindRead, RebindOwner, RebindKyc,
         StartEnrollment, RotateKey, PairingLapses, ResolveSubmission, RevokeAgent,
         RecordSubmission, KycWebhook, PairCommit, PrepareCommit, RebindCommit
<1>7. QED
  BY <1>1, <1>2, <1>3, <1>4, <1>5, <1>6 DEF Changes

(* The steps of credentials, challenges and tokens. *)
LEMMA AccessNextChanges ==
    ASSUME AccessNext PROVE Changes
<1>1. EnrollmentChanges
  BY DEF AccessNext, EnrollmentChanges, storeVars, ClaimRead, ClaimOwner, ClaimIssue,
         VerifyRead, VerifyOwner, VerifyCommit, CredentialLapses, CreateChallenge,
         NonceLapses
<1>2. CredentialChanges
  BY DEF AccessNext, CredentialChanges, storeVars, ClaimRead, ClaimOwner,
         VerifyRead, VerifyOwner, VerifyCommit, CreateChallenge, NonceLapses,
         PollDeviceToken
<1>3. CallChanges
  BY DEF AccessNext, CallChanges, CredentialLapses, CreateChallenge, NonceLapses,
         PollDeviceToken
<1>4. AccessChanges
  BY DEF AccessNext, AccessChanges, accessVars, ClaimRead, ClaimOwner, ClaimIssue,
         VerifyRead, VerifyOwner, CredentialLapses, PollDeviceToken
<1>5. PersonChanges
  BY DEF AccessNext, PersonChanges, storeVars, ClaimRead, ClaimOwner, ClaimIssue,
         VerifyRead, VerifyOwner, VerifyCommit, CredentialLapses, CreateChallenge,
         NonceLapses, PollDeviceToken
<1>6. ApprovalChanges
  BY DEF AccessNext, ApprovalChanges, storeVars, ClaimRead, ClaimOwner, ClaimIssue,
         VerifyRead, VerifyOwner, VerifyCommit, CredentialLapses, CreateChallenge,
         NonceLapses, PollDeviceToken
<1>7. QED
  BY <1>1, <1>2, <1>3, <1>4, <1>5, <1>6 DEF Changes

(* The watcher's steps. *)
LEMMA WatcherChanges ==
    ASSUME WatcherNext, UNCHANGED <<kycSession, accessVars>> PROVE Changes
<1>1. EnrollmentChanges
  BY DEF WatcherNext, EnrollmentChanges, storeVars, PollBegin, PollTake, PollEnd,
         FlushTake, ReadOwner, ReadOwnerFails, KeepPending, DropPending,
         SuspendRead, SuspendWrite, JobFails, Restart
<1>2. CredentialChanges
  BY DEF WatcherNext, CredentialChanges, storeVars, PollBegin, PollTake, PollEnd,
         FlushTake, ReadOwner, ReadOwnerFails, ApplyRegistered, KeepPending, DropPending,
         ApplyTransfer, SuspendRead, JobFails, Restart
<1>3. CallChanges
  BY DEF WatcherNext, CallChanges, PollBegin, PollTake, PollEnd,
         FlushTake, ReadOwner, ReadOwnerFails, ApplyRegistered, KeepPending, DropPending,
         ApplyTransfer, SuspendRead, SuspendWrite, JobFails, Restart
<1>4. AccessChanges
  BY DEF AccessChanges
<1>5. PersonChanges
  BY DEF WatcherNext, PersonChanges, storeVars, PollBegin, PollTake, PollEnd,
         FlushTake, ReadOwner, ReadOwnerFails, ApplyRegistered, KeepPending, DropPending,
         ApplyTransfer, SuspendRead, SuspendWrite, JobFails, Restart
<1>6. ApprovalChanges
  BY DEF WatcherNext, ApprovalChanges, storeVars, PollBegin, PollTake, PollEnd,
         FlushTake, ReadOwner, ReadOwnerFails, ApplyRegistered, KeepPending, DropPending,
         ApplyTransfer, SuspendRead, SuspendWrite, JobFails, Restart
<1>7. QED
  BY <1>1, <1>2, <1>3, <1>4, <1>5, <1>6 DEF Changes

(* Every step. *)
LEMMA StepChanges == [Next]_vars => Changes
<1> SUFFICES ASSUME [Next]_vars PROVE Changes
  OBVIOUS
<1>1. CASE ChainNext /\ UNCHANGED <<ceremonyVars, accessVars, watcherVars>>
  BY <1>1 DEF Changes, ceremonyVars, storeVars, EnrollmentChanges, CredentialChanges,
              CallChanges, AccessChanges, PersonChanges, ApprovalChanges
<1>2. CASE CeremonyNext /\ UNCHANGED <<chainVars, accessVars, watcherVars>>
  BY <1>2, CeremonyChanges
<1>3. CASE AccessNext /\ UNCHANGED <<chainVars, watcherVars>>
  BY <1>3, AccessNextChanges
<1>4. ASSUME NEW c \in Call, Abandon(c),
             UNCHANGED <<chainVars, kycSession, accessVars, watcherVars>>
      PROVE  Changes
  <2>1. UNCHANGED storeVars
    BY <1>4 DEF Abandon
  <2>2. QED
    BY <1>4, <2>1 DEF Changes, storeVars, EnrollmentChanges, CredentialChanges,
              CallChanges, AccessChanges, PersonChanges, ApprovalChanges
<1>5. CASE WatcherNext /\ UNCHANGED <<chainVars, kycSession, accessVars>>
  BY <1>5, WatcherChanges
<1>6. CASE UNCHANGED vars
  BY <1>6 DEF vars, Changes, ceremonyVars, storeVars, EnrollmentChanges,
              CredentialChanges, CallChanges, AccessChanges, PersonChanges,
              ApprovalChanges
<1>7. QED
  BY <1>1, <1>2, <1>3, <1>4, <1>5, <1>6 DEF Next

(* The chain moves alone, and the watcher's variables move with it alone.   *)
LEMMA StepMonotone ==
    ASSUME ChainTypeOK, OwnersAreLogged, [Next]_vars
    PROVE  ChainTypeOK' /\ OwnersAreLogged' /\ Monotone
<1>1. ChainTypeOK' /\ OwnersAreLogged' /\ Grown
  <2>1. ChainNext \/ UNCHANGED chainVars
    BY DEF Next, vars, Abandon
  <2>2. CASE UNCHANGED chainVars
    BY <2>2 DEF chainVars, ChainTypeOK, OwnersAreLogged, Held, Grown, LogIndex
  <2>3. QED
    BY <2>1, <2>2, ChainStep
<1>2. approvals \subseteq approvals'
  BY StepChanges DEF Changes, ApprovalChanges, RebindApprove, Approve
<1>3. processedEvents \subseteq processedEvents'
  <2>1. WatcherNext \/ UNCHANGED watcherVars
    BY DEF Next, vars
  <2>2. CASE UNCHANGED watcherVars
    BY <2>2 DEF watcherVars
  <2>3. CASE WatcherNext
    BY <2>3 DEF WatcherNext, PollBegin, PollTake, PollEnd,
         FlushTake, ReadOwner, ReadOwnerFails, ApplyRegistered, KeepPending, DropPending,
         ApplyTransfer, SuspendRead, SuspendWrite, JobFails, Restart
  <2>4. QED
    BY <2>1, <2>2, <2>3
<1>4. QED
  BY <1>1, <1>2, <1>3 DEF Monotone

-----------------------------------------------------------------------------
(* The inductive invariant. *)

(* Enrollments: the type, soundness, and agentIds that stay. *)
LEMMA EnrollmentStep ==
    ASSUME KyaInv, Monotone, EnrollmentChanges PROVE EnrollmentsKept
<1>1. /\ Typed /\ OwnersAreLogged /\ EnrollmentsSound /\ WatcherSound
      /\ \A c \in Call : CallSound(c)
  BY DEF KyaInv
<1>2. ASSUME NEW a \in Agent,
             \/ \E k \in Key : StartEnrollment(a, k) \/ RotateKey(a, k)
             \/ PairingLapses(a) \/ Approve(a) \/ ResolveSubmission(a)
             \/ RevokeAgent(a) \/ PollDeviceToken(a)
             \/ \E t \in Token : RecordSubmission(a, t)
      PROVE  EnrollmentsKept
  BY <1>1, <1>2, OwnerSteps
<1>3. ASSUME NEW c \in Call, PairCommit(c) \/ PrepareCommit(c) \/ RebindCommit(c)
      PROVE  EnrollmentsKept
  BY <1>1, <1>3, RequestsSound
<1>4. ASSUME NEW c \in Call, RebindApprove(c) PROVE EnrollmentsKept
  <2>1. call[c].agent \in Agent /\ Approve(call[c].agent)
    BY <1>1, <1>4 DEF RebindApprove, CallSound, RequestSound
  <2>2. QED
    BY <1>2, <2>1
<1>5. ASSUME NEW s \in Session, NEW status \in KycEvent, KycWebhook(s, status)
      PROVE  EnrollmentsKept
  BY <1>1, <1>5, KycWebhookMoves, StatusesSound
<1>6. ASSUME NEW w \in Loop, ApplyTransfer(w) \/ ApplyRegistered(w)
      PROVE  EnrollmentsKept
  BY <1>1, <1>6, ApplyTransferSound, ApplyRegisteredSound
<1>7. CASE UNCHANGED enrollment
  <2>1. enrollment \in [Agent -> EnrollmentRecord]
    BY <1>1 DEF Typed, CeremonyTypeOK, StoreTypeOK
  <2>2. \A a \in Agent : StatusMoves(enrollment[a], enrollment'[a])
    BY <1>7 DEF StatusMoves
  <2>3. QED
    BY <1>1, <1>7, <2>1, <2>2, StatusesSound
<1>8. QED
  BY <1>2, <1>3, <1>4, <1>5, <1>6, <1>7 DEF EnrollmentChanges

(* Credentials: the type, the approvals behind them, one active per agent.  *)
LEMMA CredentialStep ==
    ASSUME KyaInv, Monotone, CredentialChanges
    PROVE  /\ credentials' \in Seq(CredentialRecord)
           /\ CredentialsApproved' /\ OneActiveCredential' /\ CredentialsStay
<1>1. /\ Typed /\ CredentialsApproved /\ OneActiveCredential
      /\ \A c \in Call : CallSound(c)
      /\ approvals \subseteq approvals'
  BY DEF KyaInv, Monotone
<1>2. ASSUME Marked
      PROVE  /\ credentials' \in Seq(CredentialRecord)
             /\ CredentialsApproved' /\ OneActiveCredential' /\ CredentialsStay
  BY <1>1, <1>2, MarkedSound DEF Marked
<1>3. CASE \/ \E a, from : credentials' = MarkCredentials(a, from, "revoked")
           \/ \E w \in Loop : SuspendWrite(w)
           \/ \E i \in DOMAIN credentials : CredentialLapses(i)
           \/ UNCHANGED credentials
  BY <1>1, <1>2, <1>3, MarkingSteps
<1>4. ASSUME NEW c \in Call, ClaimIssue(c)
      PROVE  /\ credentials' \in Seq(CredentialRecord)
             /\ CredentialsApproved' /\ OneActiveCredential' /\ CredentialsStay
  BY <1>1, <1>4, ClaimIssueSound
<1>5. QED
  BY <1>3, <1>4 DEF CredentialChanges

(* Requests in flight. *)
LEMMA CallStep ==
    ASSUME KyaInv, Monotone, AgentIdsStay, CredentialsStay, CallChanges
    PROVE  CallsSound'
<1>1. /\ Typed /\ OwnersAreLogged /\ EnrollmentsSound /\ AccessSound
      /\ CallsSound
  BY DEF KyaInv, Typed, CeremonyTypeOK, StoreTypeOK, CallsSound, RequestRecord
<1>2. ASSUME NEW c \in Call, NEW q \in RequestRecord, RequestSound(q),
             call' = [call EXCEPT ![c] = q]
      PROVE  CallsSound'
  BY <1>1, <1>2, RequestStays, RequestMoves
<1>3. ASSUME NEW c \in Call,
             \/ \E a \in Agent, o \in Owner : PairRead(c, a, o) \/ RebindRead(c, a, o)
             \/ \E a \in Agent : PrepareRead(c, a) \/ ClaimRead(c, a)
             \/ \E n \in Nonce : VerifyRead(c, n)
      PROVE  CallsSound'
  BY <1>1, <1>2, <1>3, Begins
<1>4. ASSUME NEW c \in Call,
             \/ PairCommit(c) \/ PrepareCommit(c) \/ RebindOwner(c) \/ RebindKyc(c)
             \/ RebindCommit(c) \/ RebindApprove(c) \/ ClaimOwner(c) \/ ClaimIssue(c)
             \/ VerifyOwner(c) \/ VerifyCommit(c) \/ Abandon(c)
      PROVE  CallsSound'
  BY <1>1, <1>2, <1>4, GoesOn
<1>5. CASE call' = [c \in Call |-> Idle]
  <2>1. RequestSound(Idle)' /\ Idle \in RequestRecord
    BY IdleRequest, RequestStays
  <2>2. \A c \in Call : call'[c] = Idle
    BY <1>5
  <2>3. ASSUME NEW c \in Call PROVE CallSound(c)'
    BY <2>1, <2>2 DEF CallSound, RequestSound
  <2>4. QED
    BY <1>5, <2>1, <2>3 DEF CallsSound
<1>6. CASE UNCHANGED call
  BY <1>1, <1>6, RequestsStay
<1>7. QED
  BY <1>3, <1>4, <1>5, <1>6 DEF CallChanges

(* The watcher. *)
LEMMA WatcherStep ==
    ASSUME KyaInv, Monotone, [Next]_vars PROVE WatcherSound'
<1>1. Typed /\ WatcherSound /\ Grown
  BY DEF KyaInv, Monotone
<1>2. CASE UNCHANGED watcherVars
  <2>1. UNCHANGED <<batch, job>>
    BY <1>2 DEF watcherVars
  <2>2. batch' \subseteq LogIndex'
    BY <1>1, <2>1 DEF WatcherSound, Grown
  <2>3. QED
    BY <1>1, <2>1, <2>2, TasksStay
<1>3. CASE WatcherNext /\ UNCHANGED chainVars
  <2>1. UNCHANGED logs
    BY <1>3 DEF chainVars
  <2>2. CASE PollBegin \/ PollTake \/ PollEnd \/ \E i \in LogIndex : FlushTake(i)
    BY <1>1, <2>1, <2>2, PollSteps
  <2>3. ASSUME NEW w \in Loop,
               \/ ReadOwner(w) \/ ReadOwnerFails(w) \/ ApplyRegistered(w)
               \/ KeepPending(w) \/ DropPending(w) \/ ApplyTransfer(w)
               \/ SuspendRead(w) \/ SuspendWrite(w) \/ JobFails(w)
        PROVE  WatcherSound'
    BY <1>1, <2>1, <2>3, LoopSteps
  <2>4. CASE Restart
    <3>1. batch' = {} /\ job' = [w \in Loop |-> NoJob]
      BY <2>4 DEF Restart
    <3>2. NoJob \in JobRecord /\ TaskSound(NoJob)'
      BY <1>1, NewJobs, TaskStays
    <3>3. \A w \in Loop : job'[w] = NoJob
      BY <3>1
    <3>4. \A w \in Loop : JobSound(w)'
      BY <3>2, <3>3 DEF JobSound, TaskSound
    <3>5. QED
      BY <3>1, <3>2, <3>4 DEF WatcherSound
  <2>5. QED
    BY <1>3, <2>2, <2>3, <2>4 DEF WatcherNext
<1>4. (WatcherNext /\ UNCHANGED chainVars) \/ UNCHANGED watcherVars
  BY DEF Next, vars
<1>5. QED
  BY <1>2, <1>3, <1>4

(* People, their sessions and their approvals. *)
LEMMA PersonStep ==
    ASSUME KyaInv, PersonChanges, ApprovalChanges
    PROVE  /\ kyc' \in [Owner -> KycStatuses]
           /\ kycSession' \in [Session -> [owner : Owner \cup {None},
                                           events : SUBSET KycEvent]]
           /\ approvals' \subseteq Agent \X Owner \X Key
<1>1. /\ kyc \in [Owner -> KycStatuses]
      /\ kycSession \in [Session -> [owner : Owner \cup {None},
                                     events : SUBSET KycEvent]]
      /\ approvals \subseteq Agent \X Owner \X Key
      /\ enrollment \in [Agent -> EnrollmentRecord]
      /\ \A a \in Agent : RecordSound(a, enrollment[a])
      /\ \A c \in Call : CallSound(c)
  BY DEF KyaInv, Typed, CeremonyTypeOK, StoreTypeOK, EnrollmentsSound
<1>2. /\ {"pending", "lapsed"} \subseteq KycStatuses
      /\ KycEvent \subseteq KycStatuses
  BY CeremonyAssumption DEF KycStatuses
<1>3. kyc' \in [Owner -> KycStatuses]
  BY <1>1, <1>2 DEF PersonChanges, SignIn, KycLapses, KycWebhook
<1>4. kycSession' \in [Session -> [owner : Owner \cup {None},
                                   events : SUBSET KycEvent]]
  <2>1. ASSUME NEW s \in Session, NEW r,
               r \in [owner : Owner \cup {None}, events : SUBSET KycEvent],
               kycSession' = [kycSession EXCEPT ![s] = r]
        PROVE  kycSession' \in [Session -> [owner : Owner \cup {None},
                                            events : SUBSET KycEvent]]
    BY <1>1, <2>1
  <2>2. ASSUME NEW o \in Owner, NEW s \in Session, StartKyc(s, o)
        PROVE  kycSession' \in [Session -> [owner : Owner \cup {None},
                                            events : SUBSET KycEvent]]
    <3>1. PICK r : r = [kycSession[s] EXCEPT !.owner = o]
      OBVIOUS
    <3>2. r \in [owner : Owner \cup {None}, events : SUBSET KycEvent]
      BY <1>1, <3>1
    <3>3. kycSession' = [kycSession EXCEPT ![s] = r]
      BY <1>1, <2>2, <3>1 DEF StartKyc
    <3>4. QED
      BY <2>1, <3>2, <3>3
  <2>3. ASSUME NEW s \in Session, NEW status \in KycEvent, KycWebhook(s, status)
        PROVE  kycSession' \in [Session -> [owner : Owner \cup {None},
                                            events : SUBSET KycEvent]]
    <3>1. PICK r : r = [kycSession[s] EXCEPT !.events = @ \cup {status}]
      OBVIOUS
    <3>2. r \in [owner : Owner \cup {None}, events : SUBSET KycEvent]
      BY <1>1, <3>1
    <3>3. kycSession' = [kycSession EXCEPT ![s] = r]
      BY <1>1, <2>3, <3>1 DEF KycWebhook
    <3>4. QED
      BY <2>1, <3>2, <3>3
  <2>4. CASE UNCHANGED kycSession
    BY <1>1, <2>4
  <2>5. QED
    BY <2>2, <2>3, <2>4 DEF PersonChanges
<1>5. approvals' \subseteq Agent \X Owner \X Key
  <2>1. ASSUME NEW a \in Agent, Approve(a)
        PROVE  approvals' \subseteq Agent \X Owner \X Key
    <3>1. PICK e : e = enrollment[a]
      OBVIOUS
    <3>2. /\ e.principal # None /\ e.status \in {"suspended", "awaiting_fingerprint"}
          /\ approvals' = approvals \cup {<<a, e.principal, e.key>>}
      BY <2>1, <3>1 DEF Approve, CanApprove
    <3>3. e.key \in Key /\ e.principal \in Owner
      BY <1>1, <3>1, <3>2 DEF RecordSound, Started, EnrollmentRecord
    <3>4. QED
      BY <1>1, <3>2, <3>3
  <2>2. ASSUME NEW c \in Call, RebindApprove(c)
        PROVE  call[c].agent \in Agent /\ Approve(call[c].agent)
    BY <1>1, <2>2 DEF RebindApprove, CallSound, RequestSound
  <2>3. QED
    BY <1>1, <2>1, <2>2 DEF ApprovalChanges
<1>6. QED
  BY <1>3, <1>4, <1>5

(* The invariant survives every step. *)
LEMMA KyaStep == KyaInv /\ [Next]_vars => KyaInv'
<1> SUFFICES ASSUME KyaInv, [Next]_vars PROVE KyaInv'
  OBVIOUS
<1>1. /\ EnrollmentChanges /\ CredentialChanges /\ CallChanges
      /\ AccessChanges /\ PersonChanges /\ ApprovalChanges
  BY StepChanges DEF Changes
<1>2. Typed /\ ChainTypeOK /\ OwnersAreLogged /\ EnrollmentsSound
      /\ AccessSound /\ NonceYieldsToken /\ CallsSound
  BY DEF KyaInv, Typed, CeremonyTypeOK, StoreTypeOK, CallsSound, RequestRecord
<1>3. ChainTypeOK' /\ OwnersAreLogged' /\ Monotone
  BY <1>2, StepMonotone
<1>4. EnrollmentsKept
  BY <1>1, <1>3, EnrollmentStep
<1>5. /\ credentials' \in Seq(CredentialRecord)
      /\ CredentialsApproved' /\ OneActiveCredential' /\ CredentialsStay
  BY <1>1, <1>3, CredentialStep
<1>6. CallsSound'
  BY <1>1, <1>3, <1>4, <1>5, CallStep DEF EnrollmentsKept
<1>7. WatcherSound'
  BY <1>3, WatcherStep
<1>8. AccessTypeOK' /\ AccessSound' /\ NonceYieldsToken'
  BY <1>1, <1>2, <1>5, AccessSteps DEF AccessChanges
<1>9. /\ kyc' \in [Owner -> KycStatuses]
      /\ kycSession' \in [Session -> [owner : Owner \cup {None},
                                      events : SUBSET KycEvent]]
      /\ approvals' \subseteq Agent \X Owner \X Key
  BY <1>1, PersonStep
<1>10. CeremonyTypeOK'
  BY <1>4, <1>5, <1>6, <1>9
     DEF CeremonyTypeOK, StoreTypeOK, EnrollmentsKept, CallsSound, RequestRecord
<1>11. QED
  BY <1>3, <1>4, <1>5, <1>6, <1>7, <1>8, <1>10
     DEF KyaInv, Typed, EnrollmentsKept, CallsSound

(* It holds at the start. *)
LEMMA KyaInit == Init => KyaInv
<1> SUFFICES ASSUME Init PROVE KyaInv
  OBVIOUS
<1> USE DEF Init
<1>1. ChainTypeOK /\ OwnersAreLogged
  BY DEF ChainInit, ChainTypeOK, OwnersAreLogged, LogIndex
<1>2. /\ NoEnrollment \in EnrollmentRecord
      /\ NoEnrollment.status = "absent" /\ NoEnrollment.tx = None
      /\ NoEnrollment.agentId = None
  BY DEF NoEnrollment, EnrollmentRecord, Statuses
<1>3. enrollment \in [Agent -> EnrollmentRecord]
      /\ \A a \in Agent : enrollment[a] = NoEnrollment
  BY <1>2 DEF CeremonyInit, StoreInit
<1>4. EnrollmentsSound
  BY <1>2, <1>3 DEF EnrollmentsSound, RecordSound, Started, Approving
<1>5. call \in [Call -> RequestRecord] /\ \A c \in Call : CallSound(c)
  BY IdleRequest DEF CeremonyInit, StoreInit, CallSound
<1>6. /\ credentials \in Seq(CredentialRecord) /\ CredentialsApproved
      /\ OneActiveCredential
  BY DEF CeremonyInit, StoreInit, CredentialsApproved, OneActiveCredential
<1>7. /\ kyc \in [Owner -> KycStatuses]
      /\ kycSession \in [Session -> [owner : Owner \cup {None},
                                     events : SUBSET KycEvent]]
      /\ approvals \subseteq Agent \X Owner \X Key
  BY DEF CeremonyInit, StoreInit, KycStatuses
<1>8. CeremonyTypeOK
  BY <1>3, <1>5, <1>6, <1>7 DEF CeremonyTypeOK, StoreTypeOK, RequestRecord
<1>9. WatcherSound
  BY NewJobs DEF WatcherInit, WatcherSound, JobSound
<1>10. AccessTypeOK /\ AccessSound /\ NonceYieldsToken
  BY FS_EmptySet DEF AccessInit, AccessTypeOK, AccessSound, NonceYieldsToken
<1>11. QED
  BY <1>1, <1>4, <1>5, <1>6, <1>8, <1>9, <1>10 DEF KyaInv, Typed

(* The inductive invariant of the identity platform: the chain's owners,    *)
(* the evidence of every enrollment, the approval behind every credential,  *)
(* and what requests in flight and the watcher's loops rely on.             *)
THEOREM KyaInvariant == Spec => []KyaInv
  BY KyaInit, KyaStep, PTL DEF Spec

(* Chain, ceremony, credentials and tokens are well typed. *)
THEOREM KyaTypeCorrect == Spec => [](ChainTypeOK /\ CeremonyTypeOK /\ AccessTypeOK)
<1>1. KyaInv => ChainTypeOK /\ CeremonyTypeOK /\ AccessTypeOK
  BY DEF KyaInv, Typed
<1>2. QED
  BY <1>1, KyaInvariant, PTL

(* Nobody's key acts for a person who has not approved it, after any        *)
(* rotations, rebindings and stale reads.                                   *)
THEOREM ApprovedKeys == Spec => []KeyIsApproved
<1>1. KyaInv => KeyIsApproved
  BY DEF KyaInv, EnrollmentsSound, RecordSound, Approving, CredentialsApproved,
         KeyIsApproved
<1>2. QED
  BY <1>1, KyaInvariant, PTL

(* An agent has at most one active credential, whichever requests raced to  *)
(* issue one.                                                               *)
THEOREM SingleCredential == Spec => []OneActiveCredential
<1>1. KyaInv => OneActiveCredential
  BY DEF KyaInv
<1>2. QED
  BY <1>1, KyaInvariant, PTL

(* A challenge yields one access token, and none is used up without one.    *)
THEOREM NoncesYieldTokens == Spec => []NonceYieldsToken
<1>1. KyaInv => NonceYieldsToken
  BY DEF KyaInv
<1>2. QED
  BY <1>1, KyaInvariant, PTL

(* An agentId was minted under the enrollment's own URI by the operation    *)
(* its principal submitted, and the principal has held the token.           *)
THEOREM EvidencedAgentIds == Spec => []AgentIdIsEvidenced
<1>1. KyaInv => AgentIdIsEvidenced
  <2> SUFFICES ASSUME KyaInv, NEW a \in Agent, enrollment[a].agentId # None
               PROVE  Evidence(a, enrollment[a])
    BY DEF AgentIdIsEvidenced, Evidence, Held
  <2>1. QED
    BY DEF KyaInv, EnrollmentsSound, RecordSound
<1>2. QED
  BY <1>1, KyaInvariant, PTL

(* A request let in acts for the holder of the agent's token, who approved  *)
(* its key, and its token was earned with the agent's active credential.    *)
THEOREM AccessIsBound == Spec => []AccessFollowsBinding
<1>1. KyaInv => AccessFollowsBinding
  <2> SUFFICES ASSUME KyaInv, NEW t \in accessTokens, Authenticated(t)
               PROVE  /\ <<t.agent, tokenOwner[enrollment[t.agent].agentId], t.key>>
                            \in approvals
                      /\ t.cred = FirstActive(t.agent)
    BY DEF AccessFollowsBinding
  <2>1. PICK a, e, i : a = t.agent /\ e = enrollment[a] /\ i = t.cred
    OBVIOUS
  <2>2. a \in Agent /\ CredentialOf(i, a)
    BY <2>1 DEF KyaInv, Typed, AccessTypeOK, AccessSound
  <2>3. /\ e.status = "bound" /\ e.principal = t.principal /\ e.key = t.key
        /\ tokenOwner[e.agentId] = t.principal
        /\ credentials[i].status = "active"
    BY <2>1 DEF Authenticated, CredentialMatches
  <2>4. <<a, e.principal, e.key>> \in approvals
    BY <2>1, <2>2, <2>3 DEF KyaInv, EnrollmentsSound, RecordSound, Approving
  <2>5. FirstActive(a) # 0
    <3> DEFINE active == {j \in DOMAIN credentials : credentials[j].agent = a /\
                                                     credentials[j].status = "active"}
    <3>1. active # {} /\ active \subseteq DOMAIN credentials
      BY <2>2, <2>3 DEF CredentialOf
    <3>2. credentials \in Seq(CredentialRecord)
      BY DEF KyaInv, Typed, CeremonyTypeOK, StoreTypeOK
    <3>3. \E j \in active : \A l \in active : j <= l
      <4> HIDE DEF active
      <4>1. active \subseteq 1..Len(credentials) /\ Len(credentials) \in Nat
        BY <3>1, <3>2
      <4>2. QED
        BY <3>1, <4>1, LeastPlace
    <3>4. FirstActive(a) \in active
      BY <3>1, <3>3 DEF FirstActive
    <3>5. QED
      BY <3>2, <3>4
  <2>6. CredentialOf(FirstActive(a), a) /\ credentials[FirstActive(a)].status = "active"
    BY <2>5, FirstCredentials DEF KyaInv
  <2>7. i = FirstActive(a)
    BY <2>2, <2>3, <2>6 DEF KyaInv, OneActiveCredential, CredentialOf
  <2>8. QED
    BY <2>1, <2>3, <2>4, <2>7
<1>2. QED
  BY <1>1, KyaInvariant, PTL

-----------------------------------------------------------------------------
(* Evidence. *)

(* The deployment: the server is not restarted, the node answers, and       *)
(* tokens do not change hands.                                              *)
Undisturbed == MaxRestarts = 0 /\ "owner" \notin Faults /\ MaxTransfers = 0

(* The registration of e was being prepared, and is behind it at most.      *)
Prepared(e) == \/ e.status \in {"awaiting_register", "awaiting_onchain", "revoked"}
               \/ e.agentId # None

(* A prepared intent takes e to the chain: it waits there, or never will.   *)
Intended(e) ==
    /\ e.intent => e.status \in {"awaiting_onchain", "revoked"} \/ e.agentId # None
    /\ e.userOp # None => e.intent /\ e.principal # None

(* So for all enrollments and for the requests that prepare one. *)
Intentions ==
    /\ \A a \in Agent : Intended(enrollment[a])
    /\ \A c \in Call : call[c].op = "prepare" => Prepared(enrollment[call[c].agent])

(* Enrollment e becomes r.  Once its operation is submitted, it does not    *)
(* come to wait for the chain, nor to belong to somebody else while it      *)
(* waits: a log that was applied in vain never has a claimant afterwards.   *)
Onward(e, r) ==
    /\ Intended(r)
    /\ Prepared(e) => Prepared(r)
    /\ e.userOp # None =>
         /\ r.userOp = e.userOp
         /\ r.status = "awaiting_onchain" =>
              e.status = "awaiting_onchain" /\ r.principal = e.principal

(* One enrollment changes. *)
LEMMA TakesOnward ==
    ASSUME Intentions, NEW a \in Agent, NEW r, Takes(a, r),
           Onward(enrollment[a], r)
    PROVE  \A b \in Agent : Onward(enrollment[b], enrollment'[b])
<1>1. \A b \in Agent : Intended(enrollment[b])
  BY DEF Intentions
<1>2. QED
  BY <1>1 DEF Takes, Onward

(* The owner's operations. *)
LEMMA OwnerOnward ==
    ASSUME Typed, EnrollmentsSound, Intentions, NEW a \in Agent,
           \/ \E k \in Key : StartEnrollment(a, k) \/ RotateKey(a, k)
           \/ PairingLapses(a) \/ Approve(a) \/ ResolveSubmission(a)
           \/ RevokeAgent(a) \/ PollDeviceToken(a)
           \/ \E t \in Token : RecordSubmission(a, t)
    PROVE  \A b \in Agent : Onward(enrollment[b], enrollment'[b])
<1>1. PICK e : e = enrollment[a]
  OBVIOUS
<1>2. e \in EnrollmentRecord /\ RecordSound(a, e) /\ Intended(e)
  BY <1>1, EnrollmentSteps DEF EnrollmentsSound, Intentions
<1>3. ASSUME NEW r, Takes(a, r), Onward(e, r)
      PROVE  \A b \in Agent : Onward(enrollment[b], enrollment'[b])
  BY <1>1, <1>3, TakesOnward
<1>4. ASSUME NEW k \in Key, StartEnrollment(a, k)
      PROVE  \A b \in Agent : Onward(enrollment[b], enrollment'[b])
  <2>1. PICK r : r = [e EXCEPT !.status = "awaiting_human", !.key = k]
    OBVIOUS
  <2>2. Takes(a, r) /\ e.status = "absent"
    BY <1>1, <1>4, <2>1, EnrollmentSteps DEF StartEnrollment
  <2>3. /\ r.status = "awaiting_human" /\ r.userOp = e.userOp /\ r.intent = e.intent
        /\ r.agentId = e.agentId /\ r.principal = e.principal
    BY <1>2, <2>1 DEF EnrollmentRecord
  <2>4. Onward(e, r)
    BY <1>2, <2>2, <2>3 DEF RecordSound, Onward, Intended, Prepared
  <2>5. QED
    BY <1>3, <2>2, <2>4
<1>5. ASSUME NEW k \in Key, RotateKey(a, k)
      PROVE  \A b \in Agent : Onward(enrollment[b], enrollment'[b])
  <2>1. PICK r : r = [e EXCEPT !.key = k, !.status = "awaiting_fingerprint",
                               !.approved = FALSE]
    OBVIOUS
  <2>2. Takes(a, r) /\ e.agentId # None
    BY <1>1, <1>5, <2>1, EnrollmentSteps DEF RotateKey
  <2>3. /\ r.status = "awaiting_fingerprint" /\ r.userOp = e.userOp
        /\ r.intent = e.intent /\ r.agentId = e.agentId /\ r.principal = e.principal
    BY <1>2, <2>1 DEF EnrollmentRecord
  <2>4. Onward(e, r)
    BY <1>2, <2>2, <2>3 DEF Onward, Intended, Prepared
  <2>5. QED
    BY <1>3, <2>2, <2>4
<1>6. ASSUME Approve(a)
      PROVE  \A b \in Agent : Onward(enrollment[b], enrollment'[b])
  <2>1. PICK r : r = Approved(e)
    OBVIOUS
  <2>2. Takes(a, r) /\ e.status \in {"suspended", "awaiting_fingerprint"}
    BY <1>1, <1>6, <2>1, EnrollmentSteps DEF Approve, CanApprove
  <2>3. /\ r.userOp = e.userOp /\ r.intent = e.intent /\ r.agentId = e.agentId
        /\ r.principal = e.principal
        /\ r.status = IF e.agentId # None THEN "bound" ELSE "awaiting_register"
    BY <1>2, <2>1 DEF Approved, EnrollmentRecord
  <2>4. Onward(e, r)
    BY <1>2, <2>2, <2>3 DEF Onward, Intended, Prepared
  <2>5. QED
    BY <1>3, <2>2, <2>4
<1>7. ASSUME RevokeAgent(a)
      PROVE  \A b \in Agent : Onward(enrollment[b], enrollment'[b])
  <2>1. PICK r : r = [e EXCEPT !.status = "revoked"]
    OBVIOUS
  <2>2. Takes(a, r)
    BY <1>1, <1>7, <2>1, EnrollmentSteps
  <2>3. /\ r.status = "revoked" /\ r.userOp = e.userOp
        /\ r.intent = e.intent /\ r.agentId = e.agentId /\ r.principal = e.principal
    BY <1>2, <2>1 DEF EnrollmentRecord
  <2>4. Onward(e, r)
    BY <1>2, <2>3 DEF Onward, Intended, Prepared
  <2>5. QED
    BY <1>3, <2>2, <2>4
<1>8. ASSUME PairingLapses(a) \/ ResolveSubmission(a) \/ PollDeviceToken(a)
      PROVE  \A b \in Agent : Onward(enrollment[b], enrollment'[b])
  <2>1. PICK r : /\ Takes(a, r)
                 /\ \/ r = [e EXCEPT !.lapsed = TRUE]
                    \/ r = [e EXCEPT !.tx = e.userOp]
                    \/ r = [e EXCEPT !.delivered = TRUE]
    BY <1>1, <1>8, EnrollmentSteps
  <2>2. /\ r.status = e.status /\ r.userOp = e.userOp
        /\ r.intent = e.intent /\ r.agentId = e.agentId /\ r.principal = e.principal
    BY <1>2, <2>1 DEF EnrollmentRecord
  <2>3. Onward(e, r)
    BY <1>2, <2>2 DEF Onward, Intended, Prepared
  <2>4. QED
    BY <1>3, <2>1, <2>3
<1>9. ASSUME NEW t \in Token, RecordSubmission(a, t)
      PROVE  \A b \in Agent : Onward(enrollment[b], enrollment'[b])
  <2>1. PICK r : r = [e EXCEPT !.userOp = t]
    OBVIOUS
  <2>2. Takes(a, r) /\ e.userOp = None /\ e.intent /\ e.principal # None
    BY <1>1, <1>9, <2>1, EnrollmentSteps DEF RecordSubmission
  <2>3. /\ r.status = e.status /\ r.intent = e.intent /\ r.agentId = e.agentId
        /\ r.principal = e.principal
    BY <1>2, <2>1 DEF EnrollmentRecord
  <2>4. Onward(e, r)
    BY <1>2, <2>2, <2>3 DEF Onward, Intended, Prepared
  <2>5. QED
    BY <1>3, <2>2, <2>4
<1>10. QED
  BY <1>4, <1>5, <1>6, <1>7, <1>8, <1>9

(* The sections of requests that write. *)
LEMMA RequestsOnward ==
    ASSUME Typed, EnrollmentsSound, Intentions, NEW c \in Call, CallSound(c),
           PairCommit(c) \/ PrepareCommit(c) \/ RebindCommit(c)
    PROVE  \A b \in Agent : Onward(enrollment[b], enrollment'[b])
<1>1. PICK a, e, o : a = call[c].agent /\ e = enrollment[a] /\ o = call[c].owner
  OBVIOUS
<1>2. /\ a \in Agent /\ e \in EnrollmentRecord /\ RecordSound(a, e)
      /\ Intended(e)
  <2>1. a \in Agent
    BY <1>1, RequestSteps
  <2>2. QED
    BY <1>1, <2>1, EnrollmentSteps DEF EnrollmentsSound, Intentions
<1>3. ASSUME NEW r, Takes(a, r), Onward(e, r)
      PROVE  \A b \in Agent : Onward(enrollment[b], enrollment'[b])
  BY <1>1, <1>2, <1>3, TakesOnward
<1>4. CASE PairCommit(c)
  <2> DEFINE st == PairedStatus(e, call[c].kyc)
  <2>1. PICK r : r = [e EXCEPT !.principal = o, !.claimed = TRUE, !.status = st]
    OBVIOUS
  <2>2. Takes(a, r) /\ e.principal \in {None, o} /\ o \in Owner
    BY <1>1, <1>4, <2>1, RequestSteps DEF PairCommit
  <2>3. \/ st = e.status
        \/ /\ e.status \in {"awaiting_human", "awaiting_kyc"}
           /\ st \in {"awaiting_fingerprint", "awaiting_kyc"}
    BY DEF PairedStatus
  <2>4. /\ r.principal = o /\ r.status = st /\ r.intent = e.intent
        /\ r.userOp = e.userOp /\ r.agentId = e.agentId
    BY <1>2, <2>1 DEF EnrollmentRecord
  <2> HIDE DEF st
  <2>5. o # None
    BY <2>2, RegistryAssumption
  <2>6. Onward(e, r)
    BY <1>2, <2>2, <2>3, <2>4, <2>5 DEF Onward, Intended, Prepared
  <2>7. QED
    BY <1>3, <2>2, <2>6
<1>5. CASE PrepareCommit(c)
  <2>1. PICK r : r = [e EXCEPT !.intent = TRUE,
                               !.status = IF @ = "awaiting_register"
                                          THEN "awaiting_onchain" ELSE @]
    OBVIOUS
  <2>2. Takes(a, r) /\ Prepared(e)
    BY <1>1, <1>5, <2>1, RequestSteps DEF PrepareCommit, Intentions
  <2>3. /\ r.principal = e.principal /\ r.intent = TRUE
        /\ r.userOp = e.userOp /\ r.agentId = e.agentId
        /\ \/ r.status = e.status /\ e.status # "awaiting_register"
           \/ /\ e.status = "awaiting_register"
              /\ r.status = "awaiting_onchain"
    BY <1>2, <2>1 DEF EnrollmentRecord
  <2>4. Onward(e, r)
    BY <1>2, <2>2, <2>3 DEF RecordSound, Onward, Intended, Prepared
  <2>5. QED
    BY <1>3, <2>2, <2>4
<1>6. CASE RebindCommit(c)
  <2>1. PICK r : r = [e EXCEPT !.principal = o, !.owner = o,
                               !.status = "awaiting_fingerprint",
                               !.approved = FALSE]
    OBVIOUS
  <2>2. Takes(a, r) /\ o \in Owner
    BY <1>1, <1>6, <2>1, RequestSteps
  <2>3. e.agentId # None
    BY <1>1, <1>6 DEF RebindCommit, CallSound, RequestSound, Rebinding
  <2>4. /\ r.principal = o /\ r.intent = e.intent
        /\ r.userOp = e.userOp /\ r.agentId = e.agentId
        /\ r.status = "awaiting_fingerprint"
    BY <1>2, <2>1 DEF EnrollmentRecord
  <2>5. o # None
    BY <2>2, RegistryAssumption
  <2>6. Onward(e, r)
    BY <1>2, <2>3, <2>4, <2>5 DEF Onward, Intended, Prepared
  <2>7. QED
    BY <1>3, <2>2, <2>6
<1>7. QED
  BY <1>4, <1>5, <1>6

(* Every step takes enrollments onward; no transfer is applied. *)
LEMMA EnrollmentsOnward ==
    ASSUME KyaInv, Intentions, EnrollmentChanges,
           \A w \in Loop : job[w].pc # "transfer"
    PROVE  \A b \in Agent : Onward(enrollment[b], enrollment'[b])
<1> DEFINE Goal == \A b \in Agent : Onward(enrollment[b], enrollment'[b])
<1>1. /\ Typed /\ OwnersAreLogged /\ EnrollmentsSound /\ WatcherSound
      /\ \A c \in Call : CallSound(c)
  BY DEF KyaInv
<1>2. \A a \in Agent : /\ Intended(enrollment[a])
                       /\ RecordSound(a, enrollment[a])
  BY <1>1 DEF Intentions, EnrollmentsSound
<1>3. ASSUME NEW a \in Agent,
             \/ \E k \in Key : StartEnrollment(a, k) \/ RotateKey(a, k)
             \/ PairingLapses(a) \/ Approve(a) \/ ResolveSubmission(a)
             \/ RevokeAgent(a) \/ PollDeviceToken(a)
             \/ \E t \in Token : RecordSubmission(a, t)
      PROVE  Goal
  BY <1>1, <1>3, OwnerOnward
<1>4. ASSUME NEW c \in Call, PairCommit(c) \/ PrepareCommit(c) \/ RebindCommit(c)
      PROVE  Goal
  BY <1>1, <1>4, RequestsOnward
<1>5. ASSUME NEW c \in Call, RebindApprove(c) PROVE Goal
  <2>1. call[c].agent \in Agent /\ Approve(call[c].agent)
    BY <1>1, <1>5 DEF RebindApprove, CallSound, RequestSound
  <2>2. QED
    BY <1>3, <2>1
<1>6. ASSUME NEW s \in Session, NEW status \in KycEvent, KycWebhook(s, status),
             NEW a \in Agent
      PROVE  Onward(enrollment[a], enrollment'[a])
  <2>1. PICK e, r : e = enrollment[a] /\ r = enrollment'[a]
    OBVIOUS
  <2>2. StatusMoves(e, r) /\ Intended(e)
    BY <1>1, <1>2, <1>6, <2>1, KycWebhookMoves
  <2>3. QED
    BY <2>1, <2>2 DEF StatusMoves, Onward, Intended, Prepared
<1>7. ASSUME NEW w \in Loop, ApplyRegistered(w) PROVE Goal
  <2>1. PICK i, l, a, e : /\ i = job[w].log /\ l = logs[i] /\ a = l.agent
                          /\ e = enrollment[a]
    OBVIOUS
  <2>2. PICK t, o : t = l.token /\ o = l.owner
    OBVIOUS
  <2>3. /\ l \in LogRecord /\ a \in Agent /\ e \in EnrollmentRecord
        /\ \/ /\ EvidenceHolds(l, e, job[w].owner)
              /\ Takes(a, [e EXCEPT !.status = "bound", !.agentId = t, !.owner = o])
           \/ UNCHANGED enrollment
    BY <1>1, <1>7, <2>1, <2>2, RegisteredMoves
  <2>4. CASE UNCHANGED enrollment
    BY <1>2, <2>4 DEF Onward
  <2>5. ASSUME Takes(a, [e EXCEPT !.status = "bound", !.agentId = t, !.owner = o])
        PROVE  Goal
    <3>1. PICK r : r = [e EXCEPT !.status = "bound", !.agentId = t, !.owner = o]
      OBVIOUS
    <3>2. /\ r.status = "bound" /\ r.userOp = e.userOp /\ r.intent = e.intent
          /\ r.agentId = t /\ r.principal = e.principal
      BY <2>3, <3>1 DEF EnrollmentRecord
    <3>3. t # None
      BY <2>2, <2>3, RegistryAssumption DEF LogRecord
    <3>4. Intended(e)
      BY <1>2, <2>1, <2>3
    <3>5. Onward(e, r)
      BY <3>2, <3>3, <3>4 DEF Onward, Intended, Prepared
    <3>6. QED
      BY <2>1, <2>3, <2>5, <3>1, <3>5, TakesOnward
  <2>6. QED
    BY <2>3, <2>4, <2>5
<1>8. ASSUME NEW w \in Loop PROVE ~ApplyTransfer(w)
  BY DEF ApplyTransfer
<1>9. CASE UNCHANGED enrollment
  BY <1>2, <1>9 DEF Onward
<1>10. QED
  BY <1>3, <1>4, <1>5, <1>6, <1>7, <1>8, <1>9 DEF EnrollmentChanges

(* A request that prepares a registration has begun to, or does so now. *)
LEMMA PreparesBegin ==
    ASSUME KyaInv, CallChanges, NEW c \in Call, call'[c].op = "prepare"
    PROVE  \/ call'[c] = call[c]
           \/ call'[c].agent \in Agent /\ Prepared(enrollment[call'[c].agent])
<1>1. call \in [Call -> RequestRecord] /\ Idle.op = "idle"
  BY IdleRequest DEF KyaInv, Typed, CeremonyTypeOK, StoreTypeOK, RequestRecord
<1>2. ASSUME NEW d \in Call, NEW q, call' = [call EXCEPT ![d] = q],
             q.op # "prepare" \/ (q.agent \in Agent /\ Prepared(enrollment[q.agent]))
      PROVE  \/ call'[c] = call[c]
             \/ call'[c].agent \in Agent /\ Prepared(enrollment[call'[c].agent])
  BY <1>1, <1>2
<1>3. ASSUME NEW d \in Call, NEW a \in Agent, PrepareRead(d, a)
      PROVE  \/ call'[c] = call[c]
             \/ call'[c].agent \in Agent /\ Prepared(enrollment[call'[c].agent])
  <2>1. PICK q : q = [Idle EXCEPT !.op = "prepare", !.agent = a]
    OBVIOUS
  <2>2. q.agent = a
    BY <2>1 DEF Idle
  <2>3. call' = [call EXCEPT ![d] = q] /\ Prepared(enrollment[a])
    BY <1>3, <2>1 DEF PrepareRead, Begin, Prepared
  <2>4. QED
    BY <1>2, <2>2, <2>3
<1>4. ASSUME NEW d \in Call, NEW q, Begin(d, q), q.op # "prepare"
      PROVE  call'[c] = call[c]
  BY <1>1, <1>4 DEF Begin
<1>5. ASSUME NEW d \in Call,
             \/ \E a \in Agent, o \in Owner : PairRead(d, a, o) \/ RebindRead(d, a, o)
             \/ \E a \in Agent : ClaimRead(d, a)
             \/ \E n \in Nonce : VerifyRead(d, n)
      PROVE  call'[c] = call[c]
  <2>1. ASSUME NEW a, NEW o, PairRead(d, a, o) PROVE call'[c] = call[c]
    <3>1. PICK q : q = [Idle EXCEPT !.op = "pair", !.agent = a, !.owner = o,
                                    !.kyc = kyc[o]]
      OBVIOUS
    <3>2. q.op = "pair"
      BY <3>1 DEF Idle
    <3>3. Begin(d, q)
      BY <2>1, <3>1 DEF PairRead
    <3>4. QED
      BY <1>4, <3>2, <3>3
  <2>2. ASSUME NEW a, NEW o, RebindRead(d, a, o) PROVE call'[c] = call[c]
    <3>1. PICK e, q : /\ e = enrollment[a]
                      /\ q = [Idle EXCEPT !.op = "rebind", !.agent = a, !.owner = o,
                                          !.seen = e]
      OBVIOUS
    <3>2. q.op = "rebind"
      BY <3>1 DEF Idle
    <3>3. Begin(d, q)
      BY <2>2, <3>1 DEF RebindRead
    <3>4. QED
      BY <1>4, <3>2, <3>3
  <2>3. ASSUME NEW a, ClaimRead(d, a) PROVE call'[c] = call[c]
    <3>1. PICK e, i, q : /\ e = enrollment[a] /\ i = ActiveCredential(a)
                         /\ q = [Idle EXCEPT !.op = "claim", !.agent = a,
                                             !.owner = e.principal, !.seen = e,
                                             !.cred = i]
      OBVIOUS
    <3>2. q.op = "claim"
      BY <3>1 DEF Idle
    <3>3. Begin(d, q)
      BY <2>3, <3>1 DEF ClaimRead
    <3>4. QED
      BY <1>4, <3>2, <3>3
  <2>4. ASSUME NEW n, VerifyRead(d, n) PROVE call'[c] = call[c]
    <3>1. PICK a, e, i, q :
            /\ a = nonce[n].agent /\ e = enrollment[a] /\ i = FirstActive(a)
            /\ q = [Idle EXCEPT !.op = "verify", !.agent = a, !.owner = e.principal,
                                !.seen = e, !.cred = i, !.nonce = n]
      OBVIOUS
    <3>2. q.op = "verify"
      BY <3>1 DEF Idle
    <3>3. Begin(d, q)
      BY <2>4, <3>1 DEF VerifyRead
    <3>4. QED
      BY <1>4, <3>2, <3>3
  <2>5. QED
    BY <1>5, <2>1, <2>2, <2>3, <2>4
<1>6. ASSUME NEW d \in Call, Finish(d)
      PROVE  call'[c] = call[c]
  BY <1>1, <1>6 DEF Finish
<1>7. ASSUME NEW d \in Call, NEW op, Goto(d, op), op # "prepare"
      PROVE  call'[c] = call[c]
  <2>1. PICK q : q = [call[d] EXCEPT !.op = op]
    OBVIOUS
  <2>2. q.op = op /\ call' = [call EXCEPT ![d] = q]
    BY <1>1, <1>7, <2>1 DEF Goto, RequestRecord
  <2>3. QED
    BY <1>1, <1>7, <2>2
<1>8. ASSUME NEW d \in Call,
             \/ PairCommit(d) \/ PrepareCommit(d) \/ RebindOwner(d) \/ RebindKyc(d)
             \/ RebindCommit(d) \/ RebindApprove(d) \/ ClaimOwner(d) \/ ClaimIssue(d)
             \/ VerifyOwner(d) \/ VerifyCommit(d) \/ Abandon(d)
      PROVE  call'[c] = call[c]
  BY <1>6, <1>7, <1>8
     DEF PairCommit, PrepareCommit, RebindOwner, RebindKyc, RebindCommit,
         RebindApprove, ClaimOwner, ClaimIssue, VerifyOwner, VerifyCommit, Abandon
<1>9. ~ call' = [d \in Call |-> Idle]
  BY <1>1
<1>10. QED
  BY <1>3, <1>5, <1>8, <1>9 DEF CallChanges

(* Intentions are kept. *)
LEMMA IntentionsStay ==
    ASSUME KyaInv, Intentions, CallChanges,
           \A b \in Agent : Onward(enrollment[b], enrollment'[b])
    PROVE  Intentions'
<1>1. ASSUME NEW c \in Call, call'[c].op = "prepare"
      PROVE  Prepared(enrollment'[call'[c].agent])
  <2>1. call[c].op = "prepare" => call[c].agent \in Agent
    BY DEF KyaInv, CallSound, RequestSound
  <2>2. call'[c].agent \in Agent /\ Prepared(enrollment[call'[c].agent])
    BY <1>1, <2>1, PreparesBegin DEF Intentions
  <2>3. QED
    BY <2>2 DEF Onward
<1>2. \A b \in Agent : Intended(enrollment'[b])
  BY DEF Onward
<1>3. QED
  BY <1>1, <1>2 DEF Intentions, Intended, Prepared

(* The claimant of log i, its enrollment's principal, waits for it. *)
Claimed(i) == /\ enrollment[logs[i].agent].status = "awaiting_onchain"
              /\ enrollment[logs[i].agent].principal = logs[i].owner

(* Every log is the registration of a submitted operation, its owner holds  *)
(* the token still, and events processed were mined.                        *)
Genuine ==
    /\ processedEvents \subseteq LogIndex
    /\ \A i \in LogIndex :
         /\ logs[i].kind = "Registered"
         /\ enrollment[logs[i].agent].userOp = logs[i].token
         /\ tokenOwner[logs[i].token] = logs[i].owner
         /\ logs[i].block <= height

(* What a poll reads is behind the last polled block; between polls, it is  *)
(* all taken.                                                               *)
Polling ==
    /\ restarts \in Nat
    /\ lastPolledBlock \in 0..height
    /\ pollTo \in {-1} \cup lastPolledBlock..height
    /\ pollTo = -1 => batch = {} /\ job["poll"].pc = "idle"
    /\ \A i \in batch : logs[i].block > lastPolledBlock
    /\ job["poll"].pc # "idle" => logs[job["poll"].log].block > lastPolledBlock

(* A loop knows the owner of its log, and drops what nobody waits for.      *)
TaskSettled(j) ==
    /\ j.pc \in {"idle", "owner", "apply", "keep", "drop"}
    /\ j.pc = "apply" => j.owner = logs[j.log].owner
    /\ j.pc = "drop" => ~Claimed(j.log)

(* So both loops do. *)
TasksSettled == \A w \in Loop : TaskSettled(job[w])

(* The last block that has been read. *)
ReadUpTo == IF pollTo = -1 THEN lastPolledBlock ELSE pollTo

(* Log i is to be applied, or is being applied. *)
Waits(i) == \/ i \in batch \cup pending
            \/ \E w \in Loop : job[w].pc # "idle" /\ job[w].log = i

(* A log with a claimant was not processed, and once read it waits. *)
NoneLost ==
    \A i \in LogIndex :
        Claimed(i) => /\ i \notin processedEvents
                      /\ logs[i].block <= ReadUpTo => Waits(i)

(* The inductive invariant. *)
EvidenceInv == Intentions /\ Genuine /\ Polling /\ TasksSettled /\ NoneLost

(* Logs are records of the chain. *)
LEMMA LogsTyped ==
    ASSUME KyaInv, Genuine, NEW i \in LogIndex
    PROVE  /\ logs[i] \in LogRecord /\ logs[i].block \in Nat
           /\ logs[i].token \in Token /\ logs[i].token # None
           /\ logs[i].owner \in Owner /\ logs[i].agent \in Agent
<1>1. logs[i] \in LogRecord
  BY DEF KyaInv, Typed, ChainTypeOK, LogIndex
<1>2. logs[i].kind = "Registered" => logs[i].agent \in Agent
  BY DEF KyaInv, OwnersAreLogged
<1>3. QED
  BY <1>1, <1>2, RegistryAssumption DEF Genuine, LogRecord

(* A log without a claimant never gets one. *)
LEMMA ClaimsStay ==
    ASSUME KyaInv, Genuine, UNCHANGED logs,
           \A b \in Agent : Onward(enrollment[b], enrollment'[b]),
           NEW i \in LogIndex
    PROVE  /\ enrollment'[logs[i].agent].userOp = logs[i].token
           /\ Claimed(i)' => Claimed(i)
<1>1. PICK a, e, r : a = logs[i].agent /\ e = enrollment[a] /\ r = enrollment'[a]
  OBVIOUS
<1>2. a \in Agent /\ logs[i].token # None /\ e.userOp = logs[i].token
  BY <1>1, LogsTyped DEF Genuine
<1>3. Onward(e, r)
  BY <1>1, <1>2
<1>4. QED
  BY <1>1, <1>2, <1>3 DEF Onward, Claimed

(* The logs that were mined are still what they were. *)
LEMMA GenuineStays ==
    ASSUME KyaInv, Genuine, UNCHANGED chainVars,
           \A b \in Agent : Onward(enrollment[b], enrollment'[b]),
           processedEvents' \subseteq LogIndex
    PROVE  Genuine'
<1>1. UNCHANGED <<tokenOwner, logs, height>> /\ LogIndex' = LogIndex
  BY DEF chainVars, LogIndex
<1>2. \A i \in LogIndex : enrollment'[logs[i].agent].userOp = logs[i].token
  BY <1>1, ClaimsStay
<1>3. QED
  BY <1>1, <1>2 DEF Genuine

(* Requests, and people, do not touch the watcher. *)
LEMMA WatcherRests ==
    ASSUME KyaInv, EvidenceInv, UNCHANGED <<chainVars, watcherVars>>,
           \A b \in Agent : Onward(enrollment[b], enrollment'[b])
    PROVE  Genuine' /\ Polling' /\ TasksSettled' /\ NoneLost'
<1>1. Genuine /\ Polling /\ TasksSettled /\ NoneLost
  BY DEF EvidenceInv
<1>2. /\ UNCHANGED <<logs, height, processedEvents, pending, lastPolledBlock, batch,
                     pollTo, job, restarts>>
      /\ LogIndex' = LogIndex
  BY DEF chainVars, watcherVars, LogIndex
<1>3. Genuine'
  BY <1>1, <1>2, GenuineStays DEF Genuine
<1>4. \A i \in LogIndex : Claimed(i)' => Claimed(i)
  BY <1>1, <1>2, ClaimsStay
<1>5. Polling'
  BY <1>1, <1>2 DEF Polling
<1>6. TasksSettled'
  <2>1. \A w \in Loop : job[w].pc = "drop" => job[w].log \in LogIndex
    BY DEF KyaInv, WatcherSound, JobSound, TaskSound
  <2>2. ASSUME NEW w \in Loop PROVE TaskSettled(job[w])'
    <3>1. PICK j : j = job[w]
      OBVIOUS
    <3>2. TaskSettled(j) /\ (j.pc = "drop" => j.log \in LogIndex)
      BY <1>1, <2>1, <3>1 DEF TasksSettled
    <3>3. j.pc = "drop" => ~Claimed(j.log)'
      BY <1>4, <3>2 DEF TaskSettled
    <3>4. QED
      BY <1>2, <3>1, <3>2, <3>3 DEF TaskSettled, Claimed
  <2>3. QED
    BY <2>2 DEF TasksSettled
<1>7. NoneLost'
  <2>1. \A i \in LogIndex : Waits(i)' <=> Waits(i)
    BY <1>2 DEF Waits
  <2>2. ReadUpTo' = ReadUpTo
    BY <1>2 DEF ReadUpTo
  <2>3. \A i \in LogIndex : Claimed(i)' =>
            /\ i \notin processedEvents'
            /\ logs'[i].block <= ReadUpTo' => Waits(i)'
    BY <1>1, <1>2, <1>4, <2>1, <2>2 DEF NoneLost
  <2>4. QED
    BY <1>2, <2>3 DEF NoneLost
<1>8. QED
  BY <1>3, <1>5, <1>6, <1>7

(* Nothing is transferred in this deployment. *)
LEMMA NothingMoves ==
    ASSUME KyaInv, Genuine, MaxTransfers = 0, NEW t, NEW o
    PROVE  ~TransferToken(t, o)
<1>1. {i \in LogIndex : logs[i].kind = "Transfer"} = {}
  BY DEF Genuine
<1>2. Cardinality({i \in LogIndex : logs[i].kind = "Transfer"}) = 0
  BY <1>1, FS_EmptySet
<1>3. QED
  BY <1>2 DEF TransferToken

(* A registration is mined after its operation was recorded, or a block     *)
(* without one.                                                             *)
LEMMA ChainKeepsEvidence ==
    ASSUME KyaInv, EvidenceInv, MaxTransfers = 0, ChainNext, RecordedFirst,
           UNCHANGED <<enrollment, watcherVars>>
    PROVE  Genuine' /\ Polling' /\ TasksSettled' /\ NoneLost'
<1>1. Genuine /\ Polling /\ TasksSettled /\ NoneLost /\ ChainTypeOK
  BY DEF EvidenceInv, KyaInv, Typed
<1>2. UNCHANGED <<processedEvents, pending, lastPolledBlock, batch, pollTo, job,
                  restarts>>
  BY DEF watcherVars
<1>3. /\ height \in Nat /\ height' = height + 1 /\ Grown
      /\ \A i \in LogIndex : tokenOwner'[logs[i].token] = logs[i].owner
      /\ \A i \in LogIndex' \ LogIndex :
           /\ logs'[i].kind = "Registered"
           /\ enrollment[logs'[i].agent].userOp = logs'[i].token
           /\ tokenOwner'[logs'[i].token] = logs'[i].owner
           /\ logs'[i].block = height'
  <2>1. ASSUME NEW t \in Token, NEW o \in Owner, NEW a \in Agent, Register(t, o, a)
        PROVE  /\ Grown /\ height' = height + 1
               /\ \A i \in LogIndex : tokenOwner'[logs[i].token] = logs[i].owner
               /\ \A i \in LogIndex' \ LogIndex :
                    /\ logs'[i].kind = "Registered"
                    /\ tokenOwner'[logs'[i].token] = logs'[i].owner
                    /\ logs'[i].block = height'
    <3> DEFINE log == [kind |-> "Registered", token |-> t, agent |-> a,
                       owner |-> o, block |-> height + 1]
    <3>1. log \in LogRecord
      BY <1>1 DEF LogRecord, ChainTypeOK
    <3>2. /\ log.kind = "Registered" /\ log.token = t /\ log.owner = o
          /\ log.block = height + 1
      OBVIOUS
    <3>3. /\ Mine(log) /\ tokenOwner[t] = None
          /\ tokenOwner' = [tokenOwner EXCEPT ![t] = o]
      BY <2>1 DEF Register
    <3> HIDE DEF log
    <3>4. /\ Grown /\ height' = height + 1
          /\ LogIndex' = LogIndex \cup {Len(logs) + 1}
          /\ logs'[Len(logs) + 1] = log
      BY <1>1, <3>1, <3>3, MineAppends DEF Mine
    <3>5. tokenOwner'[t] = o
      BY <1>1, <3>3 DEF ChainTypeOK
    <3>6. ASSUME NEW i \in LogIndex PROVE tokenOwner'[logs[i].token] = logs[i].owner
      <4>1. /\ logs[i].token \in Token /\ logs[i].owner \in Owner
            /\ tokenOwner[logs[i].token] = logs[i].owner
        BY <1>1, LogsTyped DEF Genuine
      <4>2. logs[i].token # t
        BY <3>3, <4>1, RegistryAssumption
      <4>3. QED
        BY <1>1, <3>3, <4>1, <4>2 DEF ChainTypeOK
    <3>7. QED
      BY <3>2, <3>4, <3>5, <3>6
  <2>2. ASSUME EmptyBlock
        PROVE  /\ Grown /\ height' = height + 1 /\ LogIndex' = LogIndex
               /\ \A i \in LogIndex : tokenOwner'[logs[i].token] = logs[i].owner
    BY <1>1, <2>2 DEF EmptyBlock, Grown, LogIndex, Genuine
  <2>3. \A t \in Token, o \in Owner : ~TransferToken(t, o)
    BY <1>1, NothingMoves
  <2>4. /\ Grown /\ height' = height + 1
        /\ \A i \in LogIndex : tokenOwner'[logs[i].token] = logs[i].owner
        /\ \A i \in LogIndex' \ LogIndex :
             /\ logs'[i].kind = "Registered"
             /\ tokenOwner'[logs'[i].token] = logs'[i].owner
             /\ logs'[i].block = height'
    BY <2>1, <2>2, <2>3 DEF ChainNext
  <2>5. \A i \in LogIndex' \ LogIndex : logs'[i].kind = "Registered" =>
            enrollment[logs'[i].agent].userOp = logs'[i].token
    BY DEF RecordedFirst, LogIndex
  <2>6. QED
    BY <1>1, <2>4, <2>5 DEF ChainTypeOK
<1>4. \A i \in LogIndex : /\ i \in LogIndex' /\ logs'[i] = logs[i]
                          /\ logs[i].block \in Nat /\ logs[i].block <= height
  BY <1>1, <1>3, LogsTyped DEF Grown, Genuine
<1>5. Genuine'
  <2>1. ASSUME NEW i \in LogIndex'
        PROVE  /\ logs'[i].kind = "Registered"
               /\ enrollment'[logs'[i].agent].userOp = logs'[i].token
               /\ tokenOwner'[logs'[i].token] = logs'[i].owner
               /\ logs'[i].block <= height'
    <3>1. CASE i \in LogIndex
      BY <1>1, <1>3, <1>4, <3>1 DEF Genuine
    <3>2. CASE i \notin LogIndex
      BY <1>3, <3>2
    <3>3. QED
      BY <3>1, <3>2
  <2>2. processedEvents' \subseteq LogIndex'
    BY <1>1, <1>2, <1>4 DEF Genuine
  <2>3. QED
    BY <2>1, <2>2 DEF Genuine
<1>6. /\ batch \subseteq LogIndex
      /\ \A w \in Loop : job[w].pc # "idle" => job[w].log \in LogIndex
  BY DEF KyaInv, WatcherSound, JobSound, TaskSound
<1>7. Polling'
  <2>1. lastPolledBlock' \in 0..height' /\ pollTo' \in -1..height'
    BY <1>1, <1>2, <1>3 DEF Polling
  <2>2. /\ \A i \in batch' : logs'[i].block > lastPolledBlock'
        /\ job'["poll"].pc # "idle" => logs'[job'["poll"].log].block > lastPolledBlock'
    BY <1>1, <1>2, <1>4, <1>6 DEF Polling, Loop
  <2>3. QED
    BY <1>1, <1>2, <2>1, <2>2 DEF Polling
<1>8. \A i \in LogIndex : Claimed(i)' <=> Claimed(i)
  BY <1>4 DEF Claimed
<1>9. TasksSettled'
  <2>1. ASSUME NEW w \in Loop PROVE TaskSettled(job[w])'
    <3>1. PICK j : j = job[w]
      OBVIOUS
    <3>2. TaskSettled(j) /\ (j.pc # "idle" => j.log \in LogIndex)
      BY <1>1, <1>6, <3>1 DEF TasksSettled
    <3>3. TaskSettled(j)'
      BY <1>4, <1>8, <3>2 DEF TaskSettled
    <3>4. QED
      BY <1>2, <3>1, <3>3 DEF TaskSettled, Claimed
  <2>2. QED
    BY <2>1 DEF TasksSettled
<1>10. NoneLost'
  <2>1. ReadUpTo' = ReadUpTo /\ ReadUpTo \in -1..height
    BY <1>1, <1>2, <1>3 DEF ReadUpTo, Polling
  <2>2. ASSUME NEW i \in LogIndex', Claimed(i)'
        PROVE  /\ i \notin processedEvents'
               /\ logs'[i].block <= ReadUpTo' => Waits(i)'
    <3>1. CASE i \in LogIndex
      <4>1. Waits(i)' <=> Waits(i)
        BY <1>2 DEF Waits
      <4>2. Claimed(i) /\ logs'[i] = logs[i]
        BY <1>4, <1>8, <2>2, <3>1
      <4>3. QED
        BY <1>1, <1>2, <2>1, <3>1, <4>1, <4>2 DEF NoneLost
    <3>2. CASE i \notin LogIndex
      <4>1. i \notin processedEvents'
        BY <1>1, <1>2, <3>2 DEF Genuine
      <4>2. ~(logs'[i].block <= ReadUpTo')
        BY <1>3, <2>1, <3>2
      <4>3. QED
        BY <4>1, <4>2
    <3>3. QED
      BY <3>1, <3>2
  <2>3. QED
    BY <2>2 DEF NoneLost
<1>11. QED
  BY <1>5, <1>7, <1>9, <1>10

(* What the watcher's steps start from. *)
LEMMA WatcherFacts ==
    ASSUME KyaInv, EvidenceInv
    PROVE  /\ Genuine /\ Polling /\ TasksSettled /\ NoneLost
           /\ height \in Nat /\ Loop = {"poll", "flush"}
           /\ job \in [Loop -> JobRecord] /\ batch \subseteq LogIndex
           /\ \A w \in Loop : job[w].pc # "idle" => job[w].log \in LogIndex
           /\ \A i \in LogIndex : logs[i].block \in Nat
           /\ NoJob.pc = "idle"
<1>1. \A i \in LogIndex : logs[i].block \in Nat
  BY LogsTyped DEF EvidenceInv
<1>2. QED
  BY <1>1 DEF EvidenceInv, KyaInv, Typed, ChainTypeOK, WatcherSound, JobSound, TaskSound,
              Loop, NoJob

(* Claims look at enrollments and logs only. *)
LEMMA SameClaims ==
    ASSUME UNCHANGED <<logs, enrollment>>
    PROVE  /\ LogIndex' = LogIndex
           /\ \A i : Claimed(i)' <=> Claimed(i)
           /\ \A j : TaskSettled(j)' <=> TaskSettled(j)
BY DEF LogIndex, Claimed, TaskSettled

(* One loop has a new job, the other goes on with its own. *)
LEMMA LoopMoves ==
    ASSUME KyaInv, EvidenceInv, UNCHANGED <<logs, enrollment>>,
           NEW w \in Loop, NEW j, job' = [job EXCEPT ![w] = j], TaskSettled(j)
    PROVE  /\ job'[w] = j
           /\ \A v \in Loop : v # w => job'[v] = job[v]
           /\ TasksSettled'
<1>1. job \in [Loop -> JobRecord] /\ TasksSettled
  BY WatcherFacts
<1>2. job'[w] = j /\ \A v \in Loop : v # w => job'[v] = job[v]
  BY <1>1
<1>3. \A v \in Loop : TaskSettled(job'[v])
  BY <1>1, <1>2 DEF TasksSettled
<1>4. QED
  BY <1>2, <1>3, SameClaims DEF TasksSettled, TaskSettled, Claimed

(* The job of a log that was mined. *)
LEMMA StartSettled ==
    ASSUME KyaInv, EvidenceInv, NEW w, NEW i \in LogIndex, StartJob(w, i)
    PROVE  \E j : /\ job' = [job EXCEPT ![w] = j] /\ TaskSettled(j)
                  /\ j.pc = "owner" /\ j.log = i
<1>1. logs[i].kind = "Registered"
  BY DEF EvidenceInv, Genuine
<1>2. PICK p : p = IF logs[i].kind = "Registered" THEN "owner" ELSE "transfer"
  OBVIOUS
<1>3. PICK j : j = [NoJob EXCEPT !.log = i, !.pc = p]
  OBVIOUS
<1>4. j.log = i /\ j.pc = p
  BY <1>3 DEF NoJob
<1>5. p = "owner"
  BY <1>1, <1>2
<1>6. job' = [job EXCEPT ![w] = j]
  BY <1>2, <1>3 DEF StartJob
<1>7. QED
  BY <1>4, <1>5, <1>6 DEF TaskSettled

(* A poll reads the blocks since the last one. *)
LEMMA PollBeginKeeps ==
    ASSUME KyaInv, EvidenceInv, PollBegin, UNCHANGED chainVars
    PROVE  Polling' /\ TasksSettled' /\ NoneLost'
<1>1. /\ pollTo = -1 /\ pollTo' = height /\ height > lastPolledBlock
      /\ batch' = {i \in LogIndex : logs[i].block > lastPolledBlock}
      /\ UNCHANGED <<logs, height, enrollment, processedEvents, pending,
                     lastPolledBlock, job, restarts>>
  BY DEF PollBegin, chainVars, storeVars
<1>2. Polling /\ TasksSettled /\ NoneLost /\ height \in Nat
      /\ \A i \in LogIndex : logs[i].block \in Nat
  BY WatcherFacts
<1>3. /\ LogIndex' = LogIndex
      /\ \A i : Claimed(i)' <=> Claimed(i)
      /\ \A j : TaskSettled(j)' <=> TaskSettled(j)
  BY <1>1, SameClaims
<1>4. /\ job["poll"].pc = "idle" /\ batch = {}
      /\ lastPolledBlock \in Nat /\ restarts \in Nat
  BY <1>1, <1>2 DEF Polling
<1>5. Polling'
  BY <1>1, <1>2, <1>4 DEF Polling
<1>6. TasksSettled'
  BY <1>1, <1>2, <1>3 DEF TasksSettled, TaskSettled, Claimed
<1>7. ASSUME NEW i \in LogIndex, Claimed(i)
      PROVE  i \notin processedEvents /\ Waits(i)'
  <2>1. i \notin processedEvents /\ (logs[i].block <= lastPolledBlock => Waits(i))
    BY <1>1, <1>2, <1>7 DEF NoneLost, ReadUpTo
  <2>2. CASE logs[i].block <= lastPolledBlock
    BY <1>1, <1>4, <2>1, <2>2 DEF Waits
  <2>3. CASE logs[i].block > lastPolledBlock
    BY <1>1, <2>1, <2>3 DEF Waits
  <2>4. QED
    BY <1>2, <1>4, <2>2, <2>3, <2>1
<1>8. NoneLost'
  BY <1>1, <1>3, <1>7 DEF NoneLost
<1>9. QED
  BY <1>5, <1>6, <1>8

(* It applies a log of its batch, or queues it in memory. *)
LEMMA PollTakeKeeps ==
    ASSUME KyaInv, EvidenceInv, PollTake, UNCHANGED chainVars
    PROVE  Polling' /\ TasksSettled' /\ NoneLost'
<1>1. PICK n : n = NextLog
  OBVIOUS
<1>2. /\ batch # {} /\ job["poll"].pc = "idle" /\ batch' = batch \ {n}
      /\ \/ StartJob("poll", n) /\ UNCHANGED pending
         \/ pending' = pending \cup {n} /\ UNCHANGED job
      /\ UNCHANGED <<logs, height, enrollment, processedEvents,
                     lastPolledBlock, pollTo, restarts>>
  BY <1>1 DEF PollTake, chainVars, storeVars
<1>3. /\ Polling /\ TasksSettled /\ NoneLost /\ Loop = {"poll", "flush"}
      /\ batch \subseteq LogIndex
  BY WatcherFacts
<1>4. n \in batch /\ n \in LogIndex
  BY <1>1, <1>2, <1>3, NextLogRead DEF KyaInv
<1>5. /\ LogIndex' = LogIndex
      /\ \A i : Claimed(i)' <=> Claimed(i)
      /\ \A j : TaskSettled(j)' <=> TaskSettled(j)
  BY <1>2, SameClaims
<1>6. ReadUpTo' = ReadUpTo
  BY <1>2 DEF ReadUpTo
<1>7. /\ restarts \in Nat /\ lastPolledBlock \in 0..height
      /\ pollTo \in {-1} \cup lastPolledBlock..height
      /\ pollTo # -1
      /\ \A i \in batch : logs[i].block > lastPolledBlock
  BY <1>3, <1>4 DEF Polling
<1>8. CASE StartJob("poll", n) /\ UNCHANGED pending
  <2>1. PICK j : /\ job' = [job EXCEPT !["poll"] = j] /\ TaskSettled(j)
                 /\ j.pc = "owner" /\ j.log = n
    BY <1>4, <1>8, StartSettled
  <2>2. /\ job'["poll"] = j /\ job'["flush"] = job["flush"] /\ TasksSettled'
    BY <1>2, <1>3, <2>1, LoopMoves
  <2>3. Polling'
    BY <1>2, <1>4, <1>7, <2>1, <2>2 DEF Polling
  <2>4. \A i \in LogIndex : Waits(i) => Waits(i)'
    BY <1>2, <1>3, <1>8, <2>1, <2>2 DEF Waits
  <2>5. NoneLost'
    BY <1>2, <1>3, <1>5, <1>6, <2>4 DEF NoneLost
  <2>6. QED
    BY <2>2, <2>3, <2>5
<1>9. CASE pending' = pending \cup {n} /\ UNCHANGED job
  <2>1. TasksSettled'
    BY <1>3, <1>5, <1>9 DEF TasksSettled, TaskSettled, Claimed
  <2>2. Polling'
    BY <1>2, <1>7, <1>9 DEF Polling
  <2>3. \A i \in LogIndex : Waits(i) => Waits(i)'
    BY <1>2, <1>9 DEF Waits
  <2>4. NoneLost'
    BY <1>2, <1>3, <1>5, <1>6, <2>3 DEF NoneLost
  <2>5. QED
    BY <2>1, <2>2, <2>4
<1>10. QED
  BY <1>2, <1>8, <1>9

(* It advances the last polled block when all are taken. *)
LEMMA PollEndKeeps ==
    ASSUME KyaInv, EvidenceInv, PollEnd, UNCHANGED chainVars
    PROVE  Polling' /\ TasksSettled' /\ NoneLost'
<1>1. /\ pollTo # -1 /\ batch = {} /\ job["poll"].pc = "idle"
      /\ lastPolledBlock' = pollTo /\ pollTo' = -1
      /\ UNCHANGED <<logs, height, enrollment, processedEvents, pending, batch, job,
                     restarts>>
  BY DEF PollEnd, chainVars, storeVars
<1>2. Polling /\ TasksSettled /\ NoneLost /\ height \in Nat
  BY WatcherFacts
<1>3. /\ LogIndex' = LogIndex
      /\ \A i : Claimed(i)' <=> Claimed(i)
      /\ \A j : TaskSettled(j)' <=> TaskSettled(j)
  BY <1>1, SameClaims
<1>4. Polling'
  BY <1>1, <1>2 DEF Polling
<1>5. TasksSettled'
  BY <1>1, <1>2, <1>3 DEF TasksSettled, TaskSettled, Claimed
<1>6. ReadUpTo' = ReadUpTo /\ \A i \in LogIndex : Waits(i)' <=> Waits(i)
  BY <1>1 DEF ReadUpTo, Waits
<1>7. NoneLost'
  BY <1>1, <1>2, <1>3, <1>6 DEF NoneLost
<1>8. QED
  BY <1>4, <1>5, <1>7

(* The flush restores the durable queue and takes a log of its own. *)
LEMMA FlushTakeKeeps ==
    ASSUME KyaInv, EvidenceInv, NEW n \in LogIndex, FlushTake(n), UNCHANGED chainVars
    PROVE  Polling' /\ TasksSettled' /\ NoneLost'
<1>1. PICK q : q = Elements(durable)
  OBVIOUS
<1>2. /\ job["flush"].pc = "idle" /\ StartJob("flush", n)
      /\ pending' = (pending \cup q) \ {n}
      /\ UNCHANGED <<logs, height, enrollment, processedEvents, lastPolledBlock, batch,
                     pollTo, restarts>>
  BY <1>1 DEF FlushTake, chainVars, storeVars
<1>3. Polling /\ TasksSettled /\ NoneLost /\ Loop = {"poll", "flush"}
  BY WatcherFacts
<1>4. /\ LogIndex' = LogIndex
      /\ \A i : Claimed(i)' <=> Claimed(i)
  BY <1>2, SameClaims
<1>5. PICK j : /\ job' = [job EXCEPT !["flush"] = j] /\ TaskSettled(j)
               /\ j.pc = "owner" /\ j.log = n
  BY <1>2, StartSettled
<1>6. /\ job'["flush"] = j /\ job'["poll"] = job["poll"] /\ TasksSettled'
  BY <1>2, <1>3, <1>5, LoopMoves
<1>7. Polling'
  BY <1>2, <1>3, <1>6 DEF Polling
<1>8. ReadUpTo' = ReadUpTo
  BY <1>2 DEF ReadUpTo
<1>9. \A i \in LogIndex : Waits(i) => Waits(i)'
  BY <1>2, <1>3, <1>5, <1>6 DEF Waits
<1>10. NoneLost'
  BY <1>2, <1>3, <1>4, <1>8, <1>9 DEF NoneLost
<1>11. QED
  BY <1>6, <1>7, <1>10

(* The owner the node reports is the log's. *)
LEMMA ReadOwnerKeeps ==
    ASSUME KyaInv, EvidenceInv, NEW w \in Loop, ReadOwner(w), UNCHANGED chainVars
    PROVE  Polling' /\ TasksSettled' /\ NoneLost'
<1>1. PICK p, o : p = job[w] /\ o = tokenOwner[logs[job[w].log].token]
  OBVIOUS
<1>2. PICK j : j = [p EXCEPT !.owner = o, !.pc = "apply"]
  OBVIOUS
<1>3. /\ p.pc = "owner"
      /\ job' = [job EXCEPT ![w].owner = o, ![w].pc = "apply"]
      /\ UNCHANGED <<logs, height, enrollment, processedEvents, pending,
                     lastPolledBlock, batch, pollTo, restarts>>
  BY <1>1 DEF ReadOwner, chainVars, storeVars
<1>4. /\ Genuine /\ Polling /\ TasksSettled /\ NoneLost /\ Loop = {"poll", "flush"}
      /\ job \in [Loop -> JobRecord] /\ p \in JobRecord /\ p.log \in LogIndex
  <2>1. Genuine /\ Polling /\ TasksSettled /\ NoneLost /\ Loop = {"poll", "flush"}
        /\ job \in [Loop -> JobRecord]
        /\ \A v \in Loop : job[v].pc # "idle" => job[v].log \in LogIndex
    BY WatcherFacts
  <2>2. QED
    BY <1>1, <1>3, <2>1
<1>5. j.log = p.log /\ j.pc = "apply" /\ j.owner = o
  BY <1>2, <1>4 DEF JobRecord
<1>6. job' = [job EXCEPT ![w] = j]
  BY <1>1, <1>2, <1>3, <1>4
<1>7. TaskSettled(j)
  BY <1>1, <1>4, <1>5 DEF TaskSettled, Genuine
<1>8. /\ job'[w] = j /\ TasksSettled'
      /\ \A v \in Loop : v # w => job'[v] = job[v]
  BY <1>3, <1>6, <1>7, LoopMoves
<1>9. \A v \in Loop : job'[v].log = job[v].log /\ (job'[v].pc = "idle" <=> job[v].pc = "idle")
  BY <1>1, <1>3, <1>5, <1>8
<1>10. Polling'
  BY <1>3, <1>4, <1>9 DEF Polling
<1>11. /\ LogIndex' = LogIndex /\ ReadUpTo' = ReadUpTo
       /\ \A i : Claimed(i)' <=> Claimed(i)
  BY <1>3, SameClaims DEF ReadUpTo
<1>12. \A i \in LogIndex : Waits(i) => Waits(i)'
  BY <1>3, <1>9 DEF Waits
<1>13. NoneLost'
  BY <1>3, <1>4, <1>11, <1>12 DEF NoneLost
<1>14. QED
  BY <1>8, <1>10, <1>13

(* Loops that end their job: what they worked on is queued again, is to be  *)
(* read again, or has no claimant.                                          *)
LEMMA EndKeeps ==
    ASSUME KyaInv, EvidenceInv, NEW w \in Loop,
           KeepPending(w) \/ DropPending(w) \/ JobFails(w), UNCHANGED chainVars
    PROVE  Polling' /\ TasksSettled' /\ NoneLost'
<1>1. PICK n : n = job[w].log
  OBVIOUS
<1>2. /\ EndJob(w)
      /\ UNCHANGED <<logs, height, enrollment, processedEvents, lastPolledBlock,
                     restarts>>
      /\ \/ pending' = pending \cup {n} /\ UNCHANGED <<batch, pollTo>>
         \/ job[w].pc = "drop" /\ UNCHANGED <<pending, batch, pollTo>>
         \/ w = "poll" /\ batch' = {} /\ pollTo' = -1 /\ UNCHANGED pending
  BY <1>1 DEF KeepPending, DropPending, JobFails, chainVars, storeVars, Loop
<1>3. /\ Polling /\ TasksSettled /\ NoneLost /\ Loop = {"poll", "flush"}
      /\ NoJob.pc = "idle" /\ height \in Nat
      /\ \A i \in LogIndex : logs[i].block \in Nat
  BY WatcherFacts
<1>4. PICK j : j = NoJob
  OBVIOUS
<1>5. job' = [job EXCEPT ![w] = j] /\ j.pc = "idle" /\ TaskSettled(j)
  BY <1>2, <1>3, <1>4 DEF EndJob, TaskSettled
<1>6. /\ job'[w] = j /\ TasksSettled'
      /\ \A v \in Loop : v # w => job'[v] = job[v]
  BY <1>2, <1>5, LoopMoves
<1>7. Polling'
  BY <1>2, <1>3, <1>5, <1>6 DEF Polling
<1>8. /\ LogIndex' = LogIndex
      /\ \A i : Claimed(i)' <=> Claimed(i)
  BY <1>2, SameClaims
<1>9. ASSUME NEW i \in LogIndex, Claimed(i), logs[i].block <= ReadUpTo'
      PROVE  Waits(i)'
  <2>1. CASE pending' = pending \cup {n} /\ UNCHANGED <<batch, pollTo>>
    <3>1. Waits(i)
      BY <1>2, <1>3, <1>9, <2>1 DEF NoneLost, ReadUpTo
    <3>2. QED
      BY <1>1, <1>6, <2>1, <3>1 DEF Waits
  <2>2. CASE job[w].pc = "drop" /\ UNCHANGED <<pending, batch, pollTo>>
    <3>1. Waits(i)
      BY <1>2, <1>3, <1>9, <2>2 DEF NoneLost, ReadUpTo
    <3>2. i # n
      BY <1>1, <1>3, <1>9, <2>2 DEF TasksSettled, TaskSettled
    <3>3. QED
      BY <1>1, <1>6, <2>2, <3>1, <3>2 DEF Waits
  <2>3. CASE w = "poll" /\ batch' = {} /\ pollTo' = -1 /\ UNCHANGED pending
    <3>1. logs[i].block <= lastPolledBlock
      BY <1>2, <1>9, <2>3 DEF ReadUpTo
    <3>2. logs[i].block <= ReadUpTo
      BY <1>3, <3>1 DEF ReadUpTo, Polling
    <3>3. i \notin batch /\ ~(job["poll"].pc # "idle" /\ job["poll"].log = i)
      BY <1>3, <3>1 DEF Polling
    <3>4. Waits(i)
      BY <1>3, <1>9, <3>2 DEF NoneLost
    <3>5. i \in pending \/ (job["flush"].pc # "idle" /\ job["flush"].log = i)
      BY <1>3, <3>3, <3>4 DEF Waits
    <3>6. QED
      BY <1>3, <1>6, <2>3, <3>5 DEF Waits
  <2>4. QED
    BY <1>2, <2>1, <2>2, <2>3
<1>10. NoneLost'
  BY <1>2, <1>3, <1>8, <1>9 DEF NoneLost
<1>11. QED
  BY <1>6, <1>7, <1>10

(* Evidence that is there binds or is retried; what is dropped has no       *)
(* claimant.                                                                *)
LEMMA ApplyKeeps ==
    ASSUME KyaInv, EvidenceInv, NEW w \in Loop, ApplyRegistered(w),
           UNCHANGED chainVars,
           \A b \in Agent : Onward(enrollment[b], enrollment'[b])
    PROVE  /\ processedEvents' \subseteq LogIndex
           /\ Polling' /\ TasksSettled' /\ NoneLost'
<1>1. PICK n, l, a, e, p : /\ n = job[w].log /\ l = logs[n] /\ a = l.agent
                           /\ e = enrollment[a] /\ p = job[w]
  OBVIOUS
<1>2. /\ Genuine /\ Polling /\ TasksSettled /\ NoneLost /\ Loop = {"poll", "flush"}
      /\ job \in [Loop -> JobRecord] /\ p \in JobRecord
      /\ \A v \in Loop : job[v].pc # "idle" => job[v].log \in LogIndex
  BY <1>1, WatcherFacts
<1>3. /\ UNCHANGED <<logs, height, pending, lastPolledBlock, batch, pollTo, restarts>>
      /\ LogIndex' = LogIndex /\ p.pc = "apply"
  BY <1>1 DEF ApplyRegistered, chainVars, LogIndex
<1>4. /\ n \in LogIndex /\ l \in LogRecord /\ a \in Agent /\ e \in EnrollmentRecord
      /\ \/ /\ processedEvents' = processedEvents \cup {n}
            /\ Takes(a, [e EXCEPT !.status = "bound", !.agentId = l.token,
                                  !.owner = l.owner])
         \/ /\ UNCHANGED enrollment
            /\ ~ /\ n \notin processedEvents /\ AwaitsRegistration(e)
                 /\ EvidenceHolds(l, e, p.owner)
  BY <1>1, RegisteredMoves DEF KyaInv
<1>5. /\ e.userOp = l.token /\ l.token # None /\ p.owner = l.owner
      /\ e.intent /\ (e.tx # None => e.tx = e.userOp)
  <2>1. e.userOp = l.token /\ l.token # None
    BY <1>1, <1>2, <1>4, LogsTyped DEF Genuine
  <2>2. p.owner = l.owner
    BY <1>1, <1>2, <1>3 DEF TasksSettled, TaskSettled
  <2>3. RecordSound(a, e) /\ Intended(e)
    BY <1>1, <1>4 DEF KyaInv, EnrollmentsSound, EvidenceInv, Intentions
  <2>4. QED
    BY <2>1, <2>2, <2>3 DEF RecordSound, Intended
<1>6. \A i \in LogIndex : Claimed(i)' => Claimed(i)
  BY <1>2, <1>3, ClaimsStay
<1>7. PICK s \in {"keep", "drop"} :
        /\ job' = [job EXCEPT ![w].pc = s]
        /\ s = "drop" => ~ /\ n \notin processedEvents /\ AwaitsRegistration(e)
                           /\ Unresolved(e)
  BY <1>1 DEF ApplyRegistered
<1>8. \/ processedEvents' = processedEvents
      \/ processedEvents' = processedEvents \cup {n}
  BY <1>1 DEF ApplyRegistered
<1>9. /\ processedEvents' # processedEvents => ~Claimed(n)'
      /\ s = "drop" => ~Claimed(n)'
  <2>1. CASE Takes(a, [e EXCEPT !.status = "bound", !.agentId = l.token,
                                !.owner = l.owner])
    <3>1. PICK r : r = [e EXCEPT !.status = "bound", !.agentId = l.token,
                                 !.owner = l.owner]
      OBVIOUS
    <3>2. r.status = "bound"
      BY <1>4, <3>1 DEF EnrollmentRecord
    <3>3. enrollment'[a].status = "bound"
      BY <2>1, <3>1, <3>2 DEF Takes
    <3>4. QED
      BY <1>1, <1>3, <3>3 DEF Claimed
  <2>2. CASE /\ UNCHANGED enrollment
             /\ ~ /\ n \notin processedEvents /\ AwaitsRegistration(e)
                  /\ EvidenceHolds(l, e, p.owner)
    <3>1. SUFFICES ASSUME Claimed(n)'
                   PROVE  processedEvents' = processedEvents /\ s # "drop"
      OBVIOUS
    <3>2. /\ e.status = "awaiting_onchain" /\ e.principal = l.owner
          /\ n \notin processedEvents
      BY <1>1, <1>2, <1>4, <1>6, <3>1 DEF Claimed, NoneLost
    <3>3. AwaitsRegistration(e) /\ ~EvidenceHolds(l, e, p.owner)
      BY <2>2, <3>2 DEF AwaitsRegistration
    <3>4. e.tx = None
      BY <1>5, <3>2, <3>3 DEF EvidenceHolds
    <3>5. Unresolved(e)
      BY <1>5, <3>4 DEF Unresolved
    <3>6. processedEvents' = processedEvents
      BY <1>1, <3>3 DEF ApplyRegistered
    <3>7. QED
      BY <1>7, <3>2, <3>3, <3>5, <3>6
  <2>3. QED
    BY <1>4, <2>1, <2>2
<1>10. PICK j : j = [p EXCEPT !.pc = s]
  OBVIOUS
<1>11. j.log = n /\ j.pc = s /\ job' = [job EXCEPT ![w] = j]
  BY <1>1, <1>2, <1>7, <1>10 DEF JobRecord
<1>12. job'[w] = j /\ \A v \in Loop : v # w => job'[v] = job[v]
  BY <1>2, <1>11
<1>13. TasksSettled'
  <2>1. ASSUME NEW v \in Loop PROVE TaskSettled(job[v])'
    <3>1. CASE v = w
      BY <1>7, <1>9, <1>11, <1>12, <3>1 DEF TaskSettled, Claimed
    <3>2. CASE v # w
      <4>1. PICK q : q = job[v]
        OBVIOUS
      <4>2. TaskSettled(q) /\ (q.pc # "idle" => q.log \in LogIndex) /\ job'[v] = q
        BY <1>2, <1>12, <3>2, <4>1 DEF TasksSettled
      <4>3. q.pc = "drop" => ~Claimed(q.log)'
        BY <1>6, <4>2 DEF TaskSettled
      <4>4. QED
        BY <1>3, <4>2, <4>3 DEF TaskSettled, Claimed
    <3>3. QED
      BY <3>1, <3>2
  <2>2. QED
    BY <2>1 DEF TasksSettled
<1>14. \A v \in Loop : job'[v].log = job[v].log /\ (job'[v].pc = "idle" <=> job[v].pc = "idle")
  BY <1>1, <1>3, <1>7, <1>11, <1>12
<1>15. Polling'
  BY <1>2, <1>3, <1>14 DEF Polling
<1>16. NoneLost'
  <2>1. ReadUpTo' = ReadUpTo /\ \A i \in LogIndex : Waits(i) => Waits(i)'
    BY <1>3, <1>14 DEF ReadUpTo, Waits
  <2>2. ASSUME NEW i \in LogIndex, Claimed(i)'
        PROVE  /\ i \notin processedEvents'
               /\ logs'[i].block <= ReadUpTo' => Waits(i)'
    <3>1. Claimed(i)
      BY <1>6, <2>2
    <3>2. i \notin processedEvents /\ (logs[i].block <= ReadUpTo => Waits(i))
      BY <1>2, <3>1 DEF NoneLost
    <3>3. i \notin processedEvents'
      BY <1>8, <1>9, <2>2, <3>2
    <3>4. QED
      BY <1>3, <2>1, <3>2, <3>3
  <2>3. QED
    BY <1>3, <2>2 DEF NoneLost
<1>17. processedEvents' \subseteq LogIndex
  BY <1>2, <1>4, <1>8 DEF Genuine
<1>18. QED
  BY <1>13, <1>15, <1>16, <1>17

(* The watcher keeps the evidence. *)
LEMMA WatcherKeepsEvidence ==
    ASSUME KyaInv, EvidenceInv, Undisturbed, WatcherNext, UNCHANGED chainVars,
           \A b \in Agent : Onward(enrollment[b], enrollment'[b])
    PROVE  Genuine' /\ Polling' /\ TasksSettled' /\ NoneLost'
<1>1. Genuine /\ Polling /\ TasksSettled
  BY WatcherFacts
<1>2. ASSUME processedEvents' \subseteq LogIndex PROVE Genuine'
  BY <1>1, <1>2, GenuineStays
<1>3. UNCHANGED processedEvents => processedEvents' \subseteq LogIndex
  BY <1>1 DEF Genuine
<1>4. CASE PollBegin \/ PollTake \/ PollEnd \/ \E i \in LogIndex : FlushTake(i)
  <2>1. UNCHANGED processedEvents
    BY <1>4 DEF PollBegin, PollTake, PollEnd, FlushTake
  <2>2. Polling' /\ TasksSettled' /\ NoneLost'
    BY <1>4, PollBeginKeeps, PollTakeKeeps, PollEndKeeps, FlushTakeKeeps
  <2>3. QED
    BY <1>2, <1>3, <2>1, <2>2
<1>5. ASSUME NEW w \in Loop,
             ReadOwner(w) \/ KeepPending(w) \/ DropPending(w) \/ JobFails(w)
      PROVE  Genuine' /\ Polling' /\ TasksSettled' /\ NoneLost'
  <2>1. UNCHANGED processedEvents
    BY <1>5 DEF ReadOwner, KeepPending, DropPending, JobFails
  <2>2. Polling' /\ TasksSettled' /\ NoneLost'
    BY <1>5, ReadOwnerKeeps, EndKeeps
  <2>3. QED
    BY <1>2, <1>3, <2>1, <2>2
<1>6. ASSUME NEW w \in Loop, ApplyRegistered(w)
      PROVE  Genuine' /\ Polling' /\ TasksSettled' /\ NoneLost'
  BY <1>2, <1>6, ApplyKeeps
<1>7. ASSUME NEW w \in Loop
      PROVE  /\ ~ReadOwnerFails(w) /\ ~ApplyTransfer(w)
             /\ ~SuspendRead(w) /\ ~SuspendWrite(w)
  <2>1. job[w].pc \notin {"transfer", "suspend", "suspend_write"}
    BY <1>1 DEF TasksSettled, TaskSettled
  <2>2. QED
    BY <2>1 DEF ReadOwnerFails, ApplyTransfer, SuspendRead, SuspendWrite, Undisturbed
<1>8. ~Restart
  <2>1. restarts \in Nat /\ MaxRestarts = 0
    BY <1>1 DEF Polling, Undisturbed
  <2>2. QED
    BY <2>1 DEF Restart
<1>9. QED
  BY <1>4, <1>5, <1>6, <1>7, <1>8 DEF WatcherNext

(* The invariant survives every step. *)
LEMMA EvidenceStep ==
    ASSUME KyaInv, EvidenceInv, Undisturbed, Next, RecordedFirst
    PROVE  EvidenceInv'
<1>1. Intentions /\ TasksSettled /\ \A w \in Loop : job[w].pc # "transfer"
  BY DEF EvidenceInv, TasksSettled, TaskSettled
<1>2. EnrollmentChanges /\ CallChanges
  BY StepChanges DEF Changes
<1>3. \A b \in Agent : Onward(enrollment[b], enrollment'[b])
  BY <1>1, <1>2, EnrollmentsOnward
<1>4. Intentions'
  BY <1>1, <1>2, <1>3, IntentionsStay
<1>5. CASE ChainNext /\ UNCHANGED <<ceremonyVars, accessVars, watcherVars>>
  <2>1. UNCHANGED enrollment
    BY <1>5 DEF ceremonyVars, storeVars
  <2>2. QED
    BY <1>4, <1>5, <2>1, ChainKeepsEvidence DEF EvidenceInv, Undisturbed
<1>6. CASE WatcherNext /\ UNCHANGED <<chainVars, kycSession, accessVars>>
  BY <1>3, <1>4, <1>6, WatcherKeepsEvidence DEF EvidenceInv
<1>7. CASE UNCHANGED <<chainVars, watcherVars>>
  BY <1>3, <1>4, <1>7, WatcherRests DEF EvidenceInv
<1>8. QED
  BY <1>5, <1>6, <1>7 DEF Next

(* It says more than the property. *)
LEMMA EvidenceEnough ==
    ASSUME KyaInv, EvidenceInv
    PROVE  EvidenceIsKept
<1> SUFFICES ASSUME NEW i \in LogIndex, Claimed(i),
                    logs[i].block <= lastPolledBlock
             PROVE  \/ i \in pending \cup Elements(durable)
                    \/ \E w \in Loop : job[w].log = i
  BY DEF EvidenceIsKept, Claimed
<1>1. Genuine /\ Polling /\ NoneLost
  BY DEF EvidenceInv
<1>2. logs[i].block \in Nat /\ height \in Nat
  BY <1>1, LogsTyped, WatcherFacts
<1>3. logs[i].block <= ReadUpTo /\ i \notin batch
  BY <1>1, <1>2 DEF Polling, ReadUpTo
<1>4. Waits(i)
  BY <1>1, <1>3 DEF NoneLost
<1>5. QED
  BY <1>3, <1>4 DEF Waits

(* Nothing is mined, nothing is read, no request is under way. *)
LEMMA EvidenceStarts ==
    ASSUME ChainInit, WatcherInit, call = [c \in Call |-> Idle],
           \A a \in Agent : Intended(enrollment[a])
    PROVE  EvidenceInv
<1>1. LogIndex = {} /\ height = 0
  BY DEF ChainInit, LogIndex
<1>2. \A c \in Call : call[c].op = "idle"
  BY IdleRequest
<1>3. \A w \in Loop : job[w] = NoJob
  BY DEF WatcherInit
<1>4. NoJob.pc = "idle" /\ "poll" \in Loop
  BY DEF NoJob, Loop
<1>5. Intentions
  BY <1>2 DEF Intentions
<1>6. Genuine
  BY <1>1 DEF Genuine, WatcherInit
<1>7. Polling
  BY <1>1, <1>3, <1>4 DEF Polling, WatcherInit
<1>8. TasksSettled
  BY <1>3, <1>4 DEF TasksSettled, TaskSettled
<1>9. NoneLost
  BY <1>1 DEF NoneLost
<1>10. QED
  BY <1>5, <1>6, <1>7, <1>8, <1>9 DEF EvidenceInv

(* So it is at first. *)
LEMMA EvidenceInit == Init => KyaInv /\ EvidenceInv
<1> SUFFICES ASSUME Init PROVE KyaInv /\ EvidenceInv
  OBVIOUS
<1>1. NoEnrollment.intent = FALSE /\ NoEnrollment.userOp = None
  BY DEF NoEnrollment
<1>2. \A a \in Agent : Intended(enrollment[a])
  BY <1>1 DEF Init, CeremonyInit, StoreInit, Intended
<1>3. call = [c \in Call |-> Idle]
  BY DEF Init, CeremonyInit, StoreInit
<1>4. QED
  BY <1>2, <1>3, KyaInit, EvidenceStarts DEF Init

(* So it is with an agent whose intent is prepared. *)
LEMMA PreparedStarts ==
    ASSUME PreparedInit, "verified" \in KycEvent
    PROVE  KyaInv /\ EvidenceInv
<1>1. PICK a \in Agent, o \in Owner, k \in Key, s \in Session :
        /\ Agent = {a}
        /\ ChainInit
        /\ enrollment = [x \in Agent |->
             [NoEnrollment EXCEPT !.status = "awaiting_onchain",
                !.principal = o, !.key = k, !.claimed = TRUE,
                !.approved = TRUE, !.intent = TRUE]]
        /\ kyc = [x \in Owner |-> IF x = o THEN "verified" ELSE "absent"]
        /\ kycSession = [x \in Session |->
                           IF x = s THEN [owner |-> o, events |-> {"verified"}]
                           ELSE [owner |-> None, events |-> {}]]
        /\ credentials = <<>>
        /\ approvals = {<<a, o, k>>}
        /\ call = [c \in Call |-> Idle]
        /\ AccessInit
        /\ WatcherInit
  BY DEF PreparedInit
<1>2. PICK e : e = [NoEnrollment EXCEPT !.status = "awaiting_onchain",
                      !.principal = o, !.key = k, !.claimed = TRUE,
                      !.approved = TRUE, !.intent = TRUE]
  OBVIOUS
<1>3. e = [status |-> "awaiting_onchain", principal |-> o, key |-> k,
           claimed |-> TRUE, lapsed |-> FALSE, approved |-> TRUE,
           intent |-> TRUE, userOp |-> None, tx |-> None, agentId |-> None,
           owner |-> None, delivered |-> FALSE]
  BY <1>2 DEF NoEnrollment
<1>4. /\ e \in EnrollmentRecord /\ e.status = "awaiting_onchain"
      /\ e.principal = o /\ e.key = k /\ e.intent /\ e.userOp = None
      /\ e.tx = None /\ e.agentId = None
  BY <1>3 DEF EnrollmentRecord, Statuses
<1>5. enrollment \in [Agent -> EnrollmentRecord] /\ \A b \in Agent : enrollment[b] = e
  BY <1>1, <1>2, <1>4
<1>6. \A b \in Agent : <<b, o, k>> \in approvals
  BY <1>1
<1>7. EnrollmentsSound
  BY <1>4, <1>5, <1>6 DEF EnrollmentsSound, RecordSound
<1>8. EvidenceInv
  BY <1>1, <1>4, <1>5, EvidenceStarts DEF Intended
<1>9. ChainTypeOK /\ OwnersAreLogged
  BY <1>1 DEF ChainInit, ChainTypeOK, OwnersAreLogged, LogIndex
<1>10. call \in [Call -> RequestRecord] /\ \A c \in Call : CallSound(c)
  BY <1>1, IdleRequest DEF CallSound
<1>11. /\ credentials \in Seq(CredentialRecord) /\ CredentialsApproved
       /\ OneActiveCredential
  BY <1>1 DEF CredentialsApproved, OneActiveCredential
<1>12. /\ kyc \in [Owner -> KycStatuses]
       /\ approvals \subseteq Agent \X Owner \X Key
  BY <1>1 DEF KycStatuses
<1>13. kycSession \in [Session -> [owner : Owner \cup {None},
                                   events : SUBSET KycEvent]]
  BY <1>1
<1>14. CeremonyTypeOK
  BY <1>5, <1>10, <1>11, <1>12, <1>13 DEF CeremonyTypeOK, StoreTypeOK, RequestRecord
<1>15. WatcherSound
  BY <1>1, NewJobs DEF WatcherInit, WatcherSound, JobSound
<1>16. AccessTypeOK /\ AccessSound /\ NonceYieldsToken
  BY <1>1, FS_EmptySet DEF AccessInit, AccessTypeOK, AccessSound, NonceYieldsToken
<1>17. QED
  BY <1>7, <1>8, <1>9, <1>10, <1>11, <1>14, <1>15, <1>16 DEF KyaInv, Typed

(* Any step keeps it, and so does none. *)
LEMMA EvidenceNext ==
    ASSUME KyaInv, EvidenceInv, Undisturbed,
           (Next /\ RecordedFirst) \/ UNCHANGED vars
    PROVE  KyaInv' /\ EvidenceInv'
<1>1. KyaInv'
  BY KyaStep
<1>2. CASE UNCHANGED vars
  <2>1. UNCHANGED <<chainVars, watcherVars>>
    BY <1>2 DEF vars
  <2>2. UNCHANGED <<enrollment, call>>
    BY <1>2 DEF vars, ceremonyVars, storeVars
  <2>3. Intentions' /\ \A b \in Agent : Onward(enrollment[b], enrollment'[b])
    BY <2>2 DEF EvidenceInv, Intentions, Onward
  <2>4. QED
    BY <1>1, <2>1, <2>3, WatcherRests DEF EvidenceInv
<1>3. QED
  BY <1>1, <1>2, EvidenceStep

(* A registration that its principal reported and minted is not lost: a log *)
(* that was read waits in memory or is being applied, whatever the store's  *)
(* lock fails, however many people, tokens and blocks there are.            *)
THEOREM PreparedEvidence ==
    ASSUME Undisturbed, "verified" \in KycEvent
    PROVE  PreparedSpec => []EvidenceIsKept
<1>1. KyaInv /\ EvidenceInv /\ [Next /\ RecordedFirst /\ UNCHANGED situation]_<<vars, situation>>
        => (KyaInv /\ EvidenceInv)'
  BY EvidenceNext
<1>2. KyaInv /\ EvidenceInv => EvidenceIsKept
  BY EvidenceEnough
<1>3. QED
  BY <1>1, <1>2, PreparedStarts, PTL DEF PreparedSpec

(* The platform, from the start, when operations are reported first. *)
RecordedSpec == Init /\ [][Next /\ RecordedFirst]_vars

(* So it is for any number of agents that go through the whole ceremony.    *)
THEOREM RecordedEvidence ==
    ASSUME Undisturbed
    PROVE  RecordedSpec => []EvidenceIsKept
<1>1. KyaInv /\ EvidenceInv /\ [Next /\ RecordedFirst]_vars => (KyaInv /\ EvidenceInv)'
  BY EvidenceNext
<1>2. KyaInv /\ EvidenceInv => EvidenceIsKept
  BY EvidenceEnough
<1>3. QED
  BY <1>1, <1>2, EvidenceInit, PTL DEF RecordedSpec

-----------------------------------------------------------------------------
(* Delivery of a credential to its device (DeviceDelivery). *)

(* A copy that has the row's version is the row. *)
CopiesAreCurrent ==
    \A r \in Request : /\ copy[r].version <= row.version
                       /\ copy[r].version = row.version => copy[r] = row

(* A poll that holds a signed credential read a row that was not delivered. *)
SignedBeforeDelivery ==
    \A r \in Request :
        /\ pc[r] \in {"idle", "queued"} => ~signed[r]
        /\ r \in Poll /\ pc[r] = "signing" => ~copy[r].delivered
        /\ pc[r] = "saving" /\ signed[r] => ~copy[r].delivered

(* The inductive invariant. *)
DeliveryInv ==
    /\ DeliveryTypeOK /\ CopiesAreCurrent /\ SignedBeforeDelivery /\ DeliveredOnce

(* How far a request may be, and the callbacks of an instance. *)
Stages == {"idle", "queued", "signing", "saving", "keyqueued", "keysaving"} \cup Ended
Callbacks == Request \X {"poll", "key"}

(* Request r goes to stage to. *)
LEMMA AdvanceStep ==
    ASSUME DeliveryTypeOK, NEW r \in Request, NEW to \in Stages, Advance(r, to)
    PROVE  /\ pc' \in [Request -> Stages] /\ pc'[r] = to /\ crashes' \in Nat
           /\ \A s \in Request \ {r} : pc'[s] = pc[s]
BY DEF DeliveryTypeOK, Advance, Stages

(* A callback is queued, and the running one ends. *)
LEMMA ChainSteps ==
    ASSUME DeliveryTypeOK, NEW r \in Request, NEW callback \in {"poll", "key"},
           \/ Enqueue(r, callback)
           \/ Runs(r, callback) /\ Release(r)
    PROVE  chain' \in [Instance -> Seq(Callbacks)]
<1>1. PICK i : i = at[r]
  OBVIOUS
<1>2. i \in Instance /\ chain \in [Instance -> Seq(Callbacks)]
  BY <1>1, DeliveryAssumption DEF DeliveryTypeOK, Callbacks
<1>3. CASE Enqueue(r, callback)
  <2>1. <<r, callback>> \in Callbacks
    BY DEF Callbacks
  <2>2. Append(chain[i], <<r, callback>>) \in Seq(Callbacks)
    BY <1>2, <2>1
  <2>3. chain' = [chain EXCEPT ![i] = Append(chain[i], <<r, callback>>)]
    BY <1>1, <1>3 DEF Enqueue
  <2>4. QED
    BY <1>2, <2>2, <2>3
<1>4. CASE Runs(r, callback) /\ Release(r)
  <2>1. chain[i] \in Seq(Callbacks) /\ chain[i] # <<>>
    BY <1>1, <1>2, <1>4 DEF Runs
  <2>2. Tail(chain[i]) \in Seq(Callbacks)
    BY <2>1
  <2>3. chain' = [chain EXCEPT ![i] = Tail(chain[i])]
    BY <1>1, <1>4 DEF Release
  <2>4. QED
    BY <1>2, <2>2, <2>3
<1>5. QED
  BY <1>3, <1>4

(* The row is copied. *)
LEMMA LoadStep ==
    ASSUME DeliveryTypeOK, CopiesAreCurrent, NEW r \in Request, Load(r), UNCHANGED row
    PROVE  /\ copy' \in [Request -> Row] /\ copy'[r] = row
           /\ \A s \in Request \ {r} : copy'[s] = copy[s]
           /\ CopiesAreCurrent'
<1>1. /\ copy' \in [Request -> Row] /\ copy'[r] = row
      /\ \A s \in Request \ {r} : copy'[s] = copy[s]
  BY DEF Load, DeliveryTypeOK
<1>2. row.version \in Nat
  BY DEF DeliveryTypeOK, Row
<1>3. CopiesAreCurrent'
  BY <1>1, <1>2 DEF CopiesAreCurrent
<1>4. QED
  BY <1>1, <1>3

(* The row gets another version, which nobody has a copy of. *)
LEMMA RowMoves ==
    ASSUME DeliveryTypeOK, CopiesAreCurrent, UNCHANGED copy,
           row'.version = row.version + 1
    PROVE  CopiesAreCurrent'
<1>1. row.version \in Nat /\ \A r \in Request : copy[r].version \in Nat
  BY DEF DeliveryTypeOK, Row
<1>2. QED
  BY <1>1 DEF CopiesAreCurrent

(* One request goes on and nobody is given the credential. *)
LEMMA NobodyServed ==
    ASSUME DeliveredOnce, NEW r \in Request, pc'[r] # "credential",
           \A s \in Request \ {r} : pc'[s] = pc[s], row.delivered => row'.delivered
    PROVE  DeliveredOnce'
BY DEF DeliveredOnce

(* One request goes on and keeps what it needs. *)
LEMMA OthersSigned ==
    ASSUME SignedBeforeDelivery, NEW r \in Request,
           \A s \in Request \ {r} : pc'[s] = pc[s] /\ signed'[s] = signed[s]
                                    /\ copy'[s] = copy[s],
           pc'[r] \in {"idle", "queued"} => ~signed'[r],
           r \in Poll /\ pc'[r] = "signing" => ~copy'[r].delivered,
           pc'[r] = "saving" /\ signed'[r] => ~copy'[r].delivered
    PROVE  SignedBeforeDelivery'
BY DEF SignedBeforeDelivery

(* Steps that leave the row and the copies alone. *)
LEMMA QuietSteps ==
    ASSUME DeliveryInv, NEW r \in Request,
           PollEnter(r) \/ SignStart(r) \/ Sign(r) \/ KeyEnter(r) \/ Fails(r)
    PROVE  DeliveryInv'
<1>1. UNCHANGED <<row, copy>>
  BY DEF PollEnter, SignStart, Sign, KeyEnter, Fails
<1>2. PICK to \in Stages : /\ Advance(r, to) /\ to # "credential"
                           /\ to = "queued" => pc[r] = "idle"
                           /\ to = "signing" => r \notin Poll
                           /\ to = "saving" => r \in Poll /\ pc[r] = "signing"
                           /\ to # "idle"
  BY DEF PollEnter, SignStart, Sign, KeyEnter, Fails, Stages, Ended
<1>3. /\ pc' \in [Request -> Stages] /\ pc'[r] = to /\ crashes' \in Nat
      /\ \A s \in Request \ {r} : pc'[s] = pc[s]
  BY <1>2, AdvanceStep DEF DeliveryInv
<1>4. chain' \in [Instance -> Seq(Callbacks)]
  <2>1. CASE SignStart(r) \/ Sign(r)
    BY <2>1 DEF SignStart, Sign, DeliveryInv, DeliveryTypeOK, Callbacks
  <2>2. CASE PollEnter(r)
    BY <2>2, ChainSteps DEF PollEnter, DeliveryInv
  <2>3. CASE KeyEnter(r)
    BY <2>3, ChainSteps DEF KeyEnter, DeliveryInv
  <2>4. CASE Fails(r)
    BY <2>4, ChainSteps DEF Fails, DeliveryInv
  <2>5. QED
    BY <2>1, <2>2, <2>3, <2>4
<1>5. /\ signed' \in [Request -> BOOLEAN]
      /\ \A s \in Request \ {r} : signed'[s] = signed[s]
      /\ to = "queued" => signed'[r] = signed[r]
  BY <1>2, <1>3 DEF PollEnter, SignStart, Sign, KeyEnter, Fails, DeliveryInv,
                    DeliveryTypeOK
<1>6. DeliveryTypeOK'
  BY <1>1, <1>3, <1>4, <1>5 DEF DeliveryInv, DeliveryTypeOK, Stages, Callbacks
<1>7. CopiesAreCurrent'
  BY <1>1 DEF DeliveryInv, CopiesAreCurrent
<1>8. SignedBeforeDelivery'
  <2>1. pc'[r] \in {"idle", "queued"} => ~signed'[r]
    BY <1>2, <1>3, <1>5 DEF DeliveryInv, SignedBeforeDelivery
  <2>2. ~(r \in Poll /\ pc'[r] = "signing")
    BY <1>2, <1>3
  <2>3. pc'[r] = "saving" => ~copy'[r].delivered
    BY <1>1, <1>2, <1>3 DEF DeliveryInv, SignedBeforeDelivery
  <2>4. QED
    BY <1>1, <1>3, <1>5, <2>1, <2>2, <2>3, OthersSigned DEF DeliveryInv
<1>9. DeliveredOnce'
  BY <1>1, <1>2, <1>3, NobodyServed DEF DeliveryInv
<1>10. QED
  BY <1>6, <1>7, <1>8, <1>9 DEF DeliveryInv

(* A callback loads the row. *)
LEMMA LoadSteps ==
    ASSUME DeliveryInv, NEW r \in Request, PollLoad(r) \/ KeyLoad(r)
    PROVE  DeliveryInv'
<1>1. UNCHANGED <<row, chain, signed>> /\ Load(r)
  BY DEF PollLoad, KeyLoad
<1>2. PICK to \in Stages : /\ Advance(r, to) /\ to # "credential"
                           /\ to \notin {"idle", "queued"}
                           /\ to = "signing" => ~row.delivered
                           /\ to = "saving" => pc[r] = "queued"
  BY DEF PollLoad, KeyLoad, Stages, Ended
<1>3. /\ pc' \in [Request -> Stages] /\ pc'[r] = to /\ crashes' \in Nat
      /\ \A s \in Request \ {r} : pc'[s] = pc[s]
  BY <1>2, AdvanceStep DEF DeliveryInv
<1>4. /\ copy' \in [Request -> Row] /\ copy'[r] = row
      /\ \A s \in Request \ {r} : copy'[s] = copy[s]
      /\ CopiesAreCurrent'
  BY <1>1, LoadStep DEF DeliveryInv
<1>5. DeliveryTypeOK'
  BY <1>1, <1>3, <1>4 DEF DeliveryInv, DeliveryTypeOK, Stages
<1>6. SignedBeforeDelivery'
  <2>1. pc'[r] = "saving" => ~signed'[r]
    BY <1>1, <1>2, <1>3 DEF DeliveryInv, SignedBeforeDelivery
  <2>2. pc'[r] = "signing" => ~copy'[r].delivered
    BY <1>2, <1>3, <1>4
  <2>3. QED
    BY <1>1, <1>2, <1>3, <1>4, <2>1, <2>2, OthersSigned DEF DeliveryInv
<1>7. DeliveredOnce'
  BY <1>1, <1>2, <1>3, NobodyServed DEF DeliveryInv
<1>8. QED
  BY <1>4, <1>5, <1>6, <1>7 DEF DeliveryInv

(* A callback writes what it made of its copy.  The credential is told only *)
(* by a swap that matched a row on which it was not marked as delivered.    *)
LEMMA SaveSteps ==
    ASSUME DeliveryInv, NEW r \in Request, PollSave(r) \/ KeySave(r)
    PROVE  DeliveryInv'
<1>1. PICK c : c = copy[r]
  OBVIOUS
<1>2. c \in Row /\ kid[at[r]] \in Kid
  BY <1>1, DeliveryAssumption DEF DeliveryInv, DeliveryTypeOK
<1>3. \E new \in Row, told \in Ended :
         /\ c.delivered => new.delivered
         /\ told = "credential" => new.delivered /\ ~c.delivered
         /\ told # "refused"
         /\ CompareAndSwap(r, new, told)
  <2>1. CASE PollSave(r)
    <3>1. PICK new, told : /\ new = Delivered(r)
                           /\ told = IF signed[r] THEN "credential" ELSE "complete"
      OBVIOUS
    <3>2. /\ new \in Row /\ (c.delivered => new.delivered)
          /\ (signed[r] => new.delivered)
      <4>1. PICK b \in BOOLEAN : b = (c.delivered \/ signed[r])
        OBVIOUS
      <4>2. new = [c EXCEPT !.delivered = b]
        BY <1>1, <3>1, <4>1 DEF Delivered
      <4>3. new \in Row /\ new.delivered = b
        BY <1>2, <4>1, <4>2 DEF Row
      <4>4. QED
        BY <4>1, <4>3
    <3>3. told \in Ended /\ (told = "credential" => signed[r]) /\ told # "refused"
      BY <3>1 DEF Ended
    <3>4. signed[r] => ~c.delivered
      BY <2>1, <1>1 DEF PollSave, DeliveryInv, SignedBeforeDelivery
    <3>5. CompareAndSwap(r, new, told)
      BY <2>1, <3>1 DEF PollSave
    <3>6. QED
      BY <3>2, <3>3, <3>4, <3>5
  <2>2. CASE KeySave(r)
    <3>1. PICK new : new = [c EXCEPT !.active = kid[at[r]]]
      OBVIOUS
    <3>2. new \in Row /\ new.delivered = c.delivered
      BY <1>2, <3>1 DEF Row
    <3>3. CompareAndSwap(r, new, "signed") /\ "signed" \in Ended
      BY <2>2, <1>1, <3>1 DEF KeySave, Ended
    <3>4. QED
      BY <3>2, <3>3
  <2>3. QED
    BY <2>1, <2>2
<1>4. PICK new \in Row, told \in Ended :
         /\ c.delivered => new.delivered
         /\ told = "credential" => new.delivered /\ ~c.delivered
         /\ told # "refused"
         /\ CompareAndSwap(r, new, told)
  BY <1>3
<1>5. UNCHANGED <<copy, signed>>
  BY <1>4 DEF CompareAndSwap
<1>6. chain' \in [Instance -> Seq(Callbacks)]
  BY <1>4, ChainSteps DEF CompareAndSwap, PollSave, KeySave, DeliveryInv
<1>7. PICK to \in Ended :
         /\ Advance(r, to) /\ to \in {told, "unknown", "refused"}
         /\ \/ /\ row' = [new EXCEPT !.version = row.version + 1]
               /\ copy[r].version = row.version /\ to # "refused"
            \/ UNCHANGED row /\ to = "refused"
  <2>1. told \in Ended /\ told # "refused"
    BY <1>4
  <2>2. {"unknown", "refused"} \subseteq Ended
    BY DEF Ended
  <2>3. CASE /\ Matches(r) /\ row' = [new EXCEPT !.version = row.version + 1]
             /\ Advance(r, told)
    BY <2>1, <2>3 DEF Matches
  <2>4. CASE /\ Matches(r) /\ row' = [new EXCEPT !.version = row.version + 1]
             /\ Advance(r, "unknown")
    BY <2>2, <2>4 DEF Matches
  <2>5. CASE UNCHANGED row /\ Advance(r, "refused")
    BY <2>2, <2>5
  <2>6. QED
    BY <1>4, <2>3, <2>4, <2>5 DEF CompareAndSwap
<1>8. to \in Stages
  BY DEF Stages
<1>9. /\ pc' \in [Request -> Stages] /\ pc'[r] = to /\ crashes' \in Nat
      /\ \A s \in Request \ {r} : pc'[s] = pc[s]
  BY <1>7, <1>8, AdvanceStep DEF DeliveryInv
<1>10. SignedBeforeDelivery'
  BY <1>5, <1>9, OthersSigned DEF DeliveryInv, Ended
<1>11. CASE UNCHANGED row /\ to = "refused"
  <2>1. DeliveryTypeOK'
    BY <1>5, <1>6, <1>9, <1>11 DEF DeliveryInv, DeliveryTypeOK, Stages, Callbacks
  <2>2. CopiesAreCurrent'
    BY <1>5, <1>11 DEF DeliveryInv, CopiesAreCurrent
  <2>3. DeliveredOnce'
    BY <1>9, <1>11, NobodyServed DEF DeliveryInv
  <2>4. QED
    BY <1>10, <2>1, <2>2, <2>3 DEF DeliveryInv
<1>12. CASE /\ row' = [new EXCEPT !.version = row.version + 1]
            /\ copy[r].version = row.version /\ to # "refused"
  <2>1. row.version + 1 \in Nat
    BY DEF DeliveryInv, DeliveryTypeOK, Row
  <2>2. row' \in Row /\ row'.version = row.version + 1 /\ row'.delivered = new.delivered
    BY <1>12, <2>1 DEF Row
  <2>3. row = c
    BY <1>1, <1>12 DEF DeliveryInv, CopiesAreCurrent
  <2>4. DeliveryTypeOK'
    BY <1>5, <1>6, <1>9, <2>2 DEF DeliveryInv, DeliveryTypeOK, Stages, Callbacks
  <2>5. CopiesAreCurrent'
    BY <1>5, <2>2, RowMoves DEF DeliveryInv
  <2>6. row.delivered => row'.delivered
    BY <1>4, <2>2, <2>3
  <2>7. CASE to # "credential"
    <3>1. DeliveredOnce'
      BY <1>9, <2>6, <2>7, NobodyServed DEF DeliveryInv
    <3>2. QED
      BY <1>10, <2>4, <2>5, <3>1 DEF DeliveryInv
  <2>8. CASE to = "credential"
    <3>1. ~row.delivered /\ row'.delivered
      BY <1>4, <1>7, <2>2, <2>3, <2>8
    <3>2. \A s \in Request : pc[s] # "credential"
      BY <3>1 DEF DeliveryInv, DeliveredOnce
    <3>3. DeliveredOnce'
      BY <1>9, <3>1, <3>2 DEF DeliveredOnce
    <3>4. QED
      BY <1>10, <2>4, <2>5, <3>3 DEF DeliveryInv
  <2>9. QED
    BY <2>7, <2>8
<1>13. QED
  BY <1>7, <1>11, <1>12

(* An instance stops and starts with its key. *)
LEMMA CrashKeepsDelivery ==
    ASSUME DeliveryInv, NEW i \in Instance, Crash(i) PROVE DeliveryInv'
<1>1. UNCHANGED <<copy, signed>> /\ crashes' \in Nat
  BY DEF Crash, DeliveryInv, DeliveryTypeOK
<1>2. \A r \in Request : \/ pc'[r] = pc[r]
                         \/ pc'[r] = "unknown" /\ pc[r] \notin Ended
  BY DEF Crash
<1>3. pc' \in [Request -> Stages]
  BY DEF Crash, DeliveryInv, DeliveryTypeOK, Stages, Ended
<1>4. chain' \in [Instance -> Seq(Callbacks)]
  <2>1. <<>> \in Seq(Callbacks)
    OBVIOUS
  <2>2. QED
    BY <2>1 DEF Crash, DeliveryInv, DeliveryTypeOK, Callbacks
<1>5. /\ row' \in Row /\ (row.delivered => row'.delivered)
      /\ UNCHANGED row \/ row'.version = row.version + 1
  <2>1. CASE row.active = kid[i]
    BY <2>1 DEF Crash, DeliveryInv, DeliveryTypeOK
  <2>2. CASE row.active # kid[i]
    <3>1. PICK w, k, d : row = [version |-> w, active |-> k, delivered |-> d]
                         /\ w \in Nat /\ d \in BOOLEAN
      BY DEF DeliveryInv, DeliveryTypeOK, Row
    <3>2. kid[i] \in Kid
      BY DeliveryAssumption
    <3>3. PICK u : u = [row EXCEPT !.version = row.version + 1]
      OBVIOUS
    <3>4. u = [version |-> w + 1, active |-> k, delivered |-> d]
      BY <3>1, <3>3
    <3>5. row' = [u EXCEPT !.active = kid[i]]
      BY <2>2, <3>3 DEF Crash
    <3>6. row' = [version |-> w + 1, active |-> kid[i], delivered |-> d]
      BY <3>4, <3>5
    <3>7. row' \in Row
      BY <3>1, <3>2, <3>6 DEF Row
    <3>8. row'.version = row.version + 1 /\ (row.delivered => row'.delivered)
      BY <3>1, <3>6
    <3>9. QED
      BY <3>7, <3>8
  <2>3. QED
    BY <2>1, <2>2
<1>6. DeliveryTypeOK'
  BY <1>1, <1>3, <1>4, <1>5 DEF DeliveryInv, DeliveryTypeOK, Stages, Callbacks
<1>7. CopiesAreCurrent'
  BY <1>1, <1>5, RowMoves DEF DeliveryInv, CopiesAreCurrent
<1>8. SignedBeforeDelivery' /\ DeliveredOnce'
  BY <1>1, <1>2, <1>5 DEF DeliveryInv, SignedBeforeDelivery, DeliveredOnce, Ended
<1>9. QED
  BY <1>6, <1>7, <1>8 DEF DeliveryInv

(* The invariant holds at the start and through every step. *)
THEOREM DeliveryInvariant == DeliverySpec => []DeliveryInv
<1>1. DeliveryInit => DeliveryInv
  <2> SUFFICES ASSUME DeliveryInit PROVE DeliveryInv
    OBVIOUS
  <2>1. row \in Row /\ ~row.delivered
    <3>1. PICK k \in {kid[i] : i \in Instance} :
             row = [version |-> 0, active |-> k, delivered |-> FALSE]
      BY DEF DeliveryInit
    <3>2. k \in Kid
      BY DeliveryAssumption
    <3>3. QED
      BY <3>1, <3>2 DEF Row
  <2>2. DeliveryTypeOK
    BY <2>1 DEF DeliveryInit, DeliveryTypeOK
  <2>3. row.version \in Nat
    BY <2>1 DEF Row
  <2>4. CopiesAreCurrent /\ SignedBeforeDelivery /\ DeliveredOnce
    BY <2>1, <2>3 DEF DeliveryInit, CopiesAreCurrent, SignedBeforeDelivery, DeliveredOnce
  <2>5. QED
    BY <2>2, <2>4 DEF DeliveryInv
<1>2. DeliveryInv /\ [DeliveryNext]_deliveryVars => DeliveryInv'
  <2> SUFFICES ASSUME DeliveryInv, [DeliveryNext]_deliveryVars PROVE DeliveryInv'
    OBVIOUS
  <2>1. CASE UNCHANGED deliveryVars
    BY <2>1 DEF deliveryVars, DeliveryInv, DeliveryTypeOK, CopiesAreCurrent,
                SignedBeforeDelivery, DeliveredOnce
  <2>2. QED
    BY <2>1, QuietSteps, LoadSteps, SaveSteps, CrashKeepsDelivery DEF DeliveryNext, Step
<1>3. QED
  BY <1>1, <1>2, PTL DEF DeliverySpec

(* The row, the chains of callbacks and the requests are well typed. *)
THEOREM DeliveryTypeCorrect == DeliverySpec => []DeliveryTypeOK
<1>1. DeliveryInv => DeliveryTypeOK
  BY DEF DeliveryInv
<1>2. QED
  BY <1>1, DeliveryInvariant, PTL

(* One poll at most is given the credential, and the mark of it stays.      *)
THEOREM CredentialDelivered == DeliverySpec => []DeliveredOnce
<1>1. DeliveryInv => DeliveredOnce
  BY DEF DeliveryInv
<1>2. QED
  BY <1>1, DeliveryInvariant, PTL

===============================================================================
