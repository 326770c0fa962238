------------------------------ MODULE KyaStore ------------------------------
(***************************************************************************)
(* The store shared by the identity ceremony, the credentials and the      *)
(* registry watcher: principals, enrollments and credentials               *)
(* (src/src/domain/types.ts), the enrollment state machine                 *)
(* (src/src/domain/state-machine.ts), and the requests in flight.          *)
(*                                                                         *)
(* Repository.withLock is one step; getStore is a step that keeps what it  *)
(* read in the request.  There is one principal per wallet, so a principal *)
(* is named by its owner.  agentRegistry and registrationIntentHash are    *)
(* written together: one flag.  "lapsed" is a verified KYC past its expiry.*)
(***************************************************************************)
EXTENDS IdentityRegistry

CONSTANTS
    Key,       \* thumbprints of agent keys
    Call,      \* slots for requests in flight
    Nonce,     \* challenge nonces
    Lapses     \* what may run out: subset of {"pairing","kyc","credential","nonce"}

ASSUME StoreAssumption ==
    /\ None \notin Key \cup Call \cup Nonce
    /\ Lapses \subseteq {"pairing", "kyc", "credential", "nonce"}

VARIABLES
    enrollment,    \* [Agent -> EnrollmentRecord]
    kyc,           \* principals: [Owner -> kycStatus]
    credentials,   \* KyaCredentialRecord, in order of issue; jti = index
    approvals,     \* history: <<agent, principal, key>> approved by a human
    call           \* [Call -> request in flight]

storeVars == <<enrollment, kyc, credentials, approvals>>

Statuses == {"absent", "awaiting_human", "awaiting_kyc",
             "awaiting_fingerprint", "awaiting_register", "awaiting_onchain",
             "bound", "suspended", "revoked"}

EnrollmentRecord ==
    [status : Statuses, principal : Owner \cup {None}, key : Key \cup {None},
     claimed : BOOLEAN, lapsed : BOOLEAN, approved : BOOLEAN,
     intent : BOOLEAN, userOp : Token \cup {None}, tx : Token \cup {None},
     agentId : Token \cup {None}, owner : Owner \cup {None},
     delivered : BOOLEAN]

NoEnrollment ==
    [status |-> "absent", principal |-> None, key |-> None,
     claimed |-> FALSE, lapsed |-> FALSE, approved |-> FALSE,
     intent |-> FALSE, userOp |-> None, tx |-> None, agentId |-> None,
     owner |-> None, delivered |-> FALSE]

KycStatuses == {"absent", "pending", "verified", "needs_review", "rejected",
                "expired", "lapsed"}

CredentialRecord ==
    [agent : Agent, principal : Owner, key : Key, agentId : Token,
     owner : Owner, status : {"active", "suspended", "revoked"},
     lapsed : BOOLEAN]

(* A request in flight: where it is and what it has read so far. *)
Idle == [op |-> "idle", agent |-> None, owner |-> None, kyc |-> "absent",
         seen |-> NoEnrollment, cred |-> 0, nonce |-> None]

Ops == {"idle", "pair", "prepare", "rebind", "rebind_owned", "rebind_kyc",
        "rebind_done", "claim", "claim_owned", "verify", "verify_owned"}

StoreTypeOK ==
    /\ enrollment \in [Agent -> EnrollmentRecord]
    /\ kyc \in [Owner -> KycStatuses]
    /\ credentials \in Seq(CredentialRecord)
    /\ approvals \subseteq Agent \X Owner \X Key
    /\ call \in [Call -> [op : Ops, agent : Agent \cup {None},
                          owner : Owner \cup {None}, kyc : KycStatuses,
                          seen : EnrollmentRecord, cred : Nat,
                          nonce : Nonce \cup {None}]]

StoreInit ==
    /\ enrollment = [a \in Agent |-> NoEnrollment]
    /\ kyc = [o \in Owner |-> "absent"]
    /\ credentials = <<>>
    /\ approvals = {}
    /\ call = [c \in Call |-> Idle]

-----------------------------------------------------------------------------
(* isKycActive, canAuthorizeAgent; needsKyc is their negation. *)
KycActive(o) == kyc[o] = "verified"

ENROLLMENT_TRANSITIONS ==
    [s \in Statuses |->
       CASE s = "absent"               -> {"awaiting_human"}
         [] s = "awaiting_human"       -> {"awaiting_kyc",
                                           "awaiting_fingerprint", "revoked"}
         [] s = "awaiting_kyc"         -> {"awaiting_fingerprint",
                                           "awaiting_kyc", "awaiting_human",
                                           "revoked"}
         [] s = "awaiting_fingerprint" -> {"awaiting_register", "bound",
                                           "revoked"}
         [] s = "awaiting_register"    -> {"awaiting_onchain", "revoked"}
         [] s = "awaiting_onchain"     -> {"bound", "revoked"}
         [] s = "bound"                -> {"suspended", "revoked",
                                           "awaiting_fingerprint"}
         [] s = "suspended"            -> {"awaiting_fingerprint", "bound",
                                           "revoked"}
         [] s = "revoked"              -> {}]

\* Deviation (mutant): earlier credentials stay as they are.
MarkCredentialsNot(a, from, status) == credentials

(* The credentials of agent a in one of the given states become status. *)
MarkCredentials(a, from, status) ==
    [i \in DOMAIN credentials |->
       IF credentials[i].agent = a /\ credentials[i].status \in from
       THEN [credentials[i] EXCEPT !.status = status]
       ELSE credentials[i]]

(* The first active credential that has not expired; 0: none. *)
UsableCredentials(a) ==
    {i \in DOMAIN credentials : /\ credentials[i].agent = a
                                /\ credentials[i].status = "active"
                                /\ ~credentials[i].lapsed}
ActiveCredential(a) ==
    IF UsableCredentials(a) = {} THEN 0
    ELSE CHOOSE i \in UsableCredentials(a) :
           \A j \in UsableCredentials(a) : i <= j

Begin(c, request) ==
    /\ call[c].op = "idle"
    /\ call' = [call EXCEPT ![c] = request]

Goto(c, op) == call' = [call EXCEPT ![c].op = op]

Finish(c) == call' = [call EXCEPT ![c] = Idle]

(* A check refuses the request, or the provider, the node or the store      *)
(* fails: it ends, and what it has written so far stays.                    *)
Abandon(c) ==
    /\ call[c].op # "idle"
    /\ Finish(c)
    /\ UNCHANGED storeVars

=============================================================================
