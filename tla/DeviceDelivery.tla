--------------------------- MODULE DeviceDelivery ---------------------------
(***************************************************************************)
(* Delivery of an agent's credential to its device:                        *)
(* pollDeviceEnrollmentToken (src/src/services/ceremony.ts) signs the      *)
(* credential inside withLock, and ensureSigningKey                        *)
(* (src/src/credentials/signer.ts) takes the same lock when the store's    *)
(* active key is not the one this instance is configured with.             *)
(*                                                                         *)
(* Several instances share the versioned row of CasStore.  An instance     *)
(* runs the callbacks of its promise chain one after the other, each with  *)
(* a load and a compare-and-swap.  The enrollment is bound and has an      *)
(* active credential.  Sessions, access tokens and a start of the server   *)
(* ask for the signing key outside the lock: the requests that do not poll.*)
(***************************************************************************)
EXTENDS Integers, Sequences, SequencesExt

CONSTANTS
    Instance,
    Kid,
    kid,        \* [Instance -> Kid]: the key it is configured with
    Request,
    Poll,       \* the requests that poll; the others only sign
    at,         \* [Request -> Instance]
    MaxCrashes  \* bound

ASSUME DeliveryAssumption ==
    /\ kid \in [Instance -> Kid]
    /\ Poll \subseteq Request
    /\ at \in [Request -> Instance]
    /\ MaxCrashes \in Nat

VARIABLES
    row,      \* kya_state: version, the active signing key, credentialDeliveredAt
    chain,    \* [Instance -> the callbacks that run or wait, first one running]
    pc,       \* [Request -> how far it is, in the end what its caller is told]
    copy,     \* [Request -> the row it loaded under the lock]
    signed,   \* [Request -> whether it holds a signed credential]
    crashes

deliveryVars == <<row, chain, pc, copy, signed, crashes>>

Row == [version : Nat, active : Kid, delivered : BOOLEAN]
Ended == {"credential", "complete", "signed", "refused", "unknown"}

DeliveryTypeOK ==
    /\ row \in Row
    /\ chain \in [Instance -> Seq(Request \X {"poll", "key"})]
    /\ pc \in [Request -> {"idle", "queued", "signing", "saving", "keyqueued",
                           "keysaving"} \cup Ended]
    /\ copy \in [Request -> Row]
    /\ signed \in [Request -> BOOLEAN]
    /\ crashes \in Nat

(* The server listens after it has made its key the active one.             *)
DeliveryInit ==
    /\ row \in [version : {0}, active : {kid[i] : i \in Instance},
                delivered : {FALSE}]
    /\ chain = [i \in Instance |-> <<>>]
    /\ pc = [r \in Request |-> "idle"]
    /\ copy = [r \in Request |-> row]
    /\ signed = [r \in Request |-> FALSE]
    /\ crashes = 0

-----------------------------------------------------------------------------
(* withLock. *)

Enqueue(r, callback) ==
    chain' = [chain EXCEPT ![at[r]] = Append(@, <<r, callback>>)]

Runs(r, callback) ==
    chain[at[r]] # <<>> /\ Head(chain[at[r]]) = <<r, callback>>

(* The callback has ended, well or not: the next one runs.                  *)
Release(r) == chain' = [chain EXCEPT ![at[r]] = Tail(@)]

Load(r) == copy' = [copy EXCEPT ![r] = row]

Advance(r, to) == pc' = [pc EXCEPT ![r] = to] /\ UNCHANGED crashes

\* Deviation (mutant): what was loaded is written, whatever the row is now.
MatchesAlways(r) == TRUE

Matches(r) == copy[r].version = row.version

(* The row becomes new, and the caller is told or the answer is lost; or    *)
(* the version has moved: CAS_CONFLICT.                                     *)
CompareAndSwap(r, new, told) ==
    /\ \/ /\ Matches(r)
          /\ row' = [new EXCEPT !.version = row.version + 1]
          /\ Advance(r, told) \/ Advance(r, "unknown")
       \/ /\ ~Matches(r)
          /\ Advance(r, "refused")
          /\ UNCHANGED row
    /\ Release(r)
    /\ UNCHANGED <<copy, signed>>

-----------------------------------------------------------------------------
(* pollDeviceEnrollmentToken. *)

PollEnter(r) ==
    /\ r \in Poll /\ pc[r] = "idle"
    /\ Enqueue(r, "poll")
    /\ Advance(r, "queued")
    /\ UNCHANGED <<row, copy, signed>>

(* Delivered before, or polled too soon: answered without a credential.     *)
PollLoad(r) ==
    /\ pc[r] = "queued" /\ Runs(r, "poll")
    /\ Load(r)
    /\ Advance(r, "saving") \/ (~row.delivered /\ Advance(r, "signing"))
    /\ UNCHANGED <<row, chain, signed>>

Delivered(r) == [copy[r] EXCEPT !.delivered = @ \/ signed[r]]

PollSave(r) ==
    /\ pc[r] = "saving" /\ Runs(r, "poll")
    /\ CompareAndSwap(r, Delivered(r), IF signed[r] THEN "credential" ELSE "complete")

-----------------------------------------------------------------------------
(* ensureSigningKey and the signature, of a poll inside its callback or of  *)
(* any other request outside the lock.                                      *)

SignStart(r) ==
    /\ r \notin Poll /\ pc[r] = "idle"
    /\ Advance(r, "signing")
    /\ UNCHANGED <<row, chain, copy, signed>>

(* The store is read without the lock; the active key is this instance's.   *)
Sign(r) ==
    /\ pc[r] = "signing"
    /\ row.active = kid[at[r]]
    /\ Advance(r, IF r \in Poll THEN "saving" ELSE "signed")
    /\ signed' = [signed EXCEPT ![r] = TRUE]
    /\ UNCHANGED <<row, chain, copy>>

(* It is another instance's: the request waits for the lock.                *)
KeyEnter(r) ==
    /\ pc[r] = "signing"
    /\ row.active # kid[at[r]]
    /\ Enqueue(r, "key")
    /\ Advance(r, "keyqueued")
    /\ UNCHANGED <<row, copy, signed>>

KeyLoad(r) ==
    /\ pc[r] = "keyqueued" /\ Runs(r, "key")
    /\ Load(r)
    /\ Advance(r, "keysaving")
    /\ UNCHANGED <<row, chain, signed>>

KeySave(r) ==
    /\ pc[r] = "keysaving" /\ Runs(r, "key")
    /\ CompareAndSwap(r, [copy[r] EXCEPT !.active = kid[at[r]]], "signed")

-----------------------------------------------------------------------------

\* Deviation (mutant): a callback that throws leaves the chain blocked.
FailsBlocked(r) ==
    /\ pc[r] = "queued" /\ Runs(r, "poll")
    /\ Advance(r, "refused")
    /\ UNCHANGED <<row, chain, copy, signed>>

(* The load fails: the error is the caller's and the chain goes on.         *)
Fails(r) ==
    /\ pc[r] = "queued" /\ Runs(r, "poll")
    /\ Advance(r, "refused")
    /\ Release(r)
    /\ UNCHANGED <<row, copy, signed>>

(* The process stops, and starts again with its key.                        *)
Crash(i) ==
    /\ crashes < MaxCrashes
    /\ crashes' = crashes + 1
    /\ pc' = [r \in Request |-> IF at[r] = i /\ pc[r] \notin Ended \cup {"idle"}
                                THEN "unknown" ELSE pc[r]]
    /\ chain' = [chain EXCEPT ![i] = <<>>]
    /\ row' = IF row.active = kid[i] THEN row
              ELSE [row EXCEPT !.version = @ + 1, !.active = kid[i]]
    /\ UNCHANGED <<copy, signed>>

Step(r) ==
    \/ PollEnter(r) \/ PollLoad(r) \/ PollSave(r)
    \/ SignStart(r) \/ Sign(r)
    \/ KeyEnter(r) \/ KeyLoad(r) \/ KeySave(r)
    \/ Fails(r)

DeliveryNext == (\E r \in Request : Step(r)) \/ (\E i \in Instance : Crash(i))

DeliverySpec == DeliveryInit /\ [][DeliveryNext]_deliveryVars

(* The event loop of an instance runs what can run, and requests come.      *)
DeliveryFairSpec == DeliverySpec /\ \A r \in Request : WF_deliveryVars(Step(r))

-----------------------------------------------------------------------------
(* Properties. *)

(* "MUST deliver the identity credential at most once via durable CAS/lock  *)
(* semantics": one poll at most is answered with the credential, and the    *)
(* mark of its delivery is not lost to what other instances write.          *)
DeliveredOnce ==
    /\ \A r, s \in Request : pc[r] = "credential" /\ pc[s] = "credential" => r = s
    /\ (\E r \in Request : pc[r] = "credential") => row.delivered

(* A poll waits, inside its callback, for the lock that it holds itself:    *)
(* the instance answers nothing that takes the lock until it is restarted.  *)
Blocked(i) == \E p \in Poll : at[p] = i /\ pc[p] = "keyqueued"

(* "without nested-lock deadlock": every request that was begun ends, on    *)
(* every instance but one that a poll has blocked - which takes a store     *)
(* whose active signing key is another instance's.                          *)
RequestsEnd ==
    \A r \in Request :
        pc[r] # "idle" ~> pc[r] \in Ended \/ Blocked(at[r])

=============================================================================
