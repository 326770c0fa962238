----------------------------- MODULE DpopReplay -----------------------------
(***************************************************************************)
(* Single use of a DPoP proof: createRequireAgentAuth (src/src/auth/dpop.ts)*)
(* validates a proof, asks the chain for the owner and only then consumes  *)
(* the proof's jti; consumeDpopReplayAtomic                                *)
(* (src/src/persistence/repository.ts, supabase-repository.ts and the SQL  *)
(* function kya_consume_dpop_replay) forgets records that have expired.    *)
(*                                                                         *)
(* A request is three steps, and the clock goes on between them.  The      *)
(* record is pruned by the clock of the store, which may run ahead of the  *)
(* servers' by drift.  Signature, htm, htu and ath hold: a proof that      *)
(* fails them ends at once.                                                *)
(***************************************************************************)
EXTENDS Integers

CONSTANTS
    Proof,
    Request,
    iat,       \* [Proof -> Int]: when the client says it made the proof
    iatSkew,   \* DPOP_IAT_SKEW_SECONDS
    margin,    \* the 60 seconds a record outlives the proof
    maxWait,   \* the longest a request takes from validation to consumption
    drift,     \* the store's clock minus the servers'
    MaxClock   \* bound: the clock

(* No line of the code bounds the wait: the timeouts of the RPC client and  *)
(* of the database do.  Together with the drift they must stay below the    *)
(* margin.                                                                  *)
ASSUME DpopAssumption ==
    /\ iat \in [Proof -> Int]
    /\ iatSkew \in Nat /\ margin \in Nat /\ maxWait \in Nat
    /\ drift \in Int /\ MaxClock \in Nat
    /\ maxWait + drift < margin

VARIABLES
    clock,
    proof,        \* the proof each request carries
    stage,           \* how far each request is
    validatedAt,  \* when its proof was validated
    replays       \* dpopReplays: the proofs whose jti is on record

dpopVars == <<clock, proof, stage, validatedAt, replays>>

DpopTypeOK ==
    /\ clock \in 0..MaxClock
    /\ proof \in [Request -> Proof]
    /\ stage \in [Request -> {"waiting", "validated", "owned", "served", "refused"}]
    /\ validatedAt \in [Request -> Int]
    /\ replays \subseteq Proof

DpopInit ==
    /\ clock = 0
    /\ proof \in [Request -> Proof]
    /\ stage = [r \in Request |-> "waiting"]
    /\ validatedAt = [r \in Request |-> 0]
    /\ replays = {}

(* Math.abs(now - iat) <= DPOP_IAT_SKEW_SECONDS. *)
InWindow(p) == clock - iat[p] <= iatSkew /\ iat[p] - clock <= iatSkew

Goto(r, to) == stage' = [stage EXCEPT ![r] = to] /\ UNCHANGED <<clock, proof>>

Validate(r) ==
    /\ stage[r] = "waiting"
    /\ InWindow(proof[r])
    /\ validatedAt' = [validatedAt EXCEPT ![r] = clock]
    /\ Goto(r, "validated")
    /\ UNCHANGED replays

(* ownerOf names the principal's wallet ... *)
OwnerMatches(r) ==
    /\ stage[r] = "validated"
    /\ Goto(r, "owned")
    /\ UNCHANGED <<validatedAt, replays>>

(* ... or another, or the chain cannot be asked: the proof stays unused.    *)
OwnerRefuses(r) ==
    /\ stage[r] = "validated"
    /\ Goto(r, "refused")
    /\ UNCHANGED <<validatedAt, replays>>

\* Deviation (mutant): the record lives only as long as the proof.
ExpiresWithProof(p) == iat[p] + iatSkew

(* replayExpires. *)
Expires(p) == iat[p] + iatSkew + margin

(* The records left after the store has forgotten the expired ones.         *)
Kept == {p \in replays : Expires(p) > clock + drift}

Replayed(r) ==
    /\ stage[r] = "owned"
    /\ proof[r] \in Kept
    /\ replays' = Kept
    /\ Goto(r, "refused")
    /\ UNCHANGED validatedAt

Consumed(r) ==
    /\ stage[r] = "owned"
    /\ proof[r] \notin Kept
    /\ replays' = Kept \cup {proof[r]}
    /\ Goto(r, "served")
    /\ UNCHANGED validatedAt

(* The store is unavailable, or its answer is lost after the insert.        *)
ConsumeFails(r) ==
    /\ stage[r] = "owned"
    /\ replays' \in {replays, Kept \cup {proof[r]}}
    /\ Goto(r, "refused")
    /\ UNCHANGED validatedAt

InFlight(r) == stage[r] \in {"validated", "owned"}

(* Time passes, as far as the requests in flight allow.                     *)
DpopTick ==
    /\ clock < MaxClock
    /\ \A r \in Request :
         InFlight(r) => clock < validatedAt[r] + maxWait
    /\ clock' = clock + 1
    /\ UNCHANGED <<proof, stage, validatedAt, replays>>

RequestStep(r) ==
    \/ Validate(r)
    \/ OwnerMatches(r) \/ OwnerRefuses(r)
    \/ Replayed(r) \/ Consumed(r) \/ ConsumeFails(r)

DpopNext == DpopTick \/ \E r \in Request : RequestStep(r)

DpopSpec == DpopInit /\ [][DpopNext]_dpopVars

-----------------------------------------------------------------------------
(* A proof opens one request at most: two copies validated side by side,    *)
(* a copy kept until the end of its window or made for the future, and      *)
(* owner reads that let the clock run on before the record is looked up     *)
(* ("unique jti", openspec/specs/agent-api-auth/spec.md).                   *)
ProofServedOnce ==
    \A r, s \in Request :
        /\ stage[r] = "served" /\ stage[s] = "served"
        /\ proof[r] = proof[s]
        => r = s

(* Why: the record of a served proof is there as long as a copy of it may   *)
(* still be looked up, and a copy in flight was validated in its window.    *)
RecordOutlivesProof ==
    /\ \A r \in Request :
         InFlight(r) =>
           /\ validatedAt[r] <= iat[proof[r]] + iatSkew
           /\ clock <= validatedAt[r] + maxWait
    /\ \A r \in Request :
         stage[r] = "served" =>
           \/ proof[r] \in replays
           \/ Expires(proof[r]) <= clock + drift

=============================================================================
