---------------------------- MODULE StoreProofs ----------------------------
(***************************************************************************)
(* The versioned row is an atomic store, for any number of instances and   *)
(* operations; and a DPoP proof is served once, for any number of requests *)
(* and proofs and any times that satisfy DpopAssumption.                   *)
(***************************************************************************)
EXTENDS CasStore, DpopReplay, TLAPS

-----------------------------------------------------------------------------
(* The versioned row. *)

(* The inductive invariant: a copy whose version is the row's is the row.   *)
CasInv == TypeOK /\ CopyIsCurrent

(* The types hold after every step of an operation.                         *)
LEMMA CasTypeStep == TypeOK /\ [Next]_vars => TypeOK'
<1> SUFFICES ASSUME TypeOK, [Next]_vars PROVE TypeOK'
  OBVIOUS
<1> USE DEF TypeOK, Outcome
<1>1. ASSUME NEW o \in Op, Load(o) PROVE TypeOK'
  BY <1>1 DEF Load
<1>2. ASSUME NEW o \in Op, NEW told \in Outcome, Fails(o, told) PROVE TypeOK'
  BY <1>2 DEF Fails
<1>3. ASSUME NEW o \in Op, NEW told \in Outcome, Swap(o, told) PROVE TypeOK'
  BY <1>3 DEF Swap
<1>4. ASSUME NEW o \in Op, Conflict(o) PROVE TypeOK'
  BY <1>4 DEF Conflict
<1>5. CASE UNCHANGED vars
  BY <1>5 DEF vars
<1> QED
  BY <1>1, <1>2, <1>3, <1>4, <1>5 DEF Next

(* CopyIsCurrent survives a load, a failure, a conflict and a swap; after a *)
(* swap no other copy has the row's version.                                *)
LEMMA CopyStep == CasInv /\ [Next]_vars => CopyIsCurrent'
<1> SUFFICES ASSUME CasInv, [Next]_vars PROVE CopyIsCurrent'
  OBVIOUS
<1>t. TypeOK /\ TypeOK'
  BY CasTypeStep DEF CasInv
<1>c. CopyIsCurrent
  BY DEF CasInv
<1>1. ASSUME NEW o \in Op, Load(o) PROVE CopyIsCurrent'
  BY <1>1, <1>t, <1>c DEF Load, TypeOK, CopyIsCurrent
<1>2. ASSUME NEW o \in Op, NEW told \in {"refused", "unknown"}, Fails(o, told)
      PROVE  CopyIsCurrent'
  BY <1>2, <1>t, <1>c DEF Fails, TypeOK, CopyIsCurrent
<1>3. ASSUME NEW o \in Op, NEW told \in {"ok", "unknown"}, Swap(o, told)
      PROVE  CopyIsCurrent'
  <2>1. state' = state \cup {o} /\ version' = version + 1 /\ expected' = expected
        /\ copy' = copy /\ pc' = [pc EXCEPT ![o] = told]
    BY <1>3, <1>c DEF Swap, Matches, CopyIsCurrent
  <2> QED
    BY <2>1, <1>t, <1>c DEF TypeOK, CopyIsCurrent
<1>4. ASSUME NEW o \in Op, Conflict(o) PROVE CopyIsCurrent'
  BY <1>4, <1>t, <1>c DEF Conflict, TypeOK, CopyIsCurrent
<1>5. CASE UNCHANGED vars
  BY <1>5, <1>c DEF vars, CopyIsCurrent
<1> QED
  BY <1>1, <1>2, <1>3, <1>4, <1>5 DEF Next

(* The inductive invariant holds in every state of the store.               *)
THEOREM CasInvariant == Spec => []CasInv
<1>1. Init => CasInv
  BY DEF Init, CasInv, TypeOK, CopyIsCurrent, Outcome
<1>2. CasInv /\ [Next]_vars => CasInv'
  BY CasTypeStep, CopyStep DEF CasInv
<1> QED
  BY <1>1, <1>2, PTL DEF Spec

(* The type invariant of the row and of the operations on it.               *)
THEOREM CasTypeCorrect == Spec => []TypeOK
<1>1. CasInv => TypeOK
  BY DEF CasInv
<1> QED
  BY <1>1, CasInvariant, PTL

(* No answered operation is lost and no refused one takes effect, with any  *)
(* number of instances.                                                     *)
THEOREM Answers == Spec => []AnswerHolds
<1>1. CasInv => AnswerHolds
  BY DEF CasInv, CopyIsCurrent, AnswerHolds
<1> QED
  BY <1>1, CasInvariant, PTL

(* withLock over the versioned row implements the atomic store: each step   *)
(* is an atomic effect, a refusal, or nothing the callers can see.          *)
THEOREM Implements == Spec => IsAtomic
<1>1. Init => Atomic!Init
  BY DEF Init, Atomic!Init, Outcome
<1>2. CasInv /\ CasInv' /\ [Next]_vars => [Atomic!Next]_Atomic!vars
  <2> SUFFICES ASSUME CasInv, CasInv', [Next]_vars PROVE [Atomic!Next]_Atomic!vars
    OBVIOUS
  <2> USE DEF Outcome
  <2>t. TypeOK /\ CopyIsCurrent
    BY DEF CasInv
  <2>1. ASSUME NEW o \in Op, Load(o) PROVE UNCHANGED Atomic!vars
    BY <2>1, <2>t DEF Load, TypeOK, CopyIsCurrent, Atomic!vars
  <2>2. ASSUME NEW o \in Op, NEW t \in {"refused", "unknown"}, Fails(o, t)
        PROVE  Atomic!Refuse(o, t)
    BY <2>2, <2>t DEF Fails, TypeOK, Atomic!Refuse
  <2>3. ASSUME NEW o \in Op, NEW t \in {"ok", "unknown"}, Swap(o, t)
        PROVE  Atomic!Apply(o, t)
    <3>1. /\ state' = state \cup {o} /\ copy[o] = state /\ o \notin state
          /\ copy' = copy /\ pc' = [pc EXCEPT ![o] = t] /\ pc[o] = "loaded"
      BY <2>3, <2>t DEF Swap, Matches, CopyIsCurrent
    <3> QED
      BY <3>1, <2>t DEF TypeOK, Atomic!Apply
  <2>4. ASSUME NEW o \in Op, Conflict(o) PROVE Atomic!Refuse(o, "refused")
    BY <2>4, <2>t DEF Conflict, TypeOK, Atomic!Refuse
  <2>5. CASE UNCHANGED vars
    BY <2>5 DEF vars, Atomic!vars
  <2> QED
    BY <2>1, <2>2, <2>3, <2>4, <2>5 DEF Next, Atomic!Next
<1> QED
  BY <1>1, <1>2, CasInvariant, PTL DEF Spec, IsAtomic, Atomic!Spec

-----------------------------------------------------------------------------
(* DPoP proofs. *)

(* The inductive invariant: the types, why a record is there in time, and   *)
(* the property itself.                                                     *)
DpopInv == DpopTypeOK /\ RecordOutlivesProof /\ ProofServedOnce

(* The types of requests, clock and records hold from the start and in      *)
(* every step of a request or of the clock.                                 *)
LEMMA DpopTypeStep == DpopTypeOK /\ [DpopNext]_dpopVars => DpopTypeOK'
<1> SUFFICES ASSUME DpopTypeOK, [DpopNext]_dpopVars PROVE DpopTypeOK'
  OBVIOUS
<1> USE DpopAssumption DEF DpopTypeOK
<1>1. CASE DpopTick
  BY <1>1 DEF DpopTick
<1>2. ASSUME NEW r \in Request, Validate(r) PROVE DpopTypeOK'
  BY <1>2 DEF Validate, Goto
<1>3. ASSUME NEW r \in Request, OwnerMatches(r) \/ OwnerRefuses(r) PROVE DpopTypeOK'
  BY <1>3 DEF OwnerMatches, OwnerRefuses, Goto
<1>4. ASSUME NEW r \in Request, Replayed(r) PROVE DpopTypeOK'
  BY <1>4 DEF Replayed, Goto, Kept
<1>5. ASSUME NEW r \in Request, Consumed(r) PROVE DpopTypeOK'
  BY <1>5 DEF Consumed, Goto, Kept
<1>6. ASSUME NEW r \in Request, ConsumeFails(r) PROVE DpopTypeOK'
  BY <1>6 DEF ConsumeFails, Goto, Kept
<1>7. CASE UNCHANGED dpopVars
  BY <1>7 DEF dpopVars
<1> QED
  BY <1>1, <1>2, <1>3, <1>4, <1>5, <1>6, <1>7 DEF DpopNext, RequestStep

(* A copy that is about to be looked up meets the record of the proof if    *)
(* the proof was served: the wait and the drift stay below the margin.      *)
LEMMA RecordIsThere ==
    ASSUME DpopInv, NEW r \in Request, NEW s \in Request,
           stage[r] = "owned", stage[s] = "served",
           proof[s] = proof[r]
    PROVE  proof[r] \in Kept
<1> DEFINE p == proof[r]
<1>1. p \in Proof /\ iat[p] \in Int /\ validatedAt[r] \in Int /\ clock \in Int
  BY DpopAssumption DEF DpopInv, DpopTypeOK
<1>2. clock <= validatedAt[r] + maxWait
      /\ validatedAt[r] <= iat[p] + iatSkew
  BY DEF DpopInv, RecordOutlivesProof, InFlight
<1>3. clock + drift < Expires(p)
  BY <1>1, <1>2, DpopAssumption DEF Expires
<1>4. p \in replays \/ Expires(p) <= clock + drift
  BY DEF DpopInv, RecordOutlivesProof
<1>5. Expires(p) \in Int
  BY <1>1, DpopAssumption DEF Expires
<1> QED
  BY <1>1, <1>3, <1>4, <1>5, DpopAssumption DEF Kept

(* RecordOutlivesProof survives a step: the window bounds what is           *)
(* validated, the clock waits for requests in flight, and pruning removes   *)
(* only what has expired.                                                   *)
LEMMA RecordStep == DpopInv /\ [DpopNext]_dpopVars => RecordOutlivesProof'
<1> SUFFICES ASSUME DpopInv, [DpopNext]_dpopVars PROVE RecordOutlivesProof'
  OBVIOUS
<1>t. DpopTypeOK /\ DpopTypeOK'
  BY DpopTypeStep DEF DpopInv
<1>i. /\ \A p \in Proof : iat[p] \in Int /\ Expires(p) \in Int
      /\ clock \in Int /\ clock' \in Int /\ clock + drift \in Int
  BY <1>t, DpopAssumption DEF DpopTypeOK, Expires
<1> DEFINE Flying(q) ==
      InFlight(q) => /\ validatedAt[q] <= iat[proof[q]] + iatSkew
                     /\ clock <= validatedAt[q] + maxWait
<1> DEFINE Recorded(q) ==
      stage[q] = "served" => \/ proof[q] \in replays
                          \/ Expires(proof[q]) <= clock + drift
<1>h. \A q \in Request : Flying(q) /\ Recorded(q)
  BY DEF DpopInv, RecordOutlivesProof
<1> SUFFICES ASSUME NEW q \in Request PROVE Flying(q)' /\ Recorded(q)'
  BY DEF RecordOutlivesProof
<1>1. CASE DpopTick
  <2>1. Flying(q)'
    BY <1>1, <1>h, <1>i, <1>t, DpopAssumption DEF DpopTick, InFlight, DpopTypeOK
  <2>2. Recorded(q)'
    BY <1>1, <1>h, <1>i, <1>t, DpopAssumption DEF DpopTick, Expires, DpopTypeOK
  <2> QED BY <2>1, <2>2
<1>2. ASSUME NEW r \in Request, Validate(r)
      PROVE  Flying(q)' /\ Recorded(q)'
  <2>1. CASE q = r
    BY <1>2, <2>1, <1>h, <1>i, <1>t, DpopAssumption
       DEF Validate, Goto, InWindow, InFlight, DpopTypeOK
  <2>2. CASE q # r
    BY <1>2, <2>2, <1>h, <1>t DEF Validate, Goto, InFlight, DpopTypeOK, Expires
  <2> QED BY <2>1, <2>2
<1>3. ASSUME NEW r \in Request, OwnerMatches(r) \/ OwnerRefuses(r)
      PROVE  Flying(q)' /\ Recorded(q)'
  BY <1>3, <1>h, <1>t
     DEF OwnerMatches, OwnerRefuses, Goto, InFlight, DpopTypeOK, Expires
<1>4. ASSUME NEW r \in Request,
             \/ Replayed(r) \/ Consumed(r) \/ ConsumeFails(r)
      PROVE  Flying(q)' /\ Recorded(q)'
  <2>1. /\ stage[r] = "owned" /\ clock' = clock
        /\ proof' = proof /\ validatedAt' = validatedAt
        /\ stage'[r] = "refused" \/ (stage'[r] = "served" /\ proof[r] \in replays')
        /\ \A s \in Request \ {r} : stage'[s] = stage[s]
        /\ Kept \subseteq replays'
    BY <1>4, <1>t DEF Replayed, Consumed, ConsumeFails, Goto, Kept, DpopTypeOK
  <2>2. Flying(q)'
    BY <2>1, <1>h, <1>t DEF InFlight, DpopTypeOK
  <2>3. CASE q = r
    BY <2>1, <2>2, <2>3
  <2>4. CASE q # r
    <3>1. proof[q] \in Proof
      BY <1>t DEF DpopTypeOK
    <3>2. proof[q] \in replays /\ ~(Expires(proof[q]) <= clock + drift)
            => proof[q] \in Kept
      BY <3>1, <1>i DEF Kept
    <3> QED
      BY <2>1, <2>2, <2>4, <3>2, <1>h DEF Expires
  <2> QED BY <2>3, <2>4
<1>5. CASE UNCHANGED dpopVars
  BY <1>5, <1>h DEF dpopVars, InFlight, Expires
<1> QED
  BY <1>1, <1>2, <1>3, <1>4, <1>5 DEF DpopNext, RequestStep

(* No step serves a proof a second time. *)
LEMMA ServedStep == DpopInv /\ [DpopNext]_dpopVars => ProofServedOnce'
<1> SUFFICES ASSUME DpopInv, [DpopNext]_dpopVars PROVE ProofServedOnce'
  OBVIOUS
<1>t. DpopTypeOK /\ DpopTypeOK'
  BY DpopTypeStep DEF DpopInv
<1>1. ASSUME NEW r \in Request, Consumed(r) PROVE ProofServedOnce'
  <2>1. \A s \in Request : stage[s] = "served"
                             => proof[s] # proof[r]
    BY <1>1, RecordIsThere DEF Consumed
  <2>2. /\ proof' = proof
        /\ \A s \in Request \ {r} : stage'[s] = stage[s]
    BY <1>1, <1>t DEF Consumed, Goto, DpopTypeOK
  <2> QED
    BY <2>1, <2>2 DEF DpopInv, ProofServedOnce
<1>2. ASSUME NEW r \in Request,
             \/ Validate(r)
             \/ OwnerMatches(r) \/ OwnerRefuses(r) \/ Replayed(r) \/ ConsumeFails(r)
      PROVE  ProofServedOnce'
  <2>1. /\ proof' = proof /\ stage'[r] # "served"
        /\ \A s \in Request \ {r} : stage'[s] = stage[s]
    BY <1>2, <1>t DEF Validate, OwnerMatches, OwnerRefuses, Replayed, ConsumeFails,
                      Goto, DpopTypeOK
  <2> QED
    BY <2>1 DEF DpopInv, ProofServedOnce
<1>3. CASE DpopTick \/ UNCHANGED dpopVars
  BY <1>3 DEF DpopTick, dpopVars, DpopInv, ProofServedOnce
<1> QED
  BY <1>1, <1>2, <1>3 DEF DpopNext, RequestStep

(* Every state of the middleware satisfies the inductive invariant: types,  *)
(* records that outlive their proofs, and single use.                       *)
THEOREM DpopInvariant == DpopSpec => []DpopInv
<1>1. DpopInit => DpopInv
  <2> SUFFICES ASSUME DpopInit PROVE DpopInv
    OBVIOUS
  <2>1. DpopTypeOK
    BY DpopAssumption DEF DpopInit, DpopTypeOK
  <2>2. \A r \in Request : stage[r] = "waiting"
    BY DEF DpopInit
  <2> QED
    BY <2>1, <2>2 DEF DpopInv, RecordOutlivesProof, ProofServedOnce, InFlight
<1>2. DpopInv /\ [DpopNext]_dpopVars => DpopInv'
  BY DpopTypeStep, RecordStep, ServedStep DEF DpopInv
<1> QED
  BY <1>1, <1>2, PTL DEF DpopSpec

(* The type invariant of requests, clock and replay records.                *)
THEOREM DpopTypeCorrect == DpopSpec => []DpopTypeOK
<1>1. DpopInv => DpopTypeOK
  BY DEF DpopInv
<1> QED
  BY <1>1, DpopInvariant, PTL

(* A DPoP proof opens one request at most, whatever the window, the margin, *)
(* the wait and the drift, as long as wait and drift stay below the margin. *)
THEOREM ServedOnce == DpopSpec => []ProofServedOnce
<1>1. DpopInv => ProofServedOnce
  BY DEF DpopInv
<1> QED
  BY <1>1, DpopInvariant, PTL

=============================================================================
