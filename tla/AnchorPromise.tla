--------------------------- MODULE AnchorPromise ---------------------------
(***************************************************************************)
(* What the anchor outbox promises, without leases, tokens, workers or     *)
(* transactions: an accepted piece of evidence is committed to the chain   *)
(* at most once, never together with other evidence that shares one of its *)
(* hashes, and gets at most one outcome, "anchored" only after the commit. *)
(* A commit may come after the outcome "failed": a transaction whose       *)
(* answer was lost can still be mined.                                     *)
(***************************************************************************)
CONSTANTS Evidence, closedCheckoutHash, closedPaymentHash

VARIABLES outcome, onChain

promiseVars == <<outcome, onChain>>

Hashes(e) == {closedCheckoutHash[e], closedPaymentHash[e]}

PInit ==
    /\ outcome = [e \in Evidence |-> "unknown"]
    /\ onChain = {}

Accept(e) ==
    /\ outcome[e] = "unknown"
    /\ outcome' = [outcome EXCEPT ![e] = "open"]
    /\ UNCHANGED onChain

Commit(e) ==
    /\ outcome[e] # "unknown"
    /\ \A d \in onChain : Hashes(d) \cap Hashes(e) = {}
    /\ onChain' = onChain \cup {e}
    /\ UNCHANGED outcome

ReportAnchored(e) ==
    /\ outcome[e] = "open"
    /\ e \in onChain
    /\ outcome' = [outcome EXCEPT ![e] = "anchored"]
    /\ UNCHANGED onChain

ReportFailed(S) ==
    /\ \A e \in S : outcome[e] = "open"
    /\ outcome' = [e \in Evidence |-> IF e \in S THEN "failed" ELSE outcome[e]]
    /\ UNCHANGED onChain

PNext ==
    \/ \E e \in Evidence : Accept(e) \/ Commit(e) \/ ReportAnchored(e)
    \/ \E S \in SUBSET Evidence : ReportFailed(S)

PSpec == PInit /\ [][PNext]_promiseVars

=============================================================================
