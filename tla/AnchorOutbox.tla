--------------------------- MODULE AnchorOutbox ---------------------------
(***************************************************************************)
(* The hash-only outbox of closed mandates, the workers that drain it and  *)
(* the MandateAnchor contract they write to.                               *)
(*                                                                         *)
(* src/src/mandates/anchor-outbox.ts keeps the jobs in a Map (insertion    *)
(* order is claim order); every method body runs without an await, so each *)
(* is one step.  A worker holds its claim across the call of the chain     *)
(* client: the transaction may be mined late, its answer may be lost, and  *)
(* the lease may pass to another worker in the meantime.                   *)
(* The client itself is only an interface in the repository; it is         *)
(* modelled as a transport that submits a transaction to the contract and  *)
(* reports its receipt or an error.                                        *)
(***************************************************************************)
EXTENDS Integers, Sequences, FiniteSets

CONSTANTS
    Evidence,            \* what enqueue() may be given
    Hash,                \* evidence hashes
    closedCheckoutHash,  \* [Evidence -> Hash]
    closedPaymentHash,   \* [Evidence -> Hash]
    Worker,
    leaseMs,
    maxAttempts,
    MaxOutboxClock       \* bound: the last instant of the clock

ASSUME OutboxAssumption ==
    /\ closedCheckoutHash \in [Evidence -> Hash]
    /\ closedPaymentHash \in [Evidence -> Hash]
    /\ leaseMs \in Nat \ {0}
    /\ maxAttempts \in Nat \ {0}
    /\ MaxOutboxClock \in Nat

VARIABLES
    jobs,      \* the outbox: a sequence of jobs in the order of enqueue()
    issued,    \* claim tokens handed out so far (randomUUID: never repeated)
    worker,    \* what each MandateAnchorWorker is doing
    mempool,   \* transactions sent to the contract and not yet executed
    reverted,  \* transactions the contract refused
    anchored,  \* the contract's mapping(bytes32 => bool)
    emitted,   \* transactions that emitted MandateAnchored
    paused,    \* the contract's Pausable flag
    time

outboxVars == <<jobs, issued, worker>>
chainVars == <<mempool, reverted, anchored, emitted, paused>>
anchorVars == <<outboxVars, chainVars, time>>

(* Token 0 stands for "undefined" and for a worker without a claim. *)
NoToken == 0

Job == [evidence : Evidence,
        status : {"pending", "processing", "anchored", "failed"},
        attempts : Nat, claimToken : Nat, leaseUntil : Nat, txHash : Nat]

AnchorTransaction == [token : Nat, evidence : Evidence]

IdleWorker == [pc |-> "idle", job |-> 0, token |-> NoToken]

OutboxTypeOK ==
    /\ jobs \in Seq(Job)
    /\ issued \in Nat
    /\ worker \in [Worker -> [pc : {"idle", "claimed", "sent"},
                              job : Nat, token : Nat]]
    /\ mempool \subseteq AnchorTransaction
    /\ reverted \subseteq AnchorTransaction
    /\ anchored \subseteq Hash
    /\ emitted \subseteq AnchorTransaction
    /\ paused \in BOOLEAN
    /\ time \in Nat

OutboxInit ==
    /\ jobs = <<>>
    /\ issued = 0
    /\ worker = [w \in Worker |-> IdleWorker]
    /\ mempool = {}
    /\ reverted = {}
    /\ anchored = {}
    /\ emitted = {}
    /\ paused = FALSE
    /\ time = 0

-----------------------------------------------------------------------------
(* evidenceKey: a job is found again by its two closed hashes. *)
EvidenceKey(e) == <<closedCheckoutHash[e], closedPaymentHash[e]>>

NewJob(e) ==
    [evidence |-> e, status |-> "pending", attempts |-> 0,
     claimToken |-> NoToken, leaseUntil |-> 0, txHash |-> 0]

(* A second enqueue of a known key returns the stored job, or fails when    *)
(* the rest of the evidence differs: it changes nothing.                    *)
Enqueue(e) ==
    /\ \A i \in DOMAIN jobs : EvidenceKey(jobs[i].evidence) # EvidenceKey(e)
    /\ jobs' = Append(jobs, NewJob(e))
    /\ UNCHANGED <<issued, worker, chainVars, time>>

LeaseExpired(j) == j.leaseUntil <= time

Reclaimable(j) == j.status = "processing" /\ LeaseExpired(j)

Due(j) == j.status = "pending" \/ Reclaimable(j)

Exhausted(j) == j.attempts + 1 > maxAttempts

GiveUp(j) ==
    [j EXCEPT !.attempts = @ + 1, !.status = "failed",
              !.claimToken = NoToken, !.leaseUntil = 0]

Claim(j, token) ==
    [j EXCEPT !.attempts = @ + 1, !.status = "processing",
              !.claimToken = token, !.leaseUntil = time + leaseMs]

(* claimNext walks the jobs in order: due jobs that have used up their      *)
(* attempts fail on the way, the first other due job is claimed.            *)
IsNext(i) ==
    /\ Due(jobs[i]) /\ ~Exhausted(jobs[i])
    /\ \A j \in 1..(i - 1) : Due(jobs[j]) => Exhausted(jobs[j])

\* Deviation (mutant): an expired lease is renewed under its old token.
ClaimNextSameToken(w) ==
    /\ worker[w].pc = "idle"
    /\ \E i \in DOMAIN jobs :
         LET token == IF Reclaimable(jobs[i]) THEN jobs[i].claimToken
                                             ELSE issued + 1
         IN  /\ IsNext(i)
             /\ issued' = issued + 1
             /\ jobs' = [jobs EXCEPT ![i] = Claim(@, token)]
             /\ worker' = [worker EXCEPT
                             ![w] = [pc |-> "claimed", job |-> i,
                                     token |-> token]]
    /\ UNCHANGED <<chainVars, time>>

ClaimNext(w) ==
    /\ worker[w].pc = "idle"
    /\ \E i \in DOMAIN jobs :
         /\ IsNext(i)
         /\ issued' = issued + 1
         /\ jobs' = [j \in DOMAIN jobs |->
                       IF j = i THEN Claim(jobs[j], issued + 1)
                       ELSE IF j < i /\ Due(jobs[j]) THEN GiveUp(jobs[j])
                       ELSE jobs[j]]
         /\ worker' = [worker EXCEPT
                         ![w] = [pc |-> "claimed", job |-> i,
                                 token |-> issued + 1]]
    /\ UNCHANGED <<chainVars, time>>

(* No due job has attempts left: every due one fails, the worker gets none. *)
ClaimNone(w) ==
    /\ worker[w].pc = "idle"
    /\ \E i \in DOMAIN jobs : Due(jobs[i])
    /\ \A i \in DOMAIN jobs : Due(jobs[i]) => Exhausted(jobs[i])
    /\ jobs' = [j \in DOMAIN jobs |->
                  IF Due(jobs[j]) THEN GiveUp(jobs[j]) ELSE jobs[j]]
    /\ UNCHANGED <<issued, worker, chainVars, time>>

(* markAnchored and markFailed ignore a claim that is not the current one.  *)
HoldsClaim(j, token) == j.claimToken = token /\ j.status = "processing"

\* Deviation (mutant): a late success overwrites a job that was given up.
MarkAnchoredLate(j, token) ==
    [j EXCEPT !.status = "anchored", !.txHash = token,
              !.leaseUntil = 0, !.claimToken = NoToken]

MarkAnchored(j, token) ==
    IF HoldsClaim(j, token)
    THEN [j EXCEPT !.status = "anchored", !.txHash = token,
                   !.leaseUntil = 0, !.claimToken = NoToken]
    ELSE j

MarkFailed(j, token) ==
    IF HoldsClaim(j, token)
    THEN [j EXCEPT !.status = IF j.attempts >= maxAttempts
                              THEN "failed" ELSE "pending",
                   !.leaseUntil = 0, !.claimToken = NoToken]
    ELSE j

-----------------------------------------------------------------------------
(* The worker calls the chain client, which sends the transaction. *)
Submit(w) ==
    /\ worker[w].pc = "claimed"
    /\ worker' = [worker EXCEPT ![w].pc = "sent"]
    /\ mempool' = mempool \cup
                    {[token |-> worker[w].token,
                      evidence |-> jobs[worker[w].job].evidence]}
    /\ UNCHANGED <<jobs, issued, reverted, anchored, emitted, paused, time>>

(* The contract's require()s: not paused, neither hash anchored before. *)
Accepts(e) ==
    /\ ~paused
    /\ closedCheckoutHash[e] \notin anchored
    /\ closedPaymentHash[e] \notin anchored

(* anchor() of the contract, for a transaction that gets into a block. *)
Mine(tx) ==
    /\ tx \in mempool
    /\ mempool' = mempool \ {tx}
    /\ IF Accepts(tx.evidence)
       THEN /\ anchored' = anchored \cup {closedCheckoutHash[tx.evidence],
                                          closedPaymentHash[tx.evidence]}
            /\ emitted' = emitted \cup {tx}
            /\ UNCHANGED reverted
       ELSE /\ reverted' = reverted \cup {tx}
            /\ UNCHANGED <<anchored, emitted>>
    /\ UNCHANGED <<outboxVars, paused, time>>

(* A worker's answer becomes the job's record, and the worker is free.      *)
Finish(w, j) ==
    /\ jobs' = [jobs EXCEPT ![worker[w].job] = j]
    /\ worker' = [worker EXCEPT ![w] = IdleWorker]
    /\ UNCHANGED <<issued, chainVars, time>>

(* The client resolves with the hash of a transaction that succeeded. *)
AnchorSucceeds(w) ==
    /\ worker[w].pc = "sent"
    /\ \E tx \in emitted : tx.token = worker[w].token
    /\ Finish(w, MarkAnchored(jobs[worker[w].job], worker[w].token))

(* The client rejects: the transaction reverted, could not be sent, or its  *)
(* answer did not arrive (it may have been, or may still be, mined).        *)
AnchorFails(w) ==
    /\ worker[w].pc # "idle"
    /\ Finish(w, MarkFailed(jobs[worker[w].job], worker[w].token))

SetPaused(b) ==
    /\ paused # b
    /\ paused' = b
    /\ UNCHANGED <<outboxVars, mempool, reverted, anchored, emitted, time>>

OutboxTick ==
    /\ time < MaxOutboxClock
    /\ time' = time + 1
    /\ UNCHANGED <<outboxVars, chainVars>>

OutboxNext ==
    \/ \E e \in Evidence : Enqueue(e)
    \/ \E w \in Worker : \/ ClaimNext(w)
                         \/ ClaimNone(w)
                         \/ Submit(w)
                         \/ AnchorSucceeds(w)
                         \/ AnchorFails(w)
    \/ \E tx \in mempool : Mine(tx)
    \/ \E b \in BOOLEAN : SetPaused(b)
    \/ OutboxTick

OutboxSpec == OutboxInit /\ [][OutboxNext]_anchorVars

-----------------------------------------------------------------------------
(* Properties. *)

(* The worker is busy with job i under the claim the job carries.           *)
Deciding(w, i) ==
    /\ worker[w].pc # "idle"
    /\ worker[w].job = i
    /\ jobs[i].status = "processing"
    /\ jobs[i].claimToken = worker[w].token

(* However often leases run out and workers wake up late, at most one       *)
(* worker is able to decide a job (claimNext, markAnchored, markFailed:     *)
(* "Stale claim - do not mutate a newer worker's result").                  *)
OneDecider ==
    \A i \in DOMAIN jobs : \A v, w \in Worker :
        Deciding(v, i) /\ Deciding(w, i) => v = w

(* The refinement: leases, tokens and transactions implement the promise of *)
(* AnchorPromise - every outcome is final, "anchored" is only reported of   *)
(* evidence on the chain, and the chain holds no hash twice.                *)
Outcome(e) ==
    IF \E i \in DOMAIN jobs : jobs[i].evidence = e
    THEN LET j == jobs[CHOOSE i \in DOMAIN jobs : jobs[i].evidence = e]
         IN  IF j.status \in {"pending", "processing"} THEN "open" ELSE j.status
    ELSE "unknown"

Promise == INSTANCE AnchorPromise WITH
               outcome <- [e \in Evidence |-> Outcome(e)],
               onChain <- {tx.evidence : tx \in emitted}

KeepsPromise == Promise!PSpec

=============================================================================
