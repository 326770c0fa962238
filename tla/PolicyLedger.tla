--------------------------- MODULE PolicyLedger ---------------------------
(***************************************************************************)
(* The ledger of policy reservations (src/src/mandates/policy.ts):         *)
(* InMemoryMandatePolicyLedger, whose reserve and release are serialized   *)
(* by one promise chain, and SupabaseMandatePolicyLedger, whose RPCs run   *)
(* reserve_mandate_policy and release_mandate_policy_reservation as one    *)
(* transaction each.  The two differ in what release leaves behind: the    *)
(* Map forgets the transaction, the table keeps a row with released_at.    *)
(***************************************************************************)
EXTENDS Integers, FiniteSets, FiniteSetsExt

CONSTANTS
    LedgerMandate,           \* mandates with limits
    Transaction,
    amountMinor,             \* [Transaction -> Nat]
    totalBudgetMinor,        \* [LedgerMandate -> Nat]
    maxOperations,           \* [LedgerMandate -> Nat]
    maxOperationsPerWindow,  \* [LedgerMandate -> Nat]
    frequencyWindow          \* [LedgerMandate -> Nat]

ASSUME LedgerAssumption ==
    /\ amountMinor \in [Transaction -> Nat]
    /\ totalBudgetMinor \in [LedgerMandate -> Nat]
    /\ maxOperations \in [LedgerMandate -> Nat \ {0}]
    /\ maxOperationsPerWindow \in [LedgerMandate -> Nat \ {0}]
    /\ frequencyWindow \in [LedgerMandate -> Nat \ {0}]

VARIABLES
    reservations,  \* live reservations, at most one per transaction
    released,      \* rows with released_at (durable only)
    durable        \* which ledger the server runs with: the table or the Map

ledgerVars == <<reservations, released, durable>>

Reservation == [tx : Transaction, at : Nat,
                checkout : LedgerMandate, payment : LedgerMandate]

LedgerTypeOK ==
    /\ reservations \subseteq Reservation
    /\ released \subseteq Transaction
    /\ durable \in BOOLEAN

LedgerInit ==
    /\ reservations = {}
    /\ released = {}
    /\ durable \in BOOLEAN

(* The reservations that count against a mandate. *)
Relevant(m) == {r \in reservations : r.checkout = m \/ r.payment = m}

Spent(m) == MapThenSumSet(LAMBDA r : amountMinor[r.tx], Relevant(m))

(* assertBudget, assertOperations, assertFrequency. *)
WithinBudget(m, tx) == Spent(m) + amountMinor[tx] <= totalBudgetMinor[m]

WithinOperations(m) == Cardinality(Relevant(m)) < maxOperations[m]

\* Deviation (mutant): a window that ends at the caller's clock.
RecentUpToNow(m, now) ==
    {r \in Relevant(m) : r.at >= now - frequencyWindow[m] /\ r.at <= now}

Recent(m, now) == {r \in Relevant(m) : r.at >= now - frequencyWindow[m]}

WithinFrequency(m, now) ==
    Cardinality(Recent(m, now)) < maxOperationsPerWindow[m]

\* Deviation (mutant): a live reservation of the transaction is not looked for.
UnusedReleased(tx) == tx \notin released

Unused(tx) ==
    /\ \A r \in reservations : r.tx # tx
    /\ tx \notin released

CanReserve(checkout, payment, tx, now) ==
    /\ Unused(tx)
    /\ \A m \in {checkout, payment} : /\ WithinBudget(m, tx)
                                      /\ WithinOperations(m)
                                      /\ WithinFrequency(m, now)

Reserve(checkout, payment, tx, now) ==
    /\ CanReserve(checkout, payment, tx, now)
    /\ reservations' = reservations \cup
                         {[tx |-> tx, at |-> now, checkout |-> checkout,
                           payment |-> payment]}
    /\ UNCHANGED <<released, durable>>

Release(tx) ==
    /\ reservations' = {r \in reservations : r.tx # tx}
    /\ released' = IF durable /\ \E r \in reservations : r.tx = tx
                   THEN released \cup {tx} ELSE released
    /\ UNCHANGED durable

-----------------------------------------------------------------------------
(* Properties. *)

(* Every limit of every mandate holds for what is reserved, whatever the    *)
(* order in which concurrent calls reach the ledger: the budget, the number *)
(* of operations, and in any window of the configured length the frequency, *)
(* even though a call stamps its reservation with the clock it read before  *)
(* its awaits, so that reservations reach the ledger out of clock order.    *)
LimitsHold ==
    \A m \in LedgerMandate :
        /\ Spent(m) <= totalBudgetMinor[m]
        /\ Cardinality(Relevant(m)) <= maxOperations[m]
        /\ \A t \in {r.at : r \in reservations} :
             Cardinality({r \in Relevant(m) : r.at >= t
                                              /\ r.at <= t + frequencyWindow[m]})
                 <= maxOperationsPerWindow[m]

=============================================================================
