\* Approvals, closings at the limits of budget, count and window, and the
\* outbox with two workers whose leases run out.
SPECIFICATION MCSpec
CONSTANTS
    mc = mc
    mp = mp
    t1 = t1
    t2 = t2
    t3 = t3
    c1 = c1
    c2 = c2
    c3 = c3
    c4 = c4
    k1 = k1
    k2 = k2
    a1 = a1
    a2 = a2
    e1 = e1
    e2 = e2
    h1 = h1
    h2 = h2
    h3 = h3
    w1 = w1
    w2 = w2
    None = None
    Mandate = {mc, mp}
    LedgerMandate = {mc, mp}
    expiresAt <- Expiries
    Challenge = {k1, k2}
    Approval = {a1, a2}
    challengeTtl = 2
    MaxClock = 3
    Transaction = {t1, t2, t3}
    amountMinor <- Amounts
    totalBudgetMinor <- Budgets
    maxOperations <- Operations
    maxOperationsPerWindow <- PerWindow
    frequencyWindow <- Windows
    Call = {c1, c2, c3, c4}
    transactionId <- CallTransactions
    openCheckout <- CallCheckout
    openPayment <- CallPayment
    Evidence = {e1, e2}
    Hash = {h1, h2, h3}
    closedCheckoutHash <- CheckoutHash
    closedPaymentHash <- PaymentHash
    Worker = {w1, w2}
    leaseMs = 1
    maxAttempts = 2
    MaxOutboxClock = 3
SYMMETRY Symmetry
INVARIANTS
    ApprovalSpentOnce
    LimitsHold
    ClosedIsReserved
    OneClosePerTransaction
    ClosedWasApproved
    OneDecider
PROPERTIES
    RevokedIsFinal
    KeepsPromise
CHECK_DEADLOCK FALSE
