--------------------------- MODULE PaymentSystem ---------------------------
(***************************************************************************)
(* The payment service and the provider together: client requests, GETs,   *)
(* provider calls that time out, webhooks that arrive late, twice or not   *)
(* at all, storage errors and crashes of either process.                   *)
(***************************************************************************)
EXTENDS YunoProvider, PaymentService, FiniteSetsExt

CONSTANT MaxFaults      \* bound on storage errors, crashes, lost messages

ASSUME FaultAssumption == MaxFaults \in Nat

VARIABLE faults

vars == <<call, providerVars, serviceVars, faults>>

TypeOK == /\ WireTypeOK /\ ProviderTypeOK /\ ServiceTypeOK
          /\ faults \in 0 .. MaxFaults

Init == WireInit /\ ProviderInit /\ ServiceInit /\ faults = 0

Fault == faults < MaxFaults /\ faults' = faults + 1

-----------------------------------------------------------------------------
(* Payment ids are random, so clients only name payments that exist.        *)
ClientRequest(r) ==
    /\ \E a \in Menu : /\ a.pay # none => payments[a.pay] # none
                       /\ Arrive(r, a)
    /\ UNCHANGED <<providerVars, faults>>

HandleRequest(r) == RequestStep(r) /\ UNCHANGED <<providerVars, faults>>

StartOperation(r) ==
    /\ pc[r] = "run" /\ arg[r].op # "create"
    /\ StartAction(r, LET x == payments[arg[r].pay] IN
                      x # none /\ x.pid # none /\ Refundable(ppay, x.pid, txs))
    /\ UNCHANGED <<providerVars, faults>>

GiveUpOnCall(r) == /\ CreateTimeout(r) \/ ActionFails(r)
                   /\ UNCHANGED <<providerVars, faults>>

PollerStep(g) ==
    /\ \/ \E p \in Req : PollStart(g, p)
       \/ /\ poll[g].at = "fetch"
          /\ payments[poll[g].pay] # none
          /\ payments[poll[g].pay].pid # none
          /\ PollFetch(g, View(ppay, payments[poll[g].pay].pid, txs))
       \/ PollApply(g)
    /\ UNCHANGED <<providerVars, faults>>

PollerFails(g) == PollFails(g) /\ Fault /\ UNCHANGED providerVars

\* A delivery attempt the platform acknowledges with 200.
DeliverWebhook(id) ==
    /\ id \in due
    /\ AcceptWebhook(id)
    /\ due' = due \ {id}
    /\ UNCHANGED <<ppay, pidem, txs, events, faults>>

\* The acknowledgement is lost: the event stays due and will come again.
LoseAck(id) == /\ id \in due
               /\ AcceptWebhook(id)
               /\ Fault
               /\ UNCHANGED providerVars

\* All seven attempts of the retry schedule fail.
ExhaustDelivery(id) == /\ id \in due
                       /\ due' = due \ {id}
                       /\ Fault
                       /\ UNCHANGED <<ppay, pidem, txs, events, call,
                                      serviceVars>>

ApplyWebhook == /\ \E e \in events : ProcessWebhook(e)
                /\ UNCHANGED <<providerVars, faults>>

ProviderWorks == ProviderStep /\ UNCHANGED <<serviceVars, faults>>

ProviderFails == /\ \/ \E r \in Req : FailCall(r)
                    \/ ProviderCrash
                 /\ Fault
                 /\ UNCHANGED serviceVars

ServiceFails == /\ \/ \E r \in Req : StoreFails(r)
                   \/ \E id \in inbox : WebhookFails(id)
                   \/ ServiceCrash
                /\ Fault
                /\ UNCHANGED providerVars

Next ==
    \/ \E r \in Req : \/ ClientRequest(r)  \/ HandleRequest(r)
                      \/ StartOperation(r) \/ GiveUpOnCall(r)
    \/ \E g \in Poller : PollerStep(g) \/ PollerFails(g)
    \/ \E id \in EventId : \/ DeliverWebhook(id) \/ LoseAck(id)
                           \/ ExhaustDelivery(id)
    \/ ApplyWebhook
    \/ ProviderWorks
    \/ ProviderFails
    \/ ServiceFails

Spec == Init /\ [][Next]_vars

-----------------------------------------------------------------------------
(* Safety.                                                                  *)

\* withIdempotency: however requests, crashes, storage errors and retries
\* interleave, two requests with one key never execute at the same time, so
\* the handlers' unlocked sections never race with a retry of themselves.
OneRunnerPerKey ==
    \A r, s \in Req :
      Running(r) /\ Running(s) /\ IKey(arg[r]) = IKey(arg[s]) => r = s

\* createPayment: one Idempotency-Key never has two payment records, whatever
\* was dropped, kept or retried before ("retry does not create a second
\* payment").
OnePaymentPerKey ==
    \A p, q \in Req :
      /\ payments[p] # none /\ payments[q] # none
      /\ payments[p].key = payments[q].key
      => p = q

\* ProviderIdempotency: the provider never creates two payments for one
\* X-Idempotency-Key, with calls that time out, die half way, are refused
\* and come again.
OneChargePerKey ==
    \A p, q \in Req :
      /\ ppay[p] # none /\ ppay[q] # none
      /\ ppay[p].pkey = ppay[q].pkey
      => p = q

\* applyProviderPaymentView: a payment record is linked to the provider
\* payment that was made under its own key, so two records never share one.
LinkedToOwnCharge ==
    \A p \in Req :
      payments[p] # none /\ payments[p].pid # none =>
        LET c == ppay[payments[p].pid] IN
        /\ c # none
        /\ c.pkey = [op |-> "create", key |-> payments[p].key, pid |-> none]

\* Withholding of money claims: with stale views, late events and concurrent
\* operations overwriting each other, the platform never shows more captured
\* or refunded than the provider holds.
PlatformNeverAhead ==
    \A p \in Req :
      payments[p] # none /\ payments[p].pid # none =>
        LET c == ppay[payments[p].pid] IN
        /\ payments[p].captured <= c.captured
        /\ payments[p].refunded <= c.refunded

\* "PENDING and AUTHORIZED are never treated as success": a public status of
\* success, refund, cancellation or failure is one the provider's payment has
\* really reached.
FinalStatusIsBacked ==
    \A p \in Req :
      payments[p] # none /\ payments[p].pid # none =>
        LET c == ppay[payments[p].pid]
            s == payments[p].status
        IN  /\ s = "succeeded" => c.captured > 0
            /\ s = "partially_refunded" => c.refunded > 0
            /\ s = "refunded" => c.snap.status = "REFUNDED"
            /\ s = "canceled" => c.snap.status = "CANCELED"
            /\ s = "declined" => c.snap.status = "DECLINED"
            /\ s = "failed" => c.snap.status = "EXPIRED"

\* The provider's post-payment operations and createRefund: an operation of
\* one key takes effect at the provider at most once, however it is retried,
\* and every refund the platform records as succeeded is one the provider
\* made for that key on that payment.
OperationsAreExact ==
    /\ \A t, u \in txs : t.pkey = u.pkey => t = u
    /\ \A x \in refunds : x.ok =>
         \E t \in txs : /\ t.ok
                       /\ t.pkey = [op |-> "refund", key |-> x.key,
                                   pid |-> payments[x.pay].pid]

SumOf(op, p) == MapThenSumSet(LAMBDA t : t.amt,
                              {t \in txs : t.pid = p /\ t.ok /\ t.pkey.op = op})

\* captureInStore / refundInStore: with operations of several calls, replays
\* and failures, the amounts of a provider payment are the sums of its
\* transactions, refunds stay within captures and captures within the amount.
\* Only processing that ends in success captures without a transaction: the
\* whole amount, of an authorization that had none captured, too.
ProviderBooksBalance ==
    \A p \in Req : ppay[p] # none =>
      /\ ppay[p].refunded = SumOf("refund", p)
      /\ ppay[p].refunded <= ppay[p].captured
      /\ ppay[p].captured <= Amount
      /\ ~ppay[p].purchase =>
           \/ ppay[p].captured = SumOf("capture", p)
           \/ /\ ppay[p].snap = Snapshot("SUCCEEDED", "APPROVED")
              /\ ppay[p].captured = Amount
              /\ SumOf("capture", p) = 0

\* Answers of the handlers that are stored for replay.
Durable(a) == a.http \in {200, 400, 502}

\* withIdempotency: all durable answers to one key and body are the same
\* answer, whichever request got it, before or after a crash.
SameKeySameAnswer ==
    \A r, s \in Req :
      /\ pc[r] = "done" /\ pc[s] = "done"
      /\ arg[r] = arg[s]
      /\ Durable(reply[r]) /\ Durable(reply[s])
      => reply[r] = reply[s]

\* processYunoWebhookAsync: redelivered, reordered and concurrently accepted
\* events take effect at most once each.
EventAppliedOnce == \A id \in EventId : applied[id] <= 1

\* decidePaymentEventApplication: a webhook never takes a payment back to an
\* earlier state, and never out of a hard terminal state.
WebhookNeverRewinds ==
    [][seen' # seen => \A p \in Req :
         payments[p] # none =>
           LET old == StoredSnapshot(payments[p].status)
               new == StoredSnapshot(payments'[p].status)
           IN  /\ paymentStateRank(new) >= paymentStateRank(old)
               /\ isTerminalPaymentStatus(old.status) => new = old]_vars

-----------------------------------------------------------------------------
(* Liveness.  The event loop runs every handler whose call has returned, the *)
(* work processor ticks, and clients keep polling an open payment.           *)

Fairness ==
    /\ \A r \in Req : /\ WF_vars(ClientRequest(r))
                      /\ WF_vars(HandleRequest(r))
                      /\ WF_vars(StartOperation(r))
    /\ \A g \in Poller : WF_vars(PollerStep(g))
    /\ WF_vars(ProviderWorks)
    /\ WF_vars(ApplyWebhook)

FairSpec == Spec /\ Fairness

Linked(p) == payments[p] # none /\ payments[p].pid # none
Settled(c) == ppay[c] # none /\ ppay[c].snap.status # "PENDING"

ShowsOutcome(p) ==
    payments[p].status = mapYunoPaymentStatus(ppay[payments[p].pid].snap)

\* getPayment and the webhook processor together: with events lost,
\* duplicated or applied under a GET's stale view, the platform ends up
\* showing, for good, the outcome the provider has settled on.
OutcomeIsLearned ==
    \A p \in Req :
      (Linked(p) /\ Settled(payments[p].pid))
        ~> [](Linked(p) /\ ShowsOutcome(p))

-----------------------------------------------------------------------------
(* What the documentation says and the code does not do.                    *)

\* docs/YUNO_API_MOCK_MIGRATION_SPEC.md, two-layer idempotency: "Timeout
\* without response | Keep `processing`".  createPayment's draft is not
\* removed once the provider has a payment under its key.
TimeoutKeepsProcessing ==
    [][\A p \in Req :
         payments[p] # none /\ (\E c \in Req : /\ ppay[c] # none
                                              /\ ppay[c].pkey.key = payments[p].key)
         => payments'[p] # none]_vars

\* Public errors of the same document: "payment_outcome_unknown | Query; do
\* not recreate".  A payment kept in processing after an unknown outcome is
\* linked to the provider payment by some retry or query.
UnknownOutcomeResolves ==
    \A p \in Req :
      (/\ payments[p] # none /\ attempts[p] = "unknown"
       /\ \E c \in Req : ppay[c] # none /\ ppay[c].pkey.key = payments[p].key)
      ~> Linked(p)

\* payment-event-guard: "refuses out-of-order rewinds from terminal ranks".
\* A payment in a hard terminal state stays there.
TerminalIsFinal ==
    [][\A p \in Req :
         /\ payments[p] # none
         /\ isTerminalPaymentStatus(StoredSnapshot(payments[p].status).status)
         => payments'[p].status = payments[p].status]_vars

\* Two-layer idempotency: "Same key + same body | Return original result".
\* The refund of one key is recorded once.
RefundRecordedOnce ==
    \A x, y \in refunds : x.key = y.key /\ x.pay = y.pay => x = y
=============================================================================
