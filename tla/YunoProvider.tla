---------------------------- MODULE YunoProvider ----------------------------
(***************************************************************************)
(* The payment provider, as the repository's Yuno mock implements it: the  *)
(* payment store, the X-Idempotency-Key records, create / capture / cancel *)
(* / refund, the asynchronous outcomes (processing that ends, 3-D Secure)  *)
(* and the webhook events they emit.  Every withLock section of the mock   *)
(* is one step; calls interleave between their sections.                   *)
(***************************************************************************)
EXTENDS PaymentWire

CONSTANT Scenario     \* payment scenarios the mock may be set to

ASSUME ScenarioAssumption ==
    Scenario \subseteq {"success", "declined", "requires_3ds",
                        "processing_then_success", "processing_then_declined",
                        "provider_timeout", "refund_failed",
                        "out_of_order_webhooks"}

VARIABLES
    ppay,     \* provider payments, named after the call that created them
    pidem,    \* provider idempotency records
    txs,      \* capture, cancel and refund transactions of the payments
    events,   \* webhook events emitted
    due       \* ids of the events whose delivery is pending

providerVars == <<ppay, pidem, txs, events, due>>

ProviderPayment ==
    [pkey : ProviderKey, snap : ProviderSnapshot, purchase : BOOLEAN,
     captured : Money, refunded : Money, scenario : Scenario,
     pending : {"none", "SUCCEEDED", "DECLINED", "3ds", "stale"}]

ASSUME NoneAssumption == none \notin ProviderPayment

\* by: the call that made the transaction; ok: its status is SUCCEEDED.
Transaction == [pid : Req, by : Req, pkey : ProviderKey, amt : Money,
                ok : BOOLEAN]

IdemState == {"absent", "IN_PROGRESS", "COMPLETED", "CONSUMED"}
NoIdem    == [state |-> "absent", resp |-> NoResponse]

ProviderTypeOK ==
    /\ ppay \in [Req -> ProviderPayment \cup {none}]
    /\ pidem \in [ProviderKey -> [state : IdemState, resp : Response]]
    /\ txs \subseteq Transaction
    /\ events \subseteq Event
    /\ due \subseteq EventId

ProviderInit ==
    /\ ppay = [p \in Req |-> none]
    /\ pidem = [k \in ProviderKey |-> NoIdem]
    /\ txs = {}
    /\ events = {}
    /\ due = {}

\* A transaction a refund may target: the PURCHASE, or a CAPTURE.
Refundable(P, p, T) ==
    P[p].purchase \/ \E t \in T : t.pid = p /\ t.pkey.op = "capture"

\* The payment as a response shows it.
View(P, p, T) ==
    [NoResponse EXCEPT !.kind = "ok", !.pid = p, !.snap = P[p].snap,
                       !.captured = P[p].captured, !.refunded = P[p].refunded,
                       !.rtx = Refundable(P, p, T)]

EventOf(P, p, id, tx) ==
    [id |-> id, pid |-> p, snap |-> P[p].snap, captured |-> P[p].captured,
     refunded |-> P[p].refunded, tx |-> tx]

\* Add an event and schedule its delivery.
emitPaymentEvent(e) == /\ events' = events \cup {e}
                       /\ due' = due \cup {e.id}

PrimaryTx(P, p) == IF P[p].purchase THEN "PURCHASE" ELSE "AUTHORIZE"

Answer(r, resp) ==
    call' = [call EXCEPT ![r].stage = "answered", ![r].resp = resp]

-----------------------------------------------------------------------------
(* The idempotency gate: a free key is acquired (unless the request is      *)
(* refused before it starts, which consumes nothing); a completed one       *)
(* replays its stored answer whatever the retry's body.                     *)

BeginCall(r) ==
    LET k == call[r].pkey IN
    /\ call[r].stage = "sent"
    /\ \/ /\ pidem[k].state = "absent"
          /\ pidem' = [pidem EXCEPT ![k].state = "IN_PROGRESS"]
          /\ call' = [call EXCEPT ![r].stage = "begun"]
       \/ /\ pidem[k].state = "absent"
          /\ k.op = "create"
          /\ Answer(r, Rejected("invalid_request"))
          /\ UNCHANGED pidem
       \/ /\ pidem[k].state = "COMPLETED"
          /\ Answer(r, pidem[k].resp)
          /\ UNCHANGED pidem
       \/ /\ pidem[k].state = "IN_PROGRESS"
          /\ Answer(r, Rejected("request_in_progress"))
          /\ UNCHANGED pidem
       \/ /\ pidem[k].state = "CONSUMED"
          /\ Answer(r, Rejected("idempotency_key_reused"))
          /\ UNCHANGED pidem
    /\ UNCHANGED <<ppay, txs, events, due>>

\* Outcome of a new payment under each scenario; captured follows the status.
resolveOutcome(s, purchase) ==
    CASE s = "declined"     -> Snapshot("DECLINED", "DECLINED")
      [] s = "requires_3ds" -> Snapshot("PENDING", "WAITING_ADDITIONAL_STEP")
      [] s \in {"processing_then_success", "processing_then_declined",
                "provider_timeout"} -> Snapshot("PENDING", "IN_PROCESS")
      [] OTHER -> IF purchase THEN Snapshot("SUCCEEDED", "APPROVED")
                              ELSE Snapshot("AUTHORIZED", "AUTHORIZED")

\* What schedulePostCreateSideEffects leaves to be done later.
PendingAction(s) ==
    CASE s = "processing_then_success"  -> "SUCCEEDED"
      [] s = "processing_then_declined" -> "DECLINED"
      [] s = "requires_3ds"             -> "3ds"
      [] s = "out_of_order_webhooks"    -> "stale"
      [] OTHER                          -> "none"

\* createPayment: store the payment, then its event if the status is final.
ExecuteCreate(r) ==
    /\ call[r].stage = "begun" /\ call[r].pkey.op = "create"
    /\ \E s \in Scenario :
        LET purchase == ~call[r].manual
            snap     == resolveOutcome(s, purchase)
            new      == [pkey |-> call[r].pkey, snap |-> snap,
                         purchase |-> purchase,
                         captured |-> IF snap.status = "SUCCEEDED"
                                      THEN Amount ELSE 0,
                         refunded |-> 0, scenario |-> s,
                         pending |-> PendingAction(s)]
            P        == [ppay EXCEPT ![r] = new]
        IN  /\ ppay' = P
            /\ IF snap.status \in {"SUCCEEDED", "DECLINED", "AUTHORIZED"}
               THEN emitPaymentEvent(EventOf(P, r, <<r, "create">>,
                                             PrimaryTx(P, r)))
               ELSE UNCHANGED <<events, due>>
            /\ call' = [call EXCEPT
                          ![r].stage = "executed",
                          ![r].resp = IF s = "provider_timeout"
                                      THEN Uncertain ELSE View(P, r, txs)]
    /\ UNCHANGED <<pidem, txs>>

-----------------------------------------------------------------------------
(* Capture, cancel, refund: one lock section that checks and applies.       *)

remainingCapturable(x) == Amount - x.captured
remainingRefundable(x) == x.captured - x.refunded

OpenAuthorization(x) ==
    \/ x.snap.status = "AUTHORIZED"
    \/ x.snap = Snapshot("SUCCEEDED", "PARTIALLY_CAPTURED")

CanCapture(x, amt) ==
    /\ ~x.purchase /\ OpenAuthorization(x)
    /\ amt > 0 /\ amt <= remainingCapturable(x)

CanCancel(x) ==
    /\ ~x.purchase /\ OpenAuthorization(x)
    /\ remainingCapturable(x) > 0

\* Deviation (mutant): the amount is not compared with what is left.
CanRefundUnbounded(x, amt) ==
    x.snap.status = "SUCCEEDED" /\ remainingRefundable(x) > 0

CanRefund(x, amt) ==
    /\ x.snap.status = "SUCCEEDED"
    /\ remainingRefundable(x) > 0
    /\ amt <= remainingRefundable(x)

captureInStore(x, amt) ==
    LET c == x.captured + amt IN
    [x EXCEPT !.captured = c,
              !.snap = Snapshot("SUCCEEDED", IF c = Amount THEN "CAPTURED"
                                             ELSE "PARTIALLY_CAPTURED")]

cancelInStore(x) ==
    [x EXCEPT !.snap = IF x.captured = 0 THEN Snapshot("CANCELED", "CANCELED")
                       ELSE Snapshot("SUCCEEDED", "CAPTURED")]

\* A refund under the refund_failed scenario leaves the payment as it is.
refundInStore(x, amt) ==
    LET f == x.refunded + amt IN
    IF x.scenario = "refund_failed" THEN x
    ELSE [x EXCEPT !.refunded = f,
                   !.snap = IF f = x.captured
                            THEN Snapshot("REFUNDED", "REFUNDED")
                            ELSE Snapshot("SUCCEEDED", "PARTIALLY_REFUNDED")]

\* Apply action `new` of call r to payment p: persist, record the
\* transaction, emit the event, build the answer.
ApplyAction(r, p, new, amt, ok, type) ==
    LET P == [ppay EXCEPT ![p] = new]
        T == txs \cup {[pid |-> p, by |-> r, pkey |-> call[r].pkey,
                        amt |-> amt, ok |-> ok]}
    IN  /\ ppay' = P
        /\ txs' = T
        /\ emitPaymentEvent(EventOf(P, p, <<r, "action">>, type))
        /\ call' = [call EXCEPT
                      ![r].stage = "executed",
                      ![r].resp = [View(P, p, T) EXCEPT !.refundFailed = ~ok]]

RejectAction(r) ==
    /\ call' = [call EXCEPT ![r].stage = "executed",
                            ![r].resp = Rejected("invalid_request")]
    /\ UNCHANGED <<ppay, txs, events, due>>

\* createPayment checks its preconditions again inside the lock.
RejectCreate(r) ==
    /\ call[r].stage = "begun" /\ call[r].pkey.op = "create"
    /\ RejectAction(r)
    /\ UNCHANGED pidem

ExecuteCapture(r) ==
    LET p == call[r].pkey.pid IN
    /\ call[r].stage = "begun" /\ call[r].pkey.op = "capture"
    /\ IF CanCapture(ppay[p], call[r].amt)
       THEN ApplyAction(r, p, captureInStore(ppay[p], call[r].amt),
                        call[r].amt, TRUE, "CAPTURE")
       ELSE RejectAction(r)
    /\ UNCHANGED pidem

ExecuteCancel(r) ==
    LET p == call[r].pkey.pid IN
    /\ call[r].stage = "begun" /\ call[r].pkey.op = "cancel"
    /\ IF CanCancel(ppay[p])
       THEN ApplyAction(r, p, cancelInStore(ppay[p]),
                        remainingCapturable(ppay[p]), TRUE, "CANCEL")
       ELSE RejectAction(r)
    /\ UNCHANGED pidem

ExecuteRefund(r) ==
    LET p   == call[r].pkey.pid
        amt == IF call[r].amt = 0 THEN remainingRefundable(ppay[p])
               ELSE call[r].amt
    IN
    /\ call[r].stage = "begun" /\ call[r].pkey.op = "refund"
    /\ IF Refundable(ppay, p, txs) /\ CanRefund(ppay[p], amt)
       THEN ApplyAction(r, p, refundInStore(ppay[p], amt), amt,
                        ppay[p].scenario # "refund_failed", "REFUND")
       ELSE RejectAction(r)
    /\ UNCHANGED pidem

\* Deviation (mutant): the key is freed however the operation ended.
FinishCallForgets(r) ==
    /\ call[r].stage = "executed"
    /\ pidem' = [pidem EXCEPT ![call[r].pkey] = NoIdem]
    /\ Answer(r, call[r].resp)
    /\ UNCHANGED <<ppay, txs, events, due>>

\* Store the answer for replay, or free the key of a refused operation.
FinishCall(r) ==
    LET k == call[r].pkey
        a == call[r].resp
    IN
    /\ call[r].stage = "executed"
    /\ pidem' = [pidem EXCEPT ![k] = IF a.kind = "rejected" THEN NoIdem
                                     ELSE [state |-> "COMPLETED", resp |-> a]]
    /\ Answer(r, a)
    /\ UNCHANGED <<ppay, txs, events, due>>

\* An unexpected failure once the key is acquired, before or after the
\* operation took effect: the key is spent and has nothing to replay.
FailCall(r) ==
    /\ \/ call[r].stage = "begun"
       \/ call[r].stage = "executed" /\ call[r].resp.kind # "rejected"
    /\ pidem' = [pidem EXCEPT ![call[r].pkey].state = "CONSUMED"]
    /\ Answer(r, Uncertain)
    /\ UNCHANGED <<ppay, txs, events, due>>

\* The provider process stops: its calls die, its file store survives.
ProviderCrash ==
    /\ \E r \in Req : call[r].stage \in {"sent", "begun", "executed"}
    /\ call' = [r \in Req |->
                  IF call[r].stage \in {"sent", "begun", "executed"}
                  THEN [call[r] EXCEPT !.stage = "lost"] ELSE call[r]]
    /\ UNCHANGED providerVars

-----------------------------------------------------------------------------
(* Asynchronous outcomes.                                                   *)

\* applyPaymentTerminalState: SUCCEEDED captures the whole amount.
Terminal(x, snap) ==
    [x EXCEPT !.snap = snap, !.pending = "none",
              !.captured = IF snap.status = "SUCCEEDED" THEN Amount
                           ELSE x.captured]

\* processAsyncAction of kind processing_terminal: the guard decides.
ProcessingEnds(p) ==
    /\ ppay[p] # none
    /\ ppay[p].pending \in {"SUCCEEDED", "DECLINED"}
    /\ LET x   == ppay[p]
           inc == IF x.pending = "SUCCEEDED"
                  THEN Snapshot("SUCCEEDED", "APPROVED")
                  ELSE Snapshot("DECLINED", "DECLINED")
           new == IF decidePaymentEventApplication(x.snap, inc, FALSE)
                  THEN Terminal(x, inc) ELSE [x EXCEPT !.pending = "none"]
           P   == [ppay EXCEPT ![p] = new]
       IN  /\ ppay' = P
           /\ emitPaymentEvent(EventOf(P, p, <<p, "terminal">>,
                                       PrimaryTx(P, p)))
    /\ UNCHANGED <<pidem, txs, call>>

\* The cardholder ends the 3-D Secure challenge.
completeThreeDs(p) ==
    /\ ppay[p] # none /\ ppay[p].pending = "3ds"
    /\ \E snap \in {IF ppay[p].purchase THEN Snapshot("SUCCEEDED", "APPROVED")
                    ELSE Snapshot("AUTHORIZED", "AUTHORIZED"),
                    Snapshot("DECLINED", "DECLINED"),
                    Snapshot("EXPIRED", "EXPIRED")} :
         LET P == [ppay EXCEPT ![p] = Terminal(ppay[p], snap)]
         IN  /\ ppay' = P
             /\ emitPaymentEvent(EventOf(P, p, <<p, "terminal">>,
                                         PrimaryTx(P, p)))
    /\ UNCHANGED <<pidem, txs, call>>

\* processAsyncAction of kind out_of_order_stale: a PENDING payload, with an
\* id of its own, sent after the payment has moved on.
EmitStaleEvent(p) ==
    /\ ppay[p] # none /\ ppay[p].pending = "stale"
    /\ ppay' = [ppay EXCEPT ![p].pending = "none"]
    /\ emitPaymentEvent(
         [EventOf(ppay, p, <<p, "stale">>, PrimaryTx(ppay, p)) EXCEPT
            !.snap = Snapshot("PENDING", "IN_PROCESS"), !.captured = 0])
    /\ UNCHANGED <<pidem, txs, call>>

ProviderStep ==
    \/ \E r \in Req : \/ BeginCall(r)      \/ ExecuteCreate(r)
                      \/ RejectCreate(r)   \/ ExecuteCapture(r) \/ ExecuteCancel(r)
                      \/ ExecuteRefund(r)  \/ FinishCall(r)
    \/ \E p \in Req : \/ ProcessingEnds(p) \/ completeThreeDs(p)
                      \/ EmitStaleEvent(p)
=============================================================================
