--------------------------- MODULE PaymentService ---------------------------
(***************************************************************************)
(* The platform's payment service: idempotency records, payments, attempts *)
(* and refunds, the create / capture / cancel / refund handlers, the GET   *)
(* handler that reconciles with the provider, and the inbound webhook      *)
(* processor.  The repository's withLock serialises the sections of the    *)
(* handlers; a handler is cut into one action per section, and everything  *)
(* between sections interleaves.                                           *)
(***************************************************************************)
EXTENDS PaymentWire

CONSTANTS
    Menu,       \* client requests considered
    Poller      \* concurrent GET /v1/payments/:id requests

ASSUME MenuAssumption ==
    /\ Menu \subseteq Request
    /\ \A a \in Menu : a.op = "create" <=> a.pay = none

VARIABLES
    \* durable store
    idem,       \* idempotency records
    payments,   \* payments, named after the request that created them
    attempts,   \* status of the attempt of each payment
    refunds,    \* refund records
    seen,       \* appliedProviderEventIds
    applied,    \* events whose audit record says applied
    outbound,   \* events queued for delivery to the merchant's endpoint
    \* the server process
    pc, arg,    \* next section of each request, and the request
    pay,        \* the payment a request works on
    prior,      \* its captured and refunded amounts as first read
    result,     \* the answer about to be stored
    reply,      \* the answer given to the client
    poll,       \* GET requests that reconcile
    inbox       \* webhook events acknowledged and not yet processed

storeVars   == <<idem, payments, attempts, refunds, seen, applied, outbound>>
processVars == <<pc, arg, pay, prior, result, reply, poll, inbox>>
serviceVars == <<storeVars, processVars>>

Codes == PublicPaymentStatus \cup
    {"", "idempotency_key_reused", "request_in_progress", "invalid_request",
     "authorization_invalid", "payment_method_unavailable",
     "payment_outcome_unknown", "operation_not_allowed", "not_found",
     "refund_succeeded", "refund_failed", "internal_error"}

\* http 0: no answer; 200: 200 or 201; 409: refused by the idempotency gate;
\* 400: any other 4xx; 502: outcome unknown; 500: an error that is no
\* PaymentError.
Reply    == [http : {0, 200, 400, 409, 500, 502}, code : Codes]
NoReply  == [http |-> 0, code |-> ""]
Ok(c)    == [http |-> 200, code |-> c]
Err(h, c) == [http |-> h, code |-> c]

IdemKey  == Op \X Key
IdemRec  == [status : {"absent", "in_progress", "completed", "failed"},
             body : Request \cup {none}, reply : Reply]
NoRec    == [status |-> "absent", body |-> none, reply |-> NoReply]

Payment  == [key : Key, status : PublicPaymentStatus, captured : Money,
             refunded : Money, pid : Req \cup {none}, rtx : BOOLEAN]

ASSUME RecordAssumption == none \notin Payment

Refund   == [by : Req, pay : Req, key : Key, amt : Money, ok : BOOLEAN]
PC       == {"idle", "run", "find", "draft", "wait", "readback", "complete",
             "fail", "abort", "done"}
PollRec  == [at : {"idle", "fetch", "apply"}, pay : Req \cup {none},
             view : Response]
NoPoll   == [at |-> "idle", pay |-> none, view |-> NoResponse]

ServiceTypeOK ==
    /\ idem \in [IdemKey -> IdemRec]
    /\ payments \in [Req -> Payment \cup {none}]
    /\ attempts \in [Req -> {"processing", "succeeded", "failed", "unknown",
                             none}]
    /\ refunds \subseteq Refund
    /\ seen \subseteq EventId
    /\ applied \in [EventId -> Nat]
    /\ outbound \subseteq EventId
    /\ pc \in [Req -> PC]
    /\ arg \in [Req -> Menu \cup {none}]
    /\ pay \in [Req -> Req \cup {none}]
    /\ prior \in [Req -> [captured : Money, refunded : Money]]
    /\ result \in [Req -> Reply]
    /\ reply \in [Req -> Reply]
    /\ poll \in [Poller -> PollRec]
    /\ inbox \subseteq EventId

ServiceInit ==
    /\ idem = [k \in IdemKey |-> NoRec]
    /\ payments = [p \in Req |-> none]
    /\ attempts = [p \in Req |-> none]
    /\ refunds = {} /\ seen = {} /\ outbound = {} /\ inbox = {}
    /\ applied = [e \in EventId |-> 0]
    /\ pc = [r \in Req |-> "idle"]
    /\ arg = [r \in Req |-> none]
    /\ pay = [r \in Req |-> none]
    /\ prior = [r \in Req |-> [captured |-> 0, refunded |-> 0]]
    /\ result = [r \in Req |-> NoReply]
    /\ reply = [r \in Req |-> NoReply]
    /\ poll = [g \in Poller |-> NoPoll]

IKey(a)    == <<a.op, a.key>>
Running(r) == pc[r] \notin {"idle", "done"}

Goto(r, l) == pc' = [pc EXCEPT ![r] = l]

Finish(r, a) == /\ pc' = [pc EXCEPT ![r] = "done"]
                /\ reply' = [reply EXCEPT ![r] = a]

\* Leave the handler with a PaymentError / with another error.
Throw(r, e) == /\ pc' = [pc EXCEPT ![r] = "fail"]
               /\ result' = [result EXCEPT ![r] = e]
ThrowUnexpected(r) == /\ Goto(r, "abort")
                      /\ UNCHANGED result

-----------------------------------------------------------------------------
(* withIdempotency: the gate, and the three ways out.                       *)

\* Deviation (mutant): a record in progress does not stop a second request.
GateNoInFlight(r, a) ==
    /\ idem[IKey(a)].status \in {"absent", "in_progress"}
    /\ idem' = [idem EXCEPT ![IKey(a)] =
                  [status |-> "in_progress", body |-> a, reply |-> NoReply]]
    /\ Goto(r, "run")
    /\ UNCHANGED reply

\* The key is free: take it.
GateProceed(r, a) ==
    /\ idem[IKey(a)].status = "absent"
    /\ idem' = [idem EXCEPT ![IKey(a)] =
                  [status |-> "in_progress", body |-> a, reply |-> NoReply]]
    /\ Goto(r, "run")
    /\ UNCHANGED reply

\* Another body, a request in flight, or a stored answer to replay.
GateAnswer(r, a) ==
    LET rec == idem[IKey(a)] IN
    /\ rec.status # "absent"
    /\ Finish(r, IF rec.body # a THEN Err(409, "idempotency_key_reused")
                 ELSE IF rec.status = "in_progress"
                      THEN Err(409, "request_in_progress")
                 ELSE rec.reply)
    /\ UNCHANGED idem

Arrive(r, a) ==
    /\ pc[r] = "idle"
    /\ arg' = [arg EXCEPT ![r] = a]
    /\ GateProceed(r, a) \/ GateAnswer(r, a)
    /\ UNCHANGED <<payments, attempts, refunds, seen, applied, outbound,
                   pay, prior, result, poll, inbox, call>>

\* The handler returned: store its answer, whatever the record says by now.
Complete(r) ==
    LET k == IKey(arg[r]) IN
    /\ pc[r] = "complete"
    /\ idem' = [idem EXCEPT ![k] =
                  IF @.status = "absent" THEN @
                  ELSE [@ EXCEPT !.status = "completed", !.reply = result[r]]]
    /\ Finish(r, result[r])
    /\ UNCHANGED <<payments, attempts, refunds, seen, applied, outbound,
                   arg, pay, prior, result, poll, inbox, call>>

\* Deviation (mutant): a PaymentError frees the key.
FailForgets(r) ==
    /\ pc[r] = "fail"
    /\ idem' = [idem EXCEPT ![IKey(arg[r])] = NoRec]
    /\ Finish(r, result[r])
    /\ UNCHANGED <<payments, attempts, refunds, seen, applied, outbound,
                   arg, pay, prior, result, poll, inbox, call>>

\* The handler threw a PaymentError: store it for replay.
Fail(r) ==
    LET k == IKey(arg[r]) IN
    /\ pc[r] = "fail"
    /\ idem' = [idem EXCEPT ![k] =
                  IF @.status = "in_progress"
                  THEN [@ EXCEPT !.status = "failed", !.reply = result[r]]
                  ELSE @]
    /\ Finish(r, result[r])
    /\ UNCHANGED <<payments, attempts, refunds, seen, applied, outbound,
                   arg, pay, prior, result, poll, inbox, call>>

\* It threw anything else: forget the request so that the client may retry.
Abort(r) ==
    LET k == IKey(arg[r]) IN
    /\ pc[r] = "abort"
    /\ idem' = [idem EXCEPT ![k] = IF @.status = "in_progress" THEN NoRec
                                   ELSE @]
    /\ Finish(r, Err(500, "internal_error"))
    /\ UNCHANGED <<payments, attempts, refunds, seen, applied, outbound,
                   arg, pay, prior, result, poll, inbox, call>>

-----------------------------------------------------------------------------
(* createPayment.                                                           *)

SendCall(r, op, pid, amt) ==
    call' = [call EXCEPT ![r] =
               [NoCall EXCEPT !.stage = "sent",
                              !.pkey = [op |-> op, key |-> arg[r].key,
                                        pid |-> pid],
                              !.amt = amt, !.manual = arg[r].manual]]

\* The mandate is verified and the payment method found active and owned.
Authorize(r) ==
    /\ pc[r] = "run" /\ arg[r].op = "create"
    /\ \/ Goto(r, "find") /\ UNCHANGED result
       \/ \E e \in {"authorization_invalid", "payment_method_unavailable"} :
            Throw(r, Err(400, e))
    /\ UNCHANGED <<storeVars, arg, pay, prior, reply, poll, inbox, call>>

WithKey(k) == {p \in Req : payments[p] # none /\ payments[p].key = k}

\* Deviation (mutant): a payment kept under the same provider key is not
\* looked for.
FindExistingSkipped(r) ==
    /\ pc[r] = "find"
    /\ Goto(r, "draft")
    /\ UNCHANGED <<pay, result, call>>
    /\ UNCHANGED <<storeVars, arg, prior, reply, poll, inbox>>

\* A payment kept under the same provider key by an earlier request is
\* returned, or tried again while its outcome is unknown.
FindExisting(r) ==
    /\ pc[r] = "find"
    /\ \/ /\ WithKey(arg[r].key) = {}
          /\ Goto(r, "draft")
          /\ UNCHANGED <<pay, result, call>>
       \/ \E p \in WithKey(arg[r].key) :
            LET x == payments[p] IN
            \/ /\ x.status = "processing" /\ x.pid = none
               /\ pay' = [pay EXCEPT ![r] = p]
               /\ SendCall(r, "create", none, 0)
               /\ Goto(r, "wait")
               /\ UNCHANGED result
            \/ /\ ~(x.status = "processing" /\ x.pid = none)
               /\ result' = [result EXCEPT ![r] = Ok(x.status)]
               /\ Goto(r, "complete")
               /\ UNCHANGED <<pay, call>>
    /\ UNCHANGED <<storeVars, arg, prior, reply, poll, inbox>>

\* Store the draft and its attempt, then call the provider.
PushDraft(r) ==
    /\ pc[r] = "draft"
    /\ payments' = [payments EXCEPT ![r] =
                      [key |-> arg[r].key, status |-> "processing",
                       captured |-> 0, refunded |-> 0, pid |-> none,
                       rtx |-> FALSE]]
    /\ attempts' = [attempts EXCEPT ![r] = "processing"]
    /\ pay' = [pay EXCEPT ![r] = r]
    /\ SendCall(r, "create", none, 0)
    /\ Goto(r, "wait")
    /\ UNCHANGED <<idem, refunds, seen, applied, outbound, arg, prior, result,
                   reply, poll, inbox>>

\* Deviation (mutant): the attempt takes the payment's public status.
AttemptStatusPublic(s) == s

AttemptStatus(s) ==
    IF s \in {"declined", "failed"} THEN "failed"
    ELSE IF s \in {"processing", "requires_user_action"} THEN "processing"
    ELSE "succeeded"

\* Deviation (mutant): the link is the platform's own payment id.
applyProviderPaymentViewOwnId(p, v) ==
    /\ payments' = [payments EXCEPT
          ![p] = IF @ = none THEN @
                 ELSE [@ EXCEPT !.pid = p,
                                !.status = mapYunoPaymentStatus(v.snap)]]
    /\ UNCHANGED attempts

applyProviderPaymentView(p, v) ==
    LET s == mapYunoPaymentStatus(v.snap)
        x == payments[p]
    IN
    IF x = none THEN UNCHANGED <<payments, attempts>>
    ELSE /\ payments' = [payments EXCEPT ![p] =
              [x EXCEPT !.pid = v.pid, !.status = s, !.captured = v.captured,
                        !.refunded = v.refunded, !.rtx = v.rtx \/ x.rtx]]
         /\ attempts' = [attempts EXCEPT ![p] =
                           IF @ = none THEN @ ELSE AttemptStatus(s)]

RemoveDraft(r) ==
    /\ payments' = [payments EXCEPT ![r] = none]
    /\ attempts' = [attempts EXCEPT ![r] = none]

Answered(r, op) ==
    /\ pc[r] = "wait" /\ arg[r].op = op
    /\ call[r].stage = "answered"

OutcomeUnknown == Err(502, "payment_outcome_unknown")

CreateOk(r) ==
    /\ Answered(r, "create") /\ call[r].resp.kind = "ok"
    /\ applyProviderPaymentView(pay[r], call[r].resp)
    /\ Goto(r, "readback")
    /\ UNCHANGED <<idem, refunds, seen, applied, outbound, arg, pay, prior,
                   result, reply, poll, inbox, call>>

\* A 5xx: the payment stays in processing; the attempt of a first try is
\* marked unknown.
CreateUnknown(r) ==
    /\ Answered(r, "create") /\ call[r].resp.kind = "unknown"
    /\ IF pay[r] = r
       THEN /\ payments' = [payments EXCEPT ![r] =
                              IF @ = none THEN @
                              ELSE [@ EXCEPT !.status = "processing"]]
            /\ attempts' = [attempts EXCEPT ![r] =
                              IF @ = none THEN @ ELSE "unknown"]
       ELSE UNCHANGED <<payments, attempts>>
    /\ Throw(r, OutcomeUnknown)
    /\ UNCHANGED <<idem, refunds, seen, applied, outbound, arg, pay, prior,
                   reply, poll, inbox, call>>

\* A 4xx: a first try removes its draft.
CreateRejected(r) ==
    /\ Answered(r, "create") /\ call[r].resp.kind = "rejected"
    /\ IF pay[r] = r THEN RemoveDraft(r) ELSE UNCHANGED <<payments, attempts>>
    /\ Throw(r, Err(400, call[r].resp.code))
    /\ UNCHANGED <<idem, refunds, seen, applied, outbound, arg, pay, prior,
                   reply, poll, inbox, call>>

\* The HTTP client gives up (15 s, or the connection breaks).  Its error is
\* no PaymentError and the adapter's createPayment lets it through: a first
\* try removes its draft and the request is forgotten.
CreateTimeout(r) ==
    /\ pc[r] = "wait" /\ arg[r].op = "create"
    /\ IF pay[r] = r THEN RemoveDraft(r) ELSE UNCHANGED <<payments, attempts>>
    /\ ThrowUnexpected(r)
    /\ UNCHANGED <<idem, refunds, seen, applied, outbound, arg, pay, prior,
                   reply, poll, inbox, call>>

\* getPaymentInternal builds the answer of create, capture and cancel.
ReadBack(r) ==
    /\ pc[r] = "readback"
    /\ IF payments[pay[r]] = none
       THEN Throw(r, Err(400, "not_found"))
       ELSE /\ result' = [result EXCEPT ![r] = Ok(payments[pay[r]].status)]
            /\ Goto(r, "complete")
    /\ UNCHANGED <<storeVars, arg, pay, prior, reply, poll, inbox, call>>

-----------------------------------------------------------------------------
(* capturePayment, cancelPayment, createRefund.                             *)

Allowed(op, x) ==
    /\ x.pid # none
    /\ IF op = "refund" THEN x.status \in {"succeeded", "partially_refunded"}
       ELSE x.status = "authorized"

\* Read the payment, check its state, send the operation to the provider.  A
\* refund without a recorded refundable transaction asks the provider for one
\* (found); that GET may fail.
StartAction(r, found) ==
    LET p == arg[r].pay IN
    /\ pc[r] = "run" /\ arg[r].op # "create"
    /\ IF payments[p] = none
       THEN Throw(r, Err(400, "not_found")) /\ UNCHANGED <<pay, prior, call>>
       ELSE IF ~Allowed(arg[r].op, payments[p])
       THEN /\ Throw(r, Err(400, "operation_not_allowed"))
            /\ UNCHANGED <<pay, prior, call>>
       ELSE LET x == payments[p] IN
         \/ /\ arg[r].op = "refund" => x.rtx \/ found
            /\ pay' = [pay EXCEPT ![r] = p]
            /\ prior' = [prior EXCEPT ![r] = [captured |-> x.captured,
                                              refunded |-> x.refunded]]
            /\ SendCall(r, arg[r].op, x.pid,
                        IF arg[r].op = "capture" /\ arg[r].amt = 0
                        THEN Amount ELSE arg[r].amt)
            /\ Goto(r, "wait")
            /\ UNCHANGED result
         \/ /\ arg[r].op = "refund" /\ ~x.rtx
            /\ \/ Throw(r, OutcomeUnknown)
               \/ ~found /\ Throw(r, Err(400, "operation_not_allowed"))
            /\ UNCHANGED <<pay, prior, call>>
    /\ UNCHANGED <<storeVars, arg, reply, poll, inbox>>

UpdatePayment(p, new) ==
    payments' = [payments EXCEPT ![p] = IF payments[p] = none THEN none
                                        ELSE new]

CaptureOk(r) ==
    LET v == call[r].resp
        x == payments[pay[r]]
    IN
    /\ Answered(r, "capture") /\ v.kind = "ok"
    /\ UpdatePayment(pay[r],
         [x EXCEPT !.status = mapYunoPaymentStatus(v.snap),
                   !.captured = v.captured, !.rtx = v.rtx \/ x.rtx])
    /\ Goto(r, "readback")
    /\ UNCHANGED <<idem, attempts, refunds, seen, applied, outbound, arg, pay,
                   prior, result, reply, poll, inbox, call>>

CancelOk(r) ==
    LET v == call[r].resp IN
    /\ Answered(r, "cancel") /\ v.kind = "ok"
    /\ UpdatePayment(pay[r], [payments[pay[r]] EXCEPT
                                !.status = mapYunoPaymentStatus(v.snap)])
    /\ Goto(r, "readback")
    /\ UNCHANGED <<idem, attempts, refunds, seen, applied, outbound, arg, pay,
                   prior, result, reply, poll, inbox, call>>

\* The refund's record takes its default amount from the first read.
RefundOk(r) ==
    LET v == call[r].resp
        x == payments[pay[r]]
        n == prior[r]
    IN
    /\ Answered(r, "refund") /\ v.kind = "ok"
    /\ refunds' = refunds \cup
         {[by |-> r, pay |-> pay[r], key |-> arg[r].key, ok |-> ~v.refundFailed,
           amt |-> IF arg[r].amt # 0 THEN arg[r].amt
                   ELSE IF n.captured > n.refunded
                        THEN n.captured - n.refunded ELSE 0]}
    /\ UpdatePayment(pay[r],
         IF v.refundFailed THEN [x EXCEPT !.refunded = n.refunded, !.rtx = TRUE]
         ELSE [x EXCEPT !.status = mapYunoPaymentStatus(v.snap),
                        !.refunded = v.refunded, !.captured = v.captured,
                        !.rtx = TRUE])
    /\ result' = [result EXCEPT ![r] =
                    Ok(IF v.refundFailed THEN "refund_failed"
                       ELSE "refund_succeeded")]
    /\ Goto(r, "complete")
    /\ UNCHANGED <<idem, attempts, seen, applied, outbound, arg, pay, prior,
                   reply, poll, inbox, call>>

\* Any other outcome of the three calls is a PaymentError, a timeout too.
ActionFails(r) ==
    /\ pc[r] = "wait" /\ arg[r].op # "create"
    /\ \/ Throw(r, OutcomeUnknown)
       \/ /\ call[r].stage = "answered" /\ call[r].resp.kind = "rejected"
          /\ Throw(r, Err(400, call[r].resp.code))
    /\ UNCHANGED <<storeVars, arg, pay, prior, reply, poll, inbox, call>>

-----------------------------------------------------------------------------
(* getPayment: reconcile a payment whose outcome is still open.             *)

PollStart(g, p) ==
    /\ poll[g].at = "idle"
    /\ payments[p] # none /\ payments[p].pid # none
    /\ payments[p].status \in {"processing", "requires_user_action"}
    /\ poll' = [poll EXCEPT ![g] = [NoPoll EXCEPT !.at = "fetch", !.pay = p]]
    /\ UNCHANGED <<storeVars, pc, arg, pay, prior, result, reply, inbox, call>>

\* The provider answers with the view v.
PollFetch(g, v) ==
    /\ poll[g].at = "fetch"
    /\ poll' = [poll EXCEPT ![g].at = "apply", ![g].view = v]
    /\ UNCHANGED <<storeVars, pc, arg, pay, prior, result, reply, inbox, call>>

\* Deviation (mutant): the view's status is dropped.
PollApplyAmountsOnly(g) ==
    LET p == poll[g].pay
        v == poll[g].view
    IN
    /\ poll[g].at = "apply"
    /\ UpdatePayment(p, [payments[p] EXCEPT !.captured = v.captured,
                                            !.refunded = v.refunded])
    /\ poll' = [poll EXCEPT ![g] = NoPoll]
    /\ UNCHANGED <<idem, attempts, refunds, seen, applied, outbound, pc, arg,
                   pay, prior, result, reply, inbox, call>>

\* The view overwrites whatever is stored by now.
PollApply(g) ==
    LET p == poll[g].pay
        v == poll[g].view
    IN
    /\ poll[g].at = "apply"
    /\ UpdatePayment(p, [payments[p] EXCEPT
                           !.status = mapYunoPaymentStatus(v.snap),
                           !.captured = v.captured, !.refunded = v.refunded])
    /\ poll' = [poll EXCEPT ![g] = NoPoll]
    /\ UNCHANGED <<idem, attempts, refunds, seen, applied, outbound, pc, arg,
                   pay, prior, result, reply, inbox, call>>

\* Errors of the provider call and of the store are swallowed.
PollFails(g) ==
    /\ poll[g].at \in {"fetch", "apply"}
    /\ poll' = [poll EXCEPT ![g] = NoPoll]
    /\ UNCHANGED <<storeVars, pc, arg, pay, prior, result, reply, inbox, call>>

-----------------------------------------------------------------------------
(* Inbound webhooks: acknowledged first, processed later.                   *)

AcceptWebhook(id) ==
    /\ inbox' = inbox \cup {id}
    /\ UNCHANGED <<storeVars, pc, arg, pay, prior, result, reply, poll, call>>

\* Deviation (mutant): every accepted event counts as captured in full.
EventAmountsFull(x, e, s) ==
    [x EXCEPT !.status = s, !.refunded = e.refunded, !.captured = Amount]

\* The amounts of an accepted event; a success never leaves captured at 0.
EventAmounts(x, e, s) ==
    [x EXCEPT !.status = s, !.refunded = e.refunded,
              !.captured = IF e.captured = 0
                              /\ s \in {"succeeded", "partially_refunded"}
                           THEN Amount ELSE e.captured,
              !.rtx = e.tx \in {"PURCHASE", "CAPTURE"} \/ x.rtx]

\* Deviation (mutant): the id of an applied event is not remembered.
ProcessWebhookForgets(e) ==
    /\ e.id \in inbox
    /\ inbox' = inbox \ {e.id}
    /\ \E p \in {q \in Req : payments[q] # none /\ payments[q].pid = e.pid} :
         /\ decidePaymentEventApplication(
              StoredSnapshot(payments[p].status), e.snap, FALSE)
         /\ payments' = [payments EXCEPT ![p] =
                            EventAmounts(@, e, mapYunoPaymentStatus(e.snap))]
         /\ applied' = [applied EXCEPT ![e.id] = @ + 1]
    /\ UNCHANGED <<idem, attempts, refunds, seen, outbound>>
    /\ UNCHANGED <<pc, arg, pay, prior, result, reply, poll, call>>

\* The processor of event e, acknowledged before: one section.
ProcessWebhook(e) ==
    LET match == {p \in Req : payments[p] # none /\ payments[p].pid = e.pid} IN
    /\ e.id \in inbox
    /\ inbox' = inbox \ {e.id}
    /\ \/ /\ e.id \in seen \/ match = {}
          /\ UNCHANGED storeVars
       \/ \E p \in match :
            /\ e.id \notin seen
            /\ seen' = seen \cup {e.id}
            /\ IF decidePaymentEventApplication(
                    StoredSnapshot(payments[p].status), e.snap, FALSE)
               THEN /\ payments' = [payments EXCEPT ![p] =
                         EventAmounts(payments[p], e,
                                      mapYunoPaymentStatus(e.snap))]
                    /\ applied' = [applied EXCEPT ![e.id] = @ + 1]
                    /\ outbound' = outbound \cup {e.id}
               ELSE UNCHANGED <<payments, applied, outbound>>
            /\ UNCHANGED <<idem, attempts, refunds>>
    /\ UNCHANGED <<pc, arg, pay, prior, result, reply, poll, call>>

-----------------------------------------------------------------------------
(* Failures.                                                                *)

\* The repository throws in a section (the write fails): nothing of the
\* section is kept.  In a handler this is no PaymentError; while the record
\* is being settled the client gets the error and the record stays as it is.
StoreFails(r) ==
    /\ \/ /\ pc[r] \in {"run", "find", "draft", "wait", "readback", "complete"}
          /\ Goto(r, "abort")
          /\ UNCHANGED reply
       \/ /\ pc[r] \in {"fail", "abort"}
          /\ Finish(r, Err(500, "internal_error"))
    /\ UNCHANGED <<storeVars, arg, pay, prior, result, poll, inbox, call>>

\* The repository throws while a webhook is processed: the event has been
\* acknowledged and the error is dropped.
WebhookFails(id) ==
    /\ id \in inbox
    /\ inbox' = inbox \ {id}
    /\ UNCHANGED <<storeVars, pc, arg, pay, prior, result, reply, poll, call>>

\* The server process stops; only the store survives.
ServiceCrash ==
    /\ pc' = [r \in Req |-> IF Running(r) THEN "done" ELSE pc[r]]
    /\ poll' = [g \in Poller |-> NoPoll]
    /\ inbox' = {}
    /\ UNCHANGED <<storeVars, arg, pay, prior, result, reply, call>>

RequestStep(r) ==
    \/ Complete(r)       \/ Fail(r)           \/ Abort(r)
    \/ Authorize(r)      \/ FindExisting(r)   \/ PushDraft(r)
    \/ CreateOk(r)       \/ CreateUnknown(r)  \/ CreateRejected(r)
    \/ ReadBack(r)       \/ CaptureOk(r)      \/ CancelOk(r)
    \/ RefundOk(r)
=============================================================================
