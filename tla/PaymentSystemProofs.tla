------------------------ MODULE PaymentSystemProofs ------------------------
(***************************************************************************)
(* Proofs, for all values of the constants, of the safety of payment       *)
(* creation: one runner, one payment and one charge per key.               *)
(***************************************************************************)
EXTENDS PaymentSystem, TLAPS

(* Well-formedness of what the operators build. *)

LEMMA MoneyFacts == 0 \in Money /\ Amount \in Money /\ Money \subseteq Nat
BY WireAssumption DEF Money

LEMMA MapTyped ==
    ASSUME NEW x PROVE mapYunoPaymentStatus(x) \in PublicPaymentStatus
BY DEF mapYunoPaymentStatus, PublicPaymentStatus

LEMMA NoResponseTyped == NoResponse \in Response
BY MoneyFacts DEF NoResponse, Response

LEMMA UncertainTyped == Uncertain \in Response
BY NoResponseTyped DEF Uncertain, Response

LEMMA RejectedTyped ==
    \A c \in {"invalid_request", "request_in_progress",
              "idempotency_key_reused"} : Rejected(c) \in Response
BY NoResponseTyped DEF Rejected, Response

LEMMA ViewTyped ==
    ASSUME NEW P, NEW p \in Req, NEW T, P[p] \in ProviderPayment
    PROVE  /\ View(P, p, T) \in Response
           /\ View(P, p, T).kind = "ok" /\ View(P, p, T).pid = p
           /\ View(P, p, T).snap \in ProviderSnapshot
BY NoResponseTyped DEF View, Response, NoResponse, ProviderPayment, Refundable

LEMMA EventTyped ==
    ASSUME NEW P, NEW p \in Req, P[p] \in ProviderPayment,
           NEW id \in EventId,
           NEW tx \in {"PURCHASE", "AUTHORIZE", "CAPTURE", "CANCEL", "REFUND"}
    PROVE  EventOf(P, p, id, tx) \in Event
BY DEF EventOf, Event, ProviderPayment

LEMMA NoCallTyped == NoCall \in Call
BY MoneyFacts, NoResponseTyped DEF NoCall, Call, Stage

LEMMA NoIdemTyped == NoIdem \in [state : IdemState, resp : Response]
BY NoResponseTyped DEF NoIdem, IdemState

LEMMA NoReplyTyped == NoReply \in Reply
BY DEF NoReply, Reply, Codes

LEMMA NoRecTyped == NoRec \in IdemRec
BY NoReplyTyped DEF NoRec, IdemRec

LEMMA NoPollTyped == NoPoll \in PollRec
BY NoResponseTyped DEF NoPoll, PollRec

-----------------------------------------------------------------------------
(* What the types leave open: which fields are defined in which state.      *)

Early(r) == pc[r] \in {"idle", "run", "find", "draft"}

\* A view shows a payment that exists.
GoodView(v) == v.kind = "ok" => /\ v.pid \in Req /\ ppay[v.pid] # none
                                /\ v.snap \in ProviderSnapshot

\* A call that was sent has a key, and a target unless it creates one.
CallShape ==
    \A r \in Req : call[r].stage # "none" =>
      /\ call[r].pkey \in ProviderKey
      /\ call[r].pkey.op # "create" => /\ call[r].pkey.pid \in Req
                                      /\ ppay[call[r].pkey.pid] # none

ViewShape == /\ \A r \in Req : GoodView(call[r].resp)
             /\ \A k \in ProviderKey : GoodView(pidem[k].resp)

LinkShape == \A p \in Req : Linked(p) => ppay[payments[p].pid] # none

PcShape ==
    \A r \in Req :
      /\ pc[r] # "idle" => arg[r] \in Menu
      /\ pc[r] \in {"find", "draft"} => arg[r].op = "create"
      /\ pc[r] = "wait" => /\ call[r].stage # "none"
                           /\ call[r].pkey.op = arg[r].op
      /\ pc[r] \in {"wait", "readback"} => pay[r] \in Req

PollShape == \A g \in Poller : poll[g].at # "idle" => poll[g].pay \in Req

Shape == CallShape /\ ViewShape /\ LinkShape /\ PcShape /\ PollShape

LEMMA InitTyped == Init => TypeOK
<1> SUFFICES ASSUME Init PROVE TypeOK
    OBVIOUS
<1> USE DEF Init
<1>1. WireTypeOK
    BY NoCallTyped DEF WireInit, WireTypeOK
<1>2. ProviderTypeOK
    BY NoIdemTyped DEF ProviderInit, ProviderTypeOK
<1>3. ServiceTypeOK
    BY NoRecTyped, NoReplyTyped, NoPollTyped, MoneyFacts
    DEF ServiceInit, ServiceTypeOK, PC
<1> QED
    BY <1>1, <1>2, <1>3, FaultAssumption DEF TypeOK

LEMMA GotoTyped ==
    ASSUME pc \in [Req -> PC], NEW r \in Req, NEW l \in PC, Goto(r, l)
    PROVE  pc' \in [Req -> PC]
BY DEF Goto

LEMMA FinishTyped ==
    ASSUME pc \in [Req -> PC], reply \in [Req -> Reply],
           NEW r \in Req, NEW a \in Reply, Finish(r, a)
    PROVE  pc' \in [Req -> PC] /\ reply' \in [Req -> Reply]
BY DEF Finish, PC

LEMMA ThrowTyped ==
    ASSUME pc \in [Req -> PC], result \in [Req -> Reply],
           NEW r \in Req, NEW e \in Reply, Throw(r, e)
    PROVE  pc' \in [Req -> PC] /\ result' \in [Req -> Reply]
BY DEF Throw, PC

LEMMA SettleTyped ==
    ASSUME idem \in [IdemKey -> IdemRec], NEW k \in IdemKey, NEW a \in Reply
    PROVE  /\ [idem EXCEPT ![k] =
                  IF @.status = "absent" THEN @
                  ELSE [@ EXCEPT !.status = "completed", !.reply = a]]
                 \in [IdemKey -> IdemRec]
           /\ [idem EXCEPT ![k] =
                  IF @.status = "in_progress"
                  THEN [@ EXCEPT !.status = "failed", !.reply = a]
                  ELSE @] \in [IdemKey -> IdemRec]
BY DEF IdemRec

LEMMA KeyTyped == \A a \in Menu : IKey(a) \in IdemKey /\ a \in Request
BY MenuAssumption DEF IKey, IdemKey, Request

LEMMA OkTyped == \A c \in Codes : Ok(c) \in Reply
BY DEF Ok, Reply

LEMMA ErrTyped ==
    \A c \in Codes : /\ Err(400, c) \in Reply /\ Err(409, c) \in Reply
                     /\ Err(500, c) \in Reply /\ Err(502, c) \in Reply
BY DEF Err, Reply

\* The codes the handlers name.
LEMMA NamedCodes ==
    /\ "idempotency_key_reused" \in Codes /\ "request_in_progress" \in Codes
    /\ "invalid_request" \in Codes /\ "authorization_invalid" \in Codes
    /\ "payment_method_unavailable" \in Codes /\ "" \in Codes
    /\ "payment_outcome_unknown" \in Codes /\ "operation_not_allowed" \in Codes
    /\ "not_found" \in Codes /\ "refund_succeeded" \in Codes
    /\ "refund_failed" \in Codes /\ "internal_error" \in Codes
BY DEF Codes

LEMMA OutcomeUnknownTyped == OutcomeUnknown \in Reply
BY ErrTyped, NamedCodes DEF OutcomeUnknown

LEMMA StatusIsCode == PublicPaymentStatus \subseteq Codes
BY DEF Codes

-----------------------------------------------------------------------------
(* The sections of withIdempotency.                                         *)

LEMMA ArriveShape ==
    ASSUME TypeOK, Shape, NEW r \in Req, NEW a \in Menu, Arrive(r, a),
           UNCHANGED <<providerVars, faults>>
    PROVE  TypeOK' /\ Shape'
<1> USE DEF TypeOK, ServiceTypeOK, Arrive
<1>1. /\ idem' \in [IdemKey -> IdemRec] /\ pc' \in [Req -> PC]
      /\ reply' \in [Req -> Reply]
    <2>1. CASE GateProceed(r, a)
      <3>1. [status |-> "in_progress", body |-> a, reply |-> NoReply] \in IdemRec
          BY KeyTyped, NoReplyTyped DEF IdemRec
      <3> QED
          BY <2>1, <3>1, KeyTyped, GotoTyped DEF GateProceed, PC
    <2>2. CASE GateAnswer(r, a)
      <3>1. idem[IKey(a)].reply \in Reply
          BY KeyTyped DEF IdemRec
      <3>2. /\ Err(409, "idempotency_key_reused") \in Reply
            /\ Err(409, "request_in_progress") \in Reply
          BY ErrTyped, NamedCodes
      <3> QED
          BY <2>2, <3>1, <3>2, FinishTyped DEF GateAnswer
    <2> QED
        BY <2>1, <2>2
<1>2. arg' \in [Req -> Menu \cup {none}] /\ arg'[r] = a
    OBVIOUS
<1>3. ServiceTypeOK'
    BY <1>1, <1>2
<1>4. PcShape'
    BY <1>2 DEF Shape, PcShape, GateProceed, GateAnswer, Goto, Finish
<1>5. CallShape' /\ ViewShape' /\ LinkShape' /\ PollShape'
    BY DEF Shape, CallShape, ViewShape, GoodView, LinkShape, Linked, PollShape,
           providerVars
<1> QED
    BY <1>3, <1>4, <1>5 DEF Shape, providerVars, WireTypeOK, ProviderTypeOK

LEMMA SettleShape ==
    ASSUME TypeOK, Shape, NEW r \in Req,
           Complete(r) \/ Fail(r) \/ Abort(r),
           UNCHANGED <<providerVars, faults>>
    PROVE  TypeOK' /\ Shape'
<1> USE DEF TypeOK, ServiceTypeOK, Complete, Fail, Abort
<1>1. arg[r] \in Menu
    BY DEF Shape, PcShape
<1>2. IKey(arg[r]) \in IdemKey
    BY <1>1, KeyTyped
<1>3. idem' \in [IdemKey -> IdemRec] /\ \E a \in Reply : Finish(r, a)
    <2>1. CASE Complete(r)
        BY <1>2, <2>1, SettleTyped
    <2>2. CASE Fail(r)
        BY <1>2, <2>2, SettleTyped
    <2>3. CASE Abort(r)
      <3>1. Err(500, "internal_error") \in Reply
          BY ErrTyped, NamedCodes
      <3> QED
          BY <1>2, <2>3, <3>1, NoRecTyped
    <2> QED
        BY <2>1, <2>2, <2>3
<1>4. pc' \in [Req -> PC] /\ reply' \in [Req -> Reply]
    BY <1>3, FinishTyped
<1>5. ServiceTypeOK'
    BY <1>3, <1>4
<1>6. PcShape'
    BY <1>3 DEF Shape, PcShape, Finish
<1>7. CallShape' /\ ViewShape' /\ LinkShape' /\ PollShape'
    BY DEF Shape, CallShape, ViewShape, GoodView, LinkShape, Linked, PollShape,
           providerVars
<1> QED
    BY <1>5, <1>6, <1>7 DEF Shape, providerVars, WireTypeOK, ProviderTypeOK
-----------------------------------------------------------------------------
(* createPayment.                                                           *)

LEMMA SendCallTyped ==
    ASSUME call \in [Req -> Call], NEW r \in Req, arg[r] \in Menu,
           NEW op \in Op, NEW pid \in Req \cup {none}, NEW amt \in Money,
           SendCall(r, op, pid, amt)
    PROVE  /\ call' \in [Req -> Call]
           /\ call'[r].stage = "sent" /\ call'[r].resp = NoResponse
           /\ call'[r].pkey = [op |-> op, key |-> arg[r].key, pid |-> pid]
           /\ call'[r].pkey \in ProviderKey
           /\ \A s \in Req \ {r} : call'[s] = call[s]
<1> DEFINE k == [op |-> op, key |-> arg[r].key, pid |-> pid]
<1>1. k \in ProviderKey /\ arg[r].manual \in BOOLEAN
    BY KeyTyped DEF ProviderKey, Request
<1> DEFINE c == [NoCall EXCEPT !.stage = "sent", !.pkey = k, !.amt = amt,
                               !.manual = arg[r].manual]
<1>2. c \in Call
    BY <1>1, NoCallTyped DEF Call, Stage
<1>3. c.stage = "sent" /\ c.resp = NoResponse /\ c.pkey = k
    BY DEF NoCall
<1>4. call' = [call EXCEPT ![r] = c]
    BY DEF SendCall
<1> HIDE DEF c
<1> QED
    BY <1>1, <1>2, <1>3, <1>4

\* A step that leaves the calls and the provider alone.
LEMMA ProviderFrame ==
    ASSUME TypeOK, Shape, UNCHANGED <<call, providerVars, faults>>
    PROVE  /\ WireTypeOK' /\ ProviderTypeOK' /\ faults' \in 0 .. MaxFaults
           /\ CallShape' /\ ViewShape'
BY DEF TypeOK, Shape, WireTypeOK, ProviderTypeOK, providerVars, CallShape,
       ViewShape, GoodView

\* A request that sends its call.
LEMMA SendFrame ==
    ASSUME TypeOK, Shape, UNCHANGED <<providerVars, faults>>,
           NEW r \in Req, arg[r] \in Menu,
           NEW op \in Op, NEW pid \in Req \cup {none}, NEW amt \in Money,
           op # "create" => pid \in Req /\ ppay[pid] # none,
           SendCall(r, op, pid, amt)
    PROVE  /\ WireTypeOK' /\ ProviderTypeOK' /\ faults' \in 0 .. MaxFaults
           /\ CallShape' /\ ViewShape'
           /\ call'[r].stage # "none" /\ call'[r].pkey.op = op
           /\ \A s \in Req \ {r} : call'[s] = call[s]
<1>1. /\ call' \in [Req -> Call]
      /\ call'[r].stage = "sent" /\ call'[r].resp = NoResponse
      /\ call'[r].pkey = [op |-> op, key |-> arg[r].key, pid |-> pid]
      /\ call'[r].pkey \in ProviderKey
      /\ \A s \in Req \ {r} : call'[s] = call[s]
    BY SendCallTyped DEF TypeOK, WireTypeOK
<1>2. WireTypeOK' /\ ProviderTypeOK' /\ faults' \in 0 .. MaxFaults
    BY <1>1 DEF TypeOK, WireTypeOK, ProviderTypeOK, providerVars
<1>3. CallShape'
    BY <1>1 DEF Shape, CallShape, providerVars
<1>4. ViewShape'
  <2>1. NoResponse.kind = "none"
      BY DEF NoResponse
  <2>2. \A s \in Req : GoodView(call[s].resp)'
      BY <1>1, <2>1 DEF Shape, ViewShape, GoodView, providerVars
  <2>3. \A k \in ProviderKey : GoodView(pidem[k].resp)'
      BY DEF Shape, ViewShape, GoodView, providerVars
  <2> QED
      BY <2>2, <2>3 DEF ViewShape
<1> QED
    BY <1>1, <1>2, <1>3, <1>4

LEMMA AuthorizeShape ==
    ASSUME TypeOK, Shape, NEW r \in Req, Authorize(r),
           UNCHANGED <<providerVars, faults>>
    PROVE  TypeOK' /\ Shape'
<1> USE DEF TypeOK, ServiceTypeOK, Authorize, storeVars
<1>1. pc' \in [Req -> PC] /\ result' \in [Req -> Reply]
    <2>1. CASE Goto(r, "find") /\ UNCHANGED result
        BY <2>1, GotoTyped DEF PC
    <2>2. CASE \E e \in {"authorization_invalid", "payment_method_unavailable"} :
                 Throw(r, Err(400, e))
      <3>1. PICK e \in Codes : Throw(r, Err(400, e))
          BY <2>2, NamedCodes
      <3>2. Err(400, e) \in Reply
          BY ErrTyped
      <3>3. pc \in [Req -> PC] /\ result \in [Req -> Reply]
          OBVIOUS
      <3> HIDE DEF TypeOK, ServiceTypeOK, Authorize, storeVars
      <3> QED
          BY <3>1, <3>2, <3>3, ThrowTyped
    <2> QED
        BY <2>1, <2>2
<1>2. ServiceTypeOK'
    BY <1>1
<1>3. PcShape'
    BY DEF Shape, PcShape, Goto, Throw
<1>4. LinkShape' /\ PollShape'
    BY DEF Shape, LinkShape, Linked, PollShape, providerVars
<1> QED
    BY <1>2, <1>3, <1>4, ProviderFrame DEF Shape

LEMMA FindExistingShape ==
    ASSUME TypeOK, Shape, NEW r \in Req, FindExisting(r),
           UNCHANGED <<providerVars, faults>>
    PROVE  TypeOK' /\ Shape'
<1> USE DEF TypeOK, ServiceTypeOK, FindExisting, storeVars
<1>0. arg[r] \in Menu /\ arg[r].op = "create"
    BY DEF Shape, PcShape
<1>1. CASE Goto(r, "draft") /\ UNCHANGED <<pay, result, call>>
  <2>1. ServiceTypeOK'
      BY <1>1, GotoTyped DEF PC
  <2>2. PcShape'
      BY <1>0, <1>1 DEF Shape, PcShape, Goto
  <2>3. LinkShape' /\ PollShape'
      BY DEF Shape, LinkShape, Linked, PollShape, providerVars
  <2> QED
      BY <1>1, <2>1, <2>2, <2>3, ProviderFrame DEF Shape
<1>2. ASSUME NEW p \in Req,
             pay' = [pay EXCEPT ![r] = p], SendCall(r, "create", none, 0),
             Goto(r, "wait"), UNCHANGED result
      PROVE  TypeOK' /\ Shape'
  <2>1. ServiceTypeOK'
      BY <1>2, GotoTyped DEF PC
  <2>2. /\ WireTypeOK' /\ ProviderTypeOK' /\ faults' \in 0 .. MaxFaults
        /\ CallShape' /\ ViewShape'
        /\ call'[r].stage # "none" /\ call'[r].pkey.op = "create"
        /\ \A s \in Req \ {r} : call'[s] = call[s]
      BY <1>0, <1>2, SendFrame, MoneyFacts DEF Op
  <2>3. PcShape'
      BY <1>0, <1>2, <2>2 DEF Shape, PcShape, Goto
  <2>4. LinkShape' /\ PollShape'
      BY DEF Shape, LinkShape, Linked, PollShape, providerVars
  <2> QED
      BY <2>1, <2>2, <2>3, <2>4 DEF Shape
<1>3. ASSUME NEW p \in WithKey(arg[r].key),
             result' = [result EXCEPT ![r] = Ok(payments[p].status)],
             Goto(r, "complete"), UNCHANGED <<pay, call>>
      PROVE  TypeOK' /\ Shape'
  <2>1. Ok(payments[p].status) \in Reply
      BY OkTyped, StatusIsCode DEF WithKey, Payment
  <2>2. ServiceTypeOK'
      BY <1>3, <2>1, GotoTyped DEF PC
  <2>3. PcShape'
      BY <1>3 DEF Shape, PcShape, Goto
  <2>4. LinkShape' /\ PollShape'
      BY DEF Shape, LinkShape, Linked, PollShape, providerVars
  <2> QED
      BY <1>3, <2>2, <2>3, <2>4, ProviderFrame DEF Shape
<1> QED
    BY <1>1, <1>2, <1>3 DEF WithKey

LEMMA PushDraftShape ==
    ASSUME TypeOK, Shape, NEW r \in Req, PushDraft(r),
           UNCHANGED <<providerVars, faults>>
    PROVE  TypeOK' /\ Shape'
<1> USE DEF TypeOK, ServiceTypeOK, PushDraft
<1> DEFINE d == [key |-> arg[r].key, status |-> "processing", captured |-> 0,
                 refunded |-> 0, pid |-> none, rtx |-> FALSE]
<1>0. arg[r] \in Menu /\ arg[r].op = "create"
    BY DEF Shape, PcShape
<1>1. d \in Payment /\ d.pid = none
    BY <1>0, KeyTyped, MoneyFacts DEF Payment, Request, PublicPaymentStatus
<1>2. payments' = [payments EXCEPT ![r] = d]
    OBVIOUS
<1> HIDE DEF d
<1>3. ServiceTypeOK'
  <2>1. payments' \in [Req -> Payment \cup {none}]
      BY <1>1, <1>2
  <2>2. /\ attempts' \in [Req -> {"processing", "succeeded", "failed",
                                  "unknown", none}]
        /\ pay' \in [Req -> Req \cup {none}]
      OBVIOUS
  <2>3. pc' \in [Req -> PC]
      BY GotoTyped DEF PC
  <2> HIDE DEF PushDraft
  <2> QED
      BY <2>1, <2>2, <2>3 DEF PushDraft
<1>4. /\ WireTypeOK' /\ ProviderTypeOK' /\ faults' \in 0 .. MaxFaults
      /\ CallShape' /\ ViewShape'
      /\ call'[r].stage # "none" /\ call'[r].pkey.op = "create"
      /\ \A s \in Req \ {r} : call'[s] = call[s]
    BY <1>0, SendFrame, MoneyFacts DEF Op
<1>5. PcShape'
    BY <1>0, <1>4 DEF Shape, PcShape, Goto
<1>6. LinkShape' /\ PollShape'
    BY <1>1, <1>2 DEF Shape, LinkShape, Linked, PollShape, providerVars
<1> QED
    BY <1>3, <1>4, <1>5, <1>6 DEF Shape

\* A request moves to a section that needs no more than its payment.
LEMMA PcMove ==
    ASSUME TypeOK, Shape, NEW r \in Req, pc[r] # "idle", NEW l,
           pc' = [pc EXCEPT ![r] = l], UNCHANGED <<arg, pay, call>>,
           l \notin {"idle", "find", "draft", "wait"},
           l = "readback" => pay[r] \in Req
    PROVE  PcShape'
BY DEF TypeOK, ServiceTypeOK, Shape, PcShape

\* A section that rewrites one payment.
LEMMA UpdateTyped ==
    ASSUME TypeOK, Shape, NEW p \in Req, NEW new, UNCHANGED ppay,
           payments' = [payments EXCEPT ![p] = new],
           new # none => /\ new \in Payment
                         /\ new.pid # none => ppay[new.pid] # none
    PROVE  /\ payments' \in [Req -> Payment \cup {none}]
           /\ LinkShape'
BY DEF TypeOK, ServiceTypeOK, Shape, LinkShape, Linked

LEMMA AttemptTyped ==
    ASSUME NEW x
    PROVE  AttemptStatus(x) \in {"processing", "succeeded", "failed", "unknown"}
BY DEF AttemptStatus

\* What the answer of a call holds.
LEMMA AnswerTyped ==
    ASSUME TypeOK, Shape, NEW r \in Req
    PROVE  /\ call[r].resp \in Response
           /\ call[r].resp.captured \in Money /\ call[r].resp.refunded \in Money
           /\ call[r].resp.rtx \in BOOLEAN
           /\ call[r].resp.refundFailed \in BOOLEAN
           /\ call[r].resp.code \in Codes
           /\ call[r].resp.kind = "ok" => /\ call[r].resp.pid \in Req
                                         /\ ppay[call[r].resp.pid] # none
<1>1. call[r].resp \in Response
    BY DEF TypeOK, WireTypeOK, Call
<1>2. call[r].resp.code \in {"", "invalid_request", "request_in_progress",
                             "idempotency_key_reused"}
    BY <1>1 DEF Response
<1>3. call[r].resp.code \in Codes
    BY <1>2, NamedCodes
<1> QED
    BY <1>1, <1>3 DEF Response, Shape, ViewShape, GoodView

LEMMA CreateOkShape ==
    ASSUME TypeOK, Shape, NEW r \in Req, CreateOk(r),
           UNCHANGED <<providerVars, faults>>
    PROVE  TypeOK' /\ Shape'
<1> USE DEF TypeOK, CreateOk, Answered
<1> DEFINE p == pay[r]
           v == call[r].resp
           s == mapYunoPaymentStatus(v.snap)
           new == IF payments[p] = none THEN none
                  ELSE [payments[p] EXCEPT !.pid = v.pid, !.status = s,
                                           !.captured = v.captured,
                                           !.refunded = v.refunded,
                                           !.rtx = v.rtx \/ payments[p].rtx]
<1>0. p \in Req /\ UNCHANGED ppay
    BY DEF Shape, PcShape, providerVars
<1>1. payments' = [payments EXCEPT ![p] = new]
  <2>1. CASE payments[p] = none
      BY <1>0, <2>1 DEF applyProviderPaymentView, ServiceTypeOK
  <2>2. CASE payments[p] # none
      BY <1>0, <2>2 DEF applyProviderPaymentView
  <2> QED
      BY <2>1, <2>2
<1>2. new # none => /\ new \in Payment
                    /\ new.pid # none => ppay[new.pid] # none
  <2>1. SUFFICES ASSUME payments[p] # none
                 PROVE  new \in Payment /\ ppay[new.pid] # none
      OBVIOUS
  <2>2. payments[p] \in Payment
      BY <1>0, <2>1 DEF ServiceTypeOK
  <2>3. v.pid \in Req /\ ppay[v.pid] # none /\ s \in PublicPaymentStatus
      BY AnswerTyped, MapTyped
  <2>4. v.captured \in Money /\ v.refunded \in Money /\ v.rtx \in BOOLEAN
      BY AnswerTyped
  <2> HIDE DEF s, v
  <2>5. new \in Payment
      BY <2>1, <2>2, <2>3, <2>4 DEF Payment
  <2>6. new.pid = v.pid
      BY <2>1, <2>2 DEF Payment
  <2> QED
      BY <2>3, <2>5, <2>6
<1>3. attempts' \in [Req -> {"processing", "succeeded", "failed", "unknown",
                             none}]
    BY <1>0, AttemptTyped DEF applyProviderPaymentView, ServiceTypeOK
<1> HIDE DEF new
<1>4. payments' \in [Req -> Payment \cup {none}] /\ LinkShape'
    BY <1>0, <1>1, <1>2, UpdateTyped
<1>5. pc' \in [Req -> PC] /\ PcShape'
  <2>1. pc' \in [Req -> PC]
      BY GotoTyped DEF PC, ServiceTypeOK
  <2> QED
      BY <2>1, <1>0, PcMove DEF Goto
<1>6. ServiceTypeOK'
    BY <1>3, <1>4, <1>5 DEF ServiceTypeOK
<1>7. PollShape'
    BY DEF Shape, PollShape
<1> QED
    BY <1>4, <1>5, <1>6, <1>7, ProviderFrame DEF Shape

LEMMA CreateUnknownShape ==
    ASSUME TypeOK, Shape, NEW r \in Req, CreateUnknown(r),
           UNCHANGED <<providerVars, faults>>
    PROVE  TypeOK' /\ Shape'
<1> USE DEF TypeOK, CreateUnknown, Answered
<1> DEFINE new == IF payments[r] = none THEN none
                  ELSE [payments[r] EXCEPT !.status = "processing"]
<1>1. payments' \in [Req -> Payment \cup {none}] /\ LinkShape'
  <2>1. CASE pay[r] = r
    <3>1. payments' = [payments EXCEPT ![r] = new]
        BY <2>1 DEF ServiceTypeOK
    <3>2. new # none => /\ new \in Payment
                        /\ new.pid # none => ppay[new.pid] # none
        BY DEF ServiceTypeOK, Payment, PublicPaymentStatus, Shape, LinkShape,
               Linked
    <3>3. UNCHANGED ppay
        BY DEF providerVars
    <3> HIDE DEF new
    <3> QED
        BY <3>1, <3>2, <3>3, UpdateTyped
  <2>2. CASE pay[r] # r
      BY <2>2 DEF ServiceTypeOK, Shape, LinkShape, Linked, providerVars
  <2> QED
      BY <2>1, <2>2
<1>2. attempts' \in [Req -> {"processing", "succeeded", "failed", "unknown",
                             none}]
    BY DEF ServiceTypeOK
<1>3. pc' \in [Req -> PC] /\ result' \in [Req -> Reply]
    BY ThrowTyped, OutcomeUnknownTyped DEF ServiceTypeOK
<1>4. PcShape'
    BY PcMove DEF Throw
<1>5. ServiceTypeOK'
    BY <1>1, <1>2, <1>3 DEF ServiceTypeOK
<1>6. PollShape'
    BY DEF Shape, PollShape
<1> QED
    BY <1>1, <1>4, <1>5, <1>6, ProviderFrame DEF Shape

\* A first try that drops its draft, a retry that does not.
LEMMA DropTyped ==
    ASSUME TypeOK, Shape, NEW r \in Req, UNCHANGED ppay,
           IF pay[r] = r THEN RemoveDraft(r) ELSE UNCHANGED <<payments, attempts>>
    PROVE  /\ payments' \in [Req -> Payment \cup {none}] /\ LinkShape'
           /\ attempts' \in [Req -> {"processing", "succeeded", "failed",
                                     "unknown", none}]
BY DEF RemoveDraft, TypeOK, ServiceTypeOK, Shape, LinkShape, Linked

LEMMA CreateRejectedShape ==
    ASSUME TypeOK, Shape, NEW r \in Req, CreateRejected(r),
           UNCHANGED <<providerVars, faults>>
    PROVE  TypeOK' /\ Shape'
<1> USE DEF CreateRejected, Answered
<1>1. /\ payments' \in [Req -> Payment \cup {none}] /\ LinkShape'
      /\ attempts' \in [Req -> {"processing", "succeeded", "failed", "unknown",
                                none}]
    BY DropTyped DEF providerVars
<1>2. Err(400, call[r].resp.code) \in Reply
    BY AnswerTyped, ErrTyped
<1>3. pc' \in [Req -> PC] /\ result' \in [Req -> Reply]
    BY <1>2, ThrowTyped DEF TypeOK, ServiceTypeOK
<1>4. PcShape'
    BY PcMove DEF Throw
<1>5. ServiceTypeOK'
    BY <1>1, <1>3 DEF TypeOK, ServiceTypeOK
<1>6. PollShape'
    BY DEF Shape, PollShape
<1> QED
    BY <1>1, <1>4, <1>5, <1>6, ProviderFrame DEF Shape, TypeOK

LEMMA CreateTimeoutShape ==
    ASSUME TypeOK, Shape, NEW r \in Req, CreateTimeout(r),
           UNCHANGED <<providerVars, faults>>
    PROVE  TypeOK' /\ Shape'
<1> USE DEF CreateTimeout, ThrowUnexpected
<1>1. /\ payments' \in [Req -> Payment \cup {none}] /\ LinkShape'
      /\ attempts' \in [Req -> {"processing", "succeeded", "failed", "unknown",
                                none}]
    BY DropTyped DEF providerVars
<1>2. pc' \in [Req -> PC]
    BY GotoTyped DEF TypeOK, ServiceTypeOK, PC
<1>3. PcShape'
    BY PcMove DEF Goto
<1>4. ServiceTypeOK'
    BY <1>1, <1>2 DEF TypeOK, ServiceTypeOK
<1>5. PollShape'
    BY DEF Shape, PollShape
<1> QED
    BY <1>1, <1>3, <1>4, <1>5, ProviderFrame DEF Shape, TypeOK

LEMMA ReadBackShape ==
    ASSUME TypeOK, Shape, NEW r \in Req, ReadBack(r),
           UNCHANGED <<providerVars, faults>>
    PROVE  TypeOK' /\ Shape'
<1> USE DEF ReadBack, storeVars
<1>0. pay[r] \in Req
    BY DEF Shape, PcShape
<1>1. /\ pc' \in [Req -> PC] /\ result' \in [Req -> Reply]
      /\ PcShape'
  <2>1. CASE payments[pay[r]] = none
    <3>1. Err(400, "not_found") \in Reply
        BY ErrTyped, NamedCodes
    <3>2. Throw(r, Err(400, "not_found"))
        BY <2>1
    <3>3. PcShape'
        BY <3>2, PcMove DEF Throw
    <3> QED
        BY <3>1, <3>2, <3>3, ThrowTyped DEF TypeOK, ServiceTypeOK
  <2>2. CASE payments[pay[r]] # none
    <3>1. Ok(payments[pay[r]].status) \in Reply
        BY <1>0, <2>2, OkTyped, StatusIsCode DEF TypeOK, ServiceTypeOK, Payment
    <3>2. result' \in [Req -> Reply]
        BY <2>2, <3>1 DEF TypeOK, ServiceTypeOK
    <3>3. pc' \in [Req -> PC]
        BY <2>2, GotoTyped DEF TypeOK, ServiceTypeOK, PC
    <3>4. PcShape'
        BY <2>2, PcMove DEF Goto
    <3> QED
        BY <3>2, <3>3, <3>4
  <2> QED
      BY <2>1, <2>2
<1>2. ServiceTypeOK'
    BY <1>1 DEF TypeOK, ServiceTypeOK
<1>3. LinkShape' /\ PollShape'
    BY DEF Shape, LinkShape, Linked, PollShape, providerVars
<1> QED
    BY <1>1, <1>2, <1>3, ProviderFrame DEF Shape, TypeOK

-----------------------------------------------------------------------------
(* capturePayment, cancelPayment, createRefund.                             *)

\* A request of the menu that creates nothing names a payment.
LEMMA ActionTarget ==
    \A a \in Menu : /\ a.op # "create" => a.pay \in Req
                    /\ a.op \in Op /\ a.amt \in Money /\ a.key \in Key
BY MenuAssumption DEF Request

\* A handler that throws a PaymentError and leaves the rest alone.
LEMMA ThrowShape ==
    ASSUME TypeOK, Shape, NEW r \in Req, pc[r] # "idle",
           NEW e \in Reply, Throw(r, e),
           UNCHANGED <<storeVars, arg, pay, prior, reply, poll, inbox, call>>,
           UNCHANGED <<providerVars, faults>>
    PROVE  TypeOK' /\ Shape'
<1>1. pc' \in [Req -> PC] /\ result' \in [Req -> Reply]
    BY ThrowTyped DEF TypeOK, ServiceTypeOK
<1>2. PcShape'
    BY PcMove DEF Throw
<1>3. ServiceTypeOK'
    BY <1>1 DEF TypeOK, ServiceTypeOK, storeVars
<1>4. LinkShape' /\ PollShape'
    BY DEF Shape, LinkShape, Linked, PollShape, providerVars, storeVars
<1> QED
    BY <1>2, <1>3, <1>4, ProviderFrame DEF Shape, TypeOK

LEMMA StartActionShape ==
    ASSUME TypeOK, Shape, NEW r \in Req, NEW found, StartAction(r, found),
           UNCHANGED <<providerVars, faults>>
    PROVE  TypeOK' /\ Shape'
<1> DEFINE p   == arg[r].pay
           x   == payments[p]
           amt == IF arg[r].op = "capture" /\ arg[r].amt = 0
                  THEN Amount ELSE arg[r].amt
           old == [captured |-> x.captured, refunded |-> x.refunded]
<1>0. /\ pc[r] = "run" /\ arg[r].op # "create"
      /\ arg[r] \in Menu /\ p \in Req /\ arg[r].op \in Op /\ amt \in Money
  <2>1. pc[r] = "run" /\ arg[r].op # "create"
      BY DEF StartAction
  <2>2. arg[r] \in Menu
      BY <2>1 DEF Shape, PcShape
  <2> QED
      BY <2>1, <2>2, ActionTarget, MoneyFacts
<1>1. ASSUME NEW e \in Reply, Throw(r, e), UNCHANGED <<pay, prior, call>>
      PROVE  TypeOK' /\ Shape'
    BY <1>0, <1>1, ThrowShape DEF StartAction
<1>2. ASSUME x # none, x.pid # none,
             pay' = [pay EXCEPT ![r] = p],
             prior' = [prior EXCEPT ![r] = old],
             SendCall(r, arg[r].op, x.pid, amt),
             Goto(r, "wait"), UNCHANGED result
      PROVE  TypeOK' /\ Shape'
  <2>0. UNCHANGED <<storeVars, arg, reply, poll, inbox>>
      BY DEF StartAction
  <2>1. x \in Payment
      BY <1>0, <1>2 DEF TypeOK, ServiceTypeOK
  <2>2. x.pid \in Req /\ ppay[x.pid] # none
      BY <1>0, <1>2, <2>1 DEF Shape, LinkShape, Linked, Payment
  <2>3. old \in [captured : Money, refunded : Money]
      BY <2>1 DEF Payment
  <2>4. pc' \in [Req -> PC]
      BY <1>2, GotoTyped DEF TypeOK, ServiceTypeOK, PC
  <2> HIDE DEF old, x, amt
  <2>5. prior' \in [Req -> [captured : Money, refunded : Money]]
      BY <1>2, <2>3 DEF TypeOK, ServiceTypeOK
  <2>6. ServiceTypeOK'
      BY <1>0, <1>2, <2>0, <2>4, <2>5 DEF TypeOK, ServiceTypeOK, storeVars
  <2>7. /\ WireTypeOK' /\ ProviderTypeOK' /\ faults' \in 0 .. MaxFaults
        /\ CallShape' /\ ViewShape'
        /\ call'[r].stage # "none" /\ call'[r].pkey.op = arg[r].op
        /\ \A s \in Req \ {r} : call'[s] = call[s]
      BY <1>0, <1>2, <2>2, SendFrame
  <2>8. PcShape'
      BY <1>0, <1>2, <2>0, <2>7 DEF Shape, PcShape, Goto, TypeOK, ServiceTypeOK
  <2>9. LinkShape' /\ PollShape'
      BY <2>0 DEF Shape, LinkShape, Linked, PollShape, providerVars, storeVars
  <2> QED
      BY <2>6, <2>7, <2>8, <2>9 DEF Shape, TypeOK
<1>3. /\ Err(400, "not_found") \in Reply
      /\ Err(400, "operation_not_allowed") \in Reply
      /\ OutcomeUnknown \in Reply
    BY ErrTyped, NamedCodes, OutcomeUnknownTyped
<1>4. CASE x = none
    BY <1>1, <1>3, <1>4 DEF StartAction
<1>5. CASE x # none /\ ~Allowed(arg[r].op, x)
    BY <1>1, <1>3, <1>5 DEF StartAction
<1>6. CASE x # none /\ Allowed(arg[r].op, x)
  <2>1. x.pid # none
      BY <1>6 DEF Allowed
  <2>2. \/ /\ pay' = [pay EXCEPT ![r] = p]
           /\ prior' = [prior EXCEPT ![r] = old]
           /\ SendCall(r, arg[r].op, x.pid, amt)
           /\ Goto(r, "wait") /\ UNCHANGED result
        \/ /\ \/ Throw(r, OutcomeUnknown)
              \/ Throw(r, Err(400, "operation_not_allowed"))
           /\ UNCHANGED <<pay, prior, call>>
      BY <1>6 DEF StartAction
  <2> QED
      BY <1>1, <1>2, <1>3, <1>6, <2>1, <2>2
<1> QED
    BY <1>4, <1>5, <1>6

\* The update of a payment whose link stays.
LEMMA UpdatePaymentTyped ==
    ASSUME TypeOK, Shape, NEW p \in Req, NEW new, UNCHANGED ppay,
           UpdatePayment(p, new),
           payments[p] # none => new \in Payment /\ new.pid = payments[p].pid
    PROVE  payments' \in [Req -> Payment \cup {none}] /\ LinkShape'
<1> DEFINE y == IF payments[p] = none THEN none ELSE new
<1>1. payments' = [payments EXCEPT ![p] = y]
    BY DEF UpdatePayment
<1>2. y # none => y \in Payment /\ (y.pid # none => ppay[y.pid] # none)
    BY DEF Shape, LinkShape, Linked
<1> HIDE DEF y
<1> QED
    BY <1>1, <1>2, UpdateTyped

LEMMA CaptureOkShape ==
    ASSUME TypeOK, Shape, NEW r \in Req, CaptureOk(r),
           UNCHANGED <<providerVars, faults>>
    PROVE  TypeOK' /\ Shape'
<1> USE DEF CaptureOk, Answered
<1> DEFINE v == call[r].resp
           x == payments[pay[r]]
           s == mapYunoPaymentStatus(v.snap)
           new == [x EXCEPT !.status = s, !.captured = v.captured,
                            !.rtx = v.rtx \/ x.rtx]
<1>0. pay[r] \in Req /\ UNCHANGED ppay
    BY DEF Shape, PcShape, providerVars
<1>1. UpdatePayment(pay[r], new)
    OBVIOUS
<1>2. x # none => new \in Payment /\ new.pid = x.pid
  <2>1. s \in PublicPaymentStatus /\ v.captured \in Money /\ v.rtx \in BOOLEAN
      BY AnswerTyped, MapTyped
  <2>2. x # none => x \in Payment
      BY <1>0 DEF TypeOK, ServiceTypeOK
  <2> HIDE DEF s, v
  <2> QED
      BY <2>1, <2>2 DEF Payment
<1> HIDE DEF new
<1>3. payments' \in [Req -> Payment \cup {none}] /\ LinkShape'
    BY <1>0, <1>1, <1>2, UpdatePaymentTyped
<1>4. pc' \in [Req -> PC]
    BY GotoTyped DEF TypeOK, ServiceTypeOK, PC
<1>5. PcShape'
    BY <1>0, PcMove DEF Goto
<1>6. ServiceTypeOK'
    BY <1>3, <1>4 DEF TypeOK, ServiceTypeOK
<1>7. PollShape'
    BY DEF Shape, PollShape
<1> QED
    BY <1>3, <1>5, <1>6, <1>7, ProviderFrame DEF Shape, TypeOK

LEMMA CancelOkShape ==
    ASSUME TypeOK, Shape, NEW r \in Req, CancelOk(r),
           UNCHANGED <<providerVars, faults>>
    PROVE  TypeOK' /\ Shape'
<1> USE DEF CancelOk, Answered
<1> DEFINE x == payments[pay[r]]
           s == mapYunoPaymentStatus(call[r].resp.snap)
           new == [x EXCEPT !.status = s]
<1>0. pay[r] \in Req /\ UNCHANGED ppay
    BY DEF Shape, PcShape, providerVars
<1>1. UpdatePayment(pay[r], new)
    OBVIOUS
<1>2. x # none => new \in Payment /\ new.pid = x.pid
  <2>1. s \in PublicPaymentStatus
      BY MapTyped
  <2>2. x # none => x \in Payment
      BY <1>0 DEF TypeOK, ServiceTypeOK
  <2> HIDE DEF s
  <2> QED
      BY <2>1, <2>2 DEF Payment
<1> HIDE DEF new
<1>3. payments' \in [Req -> Payment \cup {none}] /\ LinkShape'
    BY <1>0, <1>1, <1>2, UpdatePaymentTyped
<1>4. pc' \in [Req -> PC]
    BY GotoTyped DEF TypeOK, ServiceTypeOK, PC
<1>5. PcShape'
    BY <1>0, PcMove DEF Goto
<1>6. ServiceTypeOK'
    BY <1>3, <1>4 DEF TypeOK, ServiceTypeOK
<1>7. PollShape'
    BY DEF Shape, PollShape
<1> QED
    BY <1>3, <1>5, <1>6, <1>7, ProviderFrame DEF Shape, TypeOK

LEMMA RefundOkShape ==
    ASSUME TypeOK, Shape, NEW r \in Req, RefundOk(r),
           UNCHANGED <<providerVars, faults>>
    PROVE  TypeOK' /\ Shape'
<1> USE DEF RefundOk, Answered
<1> DEFINE v == call[r].resp
           x == payments[pay[r]]
           n == prior[r]
           s == mapYunoPaymentStatus(v.snap)
           new == IF v.refundFailed
                  THEN [x EXCEPT !.refunded = n.refunded, !.rtx = TRUE]
                  ELSE [x EXCEPT !.status = s, !.refunded = v.refunded,
                                 !.captured = v.captured, !.rtx = TRUE]
           amt == IF arg[r].amt # 0 THEN arg[r].amt
                  ELSE IF n.captured > n.refunded
                       THEN n.captured - n.refunded ELSE 0
           rec == [by |-> r, pay |-> pay[r], key |-> arg[r].key,
                   ok |-> ~v.refundFailed, amt |-> amt]
           c == IF v.refundFailed THEN "refund_failed" ELSE "refund_succeeded"
<1>0. pay[r] \in Req /\ arg[r] \in Menu /\ UNCHANGED ppay
    BY DEF Shape, PcShape, providerVars
<1>1. /\ UpdatePayment(pay[r], new)
      /\ refunds' = refunds \cup {rec}
      /\ result' = [result EXCEPT ![r] = Ok(c)]
    OBVIOUS
<1>2. n \in [captured : Money, refunded : Money]
    BY DEF TypeOK, ServiceTypeOK
<1>3. /\ s \in PublicPaymentStatus /\ v.captured \in Money
      /\ v.refunded \in Money /\ v.refundFailed \in BOOLEAN
    BY AnswerTyped, MapTyped
<1>4. x # none => new \in Payment /\ new.pid = x.pid
  <2>1. x # none => x \in Payment
      BY <1>0 DEF TypeOK, ServiceTypeOK
  <2> HIDE DEF s, v, n
  <2> QED
      BY <1>2, <1>3, <2>1 DEF Payment
<1>5. amt \in Money
  <2>1. arg[r].amt \in Money
      BY <1>0, ActionTarget
  <2> HIDE DEF n
  <2> QED
      BY <1>2, <2>1, WireAssumption DEF Money
<1>6. Ok(c) \in Reply
    BY OkTyped, NamedCodes
<1>7. rec \in Refund
  <2>1. arg[r].key \in Key
      BY <1>0, ActionTarget
  <2> HIDE DEF amt, v
  <2> QED
      BY <1>0, <1>3, <1>5, <2>1 DEF Refund
<1> HIDE DEF new, rec, c
<1>8. payments' \in [Req -> Payment \cup {none}] /\ LinkShape'
    BY <1>0, <1>1, <1>4, UpdatePaymentTyped
<1>9. pc' \in [Req -> PC]
    BY GotoTyped DEF TypeOK, ServiceTypeOK, PC
<1>10. PcShape'
    BY <1>0, PcMove DEF Goto
<1>11. refunds' \subseteq Refund /\ result' \in [Req -> Reply]
    BY <1>1, <1>6, <1>7 DEF TypeOK, ServiceTypeOK
<1>12. UNCHANGED <<idem, attempts, seen, applied, outbound, arg, pay, prior,
                   reply, poll, inbox, call>>
    OBVIOUS
<1> HIDE DEF RefundOk
<1>13. ServiceTypeOK'
    BY <1>8, <1>9, <1>11, <1>12 DEF TypeOK, ServiceTypeOK
<1>14. PollShape'
    BY <1>12 DEF Shape, PollShape
<1> QED
    BY <1>8, <1>10, <1>12, <1>13, <1>14, ProviderFrame DEF Shape, TypeOK

LEMMA ActionFailsShape ==
    ASSUME TypeOK, Shape, NEW r \in Req, ActionFails(r),
           UNCHANGED <<providerVars, faults>>
    PROVE  TypeOK' /\ Shape'
<1>1. OutcomeUnknown \in Reply /\ Err(400, call[r].resp.code) \in Reply
    BY OutcomeUnknownTyped, AnswerTyped, ErrTyped
<1> QED
    BY <1>1, ThrowShape DEF ActionFails

-----------------------------------------------------------------------------
(* getPayment.                                                              *)

\* A GET moves; the store and the requests stay.
LEMMA PollFrame ==
    ASSUME TypeOK, Shape, poll' \in [Poller -> PollRec], PollShape',
           UNCHANGED <<storeVars, pc, arg, pay, prior, result, reply, inbox,
                       call, providerVars>>,
           faults' \in 0 .. MaxFaults
    PROVE  TypeOK' /\ Shape'
<1>1. ServiceTypeOK'
    BY DEF TypeOK, ServiceTypeOK, storeVars
<1>2. WireTypeOK' /\ ProviderTypeOK' /\ CallShape' /\ ViewShape'
    BY DEF TypeOK, Shape, WireTypeOK, ProviderTypeOK, providerVars, CallShape,
           ViewShape, GoodView
<1>3. PcShape' /\ LinkShape'
    BY DEF Shape, PcShape, LinkShape, Linked, storeVars, providerVars
<1> QED
    BY <1>1, <1>2, <1>3 DEF TypeOK, Shape

LEMMA PollStartShape ==
    ASSUME TypeOK, Shape, NEW g \in Poller, NEW p \in Req, PollStart(g, p),
           UNCHANGED <<providerVars, faults>>
    PROVE  TypeOK' /\ Shape'
<1> DEFINE q == [NoPoll EXCEPT !.at = "fetch", !.pay = p]
<1>1. q \in PollRec /\ q.pay \in Req
    BY NoPollTyped DEF PollRec
<1>2. poll' = [poll EXCEPT ![g] = q]
    BY DEF PollStart
<1> HIDE DEF q
<1>3. poll' \in [Poller -> PollRec] /\ PollShape'
    BY <1>1, <1>2 DEF TypeOK, ServiceTypeOK, Shape, PollShape
<1> QED
    BY <1>3, PollFrame DEF PollStart, TypeOK

LEMMA PollFetchShape ==
    ASSUME TypeOK, Shape, NEW g \in Poller, NEW v \in Response,
           PollFetch(g, v), UNCHANGED <<providerVars, faults>>
    PROVE  TypeOK' /\ Shape'
<1>1. poll' \in [Poller -> PollRec] /\ PollShape'
    BY DEF PollFetch, PollRec, TypeOK, ServiceTypeOK, Shape, PollShape
<1> QED
    BY <1>1, PollFrame DEF PollFetch, TypeOK

LEMMA PollFailsShape ==
    ASSUME TypeOK, Shape, NEW g \in Poller, PollFails(g), Fault,
           UNCHANGED providerVars
    PROVE  TypeOK' /\ Shape'
<1>1. NoPoll \in PollRec /\ NoPoll.at = "idle"
    BY NoPollTyped DEF NoPoll
<1>2. poll' \in [Poller -> PollRec] /\ PollShape'
    BY <1>1 DEF PollFails, TypeOK, ServiceTypeOK, Shape, PollShape
<1>3. faults' \in 0 .. MaxFaults
    BY FaultAssumption DEF Fault, TypeOK
<1> QED
    BY <1>2, <1>3, PollFrame DEF PollFails

LEMMA PollApplyShape ==
    ASSUME TypeOK, Shape, NEW g \in Poller, PollApply(g),
           UNCHANGED <<providerVars, faults>>
    PROVE  TypeOK' /\ Shape'
<1> USE DEF PollApply
<1> DEFINE p == poll[g].pay
           v == poll[g].view
           x == payments[p]
           s == mapYunoPaymentStatus(v.snap)
           new == [x EXCEPT !.status = s, !.captured = v.captured,
                            !.refunded = v.refunded]
<1>0. p \in Req /\ UNCHANGED ppay
    BY DEF Shape, PollShape, providerVars
<1>1. UpdatePayment(p, new)
    OBVIOUS
<1>2. x # none => new \in Payment /\ new.pid = x.pid
  <2>1. v \in Response /\ s \in PublicPaymentStatus
      BY MapTyped DEF TypeOK, ServiceTypeOK, PollRec
  <2>2. v.captured \in Money /\ v.refunded \in Money
      BY <2>1 DEF Response
  <2>3. x # none => x \in Payment
      BY <1>0 DEF TypeOK, ServiceTypeOK
  <2> HIDE DEF s, v
  <2> QED
      BY <2>1, <2>2, <2>3 DEF Payment
<1> HIDE DEF new
<1>3. payments' \in [Req -> Payment \cup {none}] /\ LinkShape'
    BY <1>0, <1>1, <1>2, UpdatePaymentTyped
<1>4. NoPoll \in PollRec /\ NoPoll.at = "idle"
    BY NoPollTyped DEF NoPoll
<1>5. poll' \in [Poller -> PollRec] /\ PollShape'
    BY <1>4 DEF TypeOK, ServiceTypeOK, Shape, PollShape
<1>6. ServiceTypeOK'
    BY <1>3, <1>5 DEF TypeOK, ServiceTypeOK
<1>7. PcShape'
    BY DEF Shape, PcShape
<1> QED
    BY <1>3, <1>5, <1>6, <1>7, ProviderFrame DEF Shape, TypeOK

-----------------------------------------------------------------------------
(* Inbound webhooks, storage errors, crashes.                               *)

\* An event arrives; the provider may forget that it was due.
LEMMA DeliverShape ==
    ASSUME TypeOK, Shape, NEW id \in EventId, AcceptWebhook(id),
           UNCHANGED <<ppay, pidem, txs, events>>,
           due' \subseteq due, faults' \in 0 .. MaxFaults
    PROVE  TypeOK' /\ Shape'
<1> USE DEF AcceptWebhook
<1>1. ServiceTypeOK'
    BY DEF TypeOK, ServiceTypeOK, storeVars
<1>2. WireTypeOK' /\ ProviderTypeOK'
    BY DEF TypeOK, WireTypeOK, ProviderTypeOK
<1>3. CallShape' /\ ViewShape'
    BY DEF Shape, CallShape, ViewShape, GoodView
<1>4. PcShape' /\ LinkShape' /\ PollShape'
    BY DEF Shape, PcShape, LinkShape, Linked, PollShape, storeVars
<1> QED
    BY <1>1, <1>2, <1>3, <1>4 DEF TypeOK, Shape

LEMMA ProcessWebhookShape ==
    ASSUME TypeOK, Shape, NEW e \in Event, ProcessWebhook(e),
           UNCHANGED <<providerVars, faults>>
    PROVE  TypeOK' /\ Shape'
<1> USE DEF ProcessWebhook
<1> DEFINE S == mapYunoPaymentStatus(e.snap)
           new(p) == EventAmounts(payments[p], e, S)
<1>0. UNCHANGED <<pc, arg, pay, prior, result, reply, poll, call>>
    OBVIOUS
<1>1. e.id \in EventId /\ inbox' \subseteq EventId /\ UNCHANGED ppay
    BY DEF Event, TypeOK, ServiceTypeOK, providerVars
<1>2. UNCHANGED <<idem, attempts, refunds>>
    BY DEF storeVars
<1>3. /\ seen' \subseteq EventId /\ outbound' \subseteq EventId
      /\ applied' \in [EventId -> Nat]
  <2>1. \/ UNCHANGED storeVars
        \/ /\ seen' = seen \cup {e.id}
           /\ \/ UNCHANGED <<payments, applied, outbound>>
              \/ /\ applied' = [applied EXCEPT ![e.id] = @ + 1]
                 /\ outbound' = outbound \cup {e.id}
      OBVIOUS
  <2> HIDE DEF ProcessWebhook
  <2>2. /\ seen \subseteq EventId /\ outbound \subseteq EventId
        /\ applied \in [EventId -> Nat]
      BY DEF TypeOK, ServiceTypeOK
  <2>3. \/ UNCHANGED <<seen, applied, outbound>>
        \/ seen' = seen \cup {e.id} /\ UNCHANGED <<applied, outbound>>
        \/ /\ seen' = seen \cup {e.id} /\ outbound' = outbound \cup {e.id}
           /\ applied' = [applied EXCEPT ![e.id] = @ + 1]
      BY <2>1 DEF storeVars
  <2>4. seen' \subseteq EventId /\ outbound' \subseteq EventId
      BY <1>1, <2>2, <2>3
  <2>5. applied' \in [EventId -> Nat]
    <3>1. CASE UNCHANGED applied
        BY <2>2, <3>1
    <3>2. CASE applied' = [applied EXCEPT ![e.id] = @ + 1]
      <4>1. applied[e.id] + 1 \in Nat
          BY <1>1, <2>2
      <4> QED
          BY <2>2, <3>2, <4>1
    <3> QED
        BY <2>3, <3>1, <3>2
  <2> QED
      BY <2>4, <2>5
<1>4. payments' \in [Req -> Payment \cup {none}] /\ LinkShape'
  <2>1. CASE UNCHANGED payments
      BY <1>1, <2>1 DEF TypeOK, ServiceTypeOK, Shape, LinkShape, Linked
  <2>2. ASSUME NEW p \in Req, payments[p] # none,
               payments' = [payments EXCEPT ![p] = new(p)]
        PROVE  payments' \in [Req -> Payment \cup {none}] /\ LinkShape'
    <3>1. payments[p] \in Payment
        BY <2>2 DEF TypeOK, ServiceTypeOK
    <3>2. S \in PublicPaymentStatus
        BY MapTyped
    <3>3. e.captured \in Money /\ e.refunded \in Money
        BY DEF Event
    <3> HIDE DEF S
    <3>4. new(p) \in Payment /\ new(p).pid = payments[p].pid
        BY <3>1, <3>2, <3>3, MoneyFacts DEF EventAmounts, Payment
    <3>5. payments[p].pid # none => ppay[payments[p].pid] # none
        BY <2>2 DEF Shape, LinkShape, Linked
    <3> HIDE DEF new
    <3> QED
        BY <1>1, <2>2, <3>4, <3>5, UpdateTyped
  <2> QED
      BY <2>1, <2>2 DEF storeVars
<1> HIDE DEF ProcessWebhook
<1>5. ServiceTypeOK'
    BY <1>0, <1>1, <1>2, <1>3, <1>4 DEF TypeOK, ServiceTypeOK
<1>6. PcShape' /\ PollShape'
    BY <1>0 DEF Shape, PcShape, PollShape
<1> QED
    BY <1>0, <1>4, <1>5, <1>6, ProviderFrame DEF TypeOK, Shape

\* A step of the process that leaves the store, the calls and the provider.
LEMMA ProcessFrame ==
    ASSUME TypeOK, Shape, ServiceTypeOK', PcShape', PollShape', Fault,
           UNCHANGED <<storeVars, call, providerVars>>
    PROVE  TypeOK' /\ Shape'
<1>1. faults' \in 0 .. MaxFaults
    BY FaultAssumption DEF Fault, TypeOK
<1>2. WireTypeOK' /\ ProviderTypeOK' /\ CallShape' /\ ViewShape'
    BY DEF TypeOK, Shape, WireTypeOK, ProviderTypeOK, providerVars, CallShape,
           ViewShape, GoodView
<1>3. LinkShape'
    BY DEF Shape, LinkShape, Linked, storeVars, providerVars
<1> QED
    BY <1>1, <1>2, <1>3 DEF TypeOK, Shape

LEMMA StoreFailsShape ==
    ASSUME TypeOK, Shape, NEW r \in Req, StoreFails(r), Fault,
           UNCHANGED providerVars
    PROVE  TypeOK' /\ Shape'
<1> USE DEF StoreFails
<1>1. Err(500, "internal_error") \in Reply
    BY ErrTyped, NamedCodes
<1>2. pc' \in [Req -> PC] /\ reply' \in [Req -> Reply]
  <2>1. CASE Goto(r, "abort") /\ UNCHANGED reply
      BY <2>1, GotoTyped DEF TypeOK, ServiceTypeOK, PC
  <2>2. CASE Finish(r, Err(500, "internal_error"))
      BY <1>1, <2>2, FinishTyped DEF TypeOK, ServiceTypeOK
  <2> QED
      BY <2>1, <2>2
<1>3. ServiceTypeOK'
    BY <1>2 DEF TypeOK, ServiceTypeOK, storeVars
<1>4. PcShape'
    BY PcMove DEF Goto, Finish
<1>5. PollShape'
    BY DEF Shape, PollShape
<1> QED
    BY <1>3, <1>4, <1>5, ProcessFrame

LEMMA WebhookFailsShape ==
    ASSUME TypeOK, Shape, NEW id \in inbox, WebhookFails(id), Fault,
           UNCHANGED providerVars
    PROVE  TypeOK' /\ Shape'
<1> USE DEF WebhookFails
<1>1. ServiceTypeOK'
    BY DEF TypeOK, ServiceTypeOK, storeVars
<1>2. PcShape' /\ PollShape'
    BY DEF Shape, PcShape, PollShape, Running
<1> QED
    BY <1>1, <1>2, ProcessFrame

LEMMA ServiceCrashShape ==
    ASSUME TypeOK, Shape, ServiceCrash, Fault, UNCHANGED providerVars
    PROVE  TypeOK' /\ Shape'
<1> USE DEF ServiceCrash
<1>1. NoPoll \in PollRec /\ NoPoll.at = "idle"
    BY NoPollTyped DEF NoPoll
<1>2. pc' \in [Req -> PC]
    BY DEF TypeOK, ServiceTypeOK, PC
<1>3. ServiceTypeOK'
    BY <1>1, <1>2 DEF TypeOK, ServiceTypeOK, storeVars
<1>4. PcShape'
    BY DEF Shape, PcShape, Running
<1>5. PollShape'
    BY <1>1 DEF PollShape
<1> QED
    BY <1>3, <1>4, <1>5, ProcessFrame

-----------------------------------------------------------------------------
(* The provider.                                                            *)

\* Payments are never deleted, calls keep their keys.
Grows == /\ \A p \in Req : ppay[p] # none => ppay'[p] # none
         /\ \A r \in Req : /\ call[r].stage = "none" <=> call'[r].stage = "none"
                           /\ call'[r].pkey = call[r].pkey

LEMMA ProviderMove ==
    ASSUME TypeOK, Shape, UNCHANGED serviceVars, faults' \in 0 .. MaxFaults,
           call' \in [Req -> Call], ProviderTypeOK', ViewShape', Grows
    PROVE  TypeOK' /\ Shape'
<1>1. ServiceTypeOK'
    BY DEF TypeOK, ServiceTypeOK, serviceVars, storeVars, processVars
<1>2. CallShape'
    BY DEF Shape, CallShape, Grows, ProviderKey
<1>3. LinkShape'
  <2>1. \A p \in Req : Linked(p)' => Linked(p) /\ payments'[p] = payments[p]
      BY DEF Linked, serviceVars, storeVars
  <2>2. \A p \in Req : Linked(p) => payments[p].pid \in Req
      BY DEF Linked, TypeOK, ServiceTypeOK, Payment
  <2> QED
      BY <2>1, <2>2 DEF Shape, LinkShape, Grows
<1>4. PcShape' /\ PollShape'
    BY DEF Shape, PcShape, PollShape, Grows, serviceVars, processVars
<1> QED
    BY <1>1, <1>2, <1>3, <1>4 DEF TypeOK, Shape, WireTypeOK

\* A call moves on with the answer a.
LEMMA CallMove ==
    ASSUME TypeOK, Shape, NEW r \in Req, call[r].stage # "none",
           NEW st \in Stage \ {"none"}, NEW a \in Response,
           call' = [call EXCEPT ![r].stage = st, ![r].resp = a]
    PROVE  /\ call' \in [Req -> Call]
           /\ \A s \in Req : /\ call[s].stage = "none" <=> call'[s].stage = "none"
                             /\ call'[s].pkey = call[s].pkey
           /\ \A s \in Req \ {r} : call'[s] = call[s]
           /\ call'[r].resp = a /\ call'[r].stage = st
BY DEF TypeOK, WireTypeOK, Call

\* Views stay good when payments are only added and the new ones are good.
LEMMA ViewMove ==
    ASSUME TypeOK, Shape, \A p \in Req : ppay[p] # none => ppay'[p] # none,
           NEW a, a.kind = "ok" => /\ a.pid \in Req /\ ppay'[a.pid] # none
                                   /\ a.snap \in ProviderSnapshot,
           \A s \in Req : call'[s].resp \in {call[s].resp, a},
           \A k \in ProviderKey :
             pidem'[k].resp \in {pidem[k].resp, a, NoResponse}
    PROVE  ViewShape'
<1>1. NoResponse.kind # "ok"
    BY DEF NoResponse
<1>2. \A s \in Req : GoodView(call[s].resp)'
    BY DEF Shape, ViewShape, GoodView
<1>3. \A k \in ProviderKey : GoodView(pidem[k].resp)'
    BY <1>1 DEF Shape, ViewShape, GoodView
<1> QED
    BY <1>2, <1>3 DEF ViewShape

LEMMA BeginCallShape ==
    ASSUME TypeOK, Shape, NEW r \in Req, BeginCall(r),
           UNCHANGED <<serviceVars, faults>>
    PROVE  TypeOK' /\ Shape'
<1> DEFINE k == call[r].pkey
<1>1. k \in ProviderKey /\ call[r].stage = "sent"
    BY DEF BeginCall, Shape, CallShape
<1>2. UNCHANGED <<ppay, txs, events, due>>
    BY DEF BeginCall
<1>3. CASE /\ pidem' = [pidem EXCEPT ![k].state = "IN_PROGRESS"]
           /\ call' = [call EXCEPT ![r].stage = "begun"]
  <2>1. call' \in [Req -> Call] /\ Grows
      BY <1>1, <1>2, <1>3 DEF TypeOK, WireTypeOK, Call, Stage, Grows
  <2>2. ProviderTypeOK'
      BY <1>1, <1>2, <1>3 DEF TypeOK, ProviderTypeOK, IdemState
  <2>3. /\ \A s \in Req : call'[s].resp = call[s].resp
        /\ \A j \in ProviderKey : pidem'[j].resp = pidem[j].resp
      BY <1>1, <1>3 DEF TypeOK, WireTypeOK, Call, ProviderTypeOK
  <2>4. ViewShape'
      BY <1>2, <2>3 DEF Shape, ViewShape, GoodView
  <2> QED
      BY <2>1, <2>2, <2>4, ProviderMove DEF TypeOK
<1>4. ASSUME NEW a \in Response, GoodView(a), Answer(r, a), UNCHANGED pidem
      PROVE  TypeOK' /\ Shape'
  <2>1. /\ call' \in [Req -> Call]
        /\ \A s \in Req : /\ call[s].stage = "none" <=> call'[s].stage = "none"
                          /\ call'[s].pkey = call[s].pkey
        /\ \A s \in Req \ {r} : call'[s] = call[s]
        /\ call'[r].resp = a
      BY <1>1, <1>4, CallMove DEF Answer, Stage
  <2>2. Grows
      BY <1>2, <2>1 DEF Grows
  <2>3. ProviderTypeOK'
      BY <1>2, <1>4 DEF TypeOK, ProviderTypeOK
  <2>4. ViewShape'
      BY <1>2, <1>4, <2>1 DEF Shape, ViewShape, GoodView
  <2> QED
      BY <2>1, <2>2, <2>3, <2>4, ProviderMove DEF TypeOK
<1>5. \A c \in {"invalid_request", "request_in_progress",
                "idempotency_key_reused"} :
        Rejected(c) \in Response /\ GoodView(Rejected(c))
  <2>1. \A c : Rejected(c).kind = "rejected"
      BY DEF Rejected, NoResponse
  <2> QED
      BY <2>1, RejectedTyped DEF GoodView
<1>6. pidem[k].resp \in Response /\ GoodView(pidem[k].resp)
    BY <1>1 DEF TypeOK, ProviderTypeOK, Shape, ViewShape
<1> QED
    BY <1>3, <1>4, <1>5, <1>6 DEF BeginCall

LEMMA FinishCallShape ==
    ASSUME TypeOK, Shape, NEW r \in Req, FinishCall(r),
           UNCHANGED <<serviceVars, faults>>
    PROVE  TypeOK' /\ Shape'
<1> USE DEF FinishCall
<1> DEFINE k == call[r].pkey
           a == call[r].resp
           rec == IF a.kind = "rejected" THEN NoIdem
                  ELSE [state |-> "COMPLETED", resp |-> a]
<1>1. k \in ProviderKey /\ a \in Response /\ GoodView(a)
    BY AnswerTyped DEF Shape, CallShape, ViewShape
<1>2. pidem' = [pidem EXCEPT ![k] = rec] /\ UNCHANGED <<ppay, txs, events, due>>
    OBVIOUS
<1>3. /\ rec \in [state : IdemState, resp : Response]
      /\ rec.resp \in {a, NoResponse}
    BY <1>1, NoIdemTyped DEF NoIdem, IdemState
<1>4. /\ call' \in [Req -> Call]
      /\ \A s \in Req : /\ call[s].stage = "none" <=> call'[s].stage = "none"
                        /\ call'[s].pkey = call[s].pkey
      /\ \A s \in Req \ {r} : call'[s] = call[s]
      /\ call'[r].resp = a
    BY <1>1, CallMove DEF Answer, Stage
<1> HIDE DEF rec
<1>5. ProviderTypeOK'
    BY <1>1, <1>2, <1>3 DEF TypeOK, ProviderTypeOK
<1>6. Grows
    BY <1>2, <1>4 DEF Grows
<1>7. ViewShape'
    BY <1>1, <1>2, <1>3, <1>4, ViewMove DEF GoodView, TypeOK, ProviderTypeOK
<1> QED
    BY <1>4, <1>5, <1>6, <1>7, ProviderMove DEF TypeOK

LEMMA FailCallShape ==
    ASSUME TypeOK, Shape, NEW r \in Req, FailCall(r),
           UNCHANGED serviceVars, Fault
    PROVE  TypeOK' /\ Shape'
<1> USE DEF FailCall
<1>1. call[r].stage # "none" /\ call[r].pkey \in ProviderKey
    BY DEF Shape, CallShape
<1>2. Uncertain \in Response /\ Uncertain.kind = "unknown"
    BY UncertainTyped DEF Uncertain, NoResponse
<1>3. /\ call' \in [Req -> Call]
      /\ \A s \in Req : /\ call[s].stage = "none" <=> call'[s].stage = "none"
                        /\ call'[s].pkey = call[s].pkey
      /\ \A s \in Req \ {r} : call'[s] = call[s]
      /\ call'[r].resp = Uncertain
    BY <1>1, <1>2, CallMove DEF Answer, Stage
<1>4. ProviderTypeOK'
    BY <1>1 DEF TypeOK, ProviderTypeOK, IdemState
<1>5. \A j \in ProviderKey : pidem'[j].resp = pidem[j].resp
    BY <1>1 DEF TypeOK, ProviderTypeOK
<1>6. Grows
    BY <1>3 DEF Grows
<1>7. ViewShape'
    BY <1>2, <1>3, <1>5, <1>6, ViewMove DEF Grows
<1>8. faults' \in 0 .. MaxFaults
    BY FaultAssumption DEF Fault, TypeOK
<1> QED
    BY <1>3, <1>4, <1>6, <1>7, <1>8, ProviderMove

LEMMA ProviderCrashShape ==
    ASSUME TypeOK, Shape, ProviderCrash, UNCHANGED serviceVars, Fault
    PROVE  TypeOK' /\ Shape'
<1> USE DEF ProviderCrash, providerVars
<1>1. call' \in [Req -> Call]
    BY DEF TypeOK, WireTypeOK, Call, Stage
<1>2. /\ \A s \in Req : /\ call[s].stage = "none" <=> call'[s].stage = "none"
                        /\ call'[s].pkey = call[s].pkey
                        /\ call'[s].resp = call[s].resp
    BY DEF TypeOK, WireTypeOK, Call
<1>3. Grows
    BY <1>2 DEF Grows
<1>4. ProviderTypeOK'
    BY DEF TypeOK, ProviderTypeOK
<1>5. ViewShape'
    BY <1>2 DEF Shape, ViewShape, GoodView
<1>6. faults' \in 0 .. MaxFaults
    BY FaultAssumption DEF Fault, TypeOK
<1> QED
    BY <1>1, <1>3, <1>4, <1>5, <1>6, ProviderMove

LEMMA RejectActionShape ==
    ASSUME TypeOK, Shape, NEW r \in Req, call[r].stage # "none",
           RejectAction(r), UNCHANGED <<pidem, serviceVars, faults>>
    PROVE  TypeOK' /\ Shape'
<1> DEFINE a == Rejected("invalid_request")
<1>1. a \in Response /\ a.kind = "rejected"
    BY RejectedTyped DEF Rejected, NoResponse
<1>0. call' = [call EXCEPT ![r].stage = "executed", ![r].resp = a]
    BY DEF RejectAction
<1> HIDE DEF a
<1>2. /\ call' \in [Req -> Call]
      /\ \A s \in Req : /\ call[s].stage = "none" <=> call'[s].stage = "none"
                        /\ call'[s].pkey = call[s].pkey
      /\ \A s \in Req \ {r} : call'[s] = call[s]
      /\ call'[r].resp = a
    BY <1>0, <1>1, CallMove DEF Stage
<1>3. Grows
    BY <1>2 DEF Grows, RejectAction
<1>4. ProviderTypeOK'
    BY DEF RejectAction, TypeOK, ProviderTypeOK
<1>5. ViewShape'
    BY <1>1, <1>2, <1>3, ViewMove DEF Grows
<1> QED
    BY <1>2, <1>3, <1>4, <1>5, ProviderMove DEF TypeOK

LEMMA SnapshotTyped ==
    /\ Snapshot("DECLINED", "DECLINED") \in ProviderSnapshot
    /\ Snapshot("EXPIRED", "EXPIRED") \in ProviderSnapshot
    /\ Snapshot("PENDING", "WAITING_ADDITIONAL_STEP") \in ProviderSnapshot
    /\ Snapshot("PENDING", "IN_PROCESS") \in ProviderSnapshot
    /\ Snapshot("AUTHORIZED", "AUTHORIZED") \in ProviderSnapshot
    /\ Snapshot("SUCCEEDED", "APPROVED") \in ProviderSnapshot
    /\ Snapshot("SUCCEEDED", "CAPTURED") \in ProviderSnapshot
    /\ Snapshot("SUCCEEDED", "PARTIALLY_CAPTURED") \in ProviderSnapshot
    /\ Snapshot("SUCCEEDED", "PARTIALLY_REFUNDED") \in ProviderSnapshot
    /\ Snapshot("REFUNDED", "REFUNDED") \in ProviderSnapshot
    /\ Snapshot("CANCELED", "CANCELED") \in ProviderSnapshot
BY DEF ProviderSnapshot

LEMMA EmitTyped ==
    ASSUME TypeOK, NEW e \in Event, emitPaymentEvent(e)
    PROVE  events' \subseteq Event /\ due' \subseteq EventId
BY DEF emitPaymentEvent, TypeOK, ProviderTypeOK, Event

LEMMA ExecuteCreateShape ==
    ASSUME TypeOK, Shape, NEW r \in Req, ExecuteCreate(r),
           UNCHANGED <<serviceVars, faults>>
    PROVE  TypeOK' /\ Shape'
<1>1. /\ call[r].stage = "begun" /\ call[r].pkey \in ProviderKey
      /\ UNCHANGED <<pidem, txs>> /\ call[r].manual \in BOOLEAN
    BY DEF ExecuteCreate, Shape, CallShape, TypeOK, WireTypeOK, Call
<1>2. PICK sc \in Scenario :
        LET purchase == ~call[r].manual
            snap     == resolveOutcome(sc, purchase)
            new      == [pkey |-> call[r].pkey, snap |-> snap,
                         purchase |-> purchase,
                         captured |-> IF snap.status = "SUCCEEDED"
                                      THEN Amount ELSE 0,
                         refunded |-> 0, scenario |-> sc,
                         pending |-> PendingAction(sc)]
            P        == [ppay EXCEPT ![r] = new]
        IN  /\ ppay' = P
            /\ IF snap.status \in {"SUCCEEDED", "DECLINED", "AUTHORIZED"}
               THEN emitPaymentEvent(EventOf(P, r, <<r, "create">>,
                                             PrimaryTx(P, r)))
               ELSE UNCHANGED <<events, due>>
            /\ call' = [call EXCEPT
                          ![r].stage = "executed",
                          ![r].resp = IF sc = "provider_timeout"
                                      THEN Uncertain ELSE View(P, r, txs)]
    BY DEF ExecuteCreate
<1> DEFINE purchase == ~call[r].manual
           snap == resolveOutcome(sc, purchase)
           new  == [pkey |-> call[r].pkey, snap |-> snap, purchase |-> purchase,
                    captured |-> IF snap.status = "SUCCEEDED"
                                 THEN Amount ELSE 0,
                    refunded |-> 0, scenario |-> sc,
                    pending |-> PendingAction(sc)]
           P == [ppay EXCEPT ![r] = new]
           a == IF sc = "provider_timeout" THEN Uncertain ELSE View(P, r, txs)
<1>3. new \in ProviderPayment
  <2>1. snap \in ProviderSnapshot
      BY SnapshotTyped DEF resolveOutcome
  <2>2. PendingAction(sc) \in {"none", "SUCCEEDED", "DECLINED", "3ds", "stale"}
      BY DEF PendingAction
  <2> HIDE DEF snap
  <2> QED
      BY <1>1, <2>1, <2>2, MoneyFacts DEF ProviderPayment
<1>4. ppay' = P /\ call' = [call EXCEPT ![r].stage = "executed", ![r].resp = a]
    BY <1>2
<1>5. \/ emitPaymentEvent(EventOf(P, r, <<r, "create">>, PrimaryTx(P, r)))
      \/ UNCHANGED <<events, due>>
    BY <1>2
<1> HIDE DEF new
<1>6. /\ P[r] \in ProviderPayment /\ P[r] # none
      /\ P \in [Req -> ProviderPayment \cup {none}]
      /\ \A p \in Req : ppay[p] # none => P[p] # none
    BY <1>3, NoneAssumption DEF TypeOK, ProviderTypeOK
<1> HIDE DEF P
<1>7. /\ a \in Response
      /\ a.kind = "ok" => /\ a.pid \in Req /\ ppay'[a.pid] # none
                          /\ a.snap \in ProviderSnapshot
  <2>1. Uncertain.kind = "unknown"
      BY DEF Uncertain, NoResponse
  <2> QED
      BY <1>4, <1>6, <2>1, UncertainTyped, ViewTyped
<1> HIDE DEF a
<1>8. /\ call' \in [Req -> Call]
      /\ \A s \in Req : /\ call[s].stage = "none" <=> call'[s].stage = "none"
                        /\ call'[s].pkey = call[s].pkey
      /\ \A s \in Req \ {r} : call'[s] = call[s]
      /\ call'[r].resp = a
    BY <1>1, <1>4, <1>7, CallMove DEF Stage
<1>9. events' \subseteq Event /\ due' \subseteq EventId
  <2>1. EventOf(P, r, <<r, "create">>, PrimaryTx(P, r)) \in Event
      BY <1>6, EventTyped DEF EventId, PrimaryTx
  <2> QED
      BY <1>5, <2>1, EmitTyped DEF TypeOK, ProviderTypeOK
<1>10. ProviderTypeOK'
    BY <1>1, <1>4, <1>6, <1>9 DEF TypeOK, ProviderTypeOK
<1>11. Grows
    BY <1>4, <1>6, <1>8 DEF Grows
<1>12. ViewShape'
    BY <1>1, <1>4, <1>6, <1>7, <1>8, ViewMove
<1> QED
    BY <1>8, <1>10, <1>11, <1>12, ProviderMove DEF TypeOK

\* What an applied action leaves behind, given the payment's new state.
LEMMA ApplyActionShape ==
    ASSUME TypeOK, Shape, NEW r \in Req, NEW p \in Req, NEW amt \in Money,
           NEW new \in ProviderPayment, NEW ok \in BOOLEAN,
           NEW type \in {"CAPTURE", "CANCEL", "REFUND"},
           call[r].stage # "none", ApplyAction(r, p, new, amt, ok, type),
           UNCHANGED <<pidem, serviceVars, faults>>
    PROVE  TypeOK' /\ Shape'
<1> DEFINE P == [ppay EXCEPT ![p] = new]
           t == [pid |-> p, by |-> r, pkey |-> call[r].pkey, amt |-> amt,
                 ok |-> ok]
           T == txs \cup {t}
           a == [View(P, p, T) EXCEPT !.refundFailed = ~ok]
<1>1. /\ ppay' = P /\ txs' = T
      /\ emitPaymentEvent(EventOf(P, p, <<r, "action">>, type))
      /\ call' = [call EXCEPT ![r].stage = "executed", ![r].resp = a]
    BY DEF ApplyAction
<1>2. t \in Transaction
    BY DEF Transaction, Shape, CallShape
<1>3. /\ P[p] \in ProviderPayment /\ P[p] # none
      /\ P \in [Req -> ProviderPayment \cup {none}]
      /\ \A q \in Req : ppay[q] # none => P[q] # none
    BY NoneAssumption DEF TypeOK, ProviderTypeOK
<1>4. T \subseteq Transaction
    BY <1>2 DEF TypeOK, ProviderTypeOK
<1> HIDE DEF P, T
<1>5. /\ a \in Response /\ a.pid = p /\ a.snap \in ProviderSnapshot
  <2>1. /\ View(P, p, T) \in Response /\ View(P, p, T).pid = p
        /\ View(P, p, T).snap \in ProviderSnapshot
      BY <1>3, ViewTyped
  <2> QED
      BY <2>1 DEF Response
<1> HIDE DEF a
<1>6. /\ call' \in [Req -> Call]
      /\ \A s \in Req : /\ call[s].stage = "none" <=> call'[s].stage = "none"
                        /\ call'[s].pkey = call[s].pkey
      /\ \A s \in Req \ {r} : call'[s] = call[s]
      /\ call'[r].resp = a
    BY <1>1, <1>5, CallMove DEF Stage
<1>7. events' \subseteq Event /\ due' \subseteq EventId
  <2>1. EventOf(P, p, <<r, "action">>, type) \in Event
      BY <1>3, EventTyped DEF EventId
  <2> QED
      BY <1>1, <2>1, EmitTyped
<1>8. ProviderTypeOK'
    BY <1>1, <1>3, <1>4, <1>7 DEF TypeOK, ProviderTypeOK
<1>9. Grows
    BY <1>1, <1>3, <1>6 DEF Grows
<1>10. ViewShape'
    BY <1>1, <1>3, <1>5, <1>6, ViewMove
<1> QED
    BY <1>6, <1>8, <1>9, <1>10, ProviderMove DEF TypeOK

\* The target of a running action is a payment.
LEMMA ActionOnPayment ==
    ASSUME TypeOK, Shape, NEW r \in Req, call[r].stage = "begun",
           call[r].pkey.op # "create"
    PROVE  /\ call[r].pkey.pid \in Req /\ call[r].amt \in Money
           /\ ppay[call[r].pkey.pid] \in ProviderPayment
BY DEF Shape, CallShape, TypeOK, WireTypeOK, Call, ProviderTypeOK

LEMMA ExecuteCaptureShape ==
    ASSUME TypeOK, Shape, NEW r \in Req, ExecuteCapture(r),
           UNCHANGED <<serviceVars, faults>>
    PROVE  TypeOK' /\ Shape'
<1> DEFINE p == call[r].pkey.pid
           x == ppay[p]
           m == call[r].amt
<1>1. call[r].stage = "begun" /\ call[r].pkey.op = "capture" /\ UNCHANGED pidem
    BY DEF ExecuteCapture
<1>2. p \in Req /\ m \in Money /\ x \in ProviderPayment
    BY <1>1, ActionOnPayment
<1>3. CASE CanCapture(x, m)
  <2>1. captureInStore(x, m) \in ProviderPayment
    <3>1. x.captured + m \in Money
        BY <1>2, <1>3, WireAssumption
        DEF CanCapture, remainingCapturable, Money, ProviderPayment
    <3> HIDE DEF m, x
    <3> QED
        BY <1>2, <3>1, SnapshotTyped DEF captureInStore, ProviderPayment
  <2>2. ApplyAction(r, p, captureInStore(x, m), m, TRUE, "CAPTURE")
      BY <1>3 DEF ExecuteCapture
  <2> QED
      BY <1>1, <1>2, <2>1, <2>2, ApplyActionShape
<1>4. CASE ~CanCapture(x, m)
    BY <1>1, <1>4, RejectActionShape DEF ExecuteCapture
<1> QED
    BY <1>3, <1>4

LEMMA ExecuteCancelShape ==
    ASSUME TypeOK, Shape, NEW r \in Req, ExecuteCancel(r),
           UNCHANGED <<serviceVars, faults>>
    PROVE  TypeOK' /\ Shape'
<1> DEFINE p == call[r].pkey.pid
           x == ppay[p]
<1>1. call[r].stage = "begun" /\ call[r].pkey.op = "cancel" /\ UNCHANGED pidem
    BY DEF ExecuteCancel
<1>2. p \in Req /\ x \in ProviderPayment
    BY <1>1, ActionOnPayment
<1>3. CASE CanCancel(x)
  <2>1. cancelInStore(x) \in ProviderPayment
      BY <1>2, SnapshotTyped DEF cancelInStore, ProviderPayment
  <2>2. remainingCapturable(x) \in Money
      BY <1>2, <1>3, WireAssumption
      DEF CanCancel, remainingCapturable, Money, ProviderPayment
  <2>3. ApplyAction(r, p, cancelInStore(x), remainingCapturable(x), TRUE,
                    "CANCEL")
      BY <1>3 DEF ExecuteCancel
  <2> QED
      BY <1>1, <1>2, <2>1, <2>2, <2>3, ApplyActionShape
<1>4. CASE ~CanCancel(x)
    BY <1>1, <1>4, RejectActionShape DEF ExecuteCancel
<1> QED
    BY <1>3, <1>4

LEMMA ExecuteRefundShape ==
    ASSUME TypeOK, Shape, NEW r \in Req, ExecuteRefund(r),
           UNCHANGED <<serviceVars, faults>>
    PROVE  TypeOK' /\ Shape'
<1> DEFINE p == call[r].pkey.pid
           x == ppay[p]
           m == IF call[r].amt = 0 THEN remainingRefundable(x) ELSE call[r].amt
<1>1. call[r].stage = "begun" /\ call[r].pkey.op = "refund" /\ UNCHANGED pidem
    BY DEF ExecuteRefund
<1>2. p \in Req /\ call[r].amt \in Money /\ x \in ProviderPayment
    BY <1>1, ActionOnPayment
<1>3. CASE Refundable(ppay, p, txs) /\ CanRefund(x, m)
  <2>1. m \in Money /\ x.refunded + m \in Money
      BY <1>2, <1>3, WireAssumption
      DEF CanRefund, remainingRefundable, Money, ProviderPayment
  <2>2. ApplyAction(r, p, refundInStore(x, m), m,
                    x.scenario # "refund_failed", "REFUND")
      BY <1>3 DEF ExecuteRefund
  <2>3. refundInStore(x, m) \in ProviderPayment
    <3> HIDE DEF m, x
    <3> QED
        BY <1>2, <2>1, SnapshotTyped DEF refundInStore, ProviderPayment
  <2> QED
      BY <1>1, <1>2, <2>1, <2>2, <2>3, ApplyActionShape
<1>4. CASE ~(Refundable(ppay, p, txs) /\ CanRefund(x, m))
    BY <1>1, <1>4, RejectActionShape DEF ExecuteRefund
<1> QED
    BY <1>3, <1>4

\* A payment changes by itself and announces it.
LEMMA PaymentMoves ==
    ASSUME TypeOK, Shape, NEW p \in Req, NEW new \in ProviderPayment,
           ppay' = [ppay EXCEPT ![p] = new],
           NEW e \in Event, emitPaymentEvent(e),
           UNCHANGED <<pidem, txs, call, serviceVars, faults>>
    PROVE  TypeOK' /\ Shape'
<1>1. /\ ppay' \in [Req -> ProviderPayment \cup {none}]
      /\ \A q \in Req : ppay[q] # none => ppay'[q] # none
    BY NoneAssumption DEF TypeOK, ProviderTypeOK
<1>2. events' \subseteq Event /\ due' \subseteq EventId
    BY EmitTyped
<1>3. ProviderTypeOK'
    BY <1>1, <1>2 DEF TypeOK, ProviderTypeOK
<1>4. Grows
    BY <1>1 DEF Grows
<1>5. ViewShape'
    BY <1>1 DEF Shape, ViewShape, GoodView
<1> QED
    BY <1>3, <1>4, <1>5, ProviderMove DEF TypeOK, WireTypeOK

LEMMA AsyncEventTyped ==
    ASSUME NEW P, NEW p \in Req, P[p] \in ProviderPayment,
           NEW tag \in {"terminal", "stale"}
    PROVE  EventOf(P, p, <<p, tag>>, PrimaryTx(P, p)) \in Event
BY EventTyped DEF EventId, PrimaryTx

LEMMA TerminalTyped ==
    ASSUME NEW x \in ProviderPayment, NEW snap \in ProviderSnapshot
    PROVE  Terminal(x, snap) \in ProviderPayment
BY MoneyFacts DEF Terminal, ProviderPayment

LEMMA ProcessingEndsShape ==
    ASSUME TypeOK, Shape, NEW p \in Req, ProcessingEnds(p),
           UNCHANGED <<serviceVars, faults>>
    PROVE  TypeOK' /\ Shape'
<1> DEFINE x   == ppay[p]
           inc == IF x.pending = "SUCCEEDED"
                  THEN Snapshot("SUCCEEDED", "APPROVED")
                  ELSE Snapshot("DECLINED", "DECLINED")
           new == IF decidePaymentEventApplication(x.snap, inc, FALSE)
                  THEN Terminal(x, inc) ELSE [x EXCEPT !.pending = "none"]
           P   == [ppay EXCEPT ![p] = new]
           e   == EventOf(P, p, <<p, "terminal">>, PrimaryTx(P, p))
<1>1. ppay' = P /\ emitPaymentEvent(e) /\ UNCHANGED <<pidem, txs, call>>
    BY DEF ProcessingEnds
<1>2. x \in ProviderPayment
    BY DEF ProcessingEnds, TypeOK, ProviderTypeOK
<1>3. new \in ProviderPayment
  <2>1. Terminal(x, inc) \in ProviderPayment
      BY <1>2, SnapshotTyped, TerminalTyped
  <2>2. [x EXCEPT !.pending = "none"] \in ProviderPayment
      BY <1>2 DEF ProviderPayment
  <2> QED
      BY <2>1, <2>2
<1> HIDE DEF new
<1>4. P[p] \in ProviderPayment
    BY <1>3 DEF TypeOK, ProviderTypeOK
<1>5. e \in Event
    BY <1>4, AsyncEventTyped
<1> HIDE DEF e
<1> QED
    BY <1>1, <1>3, <1>5, PaymentMoves

LEMMA CompleteThreeDsShape ==
    ASSUME TypeOK, Shape, NEW p \in Req, completeThreeDs(p),
           UNCHANGED <<serviceVars, faults>>
    PROVE  TypeOK' /\ Shape'
<1>1. PICK snap \in ProviderSnapshot :
        LET P == [ppay EXCEPT ![p] = Terminal(ppay[p], snap)]
        IN  /\ ppay' = P
            /\ emitPaymentEvent(EventOf(P, p, <<p, "terminal">>,
                                        PrimaryTx(P, p)))
    BY SnapshotTyped DEF completeThreeDs
<1> DEFINE new == Terminal(ppay[p], snap)
           P   == [ppay EXCEPT ![p] = new]
           e   == EventOf(P, p, <<p, "terminal">>, PrimaryTx(P, p))
<1>2. ppay' = P /\ emitPaymentEvent(e) /\ UNCHANGED <<pidem, txs, call>>
    BY <1>1 DEF completeThreeDs
<1>3. ppay[p] \in ProviderPayment
    BY DEF completeThreeDs, TypeOK, ProviderTypeOK
<1>4. new \in ProviderPayment
    BY <1>3, TerminalTyped
<1> HIDE DEF new
<1>5. P[p] \in ProviderPayment
    BY <1>4 DEF TypeOK, ProviderTypeOK
<1>6. e \in Event
    BY <1>5, AsyncEventTyped
<1> HIDE DEF e
<1> QED
    BY <1>2, <1>4, <1>6, PaymentMoves

LEMMA EmitStaleShape ==
    ASSUME TypeOK, Shape, NEW p \in Req, EmitStaleEvent(p),
           UNCHANGED <<serviceVars, faults>>
    PROVE  TypeOK' /\ Shape'
<1> DEFINE new == [ppay[p] EXCEPT !.pending = "none"]
           e0  == EventOf(ppay, p, <<p, "stale">>, PrimaryTx(ppay, p))
           e   == [e0 EXCEPT !.snap = Snapshot("PENDING", "IN_PROCESS"),
                             !.captured = 0]
<1>1. ppay[p] \in ProviderPayment
    BY DEF EmitStaleEvent, TypeOK, ProviderTypeOK
<1>2. /\ ppay' = [ppay EXCEPT ![p] = new] /\ emitPaymentEvent(e)
      /\ UNCHANGED <<pidem, txs, call>>
    BY <1>1 DEF EmitStaleEvent
<1>3. new \in ProviderPayment
    BY <1>1 DEF ProviderPayment
<1>4. e0 \in Event
    BY <1>1, AsyncEventTyped
<1> HIDE DEF e0
<1>5. e \in Event
    BY <1>4, SnapshotTyped, MoneyFacts DEF Event
<1> HIDE DEF new, e
<1> QED
    BY <1>2, <1>3, <1>5, PaymentMoves

-----------------------------------------------------------------------------
(* The steps of the composition.                                            *)

LEMMA InitShape == Init => Shape
<1> SUFFICES ASSUME Init PROVE Shape
    OBVIOUS
<1> USE DEF Init
<1>1. CallShape
    BY DEF WireInit, CallShape, NoCall
<1>2. ViewShape
  <2>1. NoCall.resp = NoResponse /\ NoIdem.resp = NoResponse
      BY DEF NoCall, NoIdem
  <2>2. NoResponse.kind = "none"
      BY DEF NoResponse
  <2> QED
      BY <2>1, <2>2 DEF WireInit, ProviderInit, ViewShape, GoodView
<1>3. LinkShape /\ PcShape
    BY DEF ServiceInit, LinkShape, Linked, PcShape
<1>4. PollShape
    BY DEF ServiceInit, PollShape, NoPoll
<1> QED
    BY <1>1, <1>2, <1>3, <1>4 DEF Shape

LEMMA HandleRequestShape ==
    ASSUME TypeOK, Shape, NEW r \in Req, HandleRequest(r)
    PROVE  TypeOK' /\ Shape'
BY SettleShape, AuthorizeShape, FindExistingShape, PushDraftShape,
   CreateOkShape, CreateUnknownShape, CreateRejectedShape, ReadBackShape,
   CaptureOkShape, CancelOkShape, RefundOkShape
   DEF HandleRequest, RequestStep

LEMMA PollerStepShape ==
    ASSUME TypeOK, Shape, NEW g \in Poller, PollerStep(g)
    PROVE  TypeOK' /\ Shape'
<1> DEFINE p == poll[g].pay
           v == View(ppay, payments[p].pid, txs)
<1>1. CASE /\ poll[g].at = "fetch" /\ payments[p] # none
           /\ payments[p].pid # none /\ PollFetch(g, v)
  <2>1. p \in Req
      BY <1>1 DEF Shape, PollShape
  <2>2. payments[p].pid \in Req /\ ppay[payments[p].pid] \in ProviderPayment
      BY <1>1, <2>1 DEF TypeOK, ServiceTypeOK, ProviderTypeOK, Payment, Shape,
                        LinkShape, Linked
  <2>3. v \in Response
      BY <2>2, ViewTyped
  <2> QED
      BY <1>1, <2>3, PollFetchShape DEF PollerStep
<1> QED
    BY <1>1, PollStartShape, PollApplyShape DEF PollerStep

LEMMA DeliveryShape ==
    ASSUME TypeOK, Shape, NEW id \in EventId,
           DeliverWebhook(id) \/ LoseAck(id) \/ ExhaustDelivery(id)
    PROVE  TypeOK' /\ Shape'
<1>1. CASE DeliverWebhook(id)
    BY <1>1, DeliverShape DEF DeliverWebhook, TypeOK
<1>2. CASE LoseAck(id)
  <2>1. faults' \in 0 .. MaxFaults
      BY <1>2, FaultAssumption DEF LoseAck, Fault, TypeOK
  <2> QED
      BY <1>2, <2>1, DeliverShape DEF LoseAck, providerVars
<1>3. CASE ExhaustDelivery(id)
  <2> USE <1>3 DEF ExhaustDelivery
  <2>1. faults' \in 0 .. MaxFaults
      BY FaultAssumption DEF Fault, TypeOK
  <2>2. call' \in [Req -> Call] /\ Grows
      BY DEF TypeOK, WireTypeOK, Grows
  <2>3. ProviderTypeOK'
      BY DEF TypeOK, ProviderTypeOK
  <2>4. ViewShape'
      BY DEF Shape, ViewShape, GoodView
  <2> QED
      BY <2>1, <2>2, <2>3, <2>4, ProviderMove
<1> QED
    BY <1>1, <1>2, <1>3

LEMMA ProviderWorksShape ==
    ASSUME TypeOK, Shape, ProviderWorks
    PROVE  TypeOK' /\ Shape'
<1>1. ASSUME NEW r \in Req, RejectCreate(r) PROVE TypeOK' /\ Shape'
    BY <1>1, RejectActionShape DEF RejectCreate, ProviderWorks
<1> QED
    BY <1>1, BeginCallShape, ExecuteCreateShape, ExecuteCaptureShape,
       ExecuteCancelShape, ExecuteRefundShape, FinishCallShape,
       ProcessingEndsShape, CompleteThreeDsShape, EmitStaleShape
       DEF ProviderWorks, ProviderStep

LEMMA NextShape == TypeOK /\ Shape /\ [Next]_vars => TypeOK' /\ Shape'
<1> SUFFICES ASSUME TypeOK, Shape, [Next]_vars PROVE TypeOK' /\ Shape'
    OBVIOUS
<1>1. CASE UNCHANGED vars
  <2>1. /\ UNCHANGED serviceVars /\ UNCHANGED faults /\ UNCHANGED call
        /\ UNCHANGED providerVars
      BY <1>1 DEF vars
  <2>2. call' \in [Req -> Call] /\ Grows
      BY <2>1 DEF TypeOK, WireTypeOK, Grows, providerVars
  <2>3. ProviderTypeOK' /\ ViewShape'
      BY <2>1 DEF TypeOK, ProviderTypeOK, providerVars, Shape, ViewShape,
                  GoodView
  <2> QED
      BY <2>1, <2>2, <2>3, ProviderMove DEF TypeOK
<1>2. ASSUME NEW r \in Req, ClientRequest(r) PROVE TypeOK' /\ Shape'
    BY <1>2, ArriveShape DEF ClientRequest
<1>3. ASSUME NEW r \in Req, StartOperation(r) PROVE TypeOK' /\ Shape'
    BY <1>3, StartActionShape DEF StartOperation
<1>4. ASSUME NEW r \in Req, GiveUpOnCall(r) PROVE TypeOK' /\ Shape'
    BY <1>4, CreateTimeoutShape, ActionFailsShape DEF GiveUpOnCall
<1>5. ASSUME NEW g \in Poller, PollerFails(g) PROVE TypeOK' /\ Shape'
    BY <1>5, PollFailsShape DEF PollerFails
<1>6. CASE ApplyWebhook
    BY <1>6, ProcessWebhookShape DEF ApplyWebhook, TypeOK, ProviderTypeOK
<1>7. CASE ProviderFails
    BY <1>7, FailCallShape, ProviderCrashShape DEF ProviderFails
<1>8. CASE ServiceFails
    BY <1>8, StoreFailsShape, WebhookFailsShape, ServiceCrashShape
    DEF ServiceFails
<1> QED
    BY <1>1, <1>2, <1>3, <1>4, <1>5, <1>6, <1>7, <1>8, HandleRequestShape,
       PollerStepShape, DeliveryShape, ProviderWorksShape DEF Next

\* Every reachable state is well-typed, and well-formed: calls that were sent
\* have keys and targets that exist, views and links show provider payments
\* that exist, a waiting request has sent the call it waits for.
THEOREM Typed == Spec => [](TypeOK /\ Shape)
<1>1. Init => TypeOK /\ Shape
    BY InitTyped, InitShape
<1> QED
    BY <1>1, NextShape, PTL DEF Spec

\* Type correctness: no handler, however calls, views and events reach it,
\* stores an amount outside 0 .. Amount, a status outside the public ones or
\* an answer the routes do not know.
THEOREM TypeCorrect == Spec => []TypeOK
BY Typed, PTL

-----------------------------------------------------------------------------
(* One runner per key: a running request holds its record in progress.      *)

HoldsKey == \A r \in Req :
              Running(r) => idem[IKey(arg[r])].status = "in_progress"

Gate == HoldsKey /\ OneRunnerPerKey

\* Most steps leave the records alone and start no request.
KeepsGate == /\ UNCHANGED <<idem, arg>>
             /\ \A s \in Req : Running(s)' => Running(s)

LEMMA GateFrame == Gate /\ KeepsGate => Gate'
BY DEF Gate, HoldsKey, OneRunnerPerKey, KeepsGate

LEMMA ArriveGate ==
    ASSUME TypeOK, Shape, Gate, NEW r \in Req, NEW a \in Menu, Arrive(r, a)
    PROVE  Gate'
<1>1. IKey(a) \in IdemKey
    BY KeyTyped
<1>2. /\ arg'[r] = a /\ ~Running(r)
      /\ \A s \in Req \ {r} : arg'[s] = arg[s]
    BY DEF Arrive, TypeOK, ServiceTypeOK, Running
<1>3. \A s \in Req : Running(s) => IKey(arg[s]) \in IdemKey
    BY KeyTyped DEF Shape, PcShape, Running
<1>4. CASE GateProceed(r, a)
  <2>1. \A s \in Req \ {r} : Running(s)' => Running(s)
      BY <1>4 DEF GateProceed, Goto, Running, TypeOK, ServiceTypeOK
  <2>2. \A s \in Req : Running(s) => IKey(arg[s]) # IKey(a)
      BY <1>4 DEF GateProceed, Gate, HoldsKey
  <2>3. /\ idem'[IKey(a)].status = "in_progress"
        /\ \A k \in IdemKey \ {IKey(a)} : idem'[k] = idem[k]
      BY <1>1, <1>4 DEF GateProceed, TypeOK, ServiceTypeOK
  <2> QED
      BY <1>2, <1>3, <2>1, <2>2, <2>3 DEF Gate, HoldsKey, OneRunnerPerKey
<1>5. CASE GateAnswer(r, a)
  <2>1. ~Running(r)' /\ \A s \in Req \ {r} : Running(s)' => Running(s)
      BY <1>5 DEF GateAnswer, Finish, Running, TypeOK, ServiceTypeOK
  <2> QED
      BY <1>2, <1>5, <2>1 DEF Gate, HoldsKey, OneRunnerPerKey, GateAnswer
<1> QED
    BY <1>4, <1>5 DEF Arrive

LEMMA SettleGate ==
    ASSUME TypeOK, Shape, Gate, NEW r \in Req,
           Complete(r) \/ Fail(r) \/ Abort(r)
    PROVE  Gate'
<1> USE DEF Complete, Fail, Abort
<1>1. Running(r) /\ UNCHANGED arg
    BY DEF Running
<1>2. ~Running(r)' /\ \A s \in Req \ {r} : Running(s)' => Running(s)
    BY DEF Finish, Running, TypeOK, ServiceTypeOK
<1>3. \A s \in Req : Running(s) => IKey(arg[s]) \in IdemKey
    BY KeyTyped DEF Shape, PcShape, Running
<1>4. \A k \in IdemKey \ {IKey(arg[r])} : idem'[k] = idem[k]
    BY DEF TypeOK, ServiceTypeOK
<1> QED
    BY <1>1, <1>2, <1>3, <1>4 DEF Gate, HoldsKey, OneRunnerPerKey

\* A running request moves to another section.
LEMMA PcMoveKeeps ==
    ASSUME TypeOK, NEW r \in Req, Running(r), NEW l,
           pc' = [pc EXCEPT ![r] = l], UNCHANGED <<idem, arg>>
    PROVE  KeepsGate
BY DEF KeepsGate, Running, TypeOK, ServiceTypeOK

LEMMA HandlerKeeps ==
    ASSUME TypeOK, NEW r \in Req,
           \/ Authorize(r) \/ FindExisting(r) \/ PushDraft(r) \/ CreateOk(r)
           \/ CreateUnknown(r) \/ CreateRejected(r) \/ ReadBack(r)
           \/ CaptureOk(r) \/ CancelOk(r) \/ RefundOk(r)
           \/ CreateTimeout(r) \/ ActionFails(r) \/ StoreFails(r)
           \/ \E b : StartAction(r, b)
    PROVE  KeepsGate
<1>1. Running(r) /\ UNCHANGED <<idem, arg>>
    BY DEF Running, Authorize, FindExisting, PushDraft, CreateOk, CreateUnknown,
           CreateRejected, ReadBack, CaptureOk, CancelOk, RefundOk,
           CreateTimeout, ActionFails, StoreFails, StartAction, Answered,
           storeVars
<1>2. \E l : pc' = [pc EXCEPT ![r] = l]
    BY DEF Authorize, FindExisting, PushDraft, CreateOk, CreateUnknown,
           CreateRejected, ReadBack, CaptureOk, CancelOk, RefundOk,
           CreateTimeout, ActionFails, StoreFails, StartAction, Goto, Throw,
           ThrowUnexpected, Finish
<1> QED
    BY <1>1, <1>2, PcMoveKeeps

LEMMA OtherKeeps ==
    ASSUME \/ \E g \in Poller : PollerStep(g) \/ PollerFails(g)
           \/ \E id \in EventId : \/ DeliverWebhook(id) \/ LoseAck(id)
                                  \/ ExhaustDelivery(id)
           \/ ApplyWebhook \/ ProviderWorks \/ ProviderFails
           \/ (\E id \in inbox : WebhookFails(id)) \/ ServiceCrash
           \/ UNCHANGED vars
    PROVE  KeepsGate
<1>1. CASE \E g \in Poller : PollerStep(g) \/ PollerFails(g)
    BY <1>1 DEF PollerStep, PollerFails, PollStart, PollFetch, PollApply,
                PollFails, storeVars, KeepsGate, Running
<1>2. CASE \E id \in EventId : \/ DeliverWebhook(id) \/ LoseAck(id)
                               \/ ExhaustDelivery(id)
    BY <1>2 DEF DeliverWebhook, LoseAck, ExhaustDelivery, AcceptWebhook,
                serviceVars, storeVars, processVars, KeepsGate, Running
<1>3. CASE ApplyWebhook
    BY <1>3 DEF ApplyWebhook, ProcessWebhook, storeVars, KeepsGate, Running
<1>4. CASE ProviderWorks \/ ProviderFails \/ UNCHANGED vars
    BY <1>4 DEF ProviderWorks, ProviderFails, vars, serviceVars, storeVars,
                processVars, KeepsGate, Running
<1>5. CASE (\E id \in inbox : WebhookFails(id)) \/ ServiceCrash
    BY <1>5 DEF WebhookFails, ServiceCrash, storeVars, KeepsGate, Running
<1> QED
    BY <1>1, <1>2, <1>3, <1>4, <1>5

LEMMA NextGate == TypeOK /\ Shape /\ Gate /\ [Next]_vars => Gate'
<1> SUFFICES ASSUME TypeOK, Shape, Gate, [Next]_vars PROVE Gate'
    OBVIOUS
<1>1. ASSUME NEW r \in Req, ClientRequest(r) PROVE Gate'
    BY <1>1, ArriveGate DEF ClientRequest
<1>2. ASSUME NEW r \in Req, HandleRequest(r) PROVE Gate'
    BY <1>2, SettleGate, HandlerKeeps, GateFrame DEF HandleRequest, RequestStep
<1>3. ASSUME NEW r \in Req, StartOperation(r) PROVE Gate'
    BY <1>3, HandlerKeeps, GateFrame DEF StartOperation
<1>4. ASSUME NEW r \in Req, GiveUpOnCall(r) PROVE Gate'
    BY <1>4, HandlerKeeps, GateFrame DEF GiveUpOnCall
<1>5. CASE ServiceFails
    BY <1>5, HandlerKeeps, OtherKeeps, GateFrame DEF ServiceFails
<1> QED
    BY <1>1, <1>2, <1>3, <1>4, <1>5, OtherKeeps, GateFrame DEF Next

\* withIdempotency: two requests with one key never execute at the same time,
\* for any number of requests, keys, faults and crashes.
THEOREM OneRunner == Spec => []OneRunnerPerKey
<1>1. Init => Gate
    BY DEF Init, ServiceInit, Gate, HoldsKey, OneRunnerPerKey, Running
<1>2. Gate => OneRunnerPerKey
    BY DEF Gate
<1> QED
    BY <1>1, <1>2, NextGate, Typed, PTL DEF Spec

-----------------------------------------------------------------------------
(* One payment per key: a request about to store its draft has found none.  *)

NoRival == \A r \in Req : pc[r] = "draft" => WithKey(arg[r].key) = {}

Records == NoRival /\ OnePaymentPerKey

\* Most steps add no payment, re-key none and reach no draft.
KeepsRecords ==
    /\ \A p \in Req : payments'[p] # none => /\ payments[p] # none
                                             /\ payments'[p].key = payments[p].key
    /\ \A s \in Req : pc'[s] = "draft" => /\ pc[s] = "draft"
                                          /\ arg'[s] = arg[s]

LEMMA RecordsFrame == Records /\ KeepsRecords => Records'
<1> SUFFICES ASSUME Records, KeepsRecords PROVE Records'
    OBVIOUS
<1>1. NoRival'
    BY DEF Records, NoRival, WithKey, KeepsRecords
<1>2. OnePaymentPerKey'
    BY DEF Records, OnePaymentPerKey, KeepsRecords
<1> QED
    BY <1>1, <1>2 DEF Records

LEMMA FindExistingRecords ==
    ASSUME TypeOK, Shape, Records, NEW r \in Req, FindExisting(r)
    PROVE  Records'
<1>1. UNCHANGED <<payments, arg>>
    BY DEF FindExisting, storeVars
<1>2. \A s \in Req : pc'[s] = "draft" => \/ pc[s] = "draft"
                                         \/ s = r /\ WithKey(arg[r].key) = {}
    BY DEF FindExisting, Goto, TypeOK, ServiceTypeOK
<1> QED
    BY <1>1, <1>2 DEF Records, NoRival, OnePaymentPerKey, WithKey

LEMMA PushDraftRecords ==
    ASSUME TypeOK, Shape, Gate, Records, NEW r \in Req, PushDraft(r)
    PROVE  Records'
<1>1. /\ pc[r] = "draft" /\ UNCHANGED arg
      /\ \A s \in Req : pc'[s] = "draft" => s # r /\ pc[s] = "draft"
    BY DEF PushDraft, Goto, TypeOK, ServiceTypeOK
<1>2. /\ payments'[r].key = arg[r].key
      /\ \A p \in Req \ {r} : payments'[p] = payments[p]
    BY DEF PushDraft, TypeOK, ServiceTypeOK
<1>3. \A s \in Req \ {r} : pc[s] = "draft" => arg[s].key # arg[r].key
  <2>1. \A s \in Req : pc[s] = "draft" => Running(s) /\ arg[s].op = "create"
      BY DEF Running, Shape, PcShape
  <2> QED
      BY <1>1, <2>1 DEF Gate, OneRunnerPerKey, IKey
<1>4. NoRival'
    BY <1>1, <1>2, <1>3 DEF Records, NoRival, WithKey
<1>5. OnePaymentPerKey'
    BY <1>1, <1>2 DEF Records, NoRival, WithKey, OnePaymentPerKey
<1> QED
    BY <1>4, <1>5 DEF Records

\* Updates of one existing payment that keep its key.
LEMMA UpdateKeeps ==
    ASSUME TypeOK, NEW p \in Req, NEW new,
           payments' = [payments EXCEPT ![p] = new],
           new # none => payments[p] # none /\ new.key = payments[p].key
    PROVE  \A q \in Req : payments'[q] # none =>
              /\ payments[q] # none /\ payments'[q].key = payments[q].key
BY DEF TypeOK, ServiceTypeOK

\* The payments that the handlers, GETs and webhooks write keep their keys.
KeepsKeys == \A p \in Req : payments'[p] # none =>
                /\ payments[p] # none /\ payments'[p].key = payments[p].key

LEMMA UpdatePaymentKeeps ==
    ASSUME TypeOK, NEW p \in Req, NEW new, UpdatePayment(p, new),
           payments[p] # none => new.key = payments[p].key
    PROVE  KeepsKeys
BY DEF UpdatePayment, KeepsKeys, TypeOK, ServiceTypeOK

LEMMA CreateKeepsKeys ==
    ASSUME TypeOK, Shape, NEW r \in Req,
           \/ CreateOk(r) \/ CreateUnknown(r) \/ CreateRejected(r)
           \/ CreateTimeout(r)
    PROVE  KeepsKeys
<1>1. CASE CreateOk(r)
  <2>1. pay[r] \in Req /\ applyProviderPaymentView(pay[r], call[r].resp)
      BY <1>1 DEF CreateOk, Answered, Shape, PcShape
  <2>2. payments[pay[r]] # none => payments[pay[r]] \in Payment
      BY <2>1 DEF TypeOK, ServiceTypeOK
  <2> DEFINE x == payments[pay[r]]
             v == call[r].resp
             new == [x EXCEPT !.pid = v.pid,
                              !.status = mapYunoPaymentStatus(v.snap),
                              !.captured = v.captured,
                              !.refunded = v.refunded, !.rtx = v.rtx \/ x.rtx]
  <2>3. CASE x = none
      BY <2>1, <2>3 DEF applyProviderPaymentView, KeepsKeys
  <2>4. CASE x # none
    <3>1. payments' = [payments EXCEPT ![pay[r]] = new]
        BY <2>1, <2>4 DEF applyProviderPaymentView
    <3>2. new.key = x.key
        BY <2>2, <2>4 DEF Payment
    <3> HIDE DEF new
    <3> QED
        BY <2>1, <2>4, <3>1, <3>2, UpdateKeeps DEF KeepsKeys
  <2> QED
      BY <2>3, <2>4
<1>2. CASE CreateUnknown(r)
    BY <1>2 DEF CreateUnknown, KeepsKeys, TypeOK, ServiceTypeOK, Payment
<1>3. CASE CreateRejected(r) \/ CreateTimeout(r)
    BY <1>3 DEF CreateRejected, CreateTimeout, RemoveDraft, KeepsKeys, TypeOK,
                ServiceTypeOK
<1> QED
    BY <1>1, <1>2, <1>3

LEMMA ActionKeepsKeys ==
    ASSUME TypeOK, Shape, NEW r \in Req,
           CaptureOk(r) \/ CancelOk(r) \/ RefundOk(r)
    PROVE  KeepsKeys
<1>1. pay[r] \in Req
    BY DEF CaptureOk, CancelOk, RefundOk, Answered, Shape, PcShape
<1>2. payments[pay[r]] # none => payments[pay[r]] \in Payment
    BY <1>1 DEF TypeOK, ServiceTypeOK
<1>3. CASE CaptureOk(r)
    BY <1>1, <1>2, <1>3, UpdatePaymentKeeps DEF CaptureOk, Payment
<1>4. CASE CancelOk(r)
    BY <1>1, <1>2, <1>4, UpdatePaymentKeeps DEF CancelOk, Payment
<1>5. CASE RefundOk(r)
    BY <1>1, <1>2, <1>5, UpdatePaymentKeeps DEF RefundOk, Payment
<1> QED
    BY <1>3, <1>4, <1>5

LEMMA AsyncKeepsKeys ==
    ASSUME TypeOK, Shape,
           (\E g \in Poller : PollApply(g)) \/ (\E e \in Event : ProcessWebhook(e))
    PROVE  KeepsKeys
<1>1. ASSUME NEW g \in Poller, PollApply(g) PROVE KeepsKeys
  <2>1. poll[g].pay \in Req
      BY <1>1 DEF PollApply, Shape, PollShape
  <2>2. payments[poll[g].pay] # none => payments[poll[g].pay] \in Payment
      BY <2>1 DEF TypeOK, ServiceTypeOK
  <2> QED
      BY <1>1, <2>1, <2>2, UpdatePaymentKeeps DEF PollApply, Payment
<1>2. ASSUME NEW e \in Event, ProcessWebhook(e) PROVE KeepsKeys
  <2>1. CASE UNCHANGED payments
      BY <2>1 DEF KeepsKeys
  <2>2. ASSUME NEW p \in Req, payments[p] # none,
               payments' = [payments EXCEPT ![p] =
                              EventAmounts(payments[p], e,
                                           mapYunoPaymentStatus(e.snap))]
        PROVE  KeepsKeys
    <3>1. payments[p] \in Payment
        BY <2>2 DEF TypeOK, ServiceTypeOK
    <3>2. EventAmounts(payments[p], e, mapYunoPaymentStatus(e.snap)).key
            = payments[p].key
        BY <3>1 DEF EventAmounts, Payment
    <3> QED
        BY <2>2, <3>2, UpdateKeeps DEF KeepsKeys
  <2> QED
      BY <1>2, <2>1, <2>2 DEF ProcessWebhook, storeVars
<1> QED
    BY <1>1, <1>2

\* A step that starts no draft.
LEMMA NoDraft ==
    ASSUME KeepsGate, KeepsKeys,
           \A s \in Req : pc'[s] = "draft" => pc[s] = "draft"
    PROVE  KeepsRecords
BY DEF KeepsRecords, KeepsKeys, KeepsGate

LEMMA SamePaymentsKeep ==
    ASSUME UNCHANGED payments, \A s \in Req : pc'[s] = "draft" =>
                                 pc[s] = "draft" /\ arg'[s] = arg[s]
    PROVE  KeepsRecords
BY DEF KeepsRecords

LEMMA HandlerRecords ==
    ASSUME TypeOK, Shape, NEW r \in Req,
           \/ Authorize(r) \/ CreateOk(r) \/ CreateUnknown(r)
           \/ CreateRejected(r) \/ ReadBack(r) \/ CaptureOk(r) \/ CancelOk(r)
           \/ RefundOk(r) \/ CreateTimeout(r) \/ ActionFails(r) \/ StoreFails(r)
           \/ (\E b : StartAction(r, b))
           \/ Complete(r) \/ Fail(r) \/ Abort(r)
    PROVE  KeepsRecords
<1>1. \E l : l # "draft" /\ pc' = [pc EXCEPT ![r] = l]
    BY DEF Authorize, CreateOk, CreateUnknown,
           CreateRejected, ReadBack, CaptureOk, CancelOk, RefundOk,
           CreateTimeout, ActionFails, StoreFails, StartAction, Goto, Throw,
           ThrowUnexpected, Finish, Complete, Fail, Abort
<1>2. \A s \in Req : pc'[s] = "draft" => pc[s] = "draft"
    BY <1>1 DEF TypeOK, ServiceTypeOK
<1>3. UNCHANGED arg
    BY DEF Authorize, CreateOk, CreateUnknown,
           CreateRejected, ReadBack, CaptureOk, CancelOk, RefundOk,
           CreateTimeout, ActionFails, StoreFails, StartAction, Complete, Fail,
           Abort
<1>4. CASE UNCHANGED payments
    BY <1>2, <1>3, <1>4, SamePaymentsKeep
<1>5. CASE KeepsKeys
    BY <1>2, <1>3, <1>5 DEF KeepsRecords, KeepsKeys
<1>6. UNCHANGED payments \/ KeepsKeys
  <2>1. CASE \/ Authorize(r) \/ ReadBack(r) \/ ActionFails(r) \/ StoreFails(r)
             \/ (\E b : StartAction(r, b))
             \/ Complete(r) \/ Fail(r) \/ Abort(r)
      BY <2>1 DEF Authorize, ReadBack, ActionFails, StoreFails, StartAction,
                  Complete, Fail, Abort, storeVars
  <2>2. CASE \/ CreateOk(r) \/ CreateUnknown(r) \/ CreateRejected(r)
             \/ CreateTimeout(r)
      BY <2>2, CreateKeepsKeys
  <2>3. CASE CaptureOk(r) \/ CancelOk(r) \/ RefundOk(r)
      BY <2>3, ActionKeepsKeys
  <2> QED
      BY <2>1, <2>2, <2>3
<1> QED
    BY <1>4, <1>5, <1>6

LEMMA ArriveRecords ==
    ASSUME TypeOK, NEW r \in Req, NEW a, Arrive(r, a)
    PROVE  KeepsRecords
<1>1. \E l : l # "draft" /\ pc' = [pc EXCEPT ![r] = l]
    BY DEF Arrive, GateProceed, GateAnswer, Goto, Finish
<1>2. \A s \in Req : pc'[s] = "draft" => pc[s] = "draft" /\ s # r
    BY <1>1 DEF TypeOK, ServiceTypeOK
<1> QED
    BY <1>2, SamePaymentsKeep DEF Arrive, TypeOK, ServiceTypeOK

LEMMA OtherRecords ==
    ASSUME TypeOK, Shape,
           \/ \E g \in Poller : PollerStep(g) \/ PollerFails(g)
           \/ \E id \in EventId : \/ DeliverWebhook(id) \/ LoseAck(id)
                                  \/ ExhaustDelivery(id)
           \/ ApplyWebhook \/ ProviderWorks \/ ProviderFails
           \/ (\E id \in inbox : WebhookFails(id)) \/ ServiceCrash
           \/ UNCHANGED vars
    PROVE  KeepsRecords
<1>1. KeepsGate
    BY OtherKeeps
<1>2. CASE \E g \in Poller : PollerStep(g) \/ PollerFails(g)
  <2>1. UNCHANGED pc
      BY <1>2 DEF PollerStep, PollerFails, PollStart, PollFetch, PollApply,
                  PollFails
  <2>2. UNCHANGED payments \/ \E g \in Poller : PollApply(g)
      BY <1>2 DEF PollerStep, PollerFails, PollStart, PollFetch, PollFails,
                  storeVars
  <2> QED
      BY <1>1, <2>1, <2>2, AsyncKeepsKeys, NoDraft DEF KeepsKeys
<1>3. CASE ApplyWebhook
  <2>1. UNCHANGED pc /\ \E e \in Event : ProcessWebhook(e)
      BY <1>3 DEF ApplyWebhook, ProcessWebhook, TypeOK, ProviderTypeOK
  <2> QED
      BY <1>1, <2>1, AsyncKeepsKeys, NoDraft
<1>4. CASE \E id \in EventId : \/ DeliverWebhook(id) \/ LoseAck(id)
                               \/ ExhaustDelivery(id)
    BY <1>1, <1>4, NoDraft DEF DeliverWebhook, LoseAck, ExhaustDelivery,
       AcceptWebhook, serviceVars, storeVars, processVars, KeepsKeys
<1>5. CASE ProviderWorks \/ ProviderFails \/ UNCHANGED vars
    BY <1>1, <1>5, NoDraft DEF ProviderWorks, ProviderFails, vars, serviceVars,
       storeVars, processVars, KeepsKeys
<1>6. CASE (\E id \in inbox : WebhookFails(id)) \/ ServiceCrash
    BY <1>1, <1>6, NoDraft DEF WebhookFails, ServiceCrash, storeVars, KeepsKeys, Running
<1> QED
    BY <1>2, <1>3, <1>4, <1>5, <1>6

LEMMA NextRecords ==
    TypeOK /\ Shape /\ Gate /\ Records /\ [Next]_vars => Records'
<1> SUFFICES ASSUME TypeOK, Shape, Gate, Records, [Next]_vars PROVE Records'
    OBVIOUS
<1>1. ASSUME NEW r \in Req, ClientRequest(r) PROVE Records'
    BY <1>1, ArriveRecords, RecordsFrame DEF ClientRequest
<1>2. ASSUME NEW r \in Req, HandleRequest(r) PROVE Records'
    BY <1>2, FindExistingRecords, PushDraftRecords, HandlerRecords, RecordsFrame
    DEF HandleRequest, RequestStep
<1>3. ASSUME NEW r \in Req, StartOperation(r) PROVE Records'
    BY <1>3, HandlerRecords, RecordsFrame DEF StartOperation
<1>4. ASSUME NEW r \in Req, GiveUpOnCall(r) PROVE Records'
    BY <1>4, HandlerRecords, RecordsFrame DEF GiveUpOnCall
<1>5. CASE ServiceFails
    BY <1>5, HandlerRecords, OtherRecords, RecordsFrame DEF ServiceFails
<1> QED
    BY <1>1, <1>2, <1>3, <1>4, <1>5, OtherRecords, RecordsFrame DEF Next

\* createPayment: one Idempotency-Key never has two payment records, however
\* often the request is retried and wherever it crashed, timed out or failed
\* to store its state before.
THEOREM OnePayment == Spec => []OnePaymentPerKey
<1>1. Init => Gate
    BY DEF Init, ServiceInit, Gate, HoldsKey, OneRunnerPerKey, Running
<1>2. Init => Records
    BY DEF Init, ServiceInit, Records, NoRival, OnePaymentPerKey
<1>3. Records => OnePaymentPerKey
    BY DEF Records
<1> QED
    BY <1>1, <1>2, <1>3, NextGate, NextRecords, Typed, PTL DEF Spec

-----------------------------------------------------------------------------
(* One charge per key, at the provider: a call being worked on holds its    *)
(* record in progress, and a key is free only if nothing was charged on it. *)

Active(r) == call[r].stage \in {"begun", "executed"}

\* Nothing has been charged by this call, nor will be once it is refused.
Blank(r) == \/ call[r].stage = "begun"
            \/ call[r].stage = "executed" /\ call[r].resp.kind = "rejected"

KeyHeld == /\ \A r \in Req : Active(r) => pidem[call[r].pkey].state = "IN_PROGRESS"
           /\ \A r, s \in Req : /\ Active(r) /\ Active(s)
                                /\ call[r].pkey = call[s].pkey
                                => r = s

ChargeKnown == \A p \in Req :
                 ppay[p] # none => pidem[ppay[p].pkey].state # "absent"

NoChargeYet == \A r, p \in Req :
                 Blank(r) /\ ppay[p] # none => ppay[p].pkey # call[r].pkey

Charges == KeyHeld /\ ChargeKnown /\ NoChargeYet /\ OneChargePerKey

\* Most steps create no charge, leave the records alone and begin no call.
SamePayments == \A p \in Req : ppay'[p] # none =>
                   /\ ppay[p] # none /\ ppay'[p].pkey = ppay[p].pkey
SameCall(r) == /\ Active(r)' => Active(r) /\ call'[r].pkey = call[r].pkey
               /\ Blank(r)' => Blank(r)
KeepsCharges == SamePayments /\ UNCHANGED pidem /\ \A r \in Req : SameCall(r)

LEMMA ChargesFrame == Charges /\ KeepsCharges => Charges'
<1> SUFFICES ASSUME Charges, KeepsCharges PROVE Charges'
    OBVIOUS
<1> USE DEF Charges, KeepsCharges, SamePayments, SameCall
<1>1. KeyHeld'
    BY DEF KeyHeld
<1>2. ChargeKnown'
    BY DEF ChargeKnown
<1>3. NoChargeYet'
  <2>1. \A r \in Req : Blank(r) => Active(r)
      BY DEF Blank, Active
  <2>2. \A r \in Req : Blank(r)' => Blank(r) /\ call'[r].pkey = call[r].pkey
      BY DEF Blank, Active
  <2> QED
      BY <2>2 DEF NoChargeYet
<1>4. OneChargePerKey'
    BY DEF OneChargePerKey
<1> QED
    BY <1>1, <1>2, <1>3, <1>4

LEMMA ServiceKeepsCharges ==
    ASSUME TypeOK, UNCHANGED <<ppay, pidem>>,
           \/ UNCHANGED call
           \/ \E r \in Req : \E op, pid, amt : SendCall(r, op, pid, amt)
    PROVE  KeepsCharges
<1>1. SamePayments
    BY DEF SamePayments
<1>2. ASSUME NEW s \in Req PROVE SameCall(s)
  <2>1. CASE call'[s] = call[s]
      BY <2>1 DEF SameCall, Active, Blank
  <2>2. CASE call'[s].stage = "sent"
      BY <2>2 DEF SameCall, Active, Blank
  <2>3. ASSUME NEW r \in Req, NEW op, NEW pid, NEW amt,
               SendCall(r, op, pid, amt)
        PROVE  call'[s] = call[s] \/ call'[s].stage = "sent"
      BY <2>3 DEF SendCall, NoCall, TypeOK, WireTypeOK
  <2> QED
      BY <2>1, <2>2, <2>3
<1> QED
    BY <1>1, <1>2 DEF KeepsCharges

LEMMA BeginCallCharges ==
    ASSUME TypeOK, Shape, Charges, NEW r \in Req, BeginCall(r)
    PROVE  Charges'
<1> DEFINE k == call[r].pkey
<1>1. k \in ProviderKey /\ call[r].stage = "sent" /\ UNCHANGED ppay
    BY DEF BeginCall, Shape, CallShape
<1>2. CASE /\ pidem[k].state = "absent"
           /\ pidem' = [pidem EXCEPT ![k].state = "IN_PROGRESS"]
           /\ call' = [call EXCEPT ![r].stage = "begun"]
  <2>1. /\ call'[r].stage = "begun" /\ call'[r].pkey = k
        /\ \A s \in Req \ {r} : call'[s] = call[s]
      BY <1>2 DEF TypeOK, WireTypeOK, Call
  <2>2. /\ pidem'[k].state = "IN_PROGRESS"
        /\ \A j \in ProviderKey \ {k} : pidem'[j] = pidem[j]
      BY <1>1, <1>2 DEF TypeOK, ProviderTypeOK
  <2>3. \A s \in Req : Active(s) => call[s].pkey # k /\ call[s].pkey \in ProviderKey
      BY <1>2 DEF Charges, KeyHeld, Shape, CallShape, Active
  <2>4. \A p \in Req : ppay[p] # none => /\ ppay[p].pkey # k
                                         /\ ppay[p].pkey \in ProviderKey
      BY <1>2 DEF Charges, ChargeKnown, TypeOK, ProviderTypeOK, ProviderPayment
  <2>5. /\ \A s \in Req \ {r} : Active(s)' => Active(s)
        /\ \A s \in Req \ {r} : Blank(s)' => Blank(s)
      BY <2>1 DEF Active, Blank
  <2>6. KeyHeld'
      BY <2>1, <2>2, <2>3, <2>5 DEF Charges, KeyHeld
  <2>7. ChargeKnown'
      BY <1>1, <2>2, <2>4 DEF Charges, ChargeKnown
  <2>8. NoChargeYet'
      BY <1>1, <2>1, <2>4, <2>5 DEF Charges, NoChargeYet
  <2>9. OneChargePerKey'
      BY <1>1 DEF Charges, OneChargePerKey
  <2> QED
      BY <2>6, <2>7, <2>8, <2>9 DEF Charges
<1>3. ASSUME NEW a, Answer(r, a), UNCHANGED pidem PROVE Charges'
  <2>1. \A s \in Req : \/ call'[s] = call[s] \/ call'[s].stage = "answered"
      BY <1>3 DEF Answer, TypeOK, WireTypeOK, Call
  <2>2. KeepsCharges
      BY <1>1, <1>3, <2>1 DEF KeepsCharges, SamePayments, SameCall, Active, Blank
  <2> QED
      BY <2>2, ChargesFrame
<1> QED
    BY <1>2, <1>3 DEF BeginCall

LEMMA ExecuteCreateCharges ==
    ASSUME TypeOK, Shape, Charges, NEW r \in Req, ExecuteCreate(r)
    PROVE  Charges'
<1> DEFINE k == call[r].pkey
<1>1. call[r].stage = "begun" /\ k \in ProviderKey /\ UNCHANGED pidem
    BY DEF ExecuteCreate, Shape, CallShape
<1>2. /\ ppay'[r].pkey = k
      /\ \A p \in Req \ {r} : ppay'[p] = ppay[p]
    BY DEF ExecuteCreate, TypeOK, ProviderTypeOK
<1>3. /\ call'[r].stage = "executed" /\ call'[r].pkey = k
      /\ \A s \in Req \ {r} : call'[s] = call[s]
    BY DEF ExecuteCreate, TypeOK, WireTypeOK, Call
<1>4. call'[r].resp.kind # "rejected"
  <2>1. \A P, T : View(P, r, T).kind = "ok"
      BY DEF View, NoResponse
  <2>2. Uncertain.kind = "unknown"
      BY DEF Uncertain, NoResponse
  <2>3. \E P : call'[r].resp \in {Uncertain, View(P, r, txs)}
      BY DEF ExecuteCreate, TypeOK, WireTypeOK, Call
  <2> QED
      BY <2>1, <2>2, <2>3
<1>5. \A s \in Req : Active(s)' => Active(s) /\ call'[s].pkey = call[s].pkey
    BY <1>1, <1>3 DEF Active
<1>6. \A s \in Req : Blank(s)' => /\ s # r /\ Blank(s) /\ Active(s)
                                  /\ call'[s].pkey = call[s].pkey
    BY <1>3, <1>4 DEF Active, Blank
<1>7. Active(r) /\ Blank(r)
    BY <1>1 DEF Active, Blank
<1>8. \A p \in Req \ {r} : ppay'[p] # none => ppay[p] # none /\ ppay'[p].pkey # k
    BY <1>2, <1>7 DEF Charges, NoChargeYet
<1>9. KeyHeld'
    BY <1>1, <1>5 DEF Charges, KeyHeld
<1>10. ChargeKnown'
    BY <1>1, <1>2, <1>7 DEF Charges, KeyHeld, ChargeKnown
<1>11. NoChargeYet'
  <2>1. \A s \in Req : Blank(s)' => call[s].pkey # k
      BY <1>6, <1>7 DEF Charges, KeyHeld
  <2> QED
      BY <1>2, <1>6, <1>8, <2>1 DEF Charges, NoChargeYet
<1>12. OneChargePerKey'
    BY <1>2, <1>8 DEF Charges, OneChargePerKey
<1> QED
    BY <1>9, <1>10, <1>11, <1>12 DEF Charges

LEMMA EndCallCharges ==
    ASSUME TypeOK, Shape, Charges, NEW r \in Req, FinishCall(r) \/ FailCall(r)
    PROVE  Charges'
<1> DEFINE k == call[r].pkey
<1>1. Active(r) /\ k \in ProviderKey /\ UNCHANGED ppay
    BY DEF FinishCall, FailCall, Shape, CallShape, Active
<1>2. \A s \in Req : \/ s # r /\ call'[s] = call[s]
                     \/ s = r /\ call'[s].stage = "answered"
    BY DEF FinishCall, FailCall, Answer, TypeOK, WireTypeOK, Call
<1>3. \A j \in ProviderKey \ {k} : pidem'[j] = pidem[j]
    BY DEF FinishCall, FailCall, TypeOK, ProviderTypeOK
<1>4. /\ \A s \in Req : Active(s)' => s # r /\ Active(s)
      /\ \A s \in Req : Blank(s)' => s # r /\ Blank(s)
    BY <1>2 DEF Active, Blank
<1>5. \A s \in Req \ {r} : Active(s) => call[s].pkey \in ProviderKey \ {k}
    BY <1>1 DEF Charges, KeyHeld, Shape, CallShape, Active
<1>6. pidem'[k].state = "absent" =>
        \A p \in Req : ppay[p] # none => ppay[p].pkey # k
  <2>1. CASE Blank(r)
      BY <2>1 DEF Charges, NoChargeYet
  <2>2. CASE ~Blank(r)
    <3>1. pidem'[k].state \in {"COMPLETED", "CONSUMED"}
        BY <1>1, <2>2 DEF FinishCall, FailCall, Blank, TypeOK, ProviderTypeOK
    <3> QED
        BY <3>1
  <2> QED
      BY <2>1, <2>2
<1>7. KeyHeld'
    BY <1>2, <1>3, <1>4, <1>5 DEF Charges, KeyHeld
<1>8. ChargeKnown'
  <2>1. \A p \in Req : ppay[p] # none => ppay[p].pkey \in ProviderKey
      BY DEF TypeOK, ProviderTypeOK, ProviderPayment
  <2> QED
      BY <1>1, <1>3, <1>6, <2>1 DEF Charges, ChargeKnown
<1>9. NoChargeYet'
    BY <1>1, <1>2, <1>4 DEF Charges, NoChargeYet
<1>10. OneChargePerKey'
    BY <1>1 DEF Charges, OneChargePerKey
<1> QED
    BY <1>7, <1>8, <1>9, <1>10 DEF Charges

\* An operation on a payment keeps the key it was made under.
LEMMA StoredKeyKept ==
    ASSUME NEW x \in ProviderPayment, NEW m, NEW snap
    PROVE  /\ captureInStore(x, m).pkey = x.pkey
           /\ cancelInStore(x).pkey = x.pkey
           /\ refundInStore(x, m).pkey = x.pkey
           /\ Terminal(x, snap).pkey = x.pkey
           /\ [x EXCEPT !.pending = "none"].pkey = x.pkey
BY DEF captureInStore, cancelInStore, refundInStore, Terminal, ProviderPayment

LEMMA RejectCharges ==
    ASSUME TypeOK, NEW r \in Req, call[r].stage = "begun", RejectAction(r),
           UNCHANGED pidem
    PROVE  KeepsCharges
<1>1. /\ \A s \in Req \ {r} : call'[s] = call[s]
      /\ call'[r].pkey = call[r].pkey
    BY DEF RejectAction, TypeOK, WireTypeOK, Call
<1>2. \A s \in Req : SameCall(s)
    BY <1>1 DEF SameCall, Active, Blank
<1> QED
    BY <1>2 DEF RejectAction, KeepsCharges, SamePayments

LEMMA ApplyActionCharges ==
    ASSUME TypeOK, NEW r \in Req, NEW p \in Req, NEW new, NEW amt, NEW ok,
           NEW type, call[r].stage = "begun", UNCHANGED pidem,
           ppay[p] # none, new.pkey = ppay[p].pkey,
           ApplyAction(r, p, new, amt, ok, type)
    PROVE  KeepsCharges
<1>1. /\ \A s \in Req \ {r} : call'[s] = call[s]
      /\ call'[r].pkey = call[r].pkey
    BY DEF ApplyAction, TypeOK, WireTypeOK, Call
<1>2. \A s \in Req : SameCall(s)
    BY <1>1 DEF SameCall, Active, Blank
<1>3. SamePayments
    BY DEF ApplyAction, SamePayments, TypeOK, ProviderTypeOK
<1> QED
    BY <1>2, <1>3 DEF KeepsCharges

LEMMA ExecuteActionCharges ==
    ASSUME TypeOK, Shape, NEW r \in Req,
           ExecuteCapture(r) \/ ExecuteCancel(r) \/ ExecuteRefund(r)
    PROVE  KeepsCharges
<1> DEFINE p == call[r].pkey.pid
           x == ppay[p]
<1>1. /\ call[r].stage = "begun" /\ call[r].pkey.op # "create"
      /\ UNCHANGED pidem
    BY DEF ExecuteCapture, ExecuteCancel, ExecuteRefund
<1>2. p \in Req /\ x \in ProviderPayment /\ x # none
    BY <1>1, ActionOnPayment, NoneAssumption
<1>3. \/ RejectAction(r)
      \/ \E new, amt, ok, type : /\ ApplyAction(r, p, new, amt, ok, type)
                                 /\ new.pkey = x.pkey
  <2>1. CASE ExecuteCapture(r)
    <3>1. captureInStore(x, call[r].amt).pkey = x.pkey
        BY <1>2, StoredKeyKept
    <3>2. \/ RejectAction(r)
          \/ ApplyAction(r, p, captureInStore(x, call[r].amt), call[r].amt,
                         TRUE, "CAPTURE")
        BY <2>1 DEF ExecuteCapture
    <3> QED
        BY <3>1, <3>2
  <2>2. CASE ExecuteCancel(r)
      BY <1>2, <2>2, StoredKeyKept DEF ExecuteCancel
  <2>3. CASE ExecuteRefund(r)
      BY <1>2, <2>3, StoredKeyKept DEF ExecuteRefund
  <2> QED
      BY <2>1, <2>2, <2>3
<1> QED
    BY <1>1, <1>2, <1>3, RejectCharges, ApplyActionCharges

LEMMA AsyncCharges ==
    ASSUME TypeOK, NEW p \in Req,
           ProcessingEnds(p) \/ completeThreeDs(p) \/ EmitStaleEvent(p)
    PROVE  KeepsCharges
<1>1. ppay[p] # none /\ ppay[p] \in ProviderPayment /\ UNCHANGED <<pidem, call>>
    BY DEF ProcessingEnds, completeThreeDs, EmitStaleEvent, TypeOK,
           ProviderTypeOK
<1>2. \E new : ppay' = [ppay EXCEPT ![p] = new] /\ new.pkey = ppay[p].pkey
  <2>1. CASE ProcessingEnds(p)
      BY <1>1, <2>1, StoredKeyKept DEF ProcessingEnds
  <2>2. CASE completeThreeDs(p)
    <3>1. PICK snap : ppay' = [ppay EXCEPT ![p] = Terminal(ppay[p], snap)]
        BY <2>2, Zenon DEF completeThreeDs
    <3>2. Terminal(ppay[p], snap).pkey = ppay[p].pkey
        BY <1>1, StoredKeyKept
    <3> QED
        BY <3>1, <3>2
  <2>3. CASE EmitStaleEvent(p)
      BY <1>1, <2>3, StoredKeyKept DEF EmitStaleEvent
  <2> QED
      BY <2>1, <2>2, <2>3
<1>3. SamePayments
    BY <1>1, <1>2 DEF SamePayments, TypeOK, ProviderTypeOK
<1> QED
    BY <1>1, <1>3 DEF KeepsCharges, SameCall, Active, Blank

LEMMA ProviderCrashCharges ==
    ASSUME TypeOK, ProviderCrash
    PROVE  KeepsCharges
<1>1. \A s \in Req : call'[s] = call[s] \/ call'[s].stage = "lost"
    BY DEF ProviderCrash, TypeOK, WireTypeOK, Call
<1> QED
    BY <1>1 DEF ProviderCrash, providerVars, KeepsCharges, SamePayments, SameCall,
                Active, Blank

\* Handlers and the rest of the platform at most send a call.
LEMMA PlatformCharges ==
    ASSUME TypeOK,
           \/ \E r \in Req : \/ ClientRequest(r)  \/ HandleRequest(r)
                             \/ StartOperation(r) \/ GiveUpOnCall(r)
           \/ \E g \in Poller : PollerStep(g) \/ PollerFails(g)
           \/ \E id \in EventId : \/ DeliverWebhook(id) \/ LoseAck(id)
                                  \/ ExhaustDelivery(id)
           \/ ApplyWebhook \/ ServiceFails \/ UNCHANGED vars
    PROVE  KeepsCharges
<1>1. UNCHANGED <<ppay, pidem>>
    BY DEF ClientRequest, HandleRequest, StartOperation, GiveUpOnCall,
           PollerStep, PollerFails, DeliverWebhook, LoseAck, ExhaustDelivery,
           ApplyWebhook, ServiceFails, vars, providerVars
<1>2. \/ UNCHANGED call
      \/ \E r \in Req : \E op, pid, amt : SendCall(r, op, pid, amt)
  <2>1. ASSUME NEW r \in Req, ClientRequest(r) \/ GiveUpOnCall(r)
        PROVE  UNCHANGED call
      BY <2>1 DEF ClientRequest, GiveUpOnCall, Arrive, CreateTimeout, ActionFails
  <2>2. ASSUME NEW r \in Req, HandleRequest(r)
        PROVE  UNCHANGED call \/ \E op, pid, amt : SendCall(r, op, pid, amt)
      BY <2>2 DEF HandleRequest, RequestStep, Complete, Fail, Abort, Authorize,
         FindExisting, PushDraft, CreateOk, CreateUnknown, CreateRejected,
         ReadBack, CaptureOk, CancelOk, RefundOk
  <2>3. ASSUME NEW r \in Req, StartOperation(r)
        PROVE  UNCHANGED call \/ \E op, pid, amt : SendCall(r, op, pid, amt)
      BY <2>3 DEF StartOperation, StartAction
  <2>4. CASE \/ \E g \in Poller : PollerStep(g) \/ PollerFails(g)
             \/ \E id \in EventId : \/ DeliverWebhook(id) \/ LoseAck(id)
                                    \/ ExhaustDelivery(id)
             \/ ApplyWebhook \/ ServiceFails \/ UNCHANGED vars
      BY <2>4 DEF PollerStep, PollerFails, PollStart, PollFetch, PollApply,
         PollFails, DeliverWebhook, LoseAck, ExhaustDelivery, AcceptWebhook,
         ApplyWebhook, ProcessWebhook, ServiceFails, StoreFails, WebhookFails,
         ServiceCrash, vars
  <2> QED
      BY <2>1, <2>2, <2>3, <2>4
<1> QED
    BY <1>1, <1>2, ServiceKeepsCharges

LEMMA NextCharges == TypeOK /\ Shape /\ Charges /\ [Next]_vars => Charges'
<1> SUFFICES ASSUME TypeOK, Shape, Charges, [Next]_vars PROVE Charges'
    OBVIOUS
<1>1. CASE ProviderWorks
  <2>1. ASSUME NEW r \in Req, RejectCreate(r) PROVE KeepsCharges
      BY <2>1, RejectCharges DEF RejectCreate
  <2> QED
      BY <1>1, <2>1, BeginCallCharges, ExecuteCreateCharges,
         ExecuteActionCharges, EndCallCharges, AsyncCharges, ChargesFrame
      DEF ProviderWorks, ProviderStep
<1>2. CASE ProviderFails
    BY <1>2, EndCallCharges, ProviderCrashCharges, ChargesFrame
    DEF ProviderFails
<1> QED
    BY <1>1, <1>2, PlatformCharges, ChargesFrame DEF Next

\* ProviderIdempotency: the provider never creates two payments for one
\* X-Idempotency-Key, for any number of calls that time out, die half way, are
\* refused, fail after taking effect and come again.
THEOREM OneCharge == Spec => []OneChargePerKey
<1>1. Init => Charges
    BY DEF Init, WireInit, ProviderInit, NoCall, Charges, KeyHeld, ChargeKnown,
           NoChargeYet, OneChargePerKey, Active, Blank
<1>2. Charges => OneChargePerKey
    BY DEF Charges
<1> QED
    BY <1>1, <1>2, NextCharges, Typed, PTL DEF Spec

===============================================================================
