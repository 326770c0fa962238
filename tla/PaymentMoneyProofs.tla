------------------------- MODULE PaymentMoneyProofs -------------------------
(***************************************************************************)
(* Proofs, for all values of the constants, about what the platform tells  *)
(* its clients and claims of a payment: stored answers, webhook events,    *)
(* the link to the provider's payment, the provider's books, and amounts   *)
(* and statuses that never run ahead of them.                              *)
(***************************************************************************)
EXTENDS PaymentSystemProofs, SetFacts

-----------------------------------------------------------------------------
(* Events. *)

\* Only the webhook processor touches its own records.
LEMMA OnlyWebhooksAreSeen ==
    ASSUME TypeOK, [Next]_vars
    PROVE  \/ UNCHANGED <<seen, applied>>
           \/ UNCHANGED <<pc, arg, reply, idem, call, ppay>>
                /\ \E e \in events : ProcessWebhook(e)
<1>1. ASSUME NEW r \in Req, \/ ClientRequest(r)  \/ HandleRequest(r)
                            \/ StartOperation(r) \/ GiveUpOnCall(r)
      PROVE  UNCHANGED <<seen, applied>>
    BY <1>1 DEF ClientRequest, HandleRequest, StartOperation, GiveUpOnCall,
       Arrive, RequestStep, Complete, Fail, Abort, Authorize, FindExisting,
       PushDraft, CreateOk, CreateUnknown, CreateRejected, ReadBack, CaptureOk,
       CancelOk, RefundOk, StartAction, CreateTimeout, ActionFails, storeVars
<1>2. ASSUME NEW g \in Poller, PollerStep(g) \/ PollerFails(g)
      PROVE  UNCHANGED <<seen, applied>>
    BY <1>2 DEF PollerStep, PollerFails, PollStart, PollFetch, PollApply,
       PollFails, storeVars
<1>3. ASSUME NEW id \in EventId, \/ DeliverWebhook(id) \/ LoseAck(id)
                                 \/ ExhaustDelivery(id)
      PROVE  UNCHANGED <<seen, applied>>
    BY <1>3 DEF DeliverWebhook, LoseAck, ExhaustDelivery, AcceptWebhook,
       storeVars, serviceVars
<1>4. CASE ApplyWebhook
    BY <1>4 DEF ApplyWebhook, ProcessWebhook, storeVars, providerVars
<1>5. CASE ProviderWorks \/ ProviderFails \/ UNCHANGED vars
    BY <1>5 DEF ProviderWorks, ProviderFails, serviceVars, storeVars, vars
<1>6. CASE ServiceFails
    BY <1>6 DEF ServiceFails, StoreFails, WebhookFails, ServiceCrash, storeVars
<1> QED
    BY <1>1, <1>2, <1>3, <1>4, <1>5, <1>6 DEF Next

\* An event that was applied is one the platform remembers.
AppliedIsSeen == \A id \in EventId : /\ applied[id] <= 1
                                     /\ applied[id] # 0 => id \in seen

\* The processor applies an event only while it is not remembered.
LEMMA NextApplied == TypeOK /\ AppliedIsSeen /\ [Next]_vars => AppliedIsSeen'
<1> SUFFICES ASSUME TypeOK, AppliedIsSeen, [Next]_vars PROVE AppliedIsSeen'
    OBVIOUS
<1>1. CASE UNCHANGED <<seen, applied>>
    BY <1>1 DEF AppliedIsSeen
<1>2. ASSUME NEW e \in events, ProcessWebhook(e) PROVE AppliedIsSeen'
  <2>1. e.id \in EventId /\ applied \in [EventId -> Nat]
      BY DEF TypeOK, ProviderTypeOK, ServiceTypeOK, Event
  <2>2. \/ UNCHANGED <<seen, applied>>
        \/ /\ e.id \notin seen /\ seen' = seen \cup {e.id}
           /\ \/ applied' = [applied EXCEPT ![e.id] = @ + 1]
              \/ UNCHANGED applied
      BY <1>2 DEF ProcessWebhook, storeVars
  <2>3. e.id \notin seen => applied[e.id] = 0
      BY <2>1 DEF AppliedIsSeen
  <2> QED
      BY <2>1, <2>2, <2>3 DEF AppliedIsSeen
<1> QED
    BY <1>1, <1>2, OnlyWebhooksAreSeen

\* processYunoWebhookAsync: an event takes effect at most once, for any
\* number of deliveries, acknowledgements and processors in any order.
THEOREM EventApplied == Spec => []EventAppliedOnce
<1>1. Init => AppliedIsSeen
    BY DEF Init, ServiceInit, AppliedIsSeen
<1>2. AppliedIsSeen => EventAppliedOnce
    BY DEF AppliedIsSeen, EventAppliedOnce
<1> QED
    BY <1>1, <1>2, NextApplied, Typed, PTL DEF Spec

\* What is stored for an event ranks at least as high as the event.
LEMMA StoredRank ==
    \A s \in ProviderSnapshot :
      paymentStateRank(StoredSnapshot(mapYunoPaymentStatus(s)))
        >= paymentStateRank(s)
BY DEF ProviderSnapshot, Snapshot, mapYunoPaymentStatus, StoredSnapshot,
   paymentStateRank

\* Ranks are numbers.
LEMMA RankIsNatural == \A s : paymentStateRank(s) \in Nat
BY DEF paymentStateRank

\* decidePaymentEventApplication: a step that remembers an event moves no
\* payment to a lower rank and none out of a terminal state.
THEOREM NoRewind == Spec => WebhookNeverRewinds
<1> DEFINE Old(p) == StoredSnapshot(payments[p].status)
<1>1. ASSUME TypeOK, [Next]_vars, seen' # seen, NEW p \in Req,
             payments[p] # none
      PROVE  /\ paymentStateRank(Old(p)') >= paymentStateRank(Old(p))
             /\ isTerminalPaymentStatus(Old(p).status) => Old(p)' = Old(p)
  <2>1. PICK e \in events : ProcessWebhook(e)
      BY <1>1, OnlyWebhooksAreSeen
  <2>2. e \in Event /\ e.snap \in ProviderSnapshot
      BY <1>1 DEF TypeOK, ProviderTypeOK, Event
  <2>3. CASE payments'[p] = payments[p]
      BY <2>3, RankIsNatural
  <2>4. CASE payments'[p] # payments[p]
    <3>1. /\ decidePaymentEventApplication(Old(p), e.snap, FALSE)
          /\ payments'[p] = EventAmounts(payments[p], e,
                                         mapYunoPaymentStatus(e.snap))
      <4>1. PICK q \in Req :
              /\ decidePaymentEventApplication(Old(q), e.snap, FALSE)
              /\ payments' = [payments EXCEPT ![q] =
                   EventAmounts(payments[q], e, mapYunoPaymentStatus(e.snap))]
          BY <2>1, <2>4, Zenon DEF ProcessWebhook, storeVars
      <4>2. p = q
          BY <1>1, <2>4, <4>1 DEF TypeOK, ServiceTypeOK
      <4> QED
          BY <1>1, <4>1, <4>2 DEF TypeOK, ServiceTypeOK
    <3>2. payments[p] \in Payment
        BY <1>1 DEF TypeOK, ServiceTypeOK
    <3>3. payments'[p].status = mapYunoPaymentStatus(e.snap)
        BY <3>1, <3>2 DEF EventAmounts, Payment
    <3>4. /\ paymentStateRank(e.snap) >= paymentStateRank(Old(p))
          /\ ~isTerminalPaymentStatus(Old(p).status)
        BY <3>1 DEF decidePaymentEventApplication, SupersedesSoftState
    <3>5. paymentStateRank(Old(p)') >= paymentStateRank(e.snap)
        BY <2>2, <3>3, StoredRank
    <3> HIDE DEF Old
    <3> QED
        BY <3>4, <3>5, RankIsNatural
  <2> QED
      BY <2>3, <2>4
<1>2. TypeOK /\ [Next]_vars =>
        [seen' # seen => \A p \in Req : payments[p] # none =>
           LET old == StoredSnapshot(payments[p].status)
               new == StoredSnapshot(payments'[p].status)
           IN  /\ paymentStateRank(new) >= paymentStateRank(old)
               /\ isTerminalPaymentStatus(old.status) => new = old]_vars
    BY <1>1
<1> QED
    BY <1>2, TypeCorrect, PTL DEF Spec, WebhookNeverRewinds

-----------------------------------------------------------------------------
(* Answers. *)

\* Nothing is answered before the end, and a durable answer is the one the
\* key's record replays.
Answers ==
    \A r \in Req :
      /\ pc[r] # "done" => reply[r] = NoReply
      /\ pc[r] = "done" /\ Durable(reply[r]) =>
           LET rec == idem[IKey(arg[r])] IN
           rec.status \in {"completed", "failed"} /\ rec.reply = reply[r]

\* Steps that settle no record end a request only without a durable answer.
LEMMA AnswersFrame ==
    ASSUME Answers, UNCHANGED <<idem, arg>>,
           \A s \in Req :
             /\ pc[s] = "done" => pc'[s] = "done"
             /\ \/ reply'[s] = reply[s]
                \/ pc'[s] = "done" /\ ~Durable(reply'[s])
    PROVE  Answers'
<1>1. ~Durable(NoReply)
    BY DEF Durable, NoReply
<1> QED
    BY <1>1 DEF Answers

\* A request arrives unanswered.
LEMMA ArriveAnswers ==
    ASSUME TypeOK, Answers, NEW r \in Req, NEW a \in Menu, Arrive(r, a)
    PROVE  Answers'
<1> DEFINE k == IKey(a)
<1>1. /\ pc[r] = "idle" /\ arg'[r] = a /\ k \in IdemKey
      /\ \A s \in Req \ {r} : arg'[s] = arg[s]
    BY KeyTyped DEF Arrive, TypeOK, ServiceTypeOK
<1>2. CASE GateProceed(r, a)
  <2>1. /\ pc'[r] = "run" /\ UNCHANGED reply
        /\ \A s \in Req \ {r} : pc'[s] = pc[s]
        /\ idem[k].status = "absent"
        /\ \A j : j # k => idem'[j] = idem[j]
      BY <1>1, <1>2 DEF GateProceed, Goto, TypeOK, ServiceTypeOK
  <2> QED
      BY <1>1, <2>1 DEF Answers
<1>3. CASE GateAnswer(r, a)
  <2>1. /\ pc'[r] = "done" /\ UNCHANGED idem
        /\ \A s \in Req \ {r} : pc'[s] = pc[s] /\ reply'[s] = reply[s]
      BY <1>3 DEF GateAnswer, Finish, TypeOK, ServiceTypeOK
  <2>2. \/ ~Durable(reply'[r])
        \/ reply'[r] = idem[k].reply /\ idem[k].status \in {"completed", "failed"}
    <3>1. idem[k].status \in {"absent", "in_progress", "completed", "failed"}
        BY <1>1 DEF TypeOK, ServiceTypeOK, IdemRec
    <3>2. \A c : ~Durable(Err(409, c))
        BY DEF Durable, Err
    <3>3. idem[k].status # "absent"
          /\ \/ \E c : reply'[r] = Err(409, c)
             \/ reply'[r] = idem[k].reply /\ idem[k].status # "in_progress"
        BY <1>3 DEF GateAnswer, Finish, TypeOK, ServiceTypeOK
    <3> QED
        BY <3>1, <3>2, <3>3
  <2> QED
      BY <1>1, <2>1, <2>2 DEF Answers
<1> QED
    BY <1>2, <1>3 DEF Arrive

\* A running request holds its record in progress, so nothing durable was
\* answered under its key yet.
LEMMA SettleAnswers ==
    ASSUME TypeOK, Shape, Gate, Answers, NEW r \in Req,
           Complete(r) \/ Fail(r) \/ Abort(r)
    PROVE  Answers'
<1> DEFINE k == IKey(arg[r])
<1>1. Running(r) /\ UNCHANGED arg /\ k \in IdemKey
    BY KeyTyped DEF Complete, Fail, Abort, Running, Shape, PcShape
<1>2. idem[k].status = "in_progress"
    BY <1>1 DEF Gate, HoldsKey
<1>3. /\ pc'[r] = "done"
      /\ \A s \in Req \ {r} : pc'[s] = pc[s] /\ reply'[s] = reply[s]
    BY DEF Complete, Fail, Abort, Finish, TypeOK, ServiceTypeOK
<1>4. \A j \in IdemKey \ {k} : idem'[j] = idem[j]
    BY <1>1 DEF Complete, Fail, Abort, TypeOK, ServiceTypeOK
<1>5. \/ ~Durable(reply'[r])
      \/ /\ idem'[k].status \in {"completed", "failed"}
         /\ idem'[k].reply = reply'[r]
  <2>1. CASE Complete(r) \/ Fail(r)
    <3>1. reply'[r] = result[r]
        BY <2>1 DEF Complete, Fail, Finish, TypeOK, ServiceTypeOK
    <3>2. idem[k] \in IdemRec
        BY <1>1 DEF TypeOK, ServiceTypeOK
    <3>3. \E st \in {"completed", "failed"} :
            idem'[k] = [idem[k] EXCEPT !.status = st, !.reply = result[r]]
        BY <1>1, <1>2, <2>1 DEF Complete, Fail, TypeOK, ServiceTypeOK
    <3> QED
        BY <3>1, <3>2, <3>3 DEF IdemRec
  <2>2. CASE Abort(r)
    <3>1. reply'[r] = Err(500, "internal_error")
        BY <2>2 DEF Abort, Finish, TypeOK, ServiceTypeOK
    <3> QED
        BY <3>1 DEF Err, Durable
  <2> QED
      BY <2>1, <2>2
<1>6. \A s \in Req \ {r} : pc[s] = "done" /\ Durable(reply[s]) =>
                             IKey(arg[s]) # k
    BY <1>2 DEF Answers
<1>7. \A s \in Req : pc[s] = "done" /\ Durable(reply[s]) =>
                       IKey(arg[s]) \in IdemKey
    BY KeyTyped DEF Shape, PcShape
<1> QED
    BY <1>1, <1>3, <1>4, <1>5, <1>6, <1>7 DEF Answers

\* Sections that settle no record give no durable answer.
LEMMA HandlerAnswers ==
    ASSUME TypeOK, Answers, NEW r \in Req,
           \/ Authorize(r) \/ FindExisting(r) \/ PushDraft(r) \/ CreateOk(r)
           \/ CreateUnknown(r) \/ CreateRejected(r) \/ ReadBack(r)
           \/ CaptureOk(r) \/ CancelOk(r) \/ RefundOk(r)
           \/ CreateTimeout(r) \/ ActionFails(r) \/ StoreFails(r)
           \/ \E b : StartAction(r, b)
    PROVE  Answers'
<1>1. Running(r) /\ UNCHANGED <<idem, arg>>
    BY DEF Running, Authorize, FindExisting, PushDraft, CreateOk, CreateUnknown,
           CreateRejected, ReadBack, CaptureOk, CancelOk, RefundOk,
           CreateTimeout, ActionFails, StoreFails, StartAction, Answered,
           storeVars
<1>2. \E l : pc' = [pc EXCEPT ![r] = l]
    BY DEF Authorize, FindExisting, PushDraft, CreateOk, CreateUnknown,
           CreateRejected, ReadBack, CaptureOk, CancelOk, RefundOk,
           CreateTimeout, ActionFails, StoreFails, StartAction, Goto, Throw,
           ThrowUnexpected, Finish
<1>3. UNCHANGED reply \/ Finish(r, Err(500, "internal_error"))
    BY DEF Authorize, FindExisting, PushDraft, CreateOk, CreateUnknown,
           CreateRejected, ReadBack, CaptureOk, CancelOk, RefundOk,
           CreateTimeout, ActionFails, StoreFails, StartAction
<1>4. ~Durable(Err(500, "internal_error"))
    BY DEF Durable, Err
<1>5. \A s \in Req : pc[s] = "done" => pc'[s] = "done"
    BY <1>1, <1>2 DEF Running, TypeOK, ServiceTypeOK
<1>6. \A s \in Req : \/ reply'[s] = reply[s]
                     \/ pc'[s] = "done" /\ ~Durable(reply'[s])
    BY <1>3, <1>4 DEF Finish, TypeOK, ServiceTypeOK
<1> QED
    BY <1>1, <1>5, <1>6, AnswersFrame

\* The poller, the webhooks, the provider and a crash touch no answer.
LEMMA OtherAnswers ==
    ASSUME TypeOK, Answers,
           \/ \E g \in Poller : PollerStep(g) \/ PollerFails(g)
           \/ \E id \in EventId : \/ DeliverWebhook(id) \/ LoseAck(id)
                                  \/ ExhaustDelivery(id)
           \/ ApplyWebhook \/ ProviderWorks \/ ProviderFails
           \/ (\E id \in inbox : WebhookFails(id)) \/ ServiceCrash
           \/ UNCHANGED vars
    PROVE  Answers'
<1>1. UNCHANGED <<idem, arg>>
    BY OtherKeeps DEF KeepsGate
<1>2. UNCHANGED <<pc, reply>> \/ ServiceCrash
    BY DEF PollerStep, PollerFails, PollStart, PollFetch, PollApply,
       PollFails, DeliverWebhook, LoseAck, ExhaustDelivery, AcceptWebhook,
       ApplyWebhook, ProcessWebhook, WebhookFails, ProviderWorks,
       ProviderFails, vars, serviceVars, processVars
<1>3. /\ \A s \in Req : pc[s] = "done" => pc'[s] = "done"
      /\ \A s \in Req : reply'[s] = reply[s]
    BY <1>2 DEF ServiceCrash, Running
<1> QED
    BY <1>1, <1>3, AnswersFrame

\* A durable answer is the one its key's record keeps, which stays settled.
LEMMA NextAnswers ==
    TypeOK /\ Shape /\ Gate /\ Answers /\ [Next]_vars => Answers'
<1> SUFFICES ASSUME TypeOK, Shape, Gate, Answers, [Next]_vars PROVE Answers'
    OBVIOUS
<1>1. ASSUME NEW r \in Req, ClientRequest(r) PROVE Answers'
    BY <1>1, ArriveAnswers DEF ClientRequest
<1>2. ASSUME NEW r \in Req, HandleRequest(r) PROVE Answers'
    BY <1>2, SettleAnswers, HandlerAnswers DEF HandleRequest, RequestStep
<1>3. ASSUME NEW r \in Req, StartOperation(r) PROVE Answers'
    BY <1>3, HandlerAnswers DEF StartOperation
<1>4. ASSUME NEW r \in Req, GiveUpOnCall(r) PROVE Answers'
    BY <1>4, HandlerAnswers DEF GiveUpOnCall
<1>5. CASE ServiceFails
    BY <1>5, HandlerAnswers, OtherAnswers DEF ServiceFails
<1> QED
    BY <1>1, <1>2, <1>3, <1>4, <1>5, OtherAnswers DEF Next

\* withIdempotency: the durable answers to one key and body are one answer,
\* for any number of requests, storage errors and crashes.
THEOREM OneAnswer == Spec => []SameKeySameAnswer
<1>1. Init => Gate /\ Answers
    BY DEF Init, ServiceInit, Gate, HoldsKey, OneRunnerPerKey, Running, Answers
<1>2. Answers => SameKeySameAnswer
    BY DEF Answers, SameKeySameAnswer
<1> QED
    BY <1>1, <1>2, NextGate, NextAnswers, Typed, PTL DEF Spec

-----------------------------------------------------------------------------
(* What the platform writes into a payment record.                          *)

\* The step writes link i, status st and the amounts c and f into record p,
\* if there is one, and no other record.
Writes(p, i, st, c, f) ==
    /\ \A q \in Req \ {p} : payments'[q] = payments[q]
    /\ payments[p] = none => payments'[p] = none
    /\ payments[p] # none =>
         /\ payments'[p] # none /\ payments'[p].key = payments[p].key
         /\ payments'[p].pid = i /\ payments'[p].status = st
         /\ payments'[p].captured = c /\ payments'[p].refunded = f

\* A store update that keeps the key is such a write.
LEMMA WriteRecord ==
    ASSUME TypeOK, NEW p \in Req, NEW new, NEW i, NEW st, NEW c, NEW f,
           payments' = [payments EXCEPT ![p] = IF payments[p] = none THEN none
                                               ELSE new],
           payments[p] # none =>
             /\ new \in Payment /\ new.key = payments[p].key /\ new.pid = i
             /\ new.status = st /\ new.captured = c /\ new.refunded = f
    PROVE  Writes(p, i, st, c, f)
BY RecordAssumption DEF Writes, TypeOK, ServiceTypeOK

\* What a view and a stored payment hold.
LEMMA WriteTypes ==
    ASSUME TypeOK
    PROVE  /\ \A v \in Response : /\ v.captured \in Money /\ v.refunded \in Money
                                  /\ v.rtx \in BOOLEAN
           /\ \A p \in Req : payments[p] # none =>
                /\ payments[p] \in Payment /\ payments[p].captured \in Money
                /\ payments[p].refunded \in Money /\ payments[p].rtx \in BOOLEAN
                /\ payments[p].status \in PublicPaymentStatus
                /\ payments[p].pid \in Req \cup {none}
           /\ \A r \in Req : call[r].resp \in Response
           /\ \A g \in Poller : poll[g].view \in Response
BY DEF TypeOK, WireTypeOK, ServiceTypeOK, Call, PollRec, Response, Payment

\* applyProviderPaymentView writes everything a view says.
LEMMA CreateOkWrites ==
    ASSUME TypeOK, Shape, NEW r \in Req, CreateOk(r)
    PROVE  LET v == call[r].resp IN
           Writes(pay[r], v.pid, mapYunoPaymentStatus(v.snap), v.captured,
                  v.refunded)
<1> DEFINE v == call[r].resp
           x == payments[pay[r]]
           s == mapYunoPaymentStatus(v.snap)
           t == v.rtx \/ x.rtx
           new == [x EXCEPT !.pid = v.pid, !.status = s,
                            !.captured = v.captured, !.refunded = v.refunded,
                            !.rtx = t]
<1>1. pay[r] \in Req /\ v.pid \in Req
    BY DEF CreateOk, Answered, Shape, PcShape, ViewShape, GoodView
<1>2. payments' = [payments EXCEPT ![pay[r]] = IF x = none THEN none ELSE new]
    BY <1>1 DEF CreateOk, applyProviderPaymentView, TypeOK, ServiceTypeOK
<1>3. x # none => /\ new \in Payment /\ new.key = x.key /\ new.pid = v.pid
                  /\ new.status = s /\ new.captured = v.captured
                  /\ new.refunded = v.refunded
  <2> SUFFICES ASSUME x # none PROVE <1>3!2
      OBVIOUS
  <2>1. /\ x \in Payment /\ s \in PublicPaymentStatus /\ t \in BOOLEAN
        /\ v.captured \in Money /\ v.refunded \in Money
      BY <1>1, WriteTypes, MapTyped
  <2> HIDE DEF x, v, s, t
  <2> QED
      BY <1>1, <2>1 DEF Payment
<1> HIDE DEF new, s, v
<1> QED
    BY <1>1, <1>2, <1>3, WriteRecord DEF s, v

\* A capture writes the view's status and captured amount, a cancellation its
\* status.
LEMMA CaptureOkWrites ==
    ASSUME TypeOK, Shape, NEW r \in Req, CaptureOk(r)
    PROVE  LET v == call[r].resp
               x == payments[pay[r]]
           IN  Writes(pay[r], x.pid, mapYunoPaymentStatus(v.snap), v.captured,
                      x.refunded)
<1> DEFINE v == call[r].resp
           x == payments[pay[r]]
           s == mapYunoPaymentStatus(v.snap)
           t == v.rtx \/ x.rtx
           new == [x EXCEPT !.status = s, !.captured = v.captured, !.rtx = t]
<1>1. pay[r] \in Req
    BY DEF CaptureOk, Answered, Shape, PcShape
<1>2. payments' = [payments EXCEPT ![pay[r]] = IF x = none THEN none ELSE new]
    BY <1>1 DEF CaptureOk, UpdatePayment
<1>3. x # none => /\ new \in Payment /\ new.key = x.key /\ new.pid = x.pid
                  /\ new.status = s /\ new.captured = v.captured
                  /\ new.refunded = x.refunded
  <2> SUFFICES ASSUME x # none PROVE <1>3!2
      OBVIOUS
  <2>1. /\ x \in Payment /\ s \in PublicPaymentStatus /\ t \in BOOLEAN
        /\ v.captured \in Money
      BY <1>1, WriteTypes, MapTyped
  <2> HIDE DEF x, v, s, t
  <2> QED
      BY <1>1, <2>1 DEF Payment
<1> HIDE DEF new, s, v, x
<1> QED
    BY <1>1, <1>2, <1>3, WriteRecord DEF s, v, x

\* A cancellation writes the status the provider answered with.
LEMMA CancelOkWrites ==
    ASSUME TypeOK, Shape, NEW r \in Req, CancelOk(r)
    PROVE  LET v == call[r].resp
               x == payments[pay[r]]
           IN  Writes(pay[r], x.pid, mapYunoPaymentStatus(v.snap), x.captured,
                      x.refunded)
<1> DEFINE v == call[r].resp
           x == payments[pay[r]]
           s == mapYunoPaymentStatus(v.snap)
           new == [x EXCEPT !.status = s]
<1>1. pay[r] \in Req
    BY DEF CancelOk, Answered, Shape, PcShape
<1>2. payments' = [payments EXCEPT ![pay[r]] = IF x = none THEN none ELSE new]
    BY <1>1 DEF CancelOk, UpdatePayment
<1>3. x # none => /\ new \in Payment /\ new.key = x.key /\ new.pid = x.pid
                  /\ new.status = s /\ new.captured = x.captured
                  /\ new.refunded = x.refunded
  <2> SUFFICES ASSUME x # none PROVE <1>3!2
      OBVIOUS
  <2>1. x \in Payment /\ s \in PublicPaymentStatus
      BY <1>1, WriteTypes, MapTyped
  <2> HIDE DEF x, v, s
  <2> QED
      BY <1>1, <2>1 DEF Payment
<1> HIDE DEF new, s, v, x
<1> QED
    BY <1>1, <1>2, <1>3, WriteRecord DEF s, v, x

\* A refund writes the view's status and amounts; a refund that failed at the
\* provider writes back the refunded amount read first.
LEMMA RefundOkWrites ==
    ASSUME TypeOK, Shape, NEW r \in Req, RefundOk(r)
    PROVE  LET v == call[r].resp
               x == payments[pay[r]]
           IN  IF v.refundFailed
               THEN Writes(pay[r], x.pid, x.status, x.captured,
                           prior[r].refunded)
               ELSE Writes(pay[r], x.pid, mapYunoPaymentStatus(v.snap),
                           v.captured, v.refunded)
<1> DEFINE v == call[r].resp
           x == payments[pay[r]]
           n == prior[r]
           s == mapYunoPaymentStatus(v.snap)
           bad == [x EXCEPT !.refunded = n.refunded, !.rtx = TRUE]
           good == [x EXCEPT !.status = s, !.refunded = v.refunded,
                             !.captured = v.captured, !.rtx = TRUE]
<1>1. pay[r] \in Req
    BY DEF RefundOk, Answered, Shape, PcShape
<1>2. payments' = [payments EXCEPT ![pay[r]] = IF x = none THEN none ELSE
                                      IF v.refundFailed THEN bad ELSE good]
    BY <1>1 DEF RefundOk, UpdatePayment
<1>3. x # none => /\ x \in Payment /\ s \in PublicPaymentStatus
                  /\ v.captured \in Money /\ v.refunded \in Money
                  /\ n.refunded \in Money
  <2>1. n.refunded \in Money
      BY DEF TypeOK, ServiceTypeOK
  <2> QED
      BY <1>1, <2>1, WriteTypes, MapTyped
<1> HIDE DEF x, v, s, n
<1>4. x # none => /\ bad \in Payment /\ bad.key = x.key /\ bad.pid = x.pid
                  /\ bad.status = x.status /\ bad.captured = x.captured
                  /\ bad.refunded = n.refunded
    BY <1>3 DEF Payment
<1>5. x # none => /\ good \in Payment /\ good.key = x.key /\ good.pid = x.pid
                  /\ good.status = s /\ good.captured = v.captured
                  /\ good.refunded = v.refunded
    BY <1>3 DEF Payment
<1> HIDE DEF bad, good
<1>6. CASE v.refundFailed
  <2>1. payments' = [payments EXCEPT ![pay[r]] = IF x = none THEN none ELSE bad]
      BY <1>2, <1>6
  <2>2. Writes(pay[r], x.pid, x.status, x.captured, n.refunded)
      BY <1>1, <1>4, <2>1, WriteRecord DEF x
  <2> QED
      BY <1>6, <2>2 DEF v, x, n
<1>7. CASE ~v.refundFailed
  <2>1. payments' = [payments EXCEPT ![pay[r]] = IF x = none THEN none ELSE good]
      BY <1>2, <1>7
  <2>2. Writes(pay[r], x.pid, s, v.captured, v.refunded)
      BY <1>1, <1>5, <2>1, WriteRecord DEF x
  <2> QED
      BY <1>7, <2>2 DEF v, x, s
<1> QED
    BY <1>6, <1>7

\* An uncertain creation leaves a first try in processing.
LEMMA CreateUnknownWrites ==
    ASSUME TypeOK, Shape, NEW r \in Req, CreateUnknown(r)
    PROVE  LET x == payments[r] IN
           \/ UNCHANGED payments
           \/ Writes(r, x.pid, "processing", x.captured, x.refunded)
<1> DEFINE x == payments[r]
           new == [x EXCEPT !.status = "processing"]
<1>1. \/ UNCHANGED payments
      \/ payments' = [payments EXCEPT ![r] = IF x = none THEN none ELSE new]
    BY DEF CreateUnknown, TypeOK, ServiceTypeOK
<1>2. x # none => /\ new \in Payment /\ new.key = x.key /\ new.pid = x.pid
                  /\ new.status = "processing" /\ new.captured = x.captured
                  /\ new.refunded = x.refunded
  <2>1. x # none => x \in Payment
      BY WriteTypes
  <2> HIDE DEF x
  <2> QED
      BY <2>1 DEF Payment, PublicPaymentStatus
<1> HIDE DEF new, x
<1> QED
    BY <1>1, <1>2, WriteRecord DEF x

\* A GET writes the status and the amounts of the view it fetched.
LEMMA PollApplyWrites ==
    ASSUME TypeOK, Shape, NEW g \in Poller, PollApply(g)
    PROVE  LET v == poll[g].view
               x == payments[poll[g].pay]
           IN  Writes(poll[g].pay, x.pid, mapYunoPaymentStatus(v.snap),
                      v.captured, v.refunded)
<1> DEFINE v == poll[g].view
           x == payments[poll[g].pay]
           s == mapYunoPaymentStatus(v.snap)
           new == [x EXCEPT !.status = s, !.captured = v.captured,
                            !.refunded = v.refunded]
<1>1. poll[g].pay \in Req
    BY DEF PollApply, Shape, PollShape
<1>2. payments' = [payments EXCEPT ![poll[g].pay] =
                                      IF x = none THEN none ELSE new]
    BY <1>1 DEF PollApply, UpdatePayment
<1>3. x # none => /\ new \in Payment /\ new.key = x.key /\ new.pid = x.pid
                  /\ new.status = s /\ new.captured = v.captured
                  /\ new.refunded = v.refunded
  <2> SUFFICES ASSUME x # none PROVE <1>3!2
      OBVIOUS
  <2>1. /\ x \in Payment /\ s \in PublicPaymentStatus
        /\ v.captured \in Money /\ v.refunded \in Money
      BY <1>1, WriteTypes, MapTyped
  <2> HIDE DEF x, v, s
  <2> QED
      BY <1>1, <2>1 DEF Payment
<1> HIDE DEF new, s, v, x
<1> QED
    BY <1>1, <1>2, <1>3, WriteRecord DEF s, v, x

\* An accepted event writes its status and amounts into a payment linked to
\* the event's; a success announced without a captured amount counts in full.
LEMMA ProcessWebhookWrites ==
    ASSUME TypeOK, Shape, NEW e \in Event, ProcessWebhook(e)
    PROVE  LET s == mapYunoPaymentStatus(e.snap)
               c == IF e.captured = 0 /\ s \in {"succeeded", "partially_refunded"}
                    THEN Amount ELSE e.captured
           IN  \/ UNCHANGED payments
               \/ \E p \in Req : /\ payments[p] # none /\ payments[p].pid = e.pid
                                 /\ Writes(p, payments[p].pid, s, c, e.refunded)
<1> DEFINE s == mapYunoPaymentStatus(e.snap)
           c == IF e.captured = 0 /\ s \in {"succeeded", "partially_refunded"}
                THEN Amount ELSE e.captured
<1>1. CASE UNCHANGED payments
    BY <1>1
<1>2. ASSUME NEW p \in Req, payments[p] # none, payments[p].pid = e.pid,
             payments' = [payments EXCEPT ![p] = EventAmounts(payments[p], e, s)]
      PROVE  Writes(p, payments[p].pid, s, c, e.refunded)
  <2> DEFINE x == payments[p]
             t == e.tx \in {"PURCHASE", "CAPTURE"} \/ x.rtx
             new == [x EXCEPT !.status = s, !.refunded = e.refunded,
                              !.captured = c, !.rtx = t]
  <2>1. EventAmounts(x, e, s) = new
      BY DEF EventAmounts
  <2>2. /\ x \in Payment /\ s \in PublicPaymentStatus /\ t \in BOOLEAN
        /\ c \in Money /\ e.refunded \in Money
      BY <1>2, WriteTypes, MapTyped, MoneyFacts DEF Event
  <2> HIDE DEF x, s, c, t
  <2>3. /\ new \in Payment /\ new.key = x.key /\ new.pid = x.pid
        /\ new.status = s /\ new.captured = c /\ new.refunded = e.refunded
      BY <2>2 DEF Payment
  <2> HIDE DEF new
  <2>4. payments' = [payments EXCEPT ![p] = IF payments[p] = none THEN none
                                            ELSE new]
      BY <1>2, <2>1 DEF x
  <2> QED
      BY <2>3, <2>4, WriteRecord DEF x
<1>3. \/ UNCHANGED payments
      \/ \E p \in Req : /\ payments[p] # none /\ payments[p].pid = e.pid
                        /\ payments' = [payments EXCEPT ![p] =
                                          EventAmounts(payments[p], e, s)]
    BY Zenon DEF ProcessWebhook, storeVars
<1> HIDE DEF s, c
<1> QED
    BY <1>2, <1>3 DEF s, c

-----------------------------------------------------------------------------
(* The link between a payment record and the provider's payment.            *)

\* The provider's key of the creation under the client key k.
CreateKey(k) == [op |-> "create", key |-> k, pid |-> none]

\* A request calls the provider once; until its call executes, no payment
\* bears its name.
CalledOnce ==
    \A r \in Req :
      /\ Early(r) => call[r].stage = "none"
      /\ call[r].stage \in {"none", "sent", "begun"} => ppay[r] = none

\* A payment record bears the name of a request past its draft.
RecordsAreLate == \A p \in Req : payments[p] # none => ~Early(p)

\* The answer v to a call with key k shows the payment of P that was made
\* under the key, or the one the key names.
About(P, k, v) ==
    v.kind = "ok" => IF k.op = "create" THEN P[v.pid].pkey = k
                     ELSE v.pid = k.pid

\* Answers, in flight or kept for retries, are about the call's own charge.
AnswersAbout ==
    /\ \A r \in Req : call[r].stage # "none" =>
                        About(ppay, call[r].pkey, call[r].resp)
    /\ \A k \in ProviderKey : About(ppay, k, pidem[k].resp)

\* What a request that waits for the provider works on.  No record is linked
\* while the request that drafted it waits.
TargetOf(r) ==
    /\ ~Early(pay[r])
    /\ arg[r].op = "create" =>
         /\ call[r].pkey = CreateKey(arg[r].key)
         /\ payments[pay[r]] # none => payments[pay[r]].key = arg[r].key
         /\ pay[r] = r => ~Linked(r)
    /\ arg[r].op # "create" =>
         /\ Linked(pay[r])
         /\ call[r].pkey = [op |-> arg[r].op, key |-> arg[r].key,
                            pid |-> payments[pay[r]].pid]

\* What a poller works on.
PollTargetOf(g) ==
    /\ Linked(poll[g].pay)
    /\ poll[g].at = "apply" => /\ poll[g].view.kind = "ok"
                               /\ poll[g].view.pid = payments[poll[g].pay].pid

\* All targets.
Targets == /\ \A r \in Req : pc[r] = "wait" => TargetOf(r)
           /\ \A g \in Poller : poll[g].at # "idle" => PollTargetOf(g)

\* A refund is of a linked record.
RefundsAreLinked == \A x \in refunds : Linked(x.pay)

\* The inductive invariant of the links.
Links == /\ CalledOnce /\ RecordsAreLate /\ AnswersAbout /\ Targets
         /\ LinkedToOwnCharge /\ RefundsAreLinked

\* Steps of the platform.  A call is only sent, by a request that made none.
CallKept(s) ==
    /\ Early(s)' => Early(s) /\ call'[s] = call[s]
    /\ \/ call'[s] = call[s]
       \/ /\ Early(s) /\ call'[s].stage = "sent"
          /\ call'[s].resp = NoResponse

\* Request s keeps waiting, with its call and its target.
WaitKept(s) ==
    /\ pc[s] = "wait" /\ call'[s] = call[s]
    /\ arg'[s] = arg[s] /\ pay'[s] = pay[s]

\* A record keeps its key and, once linked, its link.  A draft is not linked;
\* a link goes to the charge made under the record's key, and never to the
\* record of a first try that waits.
RecordKept(p) ==
    /\ payments'[p] # none =>
         \/ payments[p] # none /\ payments'[p].key = payments[p].key
         \/ Early(p) /\ pc'[p] = "wait" /\ payments'[p].pid = none
    /\ Linked(p) => payments'[p] # none /\ payments'[p].pid = payments[p].pid
    /\ payments'[p] # none /\ payments'[p].pid # none /\ ~Linked(p) =>
         /\ ppay[payments'[p].pid].pkey = CreateKey(payments'[p].key)
         /\ ~(pc'[p] = "wait" /\ pay'[p] = p /\ arg'[p].op = "create")

\* What a step of the platform keeps.
LinksKept ==
    /\ UNCHANGED <<ppay, pidem>>
    /\ \A s \in Req : CallKept(s) /\ RecordKept(s)
    /\ \A s \in Req : pc'[s] = "wait" => WaitKept(s) \/ TargetOf(s)'
    /\ \A g \in Poller : poll'[g].at # "idle" => \/ poll'[g] = poll[g]
                                                 \/ PollTargetOf(g)'
    /\ \A x \in refunds' : x \in refunds \/ Linked(x.pay)

\* A link names a request.
LEMMA LinkTyped ==
    ASSUME TypeOK
    PROVE  \A p \in Req : Linked(p) => payments[p].pid \in Req
BY DEF TypeOK, ServiceTypeOK, Payment, Linked

\* Steps that keep calls, records, targets and refunds keep the links.
LEMMA LinksFrame ==
    ASSUME TypeOK, Shape, TypeOK', Shape', Links, LinksKept
    PROVE  Links'
<1>1. CalledOnce'
  <2> USE DEF Links, CalledOnce, LinksKept, CallKept
  <2>1. ASSUME NEW r \in Req, Early(r)' PROVE call'[r].stage = "none"
      BY <2>1
  <2>2. ASSUME NEW r \in Req, call'[r].stage \in {"none", "sent", "begun"}
        PROVE  ppay'[r] = none
      BY <2>2
  <2> QED
      BY <2>1, <2>2
<1>2. RecordsAreLate'
  <2> SUFFICES ASSUME NEW p \in Req, payments'[p] # none PROVE ~Early(p)'
      BY DEF RecordsAreLate
  <2>1. CASE payments[p] # none
      BY <2>1 DEF Links, RecordsAreLate, LinksKept, CallKept
  <2>2. CASE pc'[p] = "wait"
      BY <2>2 DEF Early
  <2> QED
      BY <2>1, <2>2 DEF LinksKept, RecordKept
<1>3. AnswersAbout'
  <2>1. ASSUME NEW r \in Req, call'[r].stage # "none"
        PROVE  About(ppay', call'[r].pkey, call'[r].resp)
    <3>1. CASE call'[r] = call[r]
      <4>1. About(ppay, call[r].pkey, call[r].resp)
          BY <2>1, <3>1 DEF Links, AnswersAbout
      <4> QED
          BY <3>1, <4>1 DEF LinksKept, About
    <3>2. CASE call'[r].resp = NoResponse
      <4>1. NoResponse.kind # "ok"
          BY DEF NoResponse
      <4> QED
          BY <3>2, <4>1 DEF About
    <3> QED
        BY <3>1, <3>2 DEF LinksKept, CallKept
  <2> QED
      BY <2>1 DEF Links, AnswersAbout, LinksKept
<1>4. \A p \in Req : Linked(p) =>
        Linked(p)' /\ payments'[p].pid = payments[p].pid
    BY DEF LinksKept, RecordKept, Linked
<1>5. ASSUME NEW r \in Req, pc'[r] = "wait" PROVE TargetOf(r)'
  <2> SUFFICES ASSUME WaitKept(r) PROVE TargetOf(r)'
      BY <1>5 DEF LinksKept
  <2>1. /\ pc[r] = "wait" /\ TargetOf(r) /\ pay[r] \in Req
        /\ call'[r] = call[r] /\ arg'[r] = arg[r] /\ pay'[r] = pay[r]
      BY DEF WaitKept, Links, Targets, Shape, PcShape
  <2>2. ~Early(pay[r])'
      BY <2>1 DEF TargetOf, LinksKept, CallKept
  <2>3. CASE arg[r].op = "create"
    <3>1. payments'[pay[r]] # none => payments'[pay[r]].key = arg[r].key
        BY <2>1, <2>3 DEF TargetOf, LinksKept, RecordKept
    <3>2. pay[r] = r => ~Linked(r)'
        BY <1>5, <2>1, <2>3 DEF TargetOf, LinksKept, RecordKept, Linked
    <3> QED
        BY <2>1, <2>2, <2>3, <3>1, <3>2 DEF TargetOf
  <2>4. CASE arg[r].op # "create"
      BY <1>4, <2>1, <2>2, <2>4 DEF TargetOf
  <2> QED
      BY <2>3, <2>4
<1>6. ASSUME NEW g \in Poller, poll'[g].at # "idle" PROVE PollTargetOf(g)'
  <2> SUFFICES ASSUME poll'[g] = poll[g] PROVE PollTargetOf(g)'
      BY <1>6 DEF LinksKept
  <2>1. PollTargetOf(g) /\ poll[g].pay \in Req
      BY <1>6 DEF Links, Targets, Shape, PollShape
  <2> QED
      BY <1>4, <2>1 DEF PollTargetOf
<1>7. Targets'
    BY <1>5, <1>6 DEF Targets
<1>8. LinkedToOwnCharge'
  <2> SUFFICES ASSUME NEW p \in Req, payments'[p] # none, payments'[p].pid # none
               PROVE  /\ ppay'[payments'[p].pid] # none
                      /\ ppay'[payments'[p].pid].pkey = CreateKey(payments'[p].key)
      BY DEF LinkedToOwnCharge, CreateKey
  <2>1. ppay'[payments'[p].pid] # none
      BY DEF Shape, LinkShape, Linked
  <2>2. CASE Linked(p)
    <3>1. payments'[p].key = payments[p].key
        BY <2>2 DEF LinksKept, RecordKept, Linked, Links, RecordsAreLate
    <3> QED
        BY <2>1, <2>2, <3>1, <1>4
           DEF Links, LinkedToOwnCharge, LinksKept, CreateKey, Linked
  <2>3. CASE ~Linked(p)
      BY <2>1, <2>3 DEF LinksKept, RecordKept
  <2> QED
      BY <2>2, <2>3
<1>9. RefundsAreLinked'
  <2>1. \A x \in refunds' : x.pay \in Req
      BY DEF TypeOK, ServiceTypeOK, Refund
  <2> QED
      BY <1>4, <2>1 DEF Links, RefundsAreLinked, LinksKept
<1> QED
    BY <1>1, <1>2, <1>3, <1>7, <1>8, <1>9 DEF Links

\* Records that are not touched, or only in their status and amounts.
SameRecord(p) ==
    /\ payments'[p] # none <=> payments[p] # none
    /\ payments[p] # none => /\ payments'[p].key = payments[p].key
                             /\ payments'[p].pid = payments[p].pid

\* A record that keeps its key and link is kept.
LEMMA SameRecordKept ==
    ASSUME NEW p \in Req, SameRecord(p)
    PROVE  RecordKept(p)
BY DEF SameRecord, RecordKept, Linked

\* A request moves to a section in which it does not wait.
LEMMA MoveKept ==
    ASSUME TypeOK, NEW r \in Req, NEW l, pc' = [pc EXCEPT ![r] = l],
           l # "wait", l \in {"idle", "run", "find", "draft"} => Early(r),
           UNCHANGED <<call, pay>>, \A s \in Req \ {r} : arg'[s] = arg[s]
    PROVE  \A s \in Req : CallKept(s) /\ (pc'[s] = "wait" => WaitKept(s))
BY DEF CallKept, WaitKept, Early, TypeOK, ServiceTypeOK

\* A request sends its call and waits.
LEMMA SendKept ==
    ASSUME TypeOK, NEW r \in Req, Early(r), pc' = [pc EXCEPT ![r] = "wait"],
           UNCHANGED arg, NEW q, pay' = [pay EXCEPT ![r] = q],
           NEW op, NEW pid, NEW amt, SendCall(r, op, pid, amt)
    PROVE  /\ \A s \in Req : CallKept(s)
           /\ \A s \in Req \ {r} : pc'[s] = "wait" => WaitKept(s)
           /\ call'[r].pkey = [op |-> op, key |-> arg[r].key, pid |-> pid]
           /\ pay'[r] = q
<1>1. /\ \A s \in Req \ {r} : call'[s] = call[s]
      /\ call'[r].stage = "sent" /\ call'[r].resp = NoResponse
      /\ call'[r].pkey = [op |-> op, key |-> arg[r].key, pid |-> pid]
    BY DEF SendCall, NoCall, TypeOK, WireTypeOK
<1>2. /\ pc'[r] = "wait" /\ pay'[r] = q
      /\ \A s \in Req \ {r} : pc'[s] = pc[s] /\ pay'[s] = pay[s]
    BY DEF TypeOK, ServiceTypeOK
<1>3. ~Early(r)'
    BY <1>2 DEF Early
<1>4. \A s \in Req \ {r} : Early(s)' => Early(s)
    BY <1>2 DEF Early
<1> QED
    BY <1>1, <1>2, <1>3, <1>4 DEF CallKept, WaitKept

\* Steps of the platform that write no record and send no call.
LEMMA QuietLinks ==
    ASSUME TypeOK, UNCHANGED <<ppay, pidem, payments, refunds, call, pay>>,
           \/ UNCHANGED <<pc, arg>>
           \/ \E r \in Req : \E l :
                /\ pc' = [pc EXCEPT ![r] = l] /\ l # "wait"
                /\ l \in {"idle", "run", "find", "draft"} => Early(r)
                /\ \A s \in Req \ {r} : arg'[s] = arg[s],
           \A g \in Poller : poll'[g].at # "idle" => poll'[g] = poll[g]
    PROVE  LinksKept
<1>1. \A s \in Req : CallKept(s) /\ (pc'[s] = "wait" => WaitKept(s))
  <2>1. CASE UNCHANGED <<pc, arg>>
      BY <2>1 DEF CallKept, WaitKept, Early
  <2> QED
      BY <2>1, MoveKept
<1>2. \A p \in Req : RecordKept(p)
    BY SameRecordKept DEF SameRecord
<1> QED
    BY <1>1, <1>2 DEF LinksKept

\* The handlers that write no record.
LEMMA PlainLinks ==
    ASSUME TypeOK, UNCHANGED <<ppay, pidem>>, NEW r \in Req,
           \/ \E a \in Menu : Arrive(r, a)
           \/ Complete(r) \/ Fail(r) \/ Abort(r) \/ Authorize(r) \/ ReadBack(r)
           \/ ActionFails(r) \/ StoreFails(r)
           \/ \E b : StartAction(r, b) /\ pc'[r] # "wait"
           \/ FindExisting(r) /\ pc'[r] # "wait"
    PROVE  LinksKept
<1>1. UNCHANGED <<payments, refunds, poll>>
    BY DEF Arrive, Complete, Fail, Abort, Authorize, ReadBack, ActionFails,
           StoreFails, StartAction, FindExisting, storeVars
<1>2. \A s \in Req \ {r} : arg'[s] = arg[s]
    BY DEF Arrive, Complete, Fail, Abort, Authorize, ReadBack, ActionFails,
           StoreFails, StartAction, FindExisting, TypeOK, ServiceTypeOK
<1>3. \E l : /\ pc' = [pc EXCEPT ![r] = l] /\ l = pc'[r]
             /\ l \in {"idle", "run", "find", "draft"} => Early(r)
    BY DEF Arrive, GateProceed, GateAnswer, Complete, Fail, Abort, Authorize,
           ReadBack, ActionFails, StoreFails, StartAction, FindExisting, Goto,
           Throw, Finish, Early, TypeOK, ServiceTypeOK
<1>4. pc'[r] # "wait"
    BY DEF Arrive, GateProceed, GateAnswer, Complete, Fail, Abort, Authorize,
           ReadBack, ActionFails, StoreFails, Goto, Throw, Finish, TypeOK,
           ServiceTypeOK
<1>5. UNCHANGED <<call, pay>>
    BY <1>4 DEF Arrive, Complete, Fail, Abort, Authorize, ReadBack, ActionFails,
           StoreFails, StartAction, FindExisting, Goto, TypeOK, ServiceTypeOK
<1> QED
    BY <1>1, <1>2, <1>3, <1>4, <1>5, QuietLinks

\* A create that found the record of its key, and calls the provider again.
LEMMA FindExistingLinks ==
    ASSUME TypeOK, Shape, Links, UNCHANGED <<ppay, pidem>>, NEW r \in Req,
           FindExisting(r), pc'[r] = "wait"
    PROVE  LinksKept
<1>1. PICK p \in WithKey(arg[r].key) :
        /\ payments[p].pid = none
        /\ pay' = [pay EXCEPT ![r] = p]
        /\ SendCall(r, "create", none, 0)
    BY DEF FindExisting, Goto, TypeOK, ServiceTypeOK
<1>2. /\ Early(r) /\ arg[r].op = "create"
      /\ UNCHANGED <<payments, refunds, poll, arg>>
      /\ pc' = [pc EXCEPT ![r] = "wait"]
    BY DEF FindExisting, Early, Goto, storeVars, Shape, PcShape, TypeOK,
           ServiceTypeOK
<1>3. /\ \A s \in Req : CallKept(s)
      /\ \A s \in Req \ {r} : pc'[s] = "wait" => WaitKept(s)
      /\ call'[r].pkey = CreateKey(arg[r].key) /\ pay'[r] = p
  <2>1. Early(r) /\ UNCHANGED arg /\ pc' = [pc EXCEPT ![r] = "wait"]
      BY <1>2
  <2>2. pay' = [pay EXCEPT ![r] = p] /\ SendCall(r, "create", none, 0)
      BY <1>1
  <2> QED
      BY <2>1, <2>2, SendKept DEF CreateKey
<1>4. p \in Req /\ payments[p] # none /\ payments[p].key = arg[r].key /\ ~Early(p)
    BY <1>1 DEF WithKey, Links, RecordsAreLate
<1>5. TargetOf(r)'
  <2>1. ~Early(p)'
      BY <1>3, <1>4 DEF CallKept
  <2> QED
      BY <1>1, <1>2, <1>3, <1>4, <2>1 DEF TargetOf, Linked
<1>6. \A q \in Req : RecordKept(q)
    BY <1>2, SameRecordKept DEF SameRecord
<1> QED
    BY <1>2, <1>3, <1>5, <1>6 DEF LinksKept

\* A capture, cancellation or refund takes the record's link along.
LEMMA StartActionLinks ==
    ASSUME TypeOK, Shape, Links, UNCHANGED <<ppay, pidem>>, NEW r \in Req,
           \E b : StartAction(r, b), pc'[r] = "wait"
    PROVE  LinksKept
<1> DEFINE p == arg[r].pay
<1>1. /\ pc[r] = "run" /\ arg[r].op # "create" /\ Early(r) /\ p \in Req
      /\ UNCHANGED <<payments, refunds, poll, arg>>
      /\ pc' = [pc EXCEPT ![r] = "wait"]
  <2>1. arg[r] \in Request /\ (arg[r].op # "create" => p # none)
      BY MenuAssumption DEF StartAction, Shape, PcShape
  <2> QED
      BY <2>1 DEF StartAction, Early, Goto, Throw, storeVars, Request, TypeOK,
                  ServiceTypeOK
<1>2. /\ payments[p] # none /\ payments[p].pid # none
      /\ pay' = [pay EXCEPT ![r] = p]
      /\ \E amt : SendCall(r, arg[r].op, payments[p].pid, amt)
    BY DEF StartAction, Goto, Throw, Allowed, TypeOK, ServiceTypeOK
<1>3. /\ \A s \in Req : CallKept(s)
      /\ \A s \in Req \ {r} : pc'[s] = "wait" => WaitKept(s)
      /\ call'[r].pkey = [op |-> arg[r].op, key |-> arg[r].key,
                          pid |-> payments[p].pid]
      /\ pay'[r] = p
    BY <1>1, <1>2, SendKept
<1>4. TargetOf(r)'
  <2>1. ~Early(p)'
      BY <1>1, <1>2, <1>3 DEF Links, RecordsAreLate, CallKept
  <2> QED
      BY <1>1, <1>2, <1>3, <2>1 DEF TargetOf, Linked
<1>5. \A q \in Req : RecordKept(q)
    BY <1>1, SameRecordKept DEF SameRecord
<1> QED
    BY <1>1, <1>3, <1>4, <1>5 DEF LinksKept

\* The draft of a new record is not linked.
LEMMA PushDraftLinks ==
    ASSUME TypeOK, Shape, Links, UNCHANGED <<ppay, pidem>>, NEW r \in Req,
           PushDraft(r)
    PROVE  LinksKept
<1>1. /\ Early(r) /\ arg[r].op = "create" /\ UNCHANGED <<refunds, poll, arg>>
      /\ pc' = [pc EXCEPT ![r] = "wait"] /\ pay' = [pay EXCEPT ![r] = r]
      /\ SendCall(r, "create", none, 0)
    BY DEF PushDraft, Early, Goto, Shape, PcShape
<1>2. /\ payments'[r].pid = none
      /\ payments'[r].key = arg[r].key
      /\ \A p \in Req \ {r} : payments'[p] = payments[p]
    BY DEF PushDraft, TypeOK, ServiceTypeOK
<1>3. /\ \A s \in Req : CallKept(s)
      /\ \A s \in Req \ {r} : pc'[s] = "wait" => WaitKept(s)
      /\ call'[r].pkey = CreateKey(arg[r].key) /\ pay'[r] = r
    BY <1>1, SendKept DEF CreateKey
<1>4. payments[r] = none /\ pc'[r] = "wait" /\ ~Early(r)'
    BY <1>1 DEF Links, RecordsAreLate, Early, TypeOK, ServiceTypeOK
<1>5. TargetOf(r)'
    BY <1>1, <1>2, <1>3, <1>4 DEF TargetOf, Linked
<1>6. \A q \in Req : RecordKept(q)
  <2>1. RecordKept(r)
      BY <1>1, <1>2, <1>4 DEF RecordKept, Linked
  <2> QED
      BY <1>2, <2>1, SameRecordKept DEF SameRecord
<1> QED
    BY <1>1, <1>3, <1>5, <1>6 DEF LinksKept

\* The answer to a creation shows the charge made under the request's key, so
\* a record linked before is linked to the same one; and no other request of
\* the key is waiting.
LEMMA CreateOkLinks ==
    ASSUME TypeOK, Shape, Gate, Charges, Links, UNCHANGED <<ppay, pidem>>,
           NEW r \in Req, CreateOk(r)
    PROVE  LinksKept
<1> DEFINE q == pay[r]
           v == call[r].resp
<1>1. /\ pc[r] = "wait" /\ arg[r].op = "create" /\ v.kind = "ok" /\ q \in Req
      /\ TargetOf(r) /\ UNCHANGED <<refunds, poll, arg, call, pay>>
      /\ pc' = [pc EXCEPT ![r] = "readback"]
    BY DEF CreateOk, Answered, Goto, Links, Targets, Shape, PcShape
<1>2. \A s \in Req : CallKept(s) /\ (pc'[s] = "wait" => WaitKept(s))
  <2>1. \A s \in Req \ {r} : arg'[s] = arg[s]
      BY <1>1
  <2> QED
      BY <1>1, <2>1, MoveKept
<1>3. /\ \A p \in Req \ {q} : payments'[p] = payments[p]
      /\ payments[q] = none => payments'[q] = none
      /\ payments[q] # none => /\ payments'[q] # none
                               /\ payments'[q].pid = v.pid
                               /\ payments'[q].key = payments[q].key
    BY CreateOkWrites DEF Writes
<1>4. RecordKept(q)
  <2>1. CASE payments[q] = none
      BY <1>3, <2>1, SameRecordKept, <1>1 DEF SameRecord
  <2>2. CASE payments[q] # none
    <3>1. /\ payments[q].key = arg[r].key
          /\ call[r].pkey = CreateKey(arg[r].key)
        BY <1>1, <2>2 DEF TargetOf
    <3>2. v.pid \in Req /\ ppay[v.pid] # none
        BY <1>1 DEF Shape, ViewShape, GoodView
    <3>3. ppay[v.pid].pkey = CreateKey(arg[r].key)
      <4>1. call[r].stage # "none" /\ call[r].pkey.op = "create"
          BY <1>1 DEF Shape, PcShape
      <4> QED
          BY <1>1, <3>1, <4>1 DEF Links, AnswersAbout, About
    <3>4. Linked(q) => payments[q].pid = v.pid
      <4> SUFFICES ASSUME Linked(q) PROVE payments[q].pid = v.pid
          OBVIOUS
      <4>1. /\ payments[q].pid \in Req /\ ppay[payments[q].pid] # none
            /\ ppay[payments[q].pid].pkey = CreateKey(arg[r].key)
          BY <1>1, <3>1, LinkTyped
          DEF Links, LinkedToOwnCharge, Linked, CreateKey
      <4> QED
          BY <3>2, <3>3, <4>1 DEF Charges, OneChargePerKey
    <3>5. ~(pc'[q] = "wait" /\ pay'[q] = q /\ arg'[q].op = "create")
      <4> SUFFICES ASSUME pc'[q] = "wait", pay'[q] = q, arg'[q].op = "create"
                   PROVE  FALSE
          OBVIOUS
      <4>1. q # r /\ pc[q] = "wait" /\ pay[q] = q /\ arg[q].op = "create"
          BY <1>1, <1>2 DEF TypeOK, ServiceTypeOK, WaitKept
      <4>2. payments[q].key = arg[q].key
        <5>1. TargetOf(q)
            BY <1>1, <4>1 DEF Links, Targets
        <5> HIDE DEF q
        <5> QED
            BY <2>2, <4>1, <5>1 DEF TargetOf
      <4>3. Running(q) /\ Running(r) /\ IKey(arg[q]) = IKey(arg[r])
          BY <1>1, <3>1, <4>1, <4>2 DEF Running, IKey
      <4> QED
          BY <1>1, <4>1, <4>3 DEF Gate, OneRunnerPerKey
    <3> HIDE DEF q, v
    <3> QED
        BY <1>3, <2>2, <3>1, <3>2, <3>3, <3>4, <3>5 DEF RecordKept, Linked
  <2> QED
      BY <2>1, <2>2
<1>5. \A p \in Req : RecordKept(p)
    BY <1>3, <1>4, SameRecordKept DEF SameRecord
<1> QED
    BY <1>1, <1>2, <1>5 DEF LinksKept

\* A first try drops its draft; the draft was not linked.
LEMMA DropLinks ==
    ASSUME TypeOK, Shape, Links, UNCHANGED <<ppay, pidem>>,
           NEW r \in Req, CreateRejected(r) \/ CreateTimeout(r)
    PROVE  LinksKept
<1>1. /\ pc[r] = "wait" /\ arg[r].op = "create"
      /\ TargetOf(r) /\ UNCHANGED <<refunds, poll, arg, call, pay>>
    BY DEF CreateRejected, CreateTimeout, Answered, Links, Targets
<1>2. \E l \in {"fail", "abort"} : pc' = [pc EXCEPT ![r] = l]
    BY DEF CreateRejected, CreateTimeout, Throw, ThrowUnexpected, Goto
<1>3. \A s \in Req : CallKept(s) /\ (pc'[s] = "wait" => WaitKept(s))
  <2>1. \A s \in Req \ {r} : arg'[s] = arg[s]
      BY <1>1
  <2> QED
      BY <1>1, <1>2, <2>1, MoveKept
<1>4. \A p \in Req : RecordKept(p)
  <2>1. CASE UNCHANGED payments
      BY <2>1, SameRecordKept DEF SameRecord
  <2>2. CASE pay[r] = r /\ payments' = [payments EXCEPT ![r] = none]
    <3>1. RecordKept(r)
        BY <1>1, <2>2 DEF TargetOf, RecordKept, TypeOK, ServiceTypeOK
    <3>2. \A p \in Req \ {r} : SameRecord(p)
        BY <2>2 DEF SameRecord, TypeOK, ServiceTypeOK
    <3> QED
        BY <3>1, <3>2, SameRecordKept
  <2> QED
      BY <2>1, <2>2 DEF CreateRejected, CreateTimeout, RemoveDraft
<1> QED
    BY <1>1, <1>3, <1>4 DEF LinksKept

\* One record takes a status and amounts, or stays absent.
LEMMA WritesKeep ==
    ASSUME TypeOK, NEW p \in Req, NEW st, NEW c, NEW f,
           Writes(p, payments[p].pid, st, c, f)
    PROVE  \A q \in Req : RecordKept(q)
<1>1. \A q \in Req : SameRecord(q)
    BY DEF Writes, SameRecord
<1> QED
    BY <1>1, SameRecordKept

\* Writes after a call leave every link as it is.
LEMMA UpdateLinks ==
    ASSUME TypeOK, Shape, Links, UNCHANGED <<ppay, pidem>>, NEW r \in Req,
           CreateUnknown(r) \/ CaptureOk(r) \/ CancelOk(r) \/ RefundOk(r)
    PROVE  LinksKept
<1>1. /\ pc[r] = "wait" /\ TargetOf(r) /\ UNCHANGED <<poll, arg, call, pay>>
      /\ pay[r] \in Req
    BY DEF CreateUnknown, CaptureOk, CancelOk, RefundOk, Answered, Links,
           Targets, Shape, PcShape
<1>2. \E l \in {"fail", "readback", "complete"} : pc' = [pc EXCEPT ![r] = l]
    BY DEF CreateUnknown, CaptureOk, CancelOk, RefundOk, Throw, Goto
<1>3. \A s \in Req : CallKept(s) /\ (pc'[s] = "wait" => WaitKept(s))
  <2>1. \A s \in Req \ {r} : arg'[s] = arg[s]
      BY <1>1
  <2> QED
      BY <1>1, <1>2, <2>1, MoveKept
<1>4. \A p \in Req : RecordKept(p)
  <2>1. CASE UNCHANGED payments
      BY <2>1, SameRecordKept DEF SameRecord
  <2>2. CASE CreateUnknown(r)
      BY <2>1, <2>2, CreateUnknownWrites, WritesKeep
  <2>3. CASE CaptureOk(r)
      BY <1>1, <2>3, CaptureOkWrites, WritesKeep
  <2>4. CASE CancelOk(r)
      BY <1>1, <2>4, CancelOkWrites, WritesKeep
  <2>5. CASE RefundOk(r)
      BY <1>1, <2>5, RefundOkWrites, WritesKeep
  <2> QED
      BY <2>2, <2>3, <2>4, <2>5
<1>5. \A x \in refunds' : x \in refunds \/ Linked(x.pay)
  <2>1. CASE RefundOk(r)
    <3>1. Linked(pay[r])
        BY <1>1, <2>1 DEF TargetOf, RefundOk, Answered
    <3> QED
        BY <2>1, <3>1 DEF RefundOk
  <2> QED
      BY <2>1 DEF CreateUnknown, CaptureOk, CancelOk
<1> QED
    BY <1>1, <1>3, <1>4, <1>5 DEF LinksKept

\* The GET handler and the webhook processor.
LEMMA PollLinks ==
    ASSUME TypeOK, Shape, Links, UNCHANGED providerVars,
           NEW g \in Poller, PollerStep(g) \/ PollFails(g)
    PROVE  LinksKept
<1>1. UNCHANGED <<ppay, pidem, refunds, pc, arg, pay, call>>
    BY DEF PollerStep, PollStart, PollFetch, PollApply, PollFails, storeVars,
           providerVars
<1>2. \A s \in Req : CallKept(s) /\ (pc'[s] = "wait" => WaitKept(s))
    BY <1>1 DEF CallKept, WaitKept, Early
<1>3. \A p \in Req : RecordKept(p)
  <2>1. CASE UNCHANGED payments
      BY <2>1, SameRecordKept DEF SameRecord
  <2>2. CASE PollApply(g)
      BY <2>2, PollApplyWrites, WritesKeep DEF Shape, PollShape, PollApply
  <2> QED
      BY <2>1, <2>2 DEF PollerStep, PollStart, PollFetch, PollFails, storeVars
<1>4. \A h \in Poller \ {g} : poll'[h] = poll[h]
    BY DEF PollerStep, PollStart, PollFetch, PollApply, PollFails, TypeOK,
           ServiceTypeOK
<1>5. poll'[g].at # "idle" => PollTargetOf(g)'
  <2>1. ASSUME NEW p \in Req, PollStart(g, p) PROVE PollTargetOf(g)'
    <3>1. /\ payments[p] # none /\ payments[p].pid # none /\ UNCHANGED payments
          /\ poll' = [poll EXCEPT ![g] = [NoPoll EXCEPT !.at = "fetch", !.pay = p]]
        BY <2>1 DEF PollStart, storeVars
    <3>2. poll'[g].at = "fetch" /\ poll'[g].pay = p
        BY <3>1 DEF NoPoll, TypeOK, ServiceTypeOK
    <3> QED
        BY <3>1, <3>2 DEF PollTargetOf, Linked
  <2>2. ASSUME poll[g].at = "fetch",
               PollFetch(g, View(ppay, payments[poll[g].pay].pid, txs))
        PROVE  PollTargetOf(g)'
    <3> DEFINE v == View(ppay, payments[poll[g].pay].pid, txs)
    <3>1. v.kind = "ok" /\ v.pid = payments[poll[g].pay].pid
        BY DEF View, NoResponse
    <3> HIDE DEF v
    <3>2. /\ poll'[g].view = v /\ poll'[g].pay = poll[g].pay
          /\ UNCHANGED payments
        BY <2>2 DEF PollFetch, storeVars, TypeOK, ServiceTypeOK, PollRec, v
    <3>3. Linked(poll[g].pay)
        BY <2>2 DEF Links, Targets, PollTargetOf
    <3> QED
        BY <3>1, <3>2, <3>3 DEF PollTargetOf, Linked
  <2>3. CASE PollApply(g) \/ PollFails(g)
      BY <2>3 DEF PollApply, PollFails, NoPoll, TypeOK, ServiceTypeOK
  <2> QED
      BY <2>1, <2>2, <2>3 DEF PollerStep
<1> QED
    BY <1>1, <1>2, <1>3, <1>4, <1>5 DEF LinksKept

\* A webhook leaves every link as it is.
LEMMA WebhookLinks ==
    ASSUME TypeOK, Shape, NEW e \in Event, ProcessWebhook(e),
           UNCHANGED <<ppay, pidem>>
    PROVE  LinksKept
<1>1. UNCHANGED <<refunds, pc, arg, pay, poll, call>>
    BY DEF ProcessWebhook, storeVars
<1>2. \A s \in Req : CallKept(s) /\ (pc'[s] = "wait" => WaitKept(s))
    BY <1>1 DEF CallKept, WaitKept, Early
<1>3. \A p \in Req : RecordKept(p)
  <2>1. CASE UNCHANGED payments
      BY <2>1, SameRecordKept DEF SameRecord
  <2> QED
      BY <2>1, ProcessWebhookWrites, WritesKeep
<1> QED
    BY <1>1, <1>2, <1>3 DEF LinksKept

\* Deliveries and crashes leave records, calls and targets alone.
LEMMA IdleLinks ==
    ASSUME TypeOK,
           \/ \E id \in EventId : \/ DeliverWebhook(id) \/ LoseAck(id)
                                  \/ ExhaustDelivery(id)
           \/ (\E id \in inbox : WebhookFails(id)) /\ UNCHANGED providerVars
           \/ ServiceCrash /\ UNCHANGED providerVars
           \/ UNCHANGED vars
    PROVE  LinksKept
<1>1. UNCHANGED <<ppay, pidem, payments, refunds, call, pay, arg>>
    BY DEF DeliverWebhook, LoseAck, ExhaustDelivery, AcceptWebhook,
           WebhookFails, ServiceCrash, vars, serviceVars, storeVars,
           processVars, providerVars
<1>2. UNCHANGED <<pc, poll>> \/ ServiceCrash
    BY DEF DeliverWebhook, LoseAck, ExhaustDelivery, AcceptWebhook,
           WebhookFails, vars, serviceVars, processVars
<1>3. CASE UNCHANGED <<pc, poll>>
    BY <1>1, <1>3, QuietLinks
<1>4. CASE ServiceCrash
  <2>1. \A s \in Req : pc'[s] = pc[s] \/ pc'[s] = "done"
      BY <1>4 DEF ServiceCrash
  <2>2. \A s \in Req : CallKept(s) /\ (pc'[s] = "wait" => WaitKept(s))
      BY <1>1, <2>1 DEF CallKept, WaitKept, Early
  <2>3. \A g \in Poller : poll'[g].at = "idle"
      BY <1>4 DEF ServiceCrash, NoPoll
  <2>4. \A p \in Req : RecordKept(p)
      BY <1>1, SameRecordKept DEF SameRecord
  <2> QED
      BY <1>1, <2>2, <2>3, <2>4 DEF LinksKept
<1> QED
    BY <1>2, <1>3, <1>4

\* Every step of the platform keeps the links.
LEMMA PlatformLinks ==
    ASSUME TypeOK, Shape, Gate, Charges, Links,
           \/ \E r \in Req : \/ ClientRequest(r)  \/ HandleRequest(r)
                             \/ StartOperation(r) \/ GiveUpOnCall(r)
           \/ \E g \in Poller : PollerStep(g) \/ PollerFails(g)
           \/ \E id \in EventId : \/ DeliverWebhook(id) \/ LoseAck(id)
                                  \/ ExhaustDelivery(id)
           \/ ApplyWebhook \/ ServiceFails \/ UNCHANGED vars
    PROVE  LinksKept
<1>1. ASSUME NEW r \in Req, ClientRequest(r) PROVE LinksKept
    BY <1>1, PlainLinks DEF ClientRequest, providerVars
<1>2. ASSUME NEW r \in Req, HandleRequest(r) PROVE LinksKept
  <2>1. UNCHANGED <<ppay, pidem>>
      BY <1>2 DEF HandleRequest, providerVars
  <2>2. CASE FindExisting(r)
      BY <2>1, <2>2, PlainLinks, FindExistingLinks
  <2> QED
      BY <1>2, <2>1, <2>2, PlainLinks, PushDraftLinks, CreateOkLinks,
         DropLinks, UpdateLinks DEF HandleRequest, RequestStep
<1>3. ASSUME NEW r \in Req, StartOperation(r) PROVE LinksKept
  <2>1. UNCHANGED <<ppay, pidem>> /\ \E b : StartAction(r, b)
      BY <1>3 DEF StartOperation, providerVars
  <2> QED
      BY <2>1, PlainLinks, StartActionLinks
<1>4. ASSUME NEW r \in Req, GiveUpOnCall(r) PROVE LinksKept
  <2>1. UNCHANGED <<ppay, pidem>>
      BY <1>4 DEF GiveUpOnCall, providerVars
  <2> QED
      BY <1>4, <2>1, PlainLinks, DropLinks DEF GiveUpOnCall
<1>5. ASSUME NEW g \in Poller, PollerStep(g) \/ PollerFails(g) PROVE LinksKept
  <2>1. UNCHANGED providerVars
      BY <1>5 DEF PollerStep, PollerFails
  <2> QED
      BY <1>5, <2>1, PollLinks DEF PollerFails
<1>6. CASE ApplyWebhook
    BY <1>6, WebhookLinks DEF ApplyWebhook, providerVars, TypeOK, ProviderTypeOK
<1>7. CASE ServiceFails
  <2>1. UNCHANGED providerVars
      BY <1>7 DEF ServiceFails
  <2>2. ASSUME NEW r \in Req, StoreFails(r) PROVE LinksKept
      BY <2>1, <2>2, PlainLinks DEF providerVars
  <2> QED
      BY <1>7, <2>1, <2>2, IdleLinks DEF ServiceFails
<1> QED
    BY <1>1, <1>2, <1>3, <1>4, <1>5, <1>6, <1>7, IdleLinks

-----------------------------------------------------------------------------
(* What the provider's steps do to calls, records, payments, transactions   *)
(* and events.                                                              *)

\* Call r moves to stage st with the answer a; the other calls stay.
CallMoves(r, st, a) ==
    /\ \A s \in Req \ {r} : call'[s] = call[s]
    /\ call'[r].pkey = call[r].pkey
    /\ call'[r].stage = st /\ call'[r].resp = a

\* The record of call r's key takes state st and the answer a.
RecordMoves(k, st, a) ==
    /\ \A j \in ProviderKey \ {k} : pidem'[j] = pidem[j]
    /\ pidem'[k].state = st /\ pidem'[k].resp = a

\* Payment p becomes x.
PaymentTakes(p, x) ==
    /\ \A q \in Req \ {p} : ppay'[q] = ppay[q]
    /\ ppay'[p] = x /\ x \in ProviderPayment

\* The view v, or the event v, shows payment x named p.
Shows(p, x, v) ==
    /\ v.pid = p /\ v.snap = x.snap
    /\ v.captured = x.captured /\ v.refunded = x.refunded

\* What a capture, a cancellation or a refund of the amount amt makes of the
\* payment x.
Effect(p, x, op, amt, new, ok) ==
    \/ /\ op = "capture" /\ CanCapture(x, amt)
       /\ new = captureInStore(x, amt) /\ ok
    \/ /\ op = "cancel" /\ CanCancel(x)
       /\ new = cancelInStore(x) /\ ok
    \/ /\ op = "refund" /\ Refundable(ppay, p, txs) /\ CanRefund(x, amt)
       /\ amt > 0 /\ new = refundInStore(x, amt)
       /\ ok = (x.scenario # "refund_failed")

\* An assignment to a call's stage and answer moves that call only.
LEMMA CallSet ==
    ASSUME TypeOK, NEW r \in Req, NEW st, NEW a,
           call' = [call EXCEPT ![r].stage = st, ![r].resp = a]
    PROVE  CallMoves(r, st, a)
BY DEF TypeOK, WireTypeOK, Call, CallMoves

\* A view shows the payment it is made from.
LEMMA ViewShows ==
    ASSUME NEW P, NEW p, NEW T
    PROVE  View(P, p, T).kind = "ok" /\ Shows(p, P[p], View(P, p, T))
BY DEF View, NoResponse, Shows

\* An event shows the payment it is made from.
LEMMA EventShows ==
    ASSUME NEW P, NEW p, NEW id, NEW tx
    PROVE  Shows(p, P[p], EventOf(P, p, id, tx))
BY DEF EventOf, Shows

\* A free key is taken, or the call is answered with a stored answer or
\* refused.
LEMMA BeginCallStep ==
    ASSUME TypeOK, Shape, NEW r \in Req, BeginCall(r)
    PROVE  LET k == call[r].pkey IN
           /\ k \in ProviderKey /\ call[r].stage = "sent"
           /\ UNCHANGED <<ppay, txs, events>>
           /\ \/ /\ CallMoves(r, "begun", call[r].resp)
                 /\ pidem[k].state = "absent"
                 /\ RecordMoves(k, "IN_PROGRESS", pidem[k].resp)
              \/ /\ UNCHANGED pidem
                 /\ \E a : /\ CallMoves(r, "answered", a)
                           /\ a = pidem[k].resp \/ a.kind = "rejected"
<1> DEFINE k == call[r].pkey
<1>1. k \in ProviderKey /\ call[r].stage = "sent" /\ UNCHANGED <<ppay, txs, events>>
    BY DEF BeginCall, Shape, CallShape
<1>2. CASE /\ pidem[k].state = "absent"
           /\ pidem' = [pidem EXCEPT ![k].state = "IN_PROGRESS"]
           /\ call' = [call EXCEPT ![r].stage = "begun"]
  <2>1. CallMoves(r, "begun", call[r].resp)
      BY <1>2 DEF CallMoves, TypeOK, WireTypeOK, Call
  <2>2. RecordMoves(k, "IN_PROGRESS", pidem[k].resp)
      BY <1>1, <1>2 DEF RecordMoves, TypeOK, ProviderTypeOK
  <2> QED
      BY <1>1, <1>2, <2>1, <2>2
<1>3. ASSUME NEW a, Answer(r, a), UNCHANGED pidem,
             a = pidem[k].resp \/ a.kind = "rejected"
      PROVE  /\ UNCHANGED pidem
             /\ \E b : /\ CallMoves(r, "answered", b)
                       /\ b = pidem[k].resp \/ b.kind = "rejected"
  <2>1. CallMoves(r, "answered", a)
      BY <1>3, CallSet DEF Answer
  <2> HIDE DEF k
  <2> QED
      BY <1>3, <2>1
<1>4. \A c : Rejected(c).kind = "rejected"
    BY DEF Rejected, NoResponse
<1> QED
    BY <1>1, <1>2, <1>3, <1>4 DEF BeginCall

\* An executed call is answered.
LEMMA FinishCallStep ==
    ASSUME TypeOK, Shape, NEW r \in Req, FinishCall(r)
    PROVE  LET k == call[r].pkey
               a == call[r].resp
           IN
           /\ k \in ProviderKey /\ call[r].stage = "executed"
           /\ UNCHANGED <<ppay, txs, events>>
           /\ CallMoves(r, "answered", a)
           /\ IF a.kind = "rejected" THEN RecordMoves(k, "absent", NoResponse)
              ELSE RecordMoves(k, "COMPLETED", a)
<1>1. /\ call[r].pkey \in ProviderKey /\ call[r].stage = "executed"
      /\ UNCHANGED <<ppay, txs, events>>
    BY DEF FinishCall, Shape, CallShape
<1>2. CallMoves(r, "answered", call[r].resp)
    BY CallSet DEF FinishCall, Answer
<1>3. IF call[r].resp.kind = "rejected"
      THEN RecordMoves(call[r].pkey, "absent", NoResponse)
      ELSE RecordMoves(call[r].pkey, "COMPLETED", call[r].resp)
    BY <1>1 DEF FinishCall, NoIdem, RecordMoves, TypeOK, ProviderTypeOK
<1> QED
    BY <1>1, <1>2, <1>3

\* A call that fails is answered with an error, and so is its record.
LEMMA FailCallStep ==
    ASSUME TypeOK, Shape, NEW r \in Req, FailCall(r)
    PROVE  LET k == call[r].pkey IN
           /\ k \in ProviderKey /\ call[r].stage \in {"begun", "executed"}
           /\ UNCHANGED <<ppay, txs, events>>
           /\ \E a : a.kind = "unknown" /\ CallMoves(r, "answered", a)
           /\ RecordMoves(k, "CONSUMED", pidem[k].resp)
<1>1. /\ call[r].pkey \in ProviderKey /\ call[r].stage \in {"begun", "executed"}
      /\ UNCHANGED <<ppay, txs, events>>
    BY DEF FailCall, Shape, CallShape
<1>2. CallMoves(r, "answered", Uncertain) /\ Uncertain.kind = "unknown"
    BY CallSet DEF FailCall, Answer, Uncertain, NoResponse
<1>3. RecordMoves(call[r].pkey, "CONSUMED", pidem[call[r].pkey].resp)
    BY <1>1 DEF FailCall, RecordMoves, TypeOK, ProviderTypeOK
<1> QED
    BY <1>1, <1>2, <1>3

\* A crash of the provider loses the calls in progress.
LEMMA ProviderCrashStep ==
    ASSUME TypeOK, ProviderCrash
    PROVE  /\ UNCHANGED <<ppay, pidem, txs, events>>
           /\ \A s \in Req : /\ call'[s].pkey = call[s].pkey
                             /\ call'[s].resp = call[s].resp
                             /\ \/ call'[s] = call[s]
                                \/ /\ call[s].stage \in {"sent", "begun", "executed"}
                                   /\ call'[s].stage = "lost"
BY DEF ProviderCrash, providerVars, TypeOK, WireTypeOK, Call

\* A refused action changes no payment.
LEMMA RejectStep ==
    ASSUME TypeOK, NEW r \in Req, RejectAction(r)
    PROVE  /\ UNCHANGED <<ppay, txs, events>>
           /\ \E a : a.kind = "rejected" /\ CallMoves(r, "executed", a)
<1>1. Rejected("invalid_request").kind = "rejected"
    BY DEF Rejected, NoResponse
<1> QED
    BY <1>1, CallSet DEF RejectAction

\* A new payment holds nothing, or the whole amount of an immediate purchase.
LEMMA ExecuteCreateStep ==
    ASSUME TypeOK, Shape, NEW r \in Req, ExecuteCreate(r)
    PROVE  /\ call[r].stage = "begun" /\ call[r].pkey \in ProviderKey
           /\ call[r].pkey.op = "create" /\ UNCHANGED <<pidem, txs>>
           /\ \E x, a :
                /\ PaymentTakes(r, x) /\ x.pkey = call[r].pkey
                /\ CallMoves(r, "executed", a)
                /\ \/ a.kind = "unknown"
                   \/ a.kind = "ok" /\ Shows(r, x, a)
                /\ \A e \in events' : e \in events \/ Shows(r, x, e)
                /\ x.refunded = 0
                /\ \/ /\ x.snap.status \in {"PENDING", "DECLINED", "AUTHORIZED"}
                      /\ x.captured = 0
                   \/ /\ x.snap = Snapshot("SUCCEEDED", "APPROVED")
                      /\ x.captured = Amount /\ x.purchase
                /\ x.snap.sub # "PARTIALLY_REFUNDED"
                /\ x.pending \in {"SUCCEEDED", "DECLINED", "3ds"} =>
                     x.snap.status = "PENDING"
<1>1. /\ call[r].stage = "begun" /\ call[r].pkey \in ProviderKey
      /\ call[r].pkey.op = "create" /\ UNCHANGED <<pidem, txs>>
      /\ call[r].manual \in BOOLEAN
    BY DEF ExecuteCreate, Shape, CallShape, TypeOK, WireTypeOK, Call
<1>2. PICK sc \in Scenario :
        LET purchase == ~call[r].manual
            snap     == resolveOutcome(sc, purchase)
            new      == [pkey |-> call[r].pkey, snap |-> snap,
                         purchase |-> purchase,
                         captured |-> IF snap.status = "SUCCEEDED"
                                      THEN Amount ELSE 0,
                         refunded |-> 0, scenario |-> sc,
                         pending |-> PendingAction(sc)]
            P        == [ppay EXCEPT ![r] = new]
        IN  /\ ppay' = P
            /\ IF snap.status \in {"SUCCEEDED", "DECLINED", "AUTHORIZED"}
               THEN emitPaymentEvent(EventOf(P, r, <<r, "create">>,
                                             PrimaryTx(P, r)))
               ELSE UNCHANGED <<events, due>>
            /\ call' = [call EXCEPT
                          ![r].stage = "executed",
                          ![r].resp = IF sc = "provider_timeout"
                                      THEN Uncertain ELSE View(P, r, txs)]
    BY DEF ExecuteCreate
<1> DEFINE purchase == ~call[r].manual
           snap == resolveOutcome(sc, purchase)
           new  == [pkey |-> call[r].pkey, snap |-> snap, purchase |-> purchase,
                    captured |-> IF snap.status = "SUCCEEDED"
                                 THEN Amount ELSE 0,
                    refunded |-> 0, scenario |-> sc,
                    pending |-> PendingAction(sc)]
           P == [ppay EXCEPT ![r] = new]
           a == IF sc = "provider_timeout" THEN Uncertain ELSE View(P, r, txs)
<1>3. /\ snap \in ProviderSnapshot /\ snap.sub # "PARTIALLY_REFUNDED"
      /\ \/ snap.status \in {"PENDING", "DECLINED", "AUTHORIZED"}
         \/ snap = Snapshot("SUCCEEDED", "APPROVED") /\ purchase
      /\ PendingAction(sc) \in {"SUCCEEDED", "DECLINED", "3ds"} =>
           snap.status = "PENDING"
      /\ PendingAction(sc) \in {"none", "SUCCEEDED", "DECLINED", "3ds", "stale"}
  <2>1. sc \in {"success", "declined", "requires_3ds", "processing_then_success",
                "processing_then_declined", "provider_timeout", "refund_failed",
                "out_of_order_webhooks"}
      BY ScenarioAssumption
  <2>2. \/ snap \in {Snapshot("DECLINED", "DECLINED"),
                     Snapshot("PENDING", "WAITING_ADDITIONAL_STEP"),
                     Snapshot("PENDING", "IN_PROCESS"),
                     Snapshot("AUTHORIZED", "AUTHORIZED")}
        \/ snap = Snapshot("SUCCEEDED", "APPROVED") /\ purchase
      BY DEF resolveOutcome
  <2>3. sc \in {"processing_then_success", "processing_then_declined",
                "requires_3ds"} => snap.status = "PENDING"
      BY DEF resolveOutcome, Snapshot
  <2>4. /\ PendingAction(sc) \in {"SUCCEEDED", "DECLINED", "3ds"} =>
             sc \in {"processing_then_success", "processing_then_declined",
                     "requires_3ds"}
        /\ PendingAction(sc) \in {"none", "SUCCEEDED", "DECLINED", "3ds", "stale"}
      BY DEF PendingAction
  <2> HIDE DEF snap, purchase
  <2>5. /\ snap \in ProviderSnapshot /\ snap.sub # "PARTIALLY_REFUNDED"
        /\ \/ snap.status \in {"PENDING", "DECLINED", "AUTHORIZED"}
           \/ snap = Snapshot("SUCCEEDED", "APPROVED") /\ purchase
      BY <2>2, SnapshotTyped DEF Snapshot
  <2> QED
      BY <2>3, <2>4, <2>5
<1>4. ppay' = P /\ call' = [call EXCEPT ![r].stage = "executed", ![r].resp = a]
    BY <1>2
<1>5. \/ emitPaymentEvent(EventOf(P, r, <<r, "create">>, PrimaryTx(P, r)))
      \/ UNCHANGED events
    BY <1>2
<1> HIDE DEF snap
<1>6. new \in ProviderPayment
    BY <1>1, <1>3, MoneyFacts DEF ProviderPayment
<1>7. /\ new.pkey = call[r].pkey /\ new.refunded = 0 /\ new.snap = snap
      /\ new.captured = (IF snap.status = "SUCCEEDED" THEN Amount ELSE 0)
      /\ new.purchase = purchase /\ new.pending = PendingAction(sc)
    OBVIOUS
<1> HIDE DEF new
<1>8. PaymentTakes(r, new) /\ P[r] = new
    BY <1>4, <1>6 DEF PaymentTakes, TypeOK, ProviderTypeOK
<1> HIDE DEF P
<1>9. CallMoves(r, "executed", a)
    BY <1>4, CallSet
<1>10. \/ a.kind = "unknown"
       \/ a.kind = "ok" /\ Shows(r, new, a)
  <2>1. Uncertain.kind = "unknown"
      BY DEF Uncertain, NoResponse
  <2> QED
      BY <1>8, <2>1, ViewShows
<1>11. \A e \in events' : e \in events \/ Shows(r, new, e)
    BY <1>5, <1>8, EventShows DEF emitPaymentEvent
<1> HIDE DEF a
<1>12. \/ /\ new.snap.status \in {"PENDING", "DECLINED", "AUTHORIZED"}
          /\ new.captured = 0
       \/ /\ new.snap = Snapshot("SUCCEEDED", "APPROVED")
          /\ new.captured = Amount /\ new.purchase
  <2>1. CASE snap = Snapshot("SUCCEEDED", "APPROVED") /\ purchase
    <3>1. snap.status = "SUCCEEDED"
        BY <2>1 DEF Snapshot
    <3> QED
        BY <1>7, <2>1, <3>1
  <2>2. CASE snap.status \in {"PENDING", "DECLINED", "AUTHORIZED"}
      BY <1>7, <2>2
  <2> QED
      BY <1>3, <2>1, <2>2
<1>13. /\ new.snap.sub # "PARTIALLY_REFUNDED"
       /\ new.pending \in {"SUCCEEDED", "DECLINED", "3ds"} =>
            new.snap.status = "PENDING"
    BY <1>3, <1>7
<1> QED
    BY <1>1, <1>7, <1>8, <1>9, <1>10, <1>11, <1>12, <1>13

\* An applied action: the payment's new state, its transaction, the event and
\* the answer.
LEMMA ApplyActionStep ==
    ASSUME TypeOK, NEW r \in Req, NEW p \in Req, NEW amt, NEW ok, NEW type,
           NEW new \in ProviderPayment, ApplyAction(r, p, new, amt, ok, type)
    PROVE  /\ PaymentTakes(p, new)
           /\ txs' = txs \cup {[pid |-> p, by |-> r, pkey |-> call[r].pkey,
                                amt |-> amt, ok |-> ok]}
           /\ \A e \in events' : e \in events \/ Shows(p, new, e)
           /\ \E a : /\ CallMoves(r, "executed", a)
                     /\ a.kind = "ok" /\ Shows(p, new, a)
                     /\ a.refundFailed = ~ok
<1> DEFINE P == [ppay EXCEPT ![p] = new]
           t == [pid |-> p, by |-> r, pkey |-> call[r].pkey, amt |-> amt,
                 ok |-> ok]
           T == txs \cup {t}
           v == View(P, p, T)
           a == [v EXCEPT !.refundFailed = ~ok]
<1>1. /\ ppay' = P /\ txs' = T
      /\ events' = events \cup {EventOf(P, p, <<r, "action">>, type)}
      /\ call' = [call EXCEPT ![r].stage = "executed", ![r].resp = a]
    BY DEF ApplyAction, emitPaymentEvent
<1>2. P[p] = new /\ PaymentTakes(p, new)
    BY <1>1 DEF PaymentTakes, TypeOK, ProviderTypeOK
<1> HIDE DEF P
<1>3. /\ a.kind = "ok" /\ Shows(p, new, a) /\ a.refundFailed = ~ok
  <2>1. /\ a.kind = v.kind /\ a.pid = v.pid /\ a.snap = v.snap
        /\ a.captured = v.captured /\ a.refunded = v.refunded
        /\ a.refundFailed = ~ok
      BY DEF View, NoResponse
  <2> HIDE DEF a, v
  <2>2. v.kind = "ok" /\ Shows(p, new, v)
      BY <1>2, ViewShows DEF v
  <2> QED
      BY <2>1, <2>2 DEF Shows
<1>4. \A e \in events' : e \in events \/ Shows(p, new, e)
    BY <1>1, <1>2, EventShows
<1> HIDE DEF a, t
<1>5. CallMoves(r, "executed", a)
    BY <1>1, CallSet
<1> QED
    BY <1>1, <1>2, <1>3, <1>4, <1>5 DEF t

\* A capture, a cancellation or a refund is refused, or applied.
LEMMA ExecuteActionStep ==
    ASSUME TypeOK, Shape, NEW r \in Req,
           ExecuteCapture(r) \/ ExecuteCancel(r) \/ ExecuteRefund(r)
    PROVE  LET k == call[r].pkey
               p == k.pid
           IN
           /\ call[r].stage = "begun" /\ k \in ProviderKey /\ k.op # "create"
           /\ p \in Req /\ ppay[p] # none /\ ppay[p] \in ProviderPayment
           /\ UNCHANGED pidem
           /\ \/ /\ UNCHANGED <<ppay, txs, events>>
                 /\ \E a : a.kind = "rejected" /\ CallMoves(r, "executed", a)
              \/ \E new \in ProviderPayment, amt \in Money, ok \in BOOLEAN :
                   /\ Effect(p, ppay[p], k.op, amt, new, ok)
                   /\ PaymentTakes(p, new)
                   /\ txs' = txs \cup {[pid |-> p, by |-> r, pkey |-> k,
                                        amt |-> amt, ok |-> ok]}
                   /\ \A e \in events' : e \in events \/ Shows(p, new, e)
                   /\ \E a : /\ CallMoves(r, "executed", a)
                             /\ a.kind = "ok" /\ Shows(p, new, a)
                             /\ a.refundFailed = ~ok
<1> DEFINE k == call[r].pkey
           p == k.pid
           x == ppay[p]
           Applied == \E new \in ProviderPayment, amt \in Money, ok \in BOOLEAN :
                        /\ Effect(p, x, k.op, amt, new, ok)
                        /\ \E type : ApplyAction(r, p, new, amt, ok, type)
<1>1. /\ call[r].stage = "begun" /\ k \in ProviderKey /\ k.op # "create"
      /\ UNCHANGED pidem
    BY DEF ExecuteCapture, ExecuteCancel, ExecuteRefund, Shape, CallShape
<1>2. p \in Req /\ call[r].amt \in Money /\ x \in ProviderPayment /\ x # none
    BY <1>1, ActionOnPayment, NoneAssumption
<1>3. ASSUME ExecuteCapture(r) PROVE Applied \/ RejectAction(r)
  <2> DEFINE m == call[r].amt
  <2>1. ASSUME CanCapture(x, m)
        PROVE  Applied
    <3>1. captureInStore(x, m) \in ProviderPayment
      <4>1. x.captured + m \in Money
          BY <1>2, <2>1, WireAssumption
          DEF CanCapture, remainingCapturable, Money, ProviderPayment
      <4> HIDE DEF m, x
      <4> QED
          BY <1>2, <4>1, SnapshotTyped DEF captureInStore, ProviderPayment
    <3>2. ApplyAction(r, p, captureInStore(x, m), m, TRUE, "CAPTURE")
          /\ k.op = "capture"
        BY <1>3, <2>1 DEF ExecuteCapture
    <3>3. Effect(p, x, k.op, m, captureInStore(x, m), TRUE)
        BY <2>1, <3>2 DEF Effect
    <3> HIDE DEF m, x, p, k
    <3> QED
        BY <1>2, <3>1, <3>2, <3>3 DEF m
  <2>2. ASSUME ~CanCapture(x, m)
        PROVE  RejectAction(r)
      BY <1>3, <2>2 DEF ExecuteCapture
  <2> HIDE DEF Applied
  <2> QED
      BY <2>1, <2>2
<1>4. ASSUME ExecuteCancel(r) PROVE Applied \/ RejectAction(r)
  <2> DEFINE m == remainingCapturable(x)
  <2>1. ASSUME CanCancel(x)
        PROVE  Applied
    <3>1. cancelInStore(x) \in ProviderPayment
        BY <1>2, SnapshotTyped DEF cancelInStore, ProviderPayment
    <3>2. m \in Money
        BY <1>2, <2>1, WireAssumption
        DEF CanCancel, remainingCapturable, Money, ProviderPayment
    <3>3. ApplyAction(r, p, cancelInStore(x), m, TRUE, "CANCEL")
          /\ k.op = "cancel"
        BY <1>4, <2>1 DEF ExecuteCancel
    <3>4. Effect(p, x, k.op, m, cancelInStore(x), TRUE)
        BY <2>1, <3>3 DEF Effect
    <3> HIDE DEF m, x, p, k
    <3> QED
        BY <3>1, <3>2, <3>3, <3>4
  <2>2. ASSUME ~CanCancel(x)
        PROVE  RejectAction(r)
      BY <1>4, <2>2 DEF ExecuteCancel
  <2> HIDE DEF Applied
  <2> QED
      BY <2>1, <2>2
<1>5. ASSUME ExecuteRefund(r) PROVE Applied \/ RejectAction(r)
  <2> DEFINE m == IF call[r].amt = 0 THEN remainingRefundable(x)
                  ELSE call[r].amt
             b == x.scenario # "refund_failed"
  <2>1. ASSUME Refundable(ppay, p, txs) /\ CanRefund(x, m)
        PROVE  Applied
    <3>1. m \in Money /\ x.refunded + m \in Money
        BY <1>2, <2>1, WireAssumption
        DEF CanRefund, remainingRefundable, Money, ProviderPayment
    <3>2. ApplyAction(r, p, refundInStore(x, m), m, b, "REFUND")
          /\ k.op = "refund"
        BY <1>5, <2>1 DEF ExecuteRefund
    <3>3. refundInStore(x, m) \in ProviderPayment
      <4> DEFINE f == x.refunded + m
      <4>1. f \in Money
          BY <3>1
      <4>2. refundInStore(x, m) =
              IF x.scenario = "refund_failed" THEN x
              ELSE [x EXCEPT !.refunded = f,
                             !.snap = IF f = x.captured
                                      THEN Snapshot("REFUNDED", "REFUNDED")
                                      ELSE Snapshot("SUCCEEDED", "PARTIALLY_REFUNDED")]
          BY DEF refundInStore
      <4> HIDE DEF m, x, f
      <4> QED
          BY <1>2, <4>1, <4>2, SnapshotTyped DEF ProviderPayment
    <3>4. m > 0
      <4>1. CASE call[r].amt = 0
          BY <2>1, <4>1 DEF CanRefund
      <4>2. CASE call[r].amt # 0
        <5>1. call[r].amt \in Nat /\ m = call[r].amt
            BY <1>2, <4>2, MoneyFacts
        <5> HIDE DEF m
        <5> QED
            BY <4>2, <5>1
      <4> QED
          BY <4>1, <4>2
    <3>5. Effect(p, x, k.op, m, refundInStore(x, m), b) /\ b \in BOOLEAN
        BY <2>1, <3>2, <3>4 DEF Effect
    <3> HIDE DEF m, x, p, k, b
    <3> QED
        BY <3>1, <3>2, <3>3, <3>5
  <2>2. ASSUME ~(Refundable(ppay, p, txs) /\ CanRefund(x, m))
        PROVE  RejectAction(r)
      BY <1>5, <2>2 DEF ExecuteRefund
  <2> HIDE DEF Applied
  <2> QED
      BY <2>1, <2>2
<1>6. RejectAction(r) \/ Applied
  <2> HIDE DEF Applied
  <2> QED
      BY <1>3, <1>4, <1>5
<1> HIDE DEF p, x, k
<1>7. CASE RejectAction(r)
    BY <1>1, <1>2, <1>7, RejectStep DEF k, p, x
<1>8. CASE Applied
  <2>1. PICK new \in ProviderPayment, amt \in Money, ok \in BOOLEAN :
               /\ Effect(p, x, k.op, amt, new, ok)
               /\ \E type : ApplyAction(r, p, new, amt, ok, type)
      BY <1>8
  <2>2. /\ PaymentTakes(p, new)
        /\ txs' = txs \cup {[pid |-> p, by |-> r, pkey |-> k,
                             amt |-> amt, ok |-> ok]}
        /\ \A e \in events' : e \in events \/ Shows(p, new, e)
        /\ \E a : /\ CallMoves(r, "executed", a)
                  /\ a.kind = "ok" /\ Shows(p, new, a)
                  /\ a.refundFailed = ~ok
      BY <1>2, <2>1, ApplyActionStep DEF k
  <2> QED
      BY <1>1, <1>2, <2>1, <2>2 DEF k, p, x
<1> QED
    BY <1>6, <1>7, <1>8

\* What a payment becomes by itself: the pending outcome is applied, or no
\* longer pending.
Outcome(x, y) ==
    \/ y = [x EXCEPT !.pending = "none"]
    \/ /\ x.pending \in {"SUCCEEDED", "DECLINED", "3ds"}
       /\ \E snap \in {Snapshot("SUCCEEDED", "APPROVED"),
                       Snapshot("AUTHORIZED", "AUTHORIZED"),
                       Snapshot("DECLINED", "DECLINED"),
                       Snapshot("EXPIRED", "EXPIRED")} : y = Terminal(x, snap)

\* A payload that shows a payment as it was before anything was captured.
ShowsPending(p, x, e) ==
    /\ e.pid = p /\ e.snap = Snapshot("PENDING", "IN_PROCESS")
    /\ e.captured = 0 /\ e.refunded = x.refunded

\* What the provider does by itself turns one payment into an outcome.
LEMMA AsyncStep ==
    ASSUME TypeOK, NEW p \in Req,
           ProcessingEnds(p) \/ completeThreeDs(p) \/ EmitStaleEvent(p)
    PROVE  /\ ppay[p] # none /\ ppay[p] \in ProviderPayment
           /\ UNCHANGED <<pidem, txs, call>>
           /\ \E y : /\ Outcome(ppay[p], y) /\ PaymentTakes(p, y)
                     /\ \A e \in events' : \/ e \in events
                                          \/ Shows(p, y, e)
                                          \/ ShowsPending(p, y, e)
<1> DEFINE x == ppay[p]
<1>1. x # none /\ x \in ProviderPayment /\ UNCHANGED <<pidem, txs, call>>
    BY DEF ProcessingEnds, completeThreeDs, EmitStaleEvent, TypeOK,
           ProviderTypeOK
<1>2. [x EXCEPT !.pending = "none"] \in ProviderPayment
    BY <1>1 DEF ProviderPayment
<1>3. ASSUME NEW y \in ProviderPayment, ppay' = [ppay EXCEPT ![p] = y]
      PROVE  PaymentTakes(p, y) /\ [ppay EXCEPT ![p] = y][p] = y
    BY <1>3 DEF PaymentTakes, TypeOK, ProviderTypeOK
<1>4. CASE ProcessingEnds(p)
  <2> DEFINE inc == IF x.pending = "SUCCEEDED"
                    THEN Snapshot("SUCCEEDED", "APPROVED")
                    ELSE Snapshot("DECLINED", "DECLINED")
             y == IF decidePaymentEventApplication(x.snap, inc, FALSE)
                  THEN Terminal(x, inc) ELSE [x EXCEPT !.pending = "none"]
             P == [ppay EXCEPT ![p] = y]
  <2>1. /\ ppay' = P /\ x.pending \in {"SUCCEEDED", "DECLINED"}
        /\ events' = events \cup {EventOf(P, p, <<p, "terminal">>, PrimaryTx(P, p))}
      BY <1>4 DEF ProcessingEnds, emitPaymentEvent
  <2>2. Outcome(x, y)
      BY <2>1 DEF Outcome
  <2>3. y \in ProviderPayment
      BY <1>1, <1>2, SnapshotTyped, TerminalTyped
  <2> HIDE DEF y
  <2>4. PaymentTakes(p, y) /\ P[p] = y
      BY <1>3, <2>1, <2>3
  <2> HIDE DEF P
  <2> QED
      BY <1>1, <2>1, <2>2, <2>4, EventShows
<1>5. CASE completeThreeDs(p)
  <2>1. PICK snap \in {Snapshot("SUCCEEDED", "APPROVED"),
                       Snapshot("AUTHORIZED", "AUTHORIZED"),
                       Snapshot("DECLINED", "DECLINED"),
                       Snapshot("EXPIRED", "EXPIRED")} :
          LET P == [ppay EXCEPT ![p] = Terminal(ppay[p], snap)]
          IN  /\ ppay' = P
              /\ emitPaymentEvent(EventOf(P, p, <<p, "terminal">>,
                                          PrimaryTx(P, p)))
      BY <1>5 DEF completeThreeDs
  <2> DEFINE y == Terminal(x, snap)
             P == [ppay EXCEPT ![p] = y]
  <2>2. /\ ppay' = P /\ x.pending = "3ds"
        /\ events' = events \cup {EventOf(P, p, <<p, "terminal">>, PrimaryTx(P, p))}
      BY <1>5, <2>1 DEF completeThreeDs, emitPaymentEvent
  <2>3. Outcome(x, y)
      BY <2>2 DEF Outcome
  <2>4. y \in ProviderPayment
      BY <1>1, SnapshotTyped, TerminalTyped
  <2> HIDE DEF y
  <2>5. PaymentTakes(p, y) /\ P[p] = y
      BY <1>3, <2>2, <2>4
  <2> HIDE DEF P
  <2> QED
      BY <1>1, <2>2, <2>3, <2>5, EventShows
<1>6. CASE EmitStaleEvent(p)
  <2> DEFINE y  == [x EXCEPT !.pending = "none"]
             e0 == EventOf(ppay, p, <<p, "stale">>, PrimaryTx(ppay, p))
             e1 == [e0 EXCEPT !.snap = Snapshot("PENDING", "IN_PROCESS"),
                              !.captured = 0]
  <2>1. ppay' = [ppay EXCEPT ![p] = y] /\ events' = events \cup {e1}
      BY <1>1, <1>6 DEF EmitStaleEvent, emitPaymentEvent
  <2>2. Outcome(x, y) /\ y.refunded = x.refunded
      BY <1>1 DEF Outcome, ProviderPayment
  <2>3. ShowsPending(p, y, e1)
    <3>1. /\ e1.pid = p /\ e1.snap = Snapshot("PENDING", "IN_PROCESS")
          /\ e1.captured = 0 /\ e1.refunded = x.refunded
        BY DEF EventOf
    <3> QED
        BY <2>2, <3>1 DEF ShowsPending
  <2> HIDE DEF y, e1
  <2>4. PaymentTakes(p, y)
      BY <1>2, <1>3, <2>1 DEF y
  <2> QED
      BY <1>1, <2>1, <2>2, <2>3, <2>4
<1> QED
    BY <1>4, <1>5, <1>6

-----------------------------------------------------------------------------
(* The steps of the provider, in four kinds.                                *)

\* The answer v says nothing of a payment, or was given under key k before.
OldAnswer(k, v) ==
    \/ v.kind # "ok"
    \/ v = pidem[k].resp
    \/ \E s \in Req : /\ call[s].stage # "none" /\ call[s].pkey = k
                      /\ v = call[s].resp

\* Calls keep their keys, and move forward.
CallsMove ==
    \A s \in Req :
      /\ call'[s].pkey = call[s].pkey
      /\ call'[s].stage = "none" <=> call[s].stage = "none"
      /\ call'[s].stage \in {"sent", "begun"} => call[s].stage \in {"sent", "begun"}

\* Calls and records of keys repeat old answers.
CallRepeats(s) ==
    call[s].stage # "none" => OldAnswer(call[s].pkey, call'[s].resp)

RecordsRepeat == \A k \in ProviderKey : OldAnswer(k, pidem'[k].resp)

\* No payment changes.
Quiet == UNCHANGED <<ppay, txs, events>> /\ \A s \in Req : CallRepeats(s)

\* Call r executes: payment p becomes x, and the answer shows it.
Executes(r, p, x) ==
    /\ call[r].stage = "begun" /\ call'[r].stage = "executed"
    /\ call[r].pkey \in ProviderKey
    /\ PaymentTakes(p, x)
    /\ \A e \in events' : e \in events \/ Shows(p, x, e)
    /\ \A s \in Req \ {r} : CallRepeats(s)
    /\ call'[r].resp.kind = "ok" => Shows(p, x, call'[r].resp)

\* Call r creates payment x, named r.
Creates(r, x) ==
    /\ Executes(r, r, x) /\ UNCHANGED txs
    /\ call[r].pkey.op = "create" /\ x.pkey = call[r].pkey
    /\ x.refunded = 0
    /\ \/ /\ x.snap.status \in {"PENDING", "DECLINED", "AUTHORIZED"}
          /\ x.captured = 0
       \/ /\ x.snap = Snapshot("SUCCEEDED", "APPROVED")
          /\ x.captured = Amount /\ x.purchase
    /\ x.snap.sub # "PARTIALLY_REFUNDED"
    /\ x.pending \in {"SUCCEEDED", "DECLINED", "3ds"} => x.snap.status = "PENDING"

\* Call r acts on a payment that is there, and records the transaction.
Acts(r, x, amt, ok) ==
    LET k == call[r].pkey
        p == k.pid
    IN
    /\ Executes(r, p, x) /\ p \in Req /\ ppay[p] # none
    /\ k.op # "create" /\ Effect(p, ppay[p], k.op, amt, x, ok)
    /\ txs' = txs \cup {[pid |-> p, by |-> r, pkey |-> k, amt |-> amt, ok |-> ok]}
    /\ call'[r].resp.kind = "ok" /\ call'[r].resp.refundFailed = ~ok

\* Payment p becomes y by itself.
Passes(p, y) ==
    /\ UNCHANGED <<txs, call>> /\ ppay[p] # none
    /\ Outcome(ppay[p], y) /\ PaymentTakes(p, y)
    /\ \A e \in events' : e \in events \/ Shows(p, y, e) \/ ShowsPending(p, y, e)

\* The four kinds of step.
ProviderMoves ==
    /\ UNCHANGED serviceVars /\ CallsMove /\ RecordsRepeat
    /\ \/ Quiet
       \/ \E r \in Req, x \in ProviderPayment : Creates(r, x)
       \/ \E r \in Req, x \in ProviderPayment, amt \in Money, ok \in BOOLEAN :
            Acts(r, x, amt, ok)
       \/ \E p \in Req, y \in ProviderPayment : Passes(p, y)

\* One call moves; its answer is its own or its record's, or says nothing.
LEMMA OneCallMoves ==
    ASSUME TypeOK, NEW r \in Req, NEW st, NEW a, CallMoves(r, st, a),
           call[r].stage # "none", st # "none",
           st \in {"sent", "begun"} => call[r].stage \in {"sent", "begun"}
    PROVE  /\ CallsMove
           /\ \A s \in Req \ {r} : CallRepeats(s)
           /\ OldAnswer(call[r].pkey, a) => CallRepeats(r)
<1>1. \A s \in Req \ {r} : call'[s] = call[s]
    BY DEF CallMoves
<1>2. call'[r].pkey = call[r].pkey /\ call'[r].stage = st /\ call'[r].resp = a
    BY DEF CallMoves
<1>3. CallsMove
    BY <1>1, <1>2 DEF CallsMove
<1>4. \A s \in Req \ {r} : CallRepeats(s)
    BY <1>1 DEF CallRepeats, OldAnswer
<1>5. OldAnswer(call[r].pkey, a) => CallRepeats(r)
    BY <1>2 DEF CallRepeats
<1> QED
    BY <1>3, <1>4, <1>5

\* Records that stay, or take an answer given before.
LEMMA OneRecordMoves ==
    ASSUME NEW k \in ProviderKey, NEW st, NEW a,
           \/ UNCHANGED pidem
           \/ RecordMoves(k, st, a) /\ OldAnswer(k, a)
    PROVE  RecordsRepeat
<1>1. \A j \in ProviderKey : OldAnswer(j, pidem[j].resp)
    BY DEF OldAnswer
<1>2. \A j \in ProviderKey \ {k} : pidem'[j].resp = pidem[j].resp
    BY DEF RecordMoves
<1>3. OldAnswer(k, pidem'[k].resp)
    BY <1>1 DEF RecordMoves
<1> QED
    BY <1>1, <1>2, <1>3 DEF RecordsRepeat

\* The idempotency gate and the crash of the provider change no payment.
LEMMA GateMoves ==
    ASSUME TypeOK, Shape, UNCHANGED serviceVars,
           \/ \E r \in Req : \/ BeginCall(r) \/ FinishCall(r) \/ FailCall(r)
                             \/ RejectCreate(r)
           \/ ProviderCrash
    PROVE  ProviderMoves
<1>1. ASSUME NEW r \in Req, NEW k \in ProviderKey, k = call[r].pkey,
             UNCHANGED <<ppay, txs, events>>,
             NEW st, NEW a, CallMoves(r, st, a), OldAnswer(k, a),
             call[r].stage # "none", st # "none",
             st \in {"sent", "begun"} => call[r].stage \in {"sent", "begun"},
             NEW su, NEW b,
             \/ UNCHANGED pidem
             \/ RecordMoves(k, su, b) /\ OldAnswer(k, b)
      PROVE  ProviderMoves
  <2>1. CallsMove /\ \A s \in Req : CallRepeats(s)
      BY <1>1, OneCallMoves
  <2>2. RecordsRepeat
      BY <1>1, OneRecordMoves
  <2> QED
      BY <1>1, <2>1, <2>2 DEF ProviderMoves, Quiet
<1>2. ASSUME NEW r \in Req, BeginCall(r) PROVE ProviderMoves
  <2> DEFINE k == call[r].pkey
  <2>1. k \in ProviderKey /\ call[r].stage = "sent" /\ UNCHANGED <<ppay, txs, events>>
      BY <1>2, BeginCallStep
  <2>2. OldAnswer(k, call[r].resp) /\ OldAnswer(k, pidem[k].resp)
      BY <2>1 DEF OldAnswer
  <2>3. \/ CallMoves(r, "begun", call[r].resp)
           /\ RecordMoves(k, "IN_PROGRESS", pidem[k].resp)
        \/ UNCHANGED pidem /\ \E a : CallMoves(r, "answered", a) /\ OldAnswer(k, a)
      BY <1>2, <2>2, BeginCallStep DEF OldAnswer
  <2> HIDE DEF k
  <2> QED
      BY <1>1, <2>1, <2>2, <2>3 DEF k
<1>3. ASSUME NEW r \in Req, FinishCall(r) PROVE ProviderMoves
  <2> DEFINE k == call[r].pkey
             a == call[r].resp
  <2>1. /\ k \in ProviderKey /\ call[r].stage = "executed"
        /\ UNCHANGED <<ppay, txs, events>>
        /\ CallMoves(r, "answered", a)
        /\ RecordMoves(k, "absent", NoResponse) \/ RecordMoves(k, "COMPLETED", a)
      BY <1>3, FinishCallStep
  <2>2. OldAnswer(k, a)
      BY <2>1 DEF OldAnswer
  <2>3. OldAnswer(k, NoResponse)
      BY DEF OldAnswer, NoResponse
  <2> HIDE DEF k, a
  <2> QED
      BY <1>1, <2>1, <2>2, <2>3 DEF k
<1>4. ASSUME NEW r \in Req, FailCall(r) PROVE ProviderMoves
  <2> DEFINE k == call[r].pkey
  <2>1. /\ k \in ProviderKey /\ call[r].stage \in {"begun", "executed"}
        /\ UNCHANGED <<ppay, txs, events>>
        /\ RecordMoves(k, "CONSUMED", pidem[k].resp)
      BY <1>4, FailCallStep
  <2>2. PICK a : CallMoves(r, "answered", a) /\ a.kind = "unknown"
      BY <1>4, FailCallStep
  <2>3. OldAnswer(k, a) /\ OldAnswer(k, pidem[k].resp)
      BY <2>2 DEF OldAnswer
  <2> HIDE DEF k
  <2> QED
      BY <1>1, <2>1, <2>2, <2>3 DEF k
<1>5. ASSUME NEW r \in Req, RejectCreate(r) PROVE ProviderMoves
  <2> DEFINE k == call[r].pkey
  <2>1. /\ k \in ProviderKey /\ call[r].stage = "begun"
        /\ UNCHANGED <<ppay, txs, events>> /\ UNCHANGED pidem
      BY <1>5 DEF RejectCreate, RejectAction, Shape, CallShape
  <2>2. PICK a : CallMoves(r, "executed", a) /\ a.kind = "rejected"
      BY <1>5, RejectStep DEF RejectCreate
  <2>3. OldAnswer(k, a)
      BY <2>2 DEF OldAnswer
  <2> HIDE DEF k
  <2> QED
      BY <1>1, <2>1, <2>2, <2>3 DEF k
<1>6. CASE ProviderCrash
  <2>1. \A s \in Req : call'[s].resp = call[s].resp
      BY <1>6, ProviderCrashStep
  <2>2. CallsMove
      BY <1>6, ProviderCrashStep DEF CallsMove
  <2>3. \A s \in Req : CallRepeats(s)
      BY <2>1 DEF CallRepeats, OldAnswer
  <2>4. RecordsRepeat
      BY <1>6, ProviderCrashStep DEF RecordsRepeat, OldAnswer
  <2> QED
      BY <1>6, <2>2, <2>3, <2>4, ProviderCrashStep DEF ProviderMoves, Quiet
<1> QED
    BY <1>2, <1>3, <1>4, <1>5, <1>6

\* Records that stay repeat their answers.
LEMMA SameRecordsRepeat == UNCHANGED pidem => RecordsRepeat
BY DEF RecordsRepeat, OldAnswer

\* A creation stores one payment and shows it.
LEMMA CreateMoves ==
    ASSUME TypeOK, Shape, UNCHANGED serviceVars, NEW r \in Req, ExecuteCreate(r)
    PROVE  ProviderMoves
<1>1. /\ call[r].stage = "begun" /\ call[r].pkey \in ProviderKey
      /\ call[r].pkey.op = "create" /\ UNCHANGED <<pidem, txs>>
    BY ExecuteCreateStep
<1>2. PICK x, a :
        /\ PaymentTakes(r, x) /\ x.pkey = call[r].pkey
        /\ CallMoves(r, "executed", a)
        /\ \/ a.kind = "unknown"
           \/ a.kind = "ok" /\ Shows(r, x, a)
        /\ \A e \in events' : e \in events \/ Shows(r, x, e)
        /\ x.refunded = 0
        /\ \/ /\ x.snap.status \in {"PENDING", "DECLINED", "AUTHORIZED"}
              /\ x.captured = 0
           \/ /\ x.snap = Snapshot("SUCCEEDED", "APPROVED")
              /\ x.captured = Amount /\ x.purchase
        /\ x.snap.sub # "PARTIALLY_REFUNDED"
        /\ x.pending \in {"SUCCEEDED", "DECLINED", "3ds"} =>
             x.snap.status = "PENDING"
    BY ExecuteCreateStep
<1>3. CallsMove /\ \A s \in Req \ {r} : CallRepeats(s)
    BY <1>1, <1>2, OneCallMoves
<1>4. call'[r].resp = a /\ call'[r].stage = "executed"
    BY <1>2 DEF CallMoves
<1>5. x \in ProviderPayment
    BY <1>2 DEF PaymentTakes
<1>6. Executes(r, r, x)
    BY <1>1, <1>2, <1>3, <1>4 DEF Executes
<1>7. Creates(r, x)
    BY <1>1, <1>2, <1>6 DEF Creates
<1> QED
    BY <1>1, <1>3, <1>5, <1>7, SameRecordsRepeat DEF ProviderMoves

\* A capture, a cancellation or a refund is refused, or changes its payment
\* and adds a transaction.
LEMMA ActionMoves ==
    ASSUME TypeOK, Shape, UNCHANGED serviceVars, NEW r \in Req,
           ExecuteCapture(r) \/ ExecuteCancel(r) \/ ExecuteRefund(r)
    PROVE  ProviderMoves
<1> DEFINE k == call[r].pkey
           p == k.pid
<1>1. /\ call[r].stage = "begun" /\ k \in ProviderKey /\ k.op # "create"
      /\ p \in Req /\ ppay[p] # none /\ UNCHANGED pidem
    BY ExecuteActionStep
<1>2. ASSUME UNCHANGED <<ppay, txs, events>>,
             NEW a, a.kind = "rejected", CallMoves(r, "executed", a)
      PROVE  ProviderMoves
  <2>1. OldAnswer(call[r].pkey, a)
      BY <1>2 DEF OldAnswer
  <2>2. CallsMove /\ \A s \in Req : CallRepeats(s)
      BY <1>1, <1>2, <2>1, OneCallMoves
  <2> QED
      BY <1>1, <1>2, <2>2, SameRecordsRepeat DEF ProviderMoves, Quiet
<1>3. ASSUME NEW new \in ProviderPayment, NEW amt \in Money, NEW ok \in BOOLEAN,
             Effect(p, ppay[p], k.op, amt, new, ok), PaymentTakes(p, new),
             txs' = txs \cup {[pid |-> p, by |-> r, pkey |-> k, amt |-> amt,
                               ok |-> ok]},
             \A e \in events' : e \in events \/ Shows(p, new, e),
             NEW a, CallMoves(r, "executed", a), a.kind = "ok",
             Shows(p, new, a), a.refundFailed = ~ok
      PROVE  ProviderMoves
  <2>1. CallsMove /\ \A s \in Req \ {r} : CallRepeats(s)
      BY <1>1, <1>3, OneCallMoves
  <2>2. call'[r].resp = a /\ call'[r].stage = "executed"
      BY <1>3 DEF CallMoves
  <2>3. Executes(r, p, new)
      BY <1>1, <1>3, <2>1, <2>2 DEF Executes
  <2>4. Acts(r, new, amt, ok)
      BY <1>1, <1>3, <2>2, <2>3 DEF Acts
  <2> QED
      BY <1>1, <1>3, <2>1, <2>4, SameRecordsRepeat DEF ProviderMoves
<1>4. \/ /\ UNCHANGED <<ppay, txs, events>>
         /\ \E a : a.kind = "rejected" /\ CallMoves(r, "executed", a)
      \/ \E new \in ProviderPayment, amt \in Money, ok \in BOOLEAN :
           /\ Effect(p, ppay[p], k.op, amt, new, ok)
           /\ PaymentTakes(p, new)
           /\ txs' = txs \cup {[pid |-> p, by |-> r, pkey |-> k, amt |-> amt,
                                ok |-> ok]}
           /\ \A e \in events' : e \in events \/ Shows(p, new, e)
           /\ \E a : /\ CallMoves(r, "executed", a)
                     /\ a.kind = "ok" /\ Shows(p, new, a)
                     /\ a.refundFailed = ~ok
    BY ExecuteActionStep
<1> HIDE DEF k, p
<1> QED
    BY <1>2, <1>3, <1>4

\* Processing or a 3-D Secure challenge ends, or a stale event is announced.
LEMMA AsyncMoves ==
    ASSUME TypeOK, UNCHANGED serviceVars, NEW p \in Req,
           ProcessingEnds(p) \/ completeThreeDs(p) \/ EmitStaleEvent(p)
    PROVE  ProviderMoves
<1>1. ppay[p] # none /\ UNCHANGED <<pidem, txs, call>>
    BY AsyncStep
<1>2. PICK y : /\ Outcome(ppay[p], y) /\ PaymentTakes(p, y)
               /\ \A e \in events' : \/ e \in events
                                    \/ Shows(p, y, e)
                                    \/ ShowsPending(p, y, e)
    BY AsyncStep
<1>3. Passes(p, y) /\ y \in ProviderPayment
    BY <1>1, <1>2 DEF Passes, PaymentTakes
<1>4. CallsMove
    BY <1>1 DEF CallsMove
<1> QED
    BY <1>1, <1>3, <1>4, SameRecordsRepeat DEF ProviderMoves

\* Every step of the provider is one of the four kinds.
LEMMA AllProviderMoves ==
    ASSUME TypeOK, Shape, ProviderWorks \/ ProviderFails
    PROVE  ProviderMoves
<1>1. UNCHANGED serviceVars
    BY DEF ProviderWorks, ProviderFails
<1> QED
    BY <1>1, GateMoves, CreateMoves, ActionMoves, AsyncMoves
    DEF ProviderWorks, ProviderFails, ProviderStep

-----------------------------------------------------------------------------
(* The provider's steps keep the links. *)

\* Provider payments stay, under the key they were made under.
PaymentsStay ==
    \A p \in Req : ppay[p] # none => /\ ppay'[p] # none
                                     /\ ppay'[p].pkey = ppay[p].pkey

\* What an action or an outcome makes of a payment bears the same key.
LEMMA EffectKey ==
    ASSUME NEW x \in ProviderPayment, NEW p, NEW op, NEW amt, NEW new, NEW ok,
           Effect(p, x, op, amt, new, ok) \/ Outcome(x, new)
    PROVE  new.pkey = x.pkey
<1>1. /\ \A m : /\ captureInStore(x, m).pkey = x.pkey
                 /\ refundInStore(x, m).pkey = x.pkey
                 /\ Terminal(x, m).pkey = x.pkey
      /\ cancelInStore(x).pkey = x.pkey
      /\ [x EXCEPT !.pending = "none"].pkey = x.pkey
    BY StoredKeyKept
<1>2. CASE Effect(p, x, op, amt, new, ok)
    BY <1>1, <1>2 DEF Effect
<1>3. CASE Outcome(x, new)
    BY <1>1, <1>3 DEF Outcome
<1> QED
    BY <1>2, <1>3

\* A payment stays, under its key.
LEMMA MovesStay ==
    ASSUME TypeOK, Links, ProviderMoves
    PROVE  PaymentsStay
<1>1. \A p \in Req : ppay[p] # none => ppay[p] \in ProviderPayment
    BY DEF TypeOK, ProviderTypeOK
<1>2. CASE Quiet
    BY <1>2 DEF Quiet, PaymentsStay
<1>3. ASSUME NEW p \in Req, NEW x \in ProviderPayment, PaymentTakes(p, x),
             ppay[p] # none => x.pkey = ppay[p].pkey
      PROVE  PaymentsStay
    BY <1>3, NoneAssumption DEF PaymentTakes, PaymentsStay
<1>4. ASSUME NEW r \in Req, NEW x \in ProviderPayment, Creates(r, x)
      PROVE  PaymentsStay
  <2>1. ppay[r] = none
      BY <1>4 DEF Creates, Executes, Links, CalledOnce
  <2> QED
      BY <1>3, <1>4, <2>1 DEF Creates, Executes
<1>5. ASSUME NEW r \in Req, NEW x \in ProviderPayment, NEW amt, NEW ok,
             Acts(r, x, amt, ok)
      PROVE  PaymentsStay
  <2> DEFINE p == call[r].pkey.pid
  <2>1. /\ p \in Req /\ ppay[p] # none /\ PaymentTakes(p, x)
        /\ Effect(p, ppay[p], call[r].pkey.op, amt, x, ok)
      BY <1>5 DEF Acts, Executes
  <2>2. x.pkey = ppay[p].pkey
      BY <1>1, <2>1, EffectKey
  <2> QED
      BY <1>3, <2>1, <2>2
<1>6. ASSUME NEW p \in Req, NEW y \in ProviderPayment, Passes(p, y)
      PROVE  PaymentsStay
  <2>1. y.pkey = ppay[p].pkey
      BY <1>1, <1>6, EffectKey DEF Passes
  <2> QED
      BY <1>3, <1>6, <2>1 DEF Passes
<1> QED
    BY <1>2, <1>4, <1>5, <1>6 DEF ProviderMoves

\* A view of a payment still shows it, once the payment has changed.
LEMMA AboutKept ==
    ASSUME NEW k, NEW v, About(ppay, k, v), GoodView(v), PaymentsStay
    PROVE  About(ppay', k, v)
BY DEF About, GoodView, PaymentsStay

\* An answer given before is about its key's payment.
LEMMA OldAnswerAbout ==
    ASSUME TypeOK, Shape, Links, PaymentsStay, NEW k \in ProviderKey, NEW v,
           OldAnswer(k, v)
    PROVE  About(ppay', k, v)
<1>1. CASE v.kind # "ok"
    BY <1>1 DEF About
<1>2. CASE v = pidem[k].resp
  <2>1. About(ppay, k, v) /\ GoodView(v)
      BY <1>2 DEF Links, AnswersAbout, Shape, ViewShape
  <2> QED
      BY <2>1, AboutKept
<1>3. ASSUME NEW s \in Req, call[s].stage # "none", call[s].pkey = k,
             v = call[s].resp
      PROVE  About(ppay', k, v)
  <2>1. About(ppay, k, v) /\ GoodView(v)
      BY <1>3 DEF Links, AnswersAbout, Shape, ViewShape
  <2> QED
      BY <2>1, AboutKept
<1> QED
    BY <1>1, <1>2, <1>3 DEF OldAnswer

\* The answer to a call that executes is about its key's payment, too.
LEMMA MovesAbout ==
    ASSUME TypeOK, Shape, Links, PaymentsStay, ProviderMoves,
           NEW s \in Req, call[s].stage # "none"
    PROVE  About(ppay', call[s].pkey, call'[s].resp)
<1>0. call[s].pkey \in ProviderKey
    BY DEF Shape, CallShape
<1>1. CASE CallRepeats(s)
    BY <1>0, <1>1, OldAnswerAbout DEF CallRepeats
<1>2. ASSUME NEW x \in ProviderPayment, Creates(s, x)
      PROVE  About(ppay', call[s].pkey, call'[s].resp)
    BY <1>2 DEF Creates, Executes, PaymentTakes, Shows, About
<1>3. ASSUME NEW x \in ProviderPayment, NEW amt, NEW ok, Acts(s, x, amt, ok)
      PROVE  About(ppay', call[s].pkey, call'[s].resp)
    BY <1>3 DEF Acts, Executes, Shows, About
<1>4. CASE UNCHANGED call
    BY <1>1, <1>4 DEF CallRepeats, OldAnswer
<1>5. \/ CallRepeats(s) \/ UNCHANGED call
      \/ \E x \in ProviderPayment : Creates(s, x)
      \/ \E x \in ProviderPayment, amt \in Money, ok \in BOOLEAN : Acts(s, x, amt, ok)
    BY DEF ProviderMoves, Quiet, Creates, Acts, Executes, Passes
<1> QED
    BY <1>1, <1>2, <1>3, <1>4, <1>5

\* Until a call executes, no payment bears its request's name.
LEMMA MovesCalledOnce ==
    ASSUME TypeOK, Shape, Links, ProviderMoves
    PROVE  CalledOnce'
<1>1. \A s \in Req : Early(s)' => call'[s].stage = "none"
    BY DEF Links, CalledOnce, Early, ProviderMoves, CallsMove, serviceVars,
           processVars
<1>2. ASSUME NEW s \in Req, call'[s].stage \in {"none", "sent", "begun"}
      PROVE  ppay'[s] = none
  <2>1. call[s].stage \in {"none", "sent", "begun"} /\ ppay[s] = none
      BY <1>2 DEF ProviderMoves, CallsMove, Links, CalledOnce
  <2>2. ASSUME NEW p \in Req, NEW x, PaymentTakes(p, x), p # s
        PROVE  ppay'[s] = none
      BY <2>1, <2>2 DEF PaymentTakes
  <2>3. ASSUME NEW r \in Req, NEW x, Creates(r, x) PROVE ppay'[s] = none
      BY <1>2, <2>2, <2>3 DEF Creates, Executes
  <2>4. ASSUME NEW r \in Req, NEW x, NEW amt, NEW ok, Acts(r, x, amt, ok)
        PROVE  ppay'[s] = none
      BY <2>1, <2>2, <2>4 DEF Acts, Executes
  <2>5. ASSUME NEW p \in Req, NEW y, Passes(p, y) PROVE ppay'[s] = none
      BY <2>1, <2>2, <2>5 DEF Passes
  <2> QED
      BY <2>1, <2>3, <2>4, <2>5 DEF ProviderMoves, Quiet
<1> QED
    BY <1>1, <1>2 DEF CalledOnce

\* The provider keeps the links: a charge is named by the call that made it.
LEMMA ProviderLinks ==
    ASSUME TypeOK, Shape, Links, ProviderMoves
    PROVE  Links'
<1>1. PaymentsStay
    BY MovesStay
<1>2. UNCHANGED <<pc, arg, pay, payments, refunds, poll>>
    BY DEF ProviderMoves, serviceVars, storeVars, processVars
<1>3. CallsMove
    BY DEF ProviderMoves
<1>4. AnswersAbout'
  <2>1. \A s \in Req : call'[s].stage # "none" =>
                         About(ppay', call'[s].pkey, call'[s].resp)
      BY <1>1, <1>3, MovesAbout DEF CallsMove
  <2>2. \A k \in ProviderKey : About(ppay', k, pidem'[k].resp)
      BY <1>1, OldAnswerAbout DEF ProviderMoves, RecordsRepeat
  <2> QED
      BY <2>1, <2>2 DEF AnswersAbout
<1>5. \A r \in Req : TargetOf(r) => TargetOf(r)'
    BY <1>2, <1>3 DEF TargetOf, CallsMove, Early, Linked
<1>6. \A g \in Poller : PollTargetOf(g) => PollTargetOf(g)'
    BY <1>2 DEF PollTargetOf, Linked
<1>7. Targets'
    BY <1>2, <1>5, <1>6 DEF Links, Targets
<1>8. LinkedToOwnCharge'
  <2>1. \A p \in Req : Linked(p) => payments[p].pid \in Req
      BY LinkTyped
  <2> QED
      BY <1>1, <1>2, <2>1
      DEF Links, LinkedToOwnCharge, PaymentsStay, Linked
<1>9. RecordsAreLate' /\ RefundsAreLinked'
    BY <1>2 DEF Links, RecordsAreLate, RefundsAreLinked, Early, Linked
<1> QED
    BY <1>4, <1>7, <1>8, <1>9, MovesCalledOnce DEF Links

\* Every step keeps the links.
LEMMA NextLinks ==
    TypeOK /\ Shape /\ Gate /\ Charges /\ Links /\ [Next]_vars => Links'
<1> SUFFICES ASSUME TypeOK, Shape, Gate, Charges, Links, [Next]_vars
             PROVE  Links'
    OBVIOUS
<1>1. CASE ProviderWorks \/ ProviderFails
    BY <1>1, AllProviderMoves, ProviderLinks
<1>2. CASE LinksKept
  <2>1. TypeOK' /\ Shape'
      BY NextShape
  <2> QED
      BY <1>2, <2>1, LinksFrame
<1> QED
    BY <1>1, <1>2, PlatformLinks DEF Next

-----------------------------------------------------------------------------
(* The provider's payments, and the claims made from them.                  *)

\* Statuses a payment does not leave.
Final == {"DECLINED", "EXPIRED", "CANCELED", "REFUNDED"}

\* What a stored payment says of itself.
Sound(x) ==
    /\ x.refunded <= x.captured
    /\ x.snap.status = "SUCCEEDED" => x.captured > 0
    /\ x.snap.sub = "PARTIALLY_REFUNDED" => x.refunded > 0
    /\ x.snap.status = "PENDING" => x.captured = 0
    /\ x.pending \in {"SUCCEEDED", "DECLINED", "3ds"} => x.snap.status = "PENDING"

\* All payments are sound.
SoundPayments == \A p \in Req : ppay[p] # none => Sound(ppay[p])

\* How a payment changes: amounts grow, a final status stays.
Advances(x, y) ==
    /\ x.captured <= y.captured
    /\ x.refunded <= y.refunded
    /\ x.snap.status \in Final => y.snap.status = x.snap.status

\* Payment c backs what a view or an event says of it, now or before.
Backs(c, v) ==
    /\ v.captured <= c.captured
    /\ v.refunded <= c.refunded
    /\ v.snap.status = "SUCCEEDED" => v.captured > 0
    /\ v.snap.sub = "PARTIALLY_REFUNDED" => v.refunded > 0
    /\ v.snap.status \in Final => c.snap.status = v.snap.status

\* Payment c backs the public status s.
BacksStatus(c, s) ==
    /\ s = "succeeded" => c.captured > 0
    /\ s = "partially_refunded" => c.refunded > 0
    /\ s = "refunded" => c.snap.status = "REFUNDED"
    /\ s = "canceled" => c.snap.status = "CANCELED"
    /\ s = "declined" => c.snap.status = "DECLINED"
    /\ s = "failed" => c.snap.status = "EXPIRED"

\* The payments P back the answer v.
ViewBacked(P, v) ==
    v.kind = "ok" => /\ v.pid \in Req /\ v.snap \in ProviderSnapshot
                     /\ P[v.pid] # none /\ Backs(P[v.pid], v)

\* The payments P back the event e.
EventBacked(P, e) == P[e.pid] # none /\ Backs(P[e.pid], e)

\* Every answer, view and event in flight is backed.
ViewsBacked ==
    /\ \A r \in Req : call[r].stage # "none" => ViewBacked(ppay, call[r].resp)
    /\ \A k \in ProviderKey : ViewBacked(ppay, pidem[k].resp)
    /\ \A g \in Poller : poll[g].at # "idle" => ViewBacked(ppay, poll[g].view)
    /\ \A e \in events : EventBacked(ppay, e)

\* The amounts a refund read before its call.
PriorsBacked ==
    \A r \in Req : pc[r] = "wait" /\ arg[r].op # "create" =>
                     prior[r].refunded <= ppay[call[r].pkey.pid].refunded

\* What a record says of a charge.
ClaimBacked(c, x) ==
    /\ x.captured <= c.captured /\ x.refunded <= c.refunded
    /\ BacksStatus(c, x.status)

\* Every linked record is backed by its charge.
RecordsBacked ==
    \A p \in Req : Linked(p) => ClaimBacked(ppay[payments[p].pid], payments[p])

\* The inductive invariant of the claims.
Claims == SoundPayments /\ ViewsBacked /\ PriorsBacked /\ RecordsBacked

\* Amounts of payments are numbers.
LEMMA PaymentAmounts ==
    \A x \in ProviderPayment : x.captured \in Nat /\ x.refunded \in Nat
BY MoneyFacts DEF ProviderPayment

\* Captures, cancellations and refunds take a payment forward.
LEMMA EffectAdvances ==
    ASSUME NEW x \in ProviderPayment, Sound(x), NEW new \in ProviderPayment,
           NEW p, NEW op, NEW amt \in Money, NEW ok,
           Effect(p, x, op, amt, new, ok)
    PROVE  Sound(new) /\ Advances(x, new)
<1>1. /\ x.captured \in Nat /\ x.refunded \in Nat /\ amt \in Nat /\ Amount \in Nat
      /\ new.captured \in Nat /\ new.refunded \in Nat
    BY PaymentAmounts, MoneyFacts
<1>2. CASE op = "capture"
  <2> DEFINE c == x.captured + amt
             s == Snapshot("SUCCEEDED", IF c = Amount THEN "CAPTURED"
                                        ELSE "PARTIALLY_CAPTURED")
  <2>1. /\ new = [x EXCEPT !.captured = c, !.snap = s] /\ OpenAuthorization(x)
        /\ amt > 0
      BY <1>2 DEF Effect, captureInStore, CanCapture
  <2>2. s.status = "SUCCEEDED" /\ s.sub \in {"CAPTURED", "PARTIALLY_CAPTURED"}
      BY DEF Snapshot
  <2>3. x.snap.status \in {"AUTHORIZED", "SUCCEEDED"}
      BY <2>1 DEF OpenAuthorization, Snapshot
  <2>4. c \in Nat /\ x.captured < c
      BY <1>1, <2>1
  <2> HIDE DEF c, s
  <2>5. /\ new.captured = c /\ new.snap = s /\ new.refunded = x.refunded
        /\ new.pending = x.pending
      BY <2>1 DEF ProviderPayment
  <2> QED
      BY <1>1, <2>2, <2>3, <2>4, <2>5 DEF Sound, Advances, Final
<1>3. CASE op = "cancel"
  <2> DEFINE s == IF x.captured = 0 THEN Snapshot("CANCELED", "CANCELED")
                  ELSE Snapshot("SUCCEEDED", "CAPTURED")
  <2>1. new = [x EXCEPT !.snap = s] /\ OpenAuthorization(x)
      BY <1>3 DEF Effect, cancelInStore, CanCancel
  <2>2. /\ x.captured = 0 => s.status = "CANCELED" /\ s.sub = "CANCELED"
        /\ x.captured # 0 => s.status = "SUCCEEDED" /\ s.sub = "CAPTURED"
      BY DEF Snapshot
  <2>3. x.snap.status \in {"AUTHORIZED", "SUCCEEDED"}
      BY <2>1 DEF OpenAuthorization, Snapshot
  <2> HIDE DEF s
  <2>4. /\ new.captured = x.captured /\ new.snap = s /\ new.refunded = x.refunded
        /\ new.pending = x.pending
      BY <2>1 DEF ProviderPayment
  <2> QED
      BY <1>1, <2>2, <2>3, <2>4 DEF Sound, Advances, Final
<1>4. CASE op = "refund"
  <2> DEFINE f == x.refunded + amt
             s == IF f = x.captured THEN Snapshot("REFUNDED", "REFUNDED")
                  ELSE Snapshot("SUCCEEDED", "PARTIALLY_REFUNDED")
  <2>1. CASE new = x
      BY <1>1, <2>1 DEF Advances, Final
  <2>2. CASE new = [x EXCEPT !.refunded = f, !.snap = s]
    <3>1. /\ x.snap.status = "SUCCEEDED" /\ amt > 0
          /\ amt <= x.captured - x.refunded
        BY <1>4 DEF Effect, CanRefund, remainingRefundable
    <3>2. f \in Nat /\ f > x.refunded /\ f <= x.captured
        BY <1>1, <3>1
    <3>3. /\ s.status \in {"REFUNDED", "SUCCEEDED"}
          /\ s.sub \in {"REFUNDED", "PARTIALLY_REFUNDED"}
        BY DEF Snapshot
    <3> HIDE DEF f, s
    <3>4. /\ new.captured = x.captured /\ new.snap = s /\ new.refunded = f
          /\ new.pending = x.pending
        BY <2>2 DEF ProviderPayment
    <3> QED
        BY <1>1, <3>1, <3>2, <3>3, <3>4 DEF Sound, Advances, Final
  <2>3. new = x \/ new = [x EXCEPT !.refunded = f, !.snap = s]
      BY <1>4 DEF Effect, refundInStore
  <2> QED
      BY <2>1, <2>2, <2>3
<1> QED
    BY <1>2, <1>3, <1>4 DEF Effect

\* So does the end of processing or of a 3-D Secure challenge.
LEMMA OutcomeAdvances ==
    ASSUME NEW x \in ProviderPayment, Sound(x), NEW y \in ProviderPayment,
           Outcome(x, y)
    PROVE  Sound(y) /\ Advances(x, y)
<1>1. /\ x.captured \in Nat /\ x.refunded \in Nat /\ Amount \in Nat
      /\ Amount > 0
    BY PaymentAmounts, WireAssumption
<1>2. CASE y = [x EXCEPT !.pending = "none"]
  <2>1. /\ y.captured = x.captured /\ y.refunded = x.refunded /\ y.snap = x.snap
        /\ y.pending = "none"
      BY <1>2 DEF ProviderPayment
  <2> QED
      BY <1>1, <2>1 DEF Sound, Advances
<1>3. ASSUME x.pending \in {"SUCCEEDED", "DECLINED", "3ds"},
             NEW s \in {Snapshot("SUCCEEDED", "APPROVED"),
                        Snapshot("AUTHORIZED", "AUTHORIZED"),
                        Snapshot("DECLINED", "DECLINED"),
                        Snapshot("EXPIRED", "EXPIRED")},
             y = Terminal(x, s)
      PROVE  Sound(y) /\ Advances(x, y)
  <2>1. x.snap.status = "PENDING" /\ x.captured = 0 /\ x.refunded = 0
      BY <1>1, <1>3 DEF Sound
  <2>2. /\ s.status \in {"SUCCEEDED", "AUTHORIZED", "DECLINED", "EXPIRED"}
        /\ s.sub # "PARTIALLY_REFUNDED"
      BY <1>3 DEF Snapshot
  <2>3. /\ y.captured = (IF s.status = "SUCCEEDED" THEN Amount ELSE 0)
        /\ y.refunded = 0 /\ y.snap = s /\ y.pending = "none"
      BY <1>3, <2>1 DEF Terminal, ProviderPayment
  <2> QED
      BY <1>1, <2>1, <2>2, <2>3 DEF Sound, Advances, Final
<1> QED
    BY <1>2, <1>3 DEF Outcome

\* A payment backs what was just shown of it ...
LEMMA ShownIsBacked ==
    ASSUME NEW x \in ProviderPayment, Sound(x), NEW p, NEW v,
           Shows(p, x, v) \/ ShowsPending(p, x, v)
    PROVE  Backs(x, v)
<1>1. x.captured \in Nat /\ x.refunded \in Nat
    BY PaymentAmounts
<1>2. CASE Shows(p, x, v)
    BY <1>1, <1>2 DEF Shows, Backs, Sound
<1>3. CASE ShowsPending(p, x, v)
  <2>1. v.snap.status = "PENDING" /\ v.snap.sub = "IN_PROCESS"
      BY <1>3 DEF ShowsPending, Snapshot
  <2> QED
      BY <1>1, <1>3, <2>1 DEF ShowsPending, Backs, Final
<1> QED
    BY <1>2, <1>3

\* ... and goes on to, as it advances.
LEMMA BackedAdvances ==
    ASSUME NEW x \in ProviderPayment, NEW y \in ProviderPayment, Advances(x, y)
    PROVE  /\ \A v : /\ v.captured \in Nat /\ v.refunded \in Nat
                     /\ Backs(x, v)
                     => Backs(y, v)
           /\ \A z \in Payment : ClaimBacked(x, z) => ClaimBacked(y, z)
<1>1. /\ x.captured \in Nat /\ x.refunded \in Nat
      /\ y.captured \in Nat /\ y.refunded \in Nat
    BY PaymentAmounts
<1>2. \A z \in Payment : z.captured \in Nat /\ z.refunded \in Nat
    BY MoneyFacts DEF Payment
<1>3. ASSUME NEW v, v.captured \in Nat, v.refunded \in Nat, Backs(x, v)
      PROVE  Backs(y, v)
    BY <1>1, <1>3 DEF Backs, Advances, Final
<1>4. ASSUME NEW z \in Payment, ClaimBacked(x, z) PROVE ClaimBacked(y, z)
    BY <1>1, <1>2, <1>4 DEF ClaimBacked, BacksStatus, Advances, Final
<1> QED
    BY <1>3, <1>4

\* Provider payments only move forward.
PaymentsAdvance ==
    \A p \in Req : ppay[p] # none => /\ ppay'[p] # none
                                     /\ Advances(ppay[p], ppay'[p])

\* A payment that does not change advances.
LEMMA SelfAdvances == \A x \in ProviderPayment : Advances(x, x)
BY PaymentAmounts DEF Advances

\* Payments only advance, and stay sound.
LEMMA MovesAdvance ==
    ASSUME TypeOK, Links, SoundPayments, ProviderMoves
    PROVE  PaymentsAdvance /\ SoundPayments'
<1>1. \A p \in Req : ppay[p] # none => ppay[p] \in ProviderPayment /\ Sound(ppay[p])
    BY DEF TypeOK, ProviderTypeOK, SoundPayments
<1>2. CASE Quiet
    BY <1>1, <1>2, SelfAdvances DEF Quiet, PaymentsAdvance, SoundPayments
<1>3. ASSUME NEW p \in Req, NEW x \in ProviderPayment, PaymentTakes(p, x),
             Sound(x), ppay[p] # none => Advances(ppay[p], x)
      PROVE  PaymentsAdvance /\ SoundPayments'
  <2>1. ppay'[p] = x /\ \A q \in Req \ {p} : ppay'[q] = ppay[q]
      BY <1>3 DEF PaymentTakes
  <2>2. PaymentsAdvance
      BY <1>1, <1>3, <2>1, SelfAdvances, NoneAssumption DEF PaymentsAdvance
  <2>3. SoundPayments'
      BY <1>1, <1>3, <2>1 DEF SoundPayments
  <2> QED
      BY <2>2, <2>3
<1>4. ASSUME NEW r \in Req, NEW x \in ProviderPayment, Creates(r, x)
      PROVE  PaymentsAdvance /\ SoundPayments'
  <2>1. ppay[r] = none /\ PaymentTakes(r, x)
      BY <1>4 DEF Creates, Executes, Links, CalledOnce
  <2>2. Sound(x)
    <3>1. Snapshot("SUCCEEDED", "APPROVED").status = "SUCCEEDED"
        BY DEF Snapshot
    <3>2. /\ x.refunded = 0 /\ x.snap.sub # "PARTIALLY_REFUNDED"
          /\ x.pending \in {"SUCCEEDED", "DECLINED", "3ds"} =>
               x.snap.status = "PENDING"
          /\ \/ /\ x.snap.status \in {"PENDING", "DECLINED", "AUTHORIZED"}
                /\ x.captured = 0
             \/ x.snap.status = "SUCCEEDED" /\ x.captured = Amount
        BY <1>4, <3>1 DEF Creates
    <3>3. Amount \in Nat /\ Amount > 0
        BY WireAssumption
    <3> QED
        BY <3>2, <3>3 DEF Sound
  <2> QED
      BY <1>3, <2>1, <2>2
<1>5. ASSUME NEW r \in Req, NEW x \in ProviderPayment, NEW amt \in Money, NEW ok,
             Acts(r, x, amt, ok)
      PROVE  PaymentsAdvance /\ SoundPayments'
  <2> DEFINE p == call[r].pkey.pid
  <2>1. /\ p \in Req /\ ppay[p] # none /\ PaymentTakes(p, x)
        /\ Effect(p, ppay[p], call[r].pkey.op, amt, x, ok)
      BY <1>5 DEF Acts, Executes
  <2>2. Sound(x) /\ Advances(ppay[p], x)
      BY <1>1, <2>1, EffectAdvances
  <2> QED
      BY <1>3, <2>1, <2>2
<1>6. ASSUME NEW p \in Req, NEW y \in ProviderPayment, Passes(p, y)
      PROVE  PaymentsAdvance /\ SoundPayments'
  <2>1. Sound(y) /\ Advances(ppay[p], y)
      BY <1>1, <1>6, OutcomeAdvances DEF Passes
  <2> QED
      BY <1>3, <1>6, <2>1 DEF Passes
<1> QED
    BY <1>2, <1>4, <1>5, <1>6 DEF ProviderMoves

\* What was backed stays backed.
LEMMA BackedStays ==
    ASSUME TypeOK, TypeOK', PaymentsAdvance
    PROVE  /\ \A v \in Response : ViewBacked(ppay, v) => ViewBacked(ppay', v)
           /\ \A e \in Event : EventBacked(ppay, e) => EventBacked(ppay', e)
           /\ \A p \in Req : ppay[p] # none =>
                \A z \in Payment : ClaimBacked(ppay[p], z) => ClaimBacked(ppay'[p], z)
<1>1. \A p \in Req : ppay[p] # none =>
        /\ ppay[p] \in ProviderPayment /\ ppay'[p] \in ProviderPayment
        /\ ppay'[p] # none /\ Advances(ppay[p], ppay'[p])
    BY DEF TypeOK, ProviderTypeOK, PaymentsAdvance
<1>2. /\ \A v \in Response : v.captured \in Nat /\ v.refunded \in Nat
      /\ \A e \in Event : /\ e.captured \in Nat /\ e.refunded \in Nat
                          /\ e.pid \in Req
    BY MoneyFacts DEF Response, Event
<1>3. \A v \in Response : ViewBacked(ppay, v) => ViewBacked(ppay', v)
    BY <1>1, <1>2, BackedAdvances DEF ViewBacked
<1>4. \A e \in Event : EventBacked(ppay, e) => EventBacked(ppay', e)
    BY <1>1, <1>2, BackedAdvances DEF EventBacked
<1>5. \A p \in Req : ppay[p] # none =>
        \A z \in Payment : ClaimBacked(ppay[p], z) => ClaimBacked(ppay'[p], z)
    BY <1>1, BackedAdvances
<1> QED
    BY <1>3, <1>4, <1>5

\* An answer given before is backed.
LEMMA OldAnswerBacked ==
    ASSUME TypeOK, Claims, NEW k \in ProviderKey, NEW v, OldAnswer(k, v)
    PROVE  /\ ViewBacked(ppay, v)
           /\ v.kind = "ok" => v \in Response
<1>1. /\ \A s \in Req : call[s].resp \in Response
      /\ pidem[k].resp \in Response
    BY DEF TypeOK, WireTypeOK, ProviderTypeOK, Call
<1> QED
    BY <1>1 DEF OldAnswer, Claims, ViewsBacked, ViewBacked

\* What the provider answers and announces is backed.
LEMMA ProviderViews ==
    ASSUME TypeOK, TypeOK', Shape, Links, Claims, ProviderMoves
    PROVE  ViewsBacked'
<1>1. PaymentsAdvance /\ SoundPayments'
    BY MovesAdvance DEF Claims
<1>2. /\ \A v \in Response : ViewBacked(ppay, v) => ViewBacked(ppay', v)
      /\ \A e \in Event : EventBacked(ppay, e) => EventBacked(ppay', e)
    BY <1>1, BackedStays
<1>3. \A k \in ProviderKey : \A v : OldAnswer(k, v) => ViewBacked(ppay', v)
  <2> SUFFICES ASSUME NEW k \in ProviderKey, NEW v, OldAnswer(k, v)
               PROVE  ViewBacked(ppay', v)
      OBVIOUS
  <2>1. CASE v.kind # "ok"
      BY <2>1 DEF ViewBacked
  <2>2. CASE v.kind = "ok"
      BY <1>2, <2>2, OldAnswerBacked
  <2> QED
      BY <2>1, <2>2
<1>4. \A k \in ProviderKey : ViewBacked(ppay', pidem'[k].resp)
    BY <1>3 DEF ProviderMoves, RecordsRepeat
<1>5. \A g \in Poller : poll'[g].at # "idle" => ViewBacked(ppay', poll'[g].view)
  <2>1. UNCHANGED poll /\ \A g \in Poller : poll[g].view \in Response
      BY DEF ProviderMoves, serviceVars, processVars, TypeOK, ServiceTypeOK, PollRec
  <2> QED
      BY <1>2, <2>1 DEF Claims, ViewsBacked
<1>6. ASSUME NEW p \in Req, NEW x \in ProviderPayment, PaymentTakes(p, x),
             NEW v, Shows(p, x, v) \/ ShowsPending(p, x, v)
      PROVE  v.pid \in Req /\ ppay'[v.pid] # none /\ Backs(ppay'[v.pid], v)
  <2>1. ppay'[p] = x /\ x # none /\ v.pid = p
      BY <1>6, NoneAssumption DEF PaymentTakes, Shows, ShowsPending
  <2>2. Sound(x)
      BY <1>1, <2>1 DEF SoundPayments
  <2>3. Backs(x, v)
      BY <1>6, <2>2, ShownIsBacked
  <2> QED
      BY <2>1, <2>3
<1>7. \A s \in Req : call'[s].stage # "none" => ViewBacked(ppay', call'[s].resp)
  <2> SUFFICES ASSUME NEW s \in Req, call[s].stage # "none"
               PROVE  ViewBacked(ppay', call'[s].resp)
      BY DEF ProviderMoves, CallsMove
  <2>1. call[s].pkey \in ProviderKey
      BY DEF Shape, CallShape
  <2>2. CASE CallRepeats(s)
      BY <1>3, <2>1, <2>2 DEF CallRepeats
  <2>3. CASE UNCHANGED call
      BY <2>2, <2>3 DEF CallRepeats, OldAnswer
  <2>4. ASSUME NEW p \in Req, NEW x \in ProviderPayment, Executes(s, p, x)
        PROVE  ViewBacked(ppay', call'[s].resp)
      BY <1>6, <2>4 DEF Executes, ViewBacked, Shows, ProviderPayment
  <2>5. \/ CallRepeats(s) \/ UNCHANGED call
        \/ \E p \in Req, x \in ProviderPayment : Executes(s, p, x)
      BY DEF ProviderMoves, Quiet, Creates, Acts, Executes, Passes
  <2> QED
      BY <2>2, <2>3, <2>4, <2>5
<1>8. \A e \in events' : EventBacked(ppay', e)
  <2>1. \A e \in events : EventBacked(ppay', e)
      BY <1>2 DEF Claims, ViewsBacked, TypeOK, ProviderTypeOK
  <2>2. ASSUME NEW p \in Req, NEW x \in ProviderPayment, PaymentTakes(p, x),
               NEW e, Shows(p, x, e) \/ ShowsPending(p, x, e)
        PROVE  EventBacked(ppay', e)
      BY <1>6, <2>2 DEF EventBacked
  <2>3. \/ UNCHANGED events
        \/ \E p \in Req, x \in ProviderPayment :
             /\ PaymentTakes(p, x)
             /\ \A e \in events' : \/ e \in events
                                  \/ Shows(p, x, e) \/ ShowsPending(p, x, e)
      BY DEF ProviderMoves, Quiet, Creates, Acts, Executes, Passes
  <2> QED
      BY <2>1, <2>2, <2>3
<1> QED
    BY <1>4, <1>5, <1>7, <1>8 DEF ViewsBacked

\* The provider's steps take nothing away from what was claimed.
LEMMA ProviderClaims ==
    ASSUME TypeOK, TypeOK', Shape, Links, Claims, ProviderMoves
    PROVE  Claims'
<1>1. PaymentsAdvance /\ SoundPayments'
    BY MovesAdvance DEF Claims
<1>2. /\ UNCHANGED <<pc, arg, prior, payments>>
      /\ \A s \in Req : call'[s].pkey = call[s].pkey
    BY DEF ProviderMoves, serviceVars, storeVars, processVars, CallsMove
<1>3. PriorsBacked'
  <2> SUFFICES ASSUME NEW r \in Req, pc[r] = "wait", arg[r].op # "create"
               PROVE  prior[r].refunded <= ppay'[call[r].pkey.pid].refunded
      BY <1>2 DEF PriorsBacked
  <2> DEFINE p == call[r].pkey.pid
  <2>1. p \in Req /\ ppay[p] # none
      BY DEF Shape, PcShape, CallShape
  <2>2. prior[r].refunded <= ppay[p].refunded
      BY DEF Claims, PriorsBacked
  <2>3. ppay[p].refunded <= ppay'[p].refunded
      BY <1>1, <2>1 DEF PaymentsAdvance, Advances
  <2>4. ppay[p] \in ProviderPayment /\ ppay'[p] \in ProviderPayment
      BY <1>1, <2>1 DEF PaymentsAdvance, TypeOK, ProviderTypeOK
  <2>5. ppay[p].refunded \in Nat /\ ppay'[p].refunded \in Nat
      BY <2>4, PaymentAmounts
  <2>6. prior[r].refunded \in Nat
      BY MoneyFacts DEF TypeOK, ServiceTypeOK
  <2> HIDE DEF p
  <2> QED
      BY <2>2, <2>3, <2>5, <2>6 DEF p
<1>4. RecordsBacked'
  <2>1. \A p \in Req : Linked(p) =>
          /\ payments[p] \in Payment /\ payments[p].pid \in Req
          /\ ppay[payments[p].pid] # none
      BY LinkTyped DEF TypeOK, ServiceTypeOK, Linked, Shape, LinkShape
  <2>2. \A p \in Req : ppay[p] # none =>
          \A z \in Payment : ClaimBacked(ppay[p], z) => ClaimBacked(ppay'[p], z)
      BY <1>1, BackedStays
  <2> QED
      BY <1>2, <2>1, <2>2 DEF Claims, RecordsBacked, Linked
<1> QED
    BY <1>1, <1>3, <1>4, ProviderViews DEF Claims

\* The platform's steps: what each writes into a record, keeps as a view, or
\* reads before a call is backed by the provider's payment.
RecordClaimed(p) ==
    \/ payments'[p] = payments[p]
    \/ payments'[p] # none /\ payments'[p].pid # none =>
         ClaimBacked(ppay[payments'[p].pid], payments'[p])

\* Poller g is as it was, or holds a backed view.
PollBacked(g) ==
    poll'[g].at # "idle" => \/ poll'[g] = poll[g]
                            \/ ViewBacked(ppay, poll'[g].view)

\* Request s holds no amount above what the charge has refunded.
PriorKept(s) ==
    pc'[s] = "wait" /\ arg'[s].op # "create" =>
      \/ /\ pc[s] = "wait" /\ arg'[s] = arg[s] /\ call'[s] = call[s]
         /\ prior'[s] = prior[s]
      \/ prior'[s].refunded <= ppay[call'[s].pkey.pid].refunded

\* A step of the platform claims only what is backed.
ClaimsKept ==
    /\ UNCHANGED <<ppay, events>>
    /\ \A s \in Req : RecordClaimed(s) /\ PriorKept(s)
    /\ \A g \in Poller : PollBacked(g)

\* Steps of the platform that claim only what is backed keep the claims.
LEMMA ClaimsFrame ==
    ASSUME TypeOK, Shape, LinksKept, ClaimsKept, Claims
    PROVE  Claims'
<1>1. UNCHANGED <<ppay, pidem, events>>
    BY DEF LinksKept, ClaimsKept
<1>2. SoundPayments'
    BY <1>1 DEF Claims, SoundPayments
<1>3. ViewsBacked'
  <2>1. ASSUME NEW r \in Req, call'[r].stage # "none"
        PROVE  ViewBacked(ppay, call'[r].resp)
    <3>1. NoResponse.kind # "ok"
        BY DEF NoResponse
    <3>2. call'[r] = call[r] \/ call'[r].resp = NoResponse
        BY DEF LinksKept, CallKept
    <3> QED
        BY <2>1, <3>1, <3>2 DEF Claims, ViewsBacked, ViewBacked
  <2>2. ASSUME NEW g \in Poller, poll'[g].at # "idle"
        PROVE  ViewBacked(ppay, poll'[g].view)
      BY <2>2 DEF ClaimsKept, PollBacked, Claims, ViewsBacked
  <2> QED
      BY <1>1, <2>1, <2>2 DEF Claims, ViewsBacked
<1>4. PriorsBacked'
    BY <1>1 DEF Claims, PriorsBacked, ClaimsKept, PriorKept
<1>5. RecordsBacked'
    BY <1>1 DEF Claims, RecordsBacked, ClaimsKept, RecordClaimed, Linked
<1> QED
    BY <1>2, <1>3, <1>4, <1>5 DEF Claims

\* The public status of a backed view is backed.
LEMMA ViewClaims ==
    ASSUME NEW c \in ProviderPayment, NEW v, v.snap \in ProviderSnapshot,
           v.captured \in Nat, v.refunded \in Nat, Backs(c, v)
    PROVE  LET s == mapYunoPaymentStatus(v.snap) IN
           /\ BacksStatus(c, s)
           /\ v.captured <= c.captured /\ v.refunded <= c.refunded
           /\ s \in {"succeeded", "partially_refunded"} => v.captured > 0
<1> DEFINE s == mapYunoPaymentStatus(v.snap)
<1>1. /\ s = "succeeded" => v.snap.status = "SUCCEEDED"
      /\ s = "partially_refunded" => /\ v.snap.status = "SUCCEEDED"
                                     /\ v.snap.sub = "PARTIALLY_REFUNDED"
      /\ s = "refunded" => v.snap.status = "REFUNDED"
      /\ s = "canceled" => v.snap.status = "CANCELED"
      /\ s = "declined" => v.snap.status = "DECLINED"
      /\ s = "failed" => v.snap.status = "EXPIRED"
    BY DEF ProviderSnapshot, Snapshot, mapYunoPaymentStatus
<1>2. c.captured \in Nat /\ c.refunded \in Nat
    BY PaymentAmounts
<1> HIDE DEF s
<1>3. BacksStatus(c, s)
    BY <1>1, <1>2 DEF BacksStatus, Backs, Final
<1>4. s \in {"succeeded", "partially_refunded"} => v.captured > 0
    BY <1>1 DEF Backs
<1> QED
    BY <1>3, <1>4 DEF Backs, s

\* A backed view backs the status mapYunoPaymentStatus makes of it.
LEMMA BackedViewClaims ==
    ASSUME TypeOK, NEW v \in Response, v.kind = "ok", ViewBacked(ppay, v)
    PROVE  /\ v.pid \in Req
           /\ BacksStatus(ppay[v.pid], mapYunoPaymentStatus(v.snap))
           /\ v.captured <= ppay[v.pid].captured
           /\ v.refunded <= ppay[v.pid].refunded
<1>1. /\ v.pid \in Req /\ ppay[v.pid] \in ProviderPayment
      /\ v.snap \in ProviderSnapshot /\ Backs(ppay[v.pid], v)
    BY DEF ViewBacked, TypeOK, ProviderTypeOK
<1>2. v.captured \in Nat /\ v.refunded \in Nat
    BY MoneyFacts DEF Response
<1> QED
    BY <1>1, <1>2, ViewClaims

\* A write of backed claims.
LEMMA WriteClaimed ==
    ASSUME NEW p \in Req, NEW i, NEW st, NEW c, NEW f, Writes(p, i, st, c, f),
           payments[p] # none /\ i # none =>
             /\ c <= ppay[i].captured /\ f <= ppay[i].refunded
             /\ BacksStatus(ppay[i], st)
    PROVE  \A q \in Req : RecordClaimed(q)
BY DEF Writes, RecordClaimed, ClaimBacked

\* The section that a handler enters, and what it leaves alone.
LEMMA HandlerPriors ==
    ASSUME TypeOK, Shape, NEW r \in Req,
           \/ \E a \in Menu : Arrive(r, a)
           \/ Complete(r) \/ Fail(r) \/ Abort(r) \/ Authorize(r)
           \/ FindExisting(r) \/ PushDraft(r) \/ CreateOk(r) \/ CreateUnknown(r)
           \/ CreateRejected(r) \/ CreateTimeout(r) \/ ReadBack(r)
           \/ CaptureOk(r) \/ CancelOk(r) \/ RefundOk(r)
           \/ ActionFails(r) \/ StoreFails(r)
           \/ \E b : StartAction(r, b) /\ pc'[r] # "wait"
    PROVE  \A s \in Req : PriorKept(s)
<1>1. \A s \in Req \ {r} : pc'[s] = pc[s]
    BY DEF Arrive, GateProceed, GateAnswer, Complete, Fail, Abort, Authorize,
           FindExisting, PushDraft, CreateOk, CreateUnknown, CreateRejected,
           CreateTimeout, ReadBack, CaptureOk, CancelOk, RefundOk, ActionFails,
           StoreFails, StartAction, Goto, Throw, ThrowUnexpected, Finish,
           TypeOK, ServiceTypeOK
<1>2. UNCHANGED prior
    BY DEF Arrive, Complete, Fail, Abort, Authorize, FindExisting, PushDraft,
           CreateOk, CreateUnknown, CreateRejected, CreateTimeout, ReadBack,
           CaptureOk, CancelOk, RefundOk, ActionFails, StoreFails, StartAction,
           Goto, storeVars, TypeOK, ServiceTypeOK
<1>3. \A s \in Req \ {r} : arg'[s] = arg[s] /\ call'[s] = call[s]
    BY DEF Arrive, Complete, Fail, Abort, Authorize, FindExisting, PushDraft,
           CreateOk, CreateUnknown, CreateRejected, CreateTimeout, ReadBack,
           CaptureOk, CancelOk, RefundOk, ActionFails, StoreFails, StartAction,
           SendCall, storeVars, TypeOK, ServiceTypeOK, WireTypeOK
<1>4. pc'[r] = "wait" => arg'[r].op = "create"
  <2>1. CASE FindExisting(r) \/ PushDraft(r)
      BY <2>1 DEF FindExisting, PushDraft, storeVars, Shape, PcShape
  <2>2. CASE ~(FindExisting(r) \/ PushDraft(r))
    <3>1. pc'[r] # "wait"
        BY <2>2 DEF Arrive, GateProceed, GateAnswer, Complete, Fail, Abort,
           Authorize, CreateOk, CreateUnknown, CreateRejected, CreateTimeout,
           ReadBack, CaptureOk, CancelOk, RefundOk, ActionFails, StoreFails,
           Goto, Throw, ThrowUnexpected, Finish, TypeOK, ServiceTypeOK
    <3> QED
        BY <3>1
  <2> QED
      BY <2>1, <2>2
<1> QED
    BY <1>1, <1>2, <1>3, <1>4 DEF PriorKept

\* What a request that waits knows of the payment it works on.
LEMMA TargetClaims ==
    ASSUME TypeOK, Shape, Links, Claims, NEW r \in Req,
           pc[r] = "wait", arg[r].op # "create"
    PROVE  LET x == payments[pay[r]] IN
           /\ pay[r] \in Req /\ x \in Payment /\ x.pid \in Req
           /\ ClaimBacked(ppay[x.pid], x)
           /\ prior[r].refunded <= ppay[x.pid].refunded
           /\ call[r].resp.kind = "ok" => call[r].resp.pid = x.pid
<1>1. /\ pay[r] \in Req /\ call[r].stage # "none" /\ call[r].pkey.op = arg[r].op
      /\ TargetOf(r)
    BY DEF Shape, PcShape, Links, Targets
<1>2. Linked(pay[r]) /\ call[r].pkey.pid = payments[pay[r]].pid
    BY <1>1 DEF TargetOf
<1>3. payments[pay[r]] \in Payment /\ payments[pay[r]].pid \in Req
    BY <1>1, <1>2, LinkTyped DEF Linked, TypeOK, ServiceTypeOK
<1>4. call[r].resp.kind = "ok" => call[r].resp.pid = payments[pay[r]].pid
    BY <1>1, <1>2 DEF Links, AnswersAbout, About
<1> QED
    BY <1>1, <1>2, <1>3, <1>4 DEF Claims, RecordsBacked, PriorsBacked

\* The handlers that write an answer of the provider.
LEMMA AnswerClaimed ==
    ASSUME TypeOK, Shape, Links, Claims, NEW r \in Req,
           CreateOk(r) \/ CaptureOk(r) \/ CancelOk(r) \/ RefundOk(r)
    PROVE  \A q \in Req : RecordClaimed(q)
<1> DEFINE v == call[r].resp
           x == payments[pay[r]]
           c == ppay[v.pid]
           s == mapYunoPaymentStatus(v.snap)
<1>1. /\ pc[r] = "wait" /\ v.kind = "ok" /\ pay[r] \in Req
      /\ call[r].stage # "none"
    BY DEF CreateOk, CaptureOk, CancelOk, RefundOk, Answered, Shape, PcShape
<1>2. ViewBacked(ppay, v) /\ v \in Response
    BY <1>1, WriteTypes DEF Claims, ViewsBacked
<1>3. /\ v.pid \in Req /\ BacksStatus(c, s)
      /\ v.captured <= c.captured /\ v.refunded <= c.refunded
    BY <1>1, <1>2, BackedViewClaims
<1>4. CASE CreateOk(r)
    BY <1>1, <1>3, <1>4, CreateOkWrites, WriteClaimed
<1>5. ASSUME CaptureOk(r) \/ CancelOk(r) \/ RefundOk(r)
      PROVE  /\ ClaimBacked(c, x) /\ v.pid = x.pid
             /\ prior[r].refunded <= c.refunded
  <2>1. arg[r].op # "create"
      BY <1>5 DEF CaptureOk, CancelOk, RefundOk, Answered
  <2> QED
      BY <1>1, <2>1, TargetClaims
<1> HIDE DEF v, x, c, s
<1>6. CASE CaptureOk(r)
  <2>1. Writes(pay[r], x.pid, s, v.captured, x.refunded)
      BY <1>6, CaptureOkWrites DEF v, x, s
  <2>2. /\ v.captured <= ppay[x.pid].captured /\ x.refunded <= ppay[x.pid].refunded
        /\ BacksStatus(ppay[x.pid], s)
      BY <1>3, <1>5, <1>6 DEF ClaimBacked, c
  <2> QED
      BY <1>1, <2>1, <2>2, WriteClaimed
<1>7. CASE CancelOk(r)
  <2>1. Writes(pay[r], x.pid, s, x.captured, x.refunded)
      BY <1>7, CancelOkWrites DEF v, x, s
  <2>2. /\ x.captured <= ppay[x.pid].captured /\ x.refunded <= ppay[x.pid].refunded
        /\ BacksStatus(ppay[x.pid], s)
      BY <1>3, <1>5, <1>7 DEF ClaimBacked, c
  <2> QED
      BY <1>1, <2>1, <2>2, WriteClaimed
<1>8. CASE RefundOk(r)
  <2>1. IF v.refundFailed
        THEN Writes(pay[r], x.pid, x.status, x.captured, prior[r].refunded)
        ELSE Writes(pay[r], x.pid, s, v.captured, v.refunded)
      BY <1>8, RefundOkWrites DEF v, x, s
  <2>2. /\ x.captured <= ppay[x.pid].captured
        /\ prior[r].refunded <= ppay[x.pid].refunded
        /\ BacksStatus(ppay[x.pid], x.status)
        /\ v.captured <= ppay[x.pid].captured
        /\ v.refunded <= ppay[x.pid].refunded
        /\ BacksStatus(ppay[x.pid], s)
      BY <1>3, <1>5, <1>8 DEF ClaimBacked, c
  <2>3. CASE v.refundFailed
      BY <1>1, <2>1, <2>2, <2>3, WriteClaimed
  <2>4. CASE ~v.refundFailed
      BY <1>1, <2>1, <2>2, <2>4, WriteClaimed
  <2> QED
      BY <2>3, <2>4
<1> QED
    BY <1>4, <1>6, <1>7, <1>8

\* The handlers that write no amount: what stays claimed was claimed before.
LEMMA OtherClaimed ==
    ASSUME TypeOK, Shape, Links, Claims, NEW r \in Req,
           \/ \E a \in Menu : Arrive(r, a)
           \/ Complete(r) \/ Fail(r) \/ Abort(r) \/ Authorize(r)
           \/ FindExisting(r) \/ PushDraft(r) \/ CreateUnknown(r)
           \/ CreateRejected(r) \/ CreateTimeout(r) \/ ReadBack(r)
           \/ ActionFails(r) \/ StoreFails(r)
           \/ \E b : StartAction(r, b)
    PROVE  \A q \in Req : RecordClaimed(q)
<1>1. CASE UNCHANGED payments
    BY <1>1 DEF RecordClaimed
<1>2. CASE CreateUnknown(r)
  <2> DEFINE x == payments[r]
  <2>1. \/ UNCHANGED payments
        \/ Writes(r, x.pid, "processing", x.captured, x.refunded)
      BY <1>2, CreateUnknownWrites
  <2>2. x # none /\ x.pid # none =>
          /\ x.captured <= ppay[x.pid].captured
          /\ x.refunded <= ppay[x.pid].refunded
          /\ BacksStatus(ppay[x.pid], "processing")
      BY DEF Claims, RecordsBacked, ClaimBacked, Linked, BacksStatus
  <2> DEFINE st == "processing"
             i == x.pid
             c == x.captured
             f == x.refunded
  <2>3. CASE Writes(r, i, st, c, f)
    <3>1. x # none /\ i # none =>
            /\ c <= ppay[i].captured /\ f <= ppay[i].refunded
            /\ BacksStatus(ppay[i], st)
        BY <2>2
    <3> HIDE DEF i, c, f, st
    <3> QED
        BY <2>3, <3>1, WriteClaimed
  <2> QED
      BY <1>1, <2>1, <2>3
<1>3. CASE PushDraft(r)
  <2>1. /\ payments'[r].pid = none
        /\ \A p \in Req \ {r} : payments'[p] = payments[p]
      BY <1>3 DEF PushDraft, TypeOK, ServiceTypeOK
  <2> QED
      BY <2>1 DEF RecordClaimed
<1>4. CASE CreateRejected(r) \/ CreateTimeout(r)
  <2>1. CASE payments' = [payments EXCEPT ![r] = none]
      BY <2>1 DEF RecordClaimed, TypeOK, ServiceTypeOK
  <2> QED
      BY <1>1, <1>4, <2>1 DEF CreateRejected, CreateTimeout, RemoveDraft
<1>5. \/ UNCHANGED payments
      \/ CreateUnknown(r) \/ PushDraft(r) \/ CreateRejected(r) \/ CreateTimeout(r)
    BY DEF Arrive, Complete, Fail, Abort, Authorize, FindExisting, ReadBack,
       ActionFails, StoreFails, StartAction, storeVars
<1> QED
    BY <1>1, <1>2, <1>3, <1>4, <1>5

\* An operation that is sent reads its record's amounts first.
LEMMA StartActionPriors ==
    ASSUME TypeOK, Shape, Links, Claims, UNCHANGED ppay, NEW r \in Req,
           \E b : StartAction(r, b), pc'[r] = "wait"
    PROVE  \A s \in Req : PriorKept(s)
<1> DEFINE p == arg[r].pay
           x == payments[p]
<1>1. /\ UNCHANGED arg /\ pc' = [pc EXCEPT ![r] = "wait"] /\ p \in Req
  <2>1. pc[r] = "run" /\ arg[r] \in Request /\ (arg[r].op # "create" => p # none)
      BY MenuAssumption DEF StartAction, Shape, PcShape
  <2> QED
      BY <2>1 DEF StartAction, Goto, Throw, Request, TypeOK, ServiceTypeOK
<1>2. /\ x # none /\ x.pid # none
      /\ prior' = [prior EXCEPT ![r] = [captured |-> x.captured,
                                        refunded |-> x.refunded]]
      /\ \E amt : SendCall(r, arg[r].op, x.pid, amt)
    BY DEF StartAction, Goto, Throw, Allowed, TypeOK, ServiceTypeOK
<1>3. /\ \A s \in Req \ {r} : /\ pc'[s] = pc[s] /\ prior'[s] = prior[s]
                              /\ call'[s] = call[s]
      /\ call'[r].pkey = [op |-> arg[r].op, key |-> arg[r].key, pid |-> x.pid]
      /\ prior'[r].refunded = x.refunded
    BY <1>1, <1>2 DEF SendCall, NoCall, TypeOK, ServiceTypeOK, WireTypeOK
<1>4. x.refunded <= ppay[x.pid].refunded
    BY <1>1, <1>2 DEF Claims, RecordsBacked, ClaimBacked, Linked
<1> HIDE DEF p, x
<1> QED
    BY <1>1, <1>3, <1>4 DEF PriorKept

\* The poller writes what the view it fetched says.
LEMMA PollClaims ==
    ASSUME TypeOK, Shape, Links, Claims, UNCHANGED providerVars,
           NEW g \in Poller, PollerStep(g) \/ PollFails(g)
    PROVE  ClaimsKept
<1>1. UNCHANGED <<ppay, events, pc, arg, call, prior>>
    BY DEF PollerStep, PollStart, PollFetch, PollApply, PollFails, providerVars
<1>2. \A s \in Req : PriorKept(s)
    BY <1>1 DEF PriorKept
<1>3. \A p \in Req : RecordClaimed(p)
  <2>1. CASE UNCHANGED payments
      BY <2>1 DEF RecordClaimed
  <2>2. CASE PollApply(g)
    <3> DEFINE v == poll[g].view
               x == payments[poll[g].pay]
               s == mapYunoPaymentStatus(v.snap)
    <3>1. /\ poll[g].at = "apply" /\ poll[g].pay \in Req
        BY <2>2 DEF PollApply, Shape, PollShape
    <3>2. v.kind = "ok" /\ v.pid = x.pid
        BY <3>1 DEF Links, Targets, PollTargetOf
    <3>3. v \in Response /\ ViewBacked(ppay, v)
        BY <3>1, WriteTypes DEF Claims, ViewsBacked
    <3>4. /\ v.captured <= ppay[v.pid].captured
          /\ v.refunded <= ppay[v.pid].refunded /\ BacksStatus(ppay[v.pid], s)
        BY <3>2, <3>3, BackedViewClaims
    <3>5. Writes(poll[g].pay, x.pid, s, v.captured, v.refunded)
        BY <2>2, PollApplyWrites
    <3> HIDE DEF v, x, s
    <3> QED
        BY <3>1, <3>2, <3>4, <3>5, WriteClaimed
  <2> QED
      BY <2>1, <2>2 DEF PollerStep, PollStart, PollFetch, PollFails, storeVars
<1>4. \A h \in Poller \ {g} : poll'[h] = poll[h]
    BY DEF PollerStep, PollStart, PollFetch, PollApply, PollFails, TypeOK,
           ServiceTypeOK
<1>5. PollBacked(g)
  <2>1. ASSUME NEW p \in Req, PollStart(g, p) PROVE PollBacked(g)
    <3>1. poll'[g].view.kind = "none"
        BY <2>1 DEF PollStart, NoPoll, NoResponse, TypeOK, ServiceTypeOK
    <3> QED
        BY <3>1 DEF PollBacked, ViewBacked
  <2>2. ASSUME poll[g].at = "fetch",
               PollFetch(g, View(ppay, payments[poll[g].pay].pid, txs))
        PROVE  PollBacked(g)
    <3> DEFINE q == payments[poll[g].pay].pid
               v == View(ppay, q, txs)
    <3>1. Linked(poll[g].pay) /\ poll[g].pay \in Req
        BY <2>2 DEF Links, Targets, PollTargetOf, Shape, PollShape
    <3>2. q \in Req /\ ppay[q] # none /\ ppay[q] \in ProviderPayment
        BY <3>1, LinkTyped DEF Shape, LinkShape, TypeOK, ProviderTypeOK
    <3>3. Shows(q, ppay[q], v)
        BY ViewShows
    <3>4. poll'[g].view = v
        BY <2>2 DEF PollFetch, TypeOK, ServiceTypeOK, PollRec
    <3>5. v.pid = q /\ v.snap = ppay[q].snap
        BY <3>3 DEF Shows
    <3> HIDE DEF q, v
    <3>6. Backs(ppay[q], v)
        BY <3>2, <3>3, ShownIsBacked DEF Claims, SoundPayments
    <3>7. ViewBacked(ppay, v)
        BY <3>2, <3>5, <3>6 DEF ViewBacked, ProviderPayment
    <3> QED
        BY <3>4, <3>7 DEF PollBacked
  <2>3. CASE PollApply(g) \/ PollFails(g)
    <3>1. poll'[g].at = "idle"
        BY <2>3 DEF PollApply, PollFails, NoPoll, TypeOK, ServiceTypeOK
    <3> QED
        BY <3>1 DEF PollBacked
  <2> QED
      BY <2>1, <2>2, <2>3 DEF PollerStep
<1> QED
    BY <1>1, <1>2, <1>3, <1>4, <1>5 DEF ClaimsKept, PollBacked

\* An event says of its payment what is backed; a success that is announced
\* was captured, so its amount is never made up.
LEMMA WebhookClaims ==
    ASSUME TypeOK, Shape, Claims, NEW e \in events, ProcessWebhook(e),
           UNCHANGED <<ppay, events>>
    PROVE  ClaimsKept
<1>1. UNCHANGED <<pc, arg, prior, poll, call>>
    BY DEF ProcessWebhook
<1>2. \A s \in Req : PriorKept(s)
    BY <1>1 DEF PriorKept
<1> DEFINE s == mapYunoPaymentStatus(e.snap)
           c == IF e.captured = 0 /\ s \in {"succeeded", "partially_refunded"}
                THEN Amount ELSE e.captured
<1>3. /\ e \in Event /\ e.pid \in Req /\ e.snap \in ProviderSnapshot
      /\ e.captured \in Nat /\ e.refunded \in Nat
      /\ ppay[e.pid] \in ProviderPayment /\ Backs(ppay[e.pid], e)
    BY MoneyFacts DEF TypeOK, ProviderTypeOK, Event, Claims, ViewsBacked, EventBacked
<1>4. /\ BacksStatus(ppay[e.pid], s) /\ c = e.captured
      /\ e.captured <= ppay[e.pid].captured /\ e.refunded <= ppay[e.pid].refunded
  <2>1. /\ BacksStatus(ppay[e.pid], s)
        /\ e.captured <= ppay[e.pid].captured /\ e.refunded <= ppay[e.pid].refunded
        /\ s \in {"succeeded", "partially_refunded"} => e.captured > 0
      BY <1>3, ViewClaims
  <2> HIDE DEF s
  <2> QED
      BY <1>3, <2>1
<1>5. \/ UNCHANGED payments
      \/ \E p \in Req : /\ payments[p] # none /\ payments[p].pid = e.pid
                        /\ Writes(p, payments[p].pid, s, c, e.refunded)
    BY <1>3, ProcessWebhookWrites
<1> HIDE DEF s, c
<1>6. \A p \in Req : RecordClaimed(p)
  <2>1. ASSUME NEW p \in Req, payments[p].pid = e.pid,
               Writes(p, e.pid, s, e.captured, e.refunded)
        PROVE  \A q \in Req : RecordClaimed(q)
      BY <1>4, <2>1, WriteClaimed
  <2>2. CASE UNCHANGED payments
      BY <2>2 DEF RecordClaimed
  <2> QED
      BY <1>4, <1>5, <2>1, <2>2
<1> QED
    BY <1>1, <1>2, <1>6 DEF ClaimsKept, PollBacked

\* Deliveries and crashes claim nothing new.
LEMMA IdleClaims ==
    ASSUME TypeOK,
           \/ \E id \in EventId : \/ DeliverWebhook(id) \/ LoseAck(id)
                                  \/ ExhaustDelivery(id)
           \/ (\E id \in inbox : WebhookFails(id)) /\ UNCHANGED providerVars
           \/ ServiceCrash /\ UNCHANGED providerVars
           \/ UNCHANGED vars
    PROVE  ClaimsKept
<1>1. UNCHANGED <<ppay, events, payments, call, arg, prior>>
    BY DEF DeliverWebhook, LoseAck, ExhaustDelivery, AcceptWebhook,
           WebhookFails, ServiceCrash, vars, serviceVars, storeVars,
           processVars, providerVars
<1>2. UNCHANGED <<pc, poll>> \/ ServiceCrash
    BY DEF DeliverWebhook, LoseAck, ExhaustDelivery, AcceptWebhook,
           WebhookFails, vars, serviceVars, processVars
<1>3. CASE UNCHANGED <<pc, poll>>
    BY <1>1, <1>3 DEF ClaimsKept, RecordClaimed, PriorKept, PollBacked
<1>4. CASE ServiceCrash
  <2>1. \A s \in Req : pc'[s] = pc[s] \/ pc'[s] = "done"
      BY <1>4 DEF ServiceCrash
  <2>2. \A g \in Poller : poll'[g].at = "idle"
      BY <1>4 DEF ServiceCrash, NoPoll
  <2> QED
      BY <1>1, <2>1, <2>2 DEF ClaimsKept, RecordClaimed, PriorKept, PollBacked
<1> QED
    BY <1>2, <1>3, <1>4

\* The handlers.
LEMMA HandlerClaims ==
    ASSUME TypeOK, Shape, Links, Claims, UNCHANGED providerVars, NEW r \in Req,
           \/ \E a \in Menu : Arrive(r, a)
           \/ RequestStep(r) \/ CreateTimeout(r) \/ ActionFails(r)
           \/ StoreFails(r) \/ \E b : StartAction(r, b)
    PROVE  ClaimsKept
<1>1. UNCHANGED <<ppay, events, poll>>
    BY DEF Arrive, RequestStep, Complete, Fail, Abort, Authorize, FindExisting,
           PushDraft, CreateOk, CreateUnknown, CreateRejected, CreateTimeout,
           ReadBack, CaptureOk, CancelOk, RefundOk, ActionFails, StoreFails,
           StartAction, providerVars
<1>2. \A s \in Req : PriorKept(s)
  <2>1. CASE \E b : StartAction(r, b)
      BY <1>1, <2>1, StartActionPriors, HandlerPriors
  <2> QED
      BY <2>1, HandlerPriors DEF RequestStep
<1>3. \A p \in Req : RecordClaimed(p)
    BY AnswerClaimed, OtherClaimed DEF RequestStep
<1> QED
    BY <1>1, <1>2, <1>3 DEF ClaimsKept, PollBacked

\* Every step of the platform claims only what the provider holds.
LEMMA PlatformClaims ==
    ASSUME TypeOK, Shape, Links, Claims,
           \/ \E r \in Req : \/ ClientRequest(r)  \/ HandleRequest(r)
                             \/ StartOperation(r) \/ GiveUpOnCall(r)
           \/ \E g \in Poller : PollerStep(g) \/ PollerFails(g)
           \/ \E id \in EventId : \/ DeliverWebhook(id) \/ LoseAck(id)
                                  \/ ExhaustDelivery(id)
           \/ ApplyWebhook \/ ServiceFails \/ UNCHANGED vars
    PROVE  ClaimsKept
<1>1. ASSUME NEW r \in Req, \/ ClientRequest(r)  \/ HandleRequest(r)
                            \/ StartOperation(r) \/ GiveUpOnCall(r)
      PROVE  ClaimsKept
  <2>1. /\ UNCHANGED providerVars
        /\ \/ \E a \in Menu : Arrive(r, a)
           \/ RequestStep(r) \/ CreateTimeout(r) \/ ActionFails(r)
           \/ \E b : StartAction(r, b)
      BY <1>1 DEF ClientRequest, HandleRequest, StartOperation, GiveUpOnCall
  <2> QED
      BY <2>1, HandlerClaims
<1>2. ASSUME NEW g \in Poller, PollerStep(g) \/ PollerFails(g) PROVE ClaimsKept
  <2>1. UNCHANGED providerVars
      BY <1>2 DEF PollerStep, PollerFails
  <2> QED
      BY <1>2, <2>1, PollClaims DEF PollerFails
<1>3. CASE ApplyWebhook
    BY <1>3, WebhookClaims DEF ApplyWebhook, providerVars
<1>4. CASE ServiceFails
  <2>1. UNCHANGED providerVars
      BY <1>4 DEF ServiceFails
  <2>2. ASSUME NEW r \in Req, StoreFails(r) PROVE ClaimsKept
      BY <2>1, <2>2, HandlerClaims
  <2> QED
      BY <1>4, <2>1, <2>2, IdleClaims DEF ServiceFails
<1> QED
    BY <1>1, <1>2, <1>3, <1>4, IdleClaims

\* Every step keeps the claims.
LEMMA NextClaims ==
    TypeOK /\ Shape /\ Gate /\ Charges /\ Links /\ Claims /\ [Next]_vars => Claims'
<1> SUFFICES ASSUME TypeOK, Shape, Gate, Charges, Links, Claims, [Next]_vars
             PROVE  Claims'
    OBVIOUS
<1>1. CASE ProviderWorks \/ ProviderFails
  <2>1. ProviderMoves /\ TypeOK'
      BY <1>1, AllProviderMoves, NextShape
  <2> QED
      BY <2>1, ProviderClaims
<1>2. CASE LinksKept /\ ClaimsKept
    BY <1>2, ClaimsFrame
<1> QED
    BY <1>1, <1>2, PlatformLinks, PlatformClaims DEF Next

\* At the start nothing is recorded, called or charged.
LEMMA InitMoney == Init => Gate /\ Charges /\ Links /\ Claims
<1> SUFFICES ASSUME Init PROVE Gate /\ Charges /\ Links /\ Claims
    OBVIOUS
<1>1. Gate /\ Charges
    BY DEF Init, ServiceInit, WireInit, ProviderInit, NoCall, Gate, HoldsKey,
       OneRunnerPerKey, Running, Charges, KeyHeld, ChargeKnown, NoChargeYet,
       OneChargePerKey, Active, Blank
<1>2. CalledOnce /\ RecordsAreLate /\ LinkedToOwnCharge /\ RefundsAreLinked
    BY DEF Init, ServiceInit, WireInit, ProviderInit, NoCall, CalledOnce,
       RecordsAreLate, LinkedToOwnCharge, RefundsAreLinked
<1>3. AnswersAbout
    BY DEF Init, WireInit, ProviderInit, NoCall, NoIdem, NoResponse,
       AnswersAbout, About
<1>4. Targets
    BY DEF Init, ServiceInit, NoPoll, Targets
<1>5. SoundPayments /\ PriorsBacked /\ RecordsBacked
    BY DEF Init, ServiceInit, ProviderInit, SoundPayments, PriorsBacked,
       RecordsBacked, Linked
<1>6. ViewsBacked
    BY DEF Init, ServiceInit, WireInit, ProviderInit, NoCall, NoIdem, NoPoll,
       NoResponse, ViewsBacked, ViewBacked
<1> QED
    BY <1>1, <1>2, <1>3, <1>4, <1>5, <1>6 DEF Links, Claims

\* The whole of it: the links and the claims are inductive together.
THEOREM MoneyInvariant == Spec => [](Gate /\ Charges /\ Links /\ Claims)
<1>1. Init => Gate /\ Charges /\ Links /\ Claims
    BY InitMoney
<1> QED
    BY <1>1, NextGate, NextCharges, NextLinks, NextClaims, Typed, PTL DEF Spec

\* applyProviderPaymentView: for any number of requests, retries, timeouts,
\* crashes and faults, a record is linked only to the charge made under its
\* own key.
THEOREM LinkedOwn == Spec => []LinkedToOwnCharge
<1>1. Links => LinkedToOwnCharge
    BY DEF Links
<1> QED
    BY <1>1, MoneyInvariant, PTL

\* Withholding of money claims: for any number of requests, GETs, events and
\* faults, no record shows more captured or refunded than the provider's
\* payment holds.
THEOREM NeverAhead == Spec => []PlatformNeverAhead
<1>1. Claims => PlatformNeverAhead
    BY DEF Claims, RecordsBacked, ClaimBacked, PlatformNeverAhead, Linked
<1> QED
    BY <1>1, MoneyInvariant, PTL

\* A public status of success, refund, cancellation or failure is always one
\* that the provider's payment has reached.
THEOREM FinalBacked == Spec => []FinalStatusIsBacked
<1>1. Claims => FinalStatusIsBacked
    BY DEF Claims, RecordsBacked, ClaimBacked, BacksStatus, FinalStatusIsBacked,
           Linked
<1> QED
    BY <1>1, MoneyInvariant, PTL

-----------------------------------------------------------------------------
(* The provider's operations take effect once per key.                      *)

\* A view of a refund that succeeded comes with the refund's transaction.
RefundMade(k, v) ==
    k.op = "refund" /\ v.kind = "ok" /\ ~v.refundFailed =>
      \E t \in txs : t.ok /\ t.pkey = k

\* A transaction's key has a record; a call that has not yet executed has made
\* no transaction.
TxsAreKnown == \A t \in txs : pidem[t.pkey].state # "absent"

\* A call that begins has made no transaction.
NoTxYet == \A r \in Req : Blank(r) => \A t \in txs : t.pkey # call[r].pkey

\* Every such answer, in flight or kept for retries.
RefundsMade ==
    /\ \A r \in Req : call[r].stage # "none" =>
                        RefundMade(call[r].pkey, call[r].resp)
    /\ \A k \in ProviderKey : RefundMade(k, pidem[k].resp)

\* The inductive invariant of the provider's operations.
Operations == TxsAreKnown /\ NoTxYet /\ RefundsMade /\ OperationsAreExact

\* A record is freed only by the refused call that held it, and a call begins
\* only under a free key.
KeysMove ==
    /\ \A k \in ProviderKey :
         pidem'[k].state = "absent" =>
           \/ pidem[k].state = "absent"
           \/ \E r \in Req : Blank(r) /\ call[r].pkey = k /\ ~Active(r)'
    /\ \A s \in Req :
         Blank(s)' => \/ Blank(s)
                      \/ /\ call[s].stage # "none"
                         /\ pidem[call[s].pkey].state = "absent"

\* Every step of the provider moves its keys so.
LEMMA ProviderKeysMove ==
    ASSUME TypeOK, Shape, ProviderWorks \/ ProviderFails
    PROVE  KeysMove
<1>1. ASSUME UNCHANGED pidem, NEW r \in Req, NEW st, NEW a, CallMoves(r, st, a),
             st \in {"begun", "executed"} => Blank(r)
      PROVE  KeysMove
    BY <1>1 DEF KeysMove, CallMoves, Blank
<1>2. ASSUME NEW r \in Req, BeginCall(r) PROVE KeysMove
  <2> DEFINE k == call[r].pkey
  <2>1. call[r].stage = "sent"
      BY <1>2, BeginCallStep
  <2>2. CASE /\ CallMoves(r, "begun", call[r].resp)
             /\ pidem[k].state = "absent"
             /\ RecordMoves(k, "IN_PROGRESS", pidem[k].resp)
      BY <2>1, <2>2 DEF KeysMove, CallMoves, RecordMoves, Blank
  <2>3. ASSUME UNCHANGED pidem, NEW a, CallMoves(r, "answered", a)
        PROVE  KeysMove
      BY <1>1, <2>3
  <2> HIDE DEF k
  <2> QED
      BY <1>2, <2>2, <2>3, BeginCallStep DEF k
<1>3. ASSUME NEW r \in Req, FinishCall(r) PROVE KeysMove
  <2> DEFINE k == call[r].pkey
             a == call[r].resp
  <2>1. /\ call[r].stage = "executed" /\ CallMoves(r, "answered", a)
        /\ IF a.kind = "rejected" THEN RecordMoves(k, "absent", NoResponse)
           ELSE RecordMoves(k, "COMPLETED", a)
      BY <1>3, FinishCallStep
  <2> QED
      BY <2>1 DEF KeysMove, CallMoves, RecordMoves, Blank, Active
<1>4. ASSUME NEW r \in Req, FailCall(r) PROVE KeysMove
  <2>1. PICK a : CallMoves(r, "answered", a)
      BY <1>4, FailCallStep
  <2>2. RecordMoves(call[r].pkey, "CONSUMED", pidem[call[r].pkey].resp)
      BY <1>4, FailCallStep
  <2> QED
      BY <2>1, <2>2 DEF KeysMove, CallMoves, RecordMoves, Blank
<1>5. ASSUME NEW r \in Req, ExecuteCreate(r) PROVE KeysMove
  <2>1. call[r].stage = "begun" /\ UNCHANGED pidem
      BY <1>5, ExecuteCreateStep
  <2>2. \E a : CallMoves(r, "executed", a)
      BY <1>5, ExecuteCreateStep
  <2> QED
      BY <1>1, <2>1, <2>2 DEF Blank
<1>6. ASSUME NEW r \in Req, RejectCreate(r) PROVE KeysMove
  <2>1. call[r].stage = "begun" /\ UNCHANGED pidem /\ RejectAction(r)
      BY <1>6 DEF RejectCreate
  <2> QED
      BY <1>1, <2>1, RejectStep DEF Blank
<1>7. ASSUME NEW r \in Req,
             ExecuteCapture(r) \/ ExecuteCancel(r) \/ ExecuteRefund(r)
      PROVE  KeysMove
  <2>1. call[r].stage = "begun" /\ UNCHANGED pidem
      BY <1>7, ExecuteActionStep
  <2>2. \E a : CallMoves(r, "executed", a)
      BY <1>7, ExecuteActionStep
  <2> QED
      BY <1>1, <2>1, <2>2 DEF Blank
<1>8. CASE ProviderCrash
    BY <1>8, ProviderCrashStep DEF KeysMove, Blank
<1>9. CASE UNCHANGED <<pidem, call>>
    BY <1>9 DEF KeysMove, Blank
<1> QED
    BY <1>2, <1>3, <1>4, <1>5, <1>6, <1>7, <1>8, <1>9, AsyncStep
    DEF ProviderWorks, ProviderFails, ProviderStep

\* An action adds the only transaction of its key, and its answer comes with
\* that transaction.
LEMMA ActsOperations ==
    ASSUME TypeOK, Shape, Charges, Operations, ProviderMoves, KeysMove,
           NEW r \in Req, NEW x \in ProviderPayment, NEW amt \in Money,
           NEW ok \in BOOLEAN, Acts(r, x, amt, ok)
    PROVE  Operations'
<1> DEFINE k == call[r].pkey
           n == [pid |-> k.pid, by |-> r, pkey |-> k, amt |-> amt, ok |-> ok]
<1>1. /\ k \in ProviderKey /\ call[r].stage = "begun"
      /\ call'[r].stage = "executed" /\ call'[r].resp.kind = "ok"
      /\ call'[r].resp.refundFailed = ~ok /\ txs' = txs \cup {n}
      /\ \A s \in Req \ {r} : CallRepeats(s)
    BY DEF Acts, Executes
<1>2. n.pkey = k /\ n.ok = ok
    OBVIOUS
<1> HIDE DEF n
<1>3. /\ Active(r) /\ Blank(r) /\ Active(r)' /\ ~Blank(r)'
      /\ pidem[k].state = "IN_PROGRESS"
    BY <1>1 DEF Active, Blank, Charges, KeyHeld
<1>4. \A t \in txs : t.pkey # k
    BY <1>3 DEF Operations, NoTxYet
<1>5. \A t \in txs : t.pkey \in ProviderKey
    BY DEF TypeOK, ProviderTypeOK, Transaction
<1>6. \A s \in Req : call'[s].pkey = call[s].pkey
    BY DEF ProviderMoves, CallsMove
<1>7. \A j \in ProviderKey : pidem'[j].state = "absent" =>
        j # k /\ \A t \in txs : t.pkey # j
  <2> SUFFICES ASSUME NEW j \in ProviderKey, pidem'[j].state = "absent"
               PROVE  j # k /\ \A t \in txs : t.pkey # j
      OBVIOUS
  <2>1. CASE pidem[j].state = "absent"
      BY <1>3, <2>1 DEF Operations, TxsAreKnown
  <2>2. ASSUME NEW s \in Req, Blank(s), call[s].pkey = j, ~Active(s)'
        PROVE  j # k /\ \A t \in txs : t.pkey # j
    <3>1. s # r /\ Active(s)
        BY <1>3, <2>2 DEF Blank, Active
    <3> QED
        BY <1>3, <2>2, <3>1 DEF Charges, KeyHeld, Operations, NoTxYet
  <2> QED
      BY <2>1, <2>2 DEF KeysMove
<1>8. TxsAreKnown'
    BY <1>1, <1>2, <1>5, <1>7 DEF TxsAreKnown
<1>9. NoTxYet'
  <2> SUFFICES ASSUME NEW s \in Req, Blank(s)', NEW t \in txs'
               PROVE  t.pkey # call[s].pkey
      BY <1>6 DEF NoTxYet
  <2>1. s # r
      BY <1>3
  <2>2. CASE Blank(s)
    <3>1. call[s].pkey # k
        BY <1>3, <2>1, <2>2 DEF Charges, KeyHeld, Blank, Active
    <3> QED
        BY <1>1, <1>2, <2>2, <3>1 DEF Operations, NoTxYet
  <2>3. CASE call[s].stage # "none" /\ pidem[call[s].pkey].state = "absent"
      BY <1>1, <1>2, <1>3, <2>3 DEF Operations, TxsAreKnown
  <2> QED
      BY <2>2, <2>3 DEF KeysMove
<1>10. \A j, v : RefundMade(j, v) => RefundMade(j, v)'
    BY <1>1 DEF RefundMade
<1>11. RefundsMade'
  <2>1. \A j \in ProviderKey : \A v : OldAnswer(j, v) => RefundMade(j, v)
      BY DEF OldAnswer, Operations, RefundsMade, RefundMade
  <2>2. ASSUME NEW j \in ProviderKey PROVE RefundMade(j, pidem[j].resp)'
    <3>1. RefundMade(j, pidem'[j].resp)
        BY <2>1 DEF ProviderMoves, RecordsRepeat
    <3> QED
        BY <1>1, <3>1 DEF RefundMade
  <2>3. ASSUME NEW s \in Req, call'[s].stage # "none"
        PROVE  RefundMade(call[s].pkey, call[s].resp)'
    <3>1. CASE s = r
        BY <1>1, <1>2, <1>6, <3>1 DEF RefundMade
    <3>2. CASE s # r
      <4>1. call[s].stage # "none" /\ call[s].pkey \in ProviderKey
          BY <2>3 DEF ProviderMoves, CallsMove, Shape, CallShape
      <4>2. RefundMade(call[s].pkey, call'[s].resp)
          BY <1>1, <2>1, <3>2, <4>1 DEF CallRepeats
      <4> QED
          BY <1>1, <1>6, <4>2 DEF RefundMade
    <3> QED
        BY <3>1, <3>2
  <2> QED
      BY <2>2, <2>3 DEF RefundsMade
<1>12. OperationsAreExact'
  <2>1. UNCHANGED <<refunds, payments>>
      BY DEF ProviderMoves, serviceVars, storeVars
  <2> QED
      BY <1>1, <1>2, <1>4, <2>1 DEF Operations, OperationsAreExact
<1> QED
    BY <1>8, <1>9, <1>11, <1>12 DEF Operations

\* The provider makes one transaction per key.
LEMMA ProviderOperations ==
    ASSUME TypeOK, Shape, Charges, Operations, ProviderMoves, KeysMove
    PROVE  Operations'
<1>1. CASE UNCHANGED txs /\ \A s \in Req : \/ CallRepeats(s)
                                           \/ call[s].pkey.op = "create"
  <2>1. UNCHANGED <<refunds, payments>>
      BY DEF ProviderMoves, serviceVars, storeVars
  <2>2. \A s \in Req : /\ call'[s].pkey = call[s].pkey
                       /\ call'[s].stage # "none" => call[s].stage # "none"
      BY DEF ProviderMoves, CallsMove
  <2>3. TxsAreKnown'
    <3>1. \A t \in txs : t.pkey \in ProviderKey
        BY DEF TypeOK, ProviderTypeOK, Transaction
    <3> QED
        BY <1>1, <3>1 DEF Operations, TxsAreKnown, NoTxYet, KeysMove
  <2>4. NoTxYet'
      BY <1>1, <2>2 DEF Operations, TxsAreKnown, NoTxYet, KeysMove
  <2>5. RefundsMade'
    <3>1. \A j \in ProviderKey : \A v : OldAnswer(j, v) => RefundMade(j, v)
        BY DEF OldAnswer, Operations, RefundsMade, RefundMade
    <3>2. \A j \in ProviderKey : RefundMade(j, pidem'[j].resp)
        BY <3>1 DEF ProviderMoves, RecordsRepeat
    <3>3. ASSUME NEW s \in Req, call'[s].stage # "none"
          PROVE  RefundMade(call[s].pkey, call'[s].resp)
      <4>1. call[s].stage # "none" /\ call[s].pkey \in ProviderKey
          BY <2>2, <3>3 DEF Shape, CallShape
      <4>2. CASE CallRepeats(s)
          BY <3>1, <4>1, <4>2 DEF CallRepeats
      <4>3. CASE call[s].pkey.op = "create"
          BY <4>3 DEF RefundMade
      <4> QED
          BY <1>1, <4>2, <4>3
    <3> QED
        BY <1>1, <2>2, <3>2, <3>3 DEF RefundsMade, RefundMade
  <2>6. OperationsAreExact'
      BY <1>1, <2>1 DEF Operations, OperationsAreExact
  <2> QED
      BY <2>3, <2>4, <2>5, <2>6 DEF Operations
<1>2. CASE Quiet
    BY <1>1, <1>2 DEF Quiet
<1>3. ASSUME NEW r \in Req, NEW x \in ProviderPayment, Creates(r, x)
      PROVE  Operations'
    BY <1>1, <1>3 DEF Creates, Executes
<1>4. ASSUME NEW p \in Req, NEW y \in ProviderPayment, Passes(p, y)
      PROVE  Operations'
  <2>1. \A s \in Req : CallRepeats(s)
      BY <1>4 DEF Passes, CallRepeats, OldAnswer
  <2> QED
      BY <1>1, <1>4, <2>1 DEF Passes
<1> QED
    BY <1>2, <1>3, <1>4, ActsOperations DEF ProviderMoves

\* The platform records as succeeded only refunds the provider has made.
RefundExact(x) ==
    /\ Linked(x.pay)
    /\ x.ok => \E t \in txs : /\ t.ok
                              /\ t.pkey = [op |-> "refund", key |-> x.key,
                                           pid |-> payments[x.pay].pid]

\* A refund recorded as made has its transaction.
LEMMA RefundOkExact ==
    ASSUME TypeOK, Shape, Links, Operations, NEW r \in Req, RefundOk(r)
    PROVE  \A x \in refunds' : x \in refunds \/ RefundExact(x)
<1> SUFFICES ASSUME NEW x \in refunds', x \notin refunds PROVE RefundExact(x)
    OBVIOUS
<1> DEFINE v == call[r].resp
<1>1. /\ pc[r] = "wait" /\ arg[r].op = "refund" /\ v.kind = "ok"
      /\ call[r].stage # "none" /\ pay[r] \in Req
    BY DEF RefundOk, Answered, Shape, PcShape
<1>2. x.pay = pay[r] /\ x.key = arg[r].key /\ x.ok = ~v.refundFailed
    BY DEF RefundOk
<1>3. /\ Linked(pay[r])
      /\ call[r].pkey = [op |-> "refund", key |-> arg[r].key,
                         pid |-> payments[pay[r]].pid]
    BY <1>1 DEF Links, Targets, TargetOf
<1>4. call[r].pkey.op = "refund"
    BY <1>3
<1>5. ~v.refundFailed => \E t \in txs : t.ok /\ t.pkey = call[r].pkey
    BY <1>1, <1>4 DEF Operations, RefundsMade, RefundMade
<1> QED
    BY <1>2, <1>3, <1>5 DEF RefundExact

\* Only RefundOk records a refund.
LEMMA PlatformRefunds ==
    ASSUME TypeOK, Shape, Links, Operations,
           \/ \E r \in Req : \/ ClientRequest(r)  \/ HandleRequest(r)
                             \/ StartOperation(r) \/ GiveUpOnCall(r)
           \/ \E g \in Poller : PollerStep(g) \/ PollerFails(g)
           \/ \E id \in EventId : \/ DeliverWebhook(id) \/ LoseAck(id)
                                  \/ ExhaustDelivery(id)
           \/ ApplyWebhook \/ ServiceFails \/ UNCHANGED vars
    PROVE  UNCHANGED txs /\ \A x \in refunds' : x \in refunds \/ RefundExact(x)
<1>1. ASSUME NEW r \in Req, \/ ClientRequest(r)  \/ HandleRequest(r)
                            \/ StartOperation(r) \/ GiveUpOnCall(r)
      PROVE  UNCHANGED txs /\ (RefundOk(r) \/ UNCHANGED refunds)
  <2>1. UNCHANGED txs
      BY <1>1 DEF ClientRequest, HandleRequest, StartOperation, GiveUpOnCall,
                  providerVars
  <2>2. RefundOk(r) \/ UNCHANGED refunds
      BY <1>1 DEF ClientRequest, HandleRequest, StartOperation, GiveUpOnCall,
         Arrive, RequestStep, Complete, Fail, Abort, Authorize, FindExisting,
         PushDraft, CreateOk, CreateUnknown, CreateRejected, CreateTimeout,
         ReadBack, CaptureOk, CancelOk, ActionFails, StartAction, storeVars
  <2> QED
      BY <2>1, <2>2
<1>2. ASSUME NEW g \in Poller, PollerStep(g) \/ PollerFails(g)
      PROVE  UNCHANGED <<txs, refunds>>
    BY <1>2 DEF PollerStep, PollerFails, PollStart, PollFetch, PollApply,
                PollFails, storeVars, providerVars
<1>3. ASSUME NEW id \in EventId,
             DeliverWebhook(id) \/ LoseAck(id) \/ ExhaustDelivery(id)
      PROVE  UNCHANGED <<txs, refunds>>
    BY <1>3 DEF DeliverWebhook, LoseAck, ExhaustDelivery, AcceptWebhook,
                serviceVars, storeVars, providerVars
<1>4. CASE ApplyWebhook \/ ServiceFails \/ UNCHANGED vars
    BY <1>4 DEF ApplyWebhook, ProcessWebhook, ServiceFails, StoreFails,
                WebhookFails, ServiceCrash, vars, serviceVars, storeVars,
                providerVars
<1> QED
    BY <1>1, <1>2, <1>3, <1>4, RefundOkExact

\* Steps of the platform keep the operations.
LEMMA OperationsFrame ==
    ASSUME TypeOK, TypeOK', Shape, Links, LinksKept, Operations, UNCHANGED txs,
           \A x \in refunds' : x \in refunds \/ RefundExact(x)
    PROVE  Operations'
<1>1. UNCHANGED <<pidem, txs>>
    BY DEF LinksKept
<1>2. \A s \in Req : \/ call'[s] = call[s]
                     \/ call'[s].stage = "sent" /\ call'[s].resp = NoResponse
    BY DEF LinksKept, CallKept
<1>3. NoTxYet'
    BY <1>1, <1>2 DEF Operations, NoTxYet, Blank
<1>4. RefundsMade'
  <2>1. NoResponse.kind # "ok"
      BY DEF NoResponse
  <2> QED
      BY <1>1, <1>2, <2>1 DEF Operations, RefundsMade, RefundMade
<1>5. OperationsAreExact'
  <2>1. ASSUME NEW x \in refunds', x.ok
        PROVE  \E t \in txs : /\ t.ok
                              /\ t.pkey = [op |-> "refund", key |-> x.key,
                                           pid |-> payments'[x.pay].pid]
    <3>1. RefundExact(x)
      <4>1. x \in refunds => Linked(x.pay)
          BY DEF Links, RefundsAreLinked
      <4> QED
          BY <2>1, <4>1 DEF Operations, OperationsAreExact, RefundExact
    <3>2. payments'[x.pay].pid = payments[x.pay].pid
      <4>1. x.pay \in Req
          BY DEF TypeOK, ServiceTypeOK, Refund
      <4> QED
          BY <3>1, <4>1 DEF RefundExact, LinksKept, RecordKept
    <3> QED
        BY <2>1, <3>1, <3>2 DEF RefundExact
  <2> QED
      BY <1>1, <2>1 DEF Operations, OperationsAreExact
<1> QED
    BY <1>1, <1>3, <1>4, <1>5 DEF Operations, TxsAreKnown

\* Every step keeps the operations exact.
LEMMA NextOperations ==
    TypeOK /\ Shape /\ Gate /\ Charges /\ Links /\ Operations /\ [Next]_vars
      => Operations'
<1> SUFFICES ASSUME TypeOK, Shape, Gate, Charges, Links, Operations, [Next]_vars
             PROVE  Operations'
    OBVIOUS
<1>1. CASE ProviderWorks \/ ProviderFails
    BY <1>1, AllProviderMoves, ProviderKeysMove, ProviderOperations
<1> QED
    BY <1>1, NextShape, PlatformLinks, PlatformRefunds, OperationsFrame DEF Next

\* The operations' invariant.
THEOREM OperationsInvariant == Spec => []Operations
<1>1. Init => Operations
  <2> SUFFICES ASSUME Init PROVE Operations
      OBVIOUS
  <2>1. RefundsMade
      BY DEF Init, WireInit, ProviderInit, NoCall, NoIdem, NoResponse,
         RefundsMade, RefundMade
  <2> QED
      BY <2>1 DEF Init, ServiceInit, ProviderInit, Operations, TxsAreKnown,
         NoTxYet, OperationsAreExact
<1> QED
    BY <1>1, NextOperations, MoneyInvariant, Typed, PTL DEF Spec

\* The post-payment operations and createRefund: an operation of one key takes
\* effect at most once at the provider, for any number of retries, timeouts
\* and crashes, and every refund recorded as succeeded was made there.
THEOREM ExactOperations == Spec => []OperationsAreExact
<1>1. Operations => OperationsAreExact
    BY DEF Operations
<1> QED
    BY <1>1, OperationsInvariant, PTL

-----------------------------------------------------------------------------
(* The provider's books.                                                    *)

\* The amount of a transaction.
AmtOf == [t \in Transaction |-> t.amt]

\* The transactions of T that operation op made on payment p, and their sum.
Made(T, op, p) == {t \in T : t.pid = p /\ t.ok /\ t.pkey.op = op}
Total(T, op, p) == SumOver(AmtOf, Made(T, op, p))

\* The sum the books are stated with is a sum of the function AmtOf.
LEMMA SumIsTotal ==
    ASSUME NEW T \in SUBSET Transaction, IsFiniteSet(T)
    PROVE  MapThenSumSet(LAMBDA t : t.amt, T) = SumOver(AmtOf, T)
<1> DEFINE Iter(g) == g = [s \in SUBSET T |->
                       IF s = {} THEN 0
                       ELSE (CHOOSE x \in s : TRUE).amt
                              + g[s \ {CHOOSE x \in s : TRUE}]]
           h == CHOOSE g : Iter(g)
<1>1. MapThenSumSet(LAMBDA t : t.amt, T) = h[T]
    BY DEF MapThenSumSet, MapThenFoldSet
<1>2. \A s \in SUBSET T : s # {} =>
        (CHOOSE x \in s : TRUE).amt = AmtOf[First(s)]
    BY FirstIn DEF First, AmtOf
<1>3. \A g : IsIteration(g, AmtOf, T) <=> Iter(g)
    BY <1>2 DEF IsIteration, First
<1>4. \E g : IsIteration(g, AmtOf, T)
    BY IterationExists
<1>5. IsIteration(h, AmtOf, T)
    BY <1>3, <1>4, Zenon
<1> HIDE DEF h, Iter
<1> QED
    BY <1>1, <1>5, SumIsIterated

\* The sums of the books are totals.
LEMMA SumOfIsTotal ==
    ASSUME TypeOK, IsFiniteSet(txs), NEW op, NEW p
    PROVE  SumOf(op, p) = Total(txs, op, p)
<1>1. Made(txs, op, p) \in SUBSET Transaction /\ IsFiniteSet(Made(txs, op, p))
    BY FS_Subset DEF TypeOK, ProviderTypeOK, Made
<1>2. SumOf(op, p) = MapThenSumSet(LAMBDA t : t.amt, Made(txs, op, p))
    BY Zenon DEF SumOf, Made
<1> QED
    BY <1>1, <1>2, SumIsTotal DEF Total

\* A total grows by the amount of a new transaction that it counts.
LEMMA TotalAdds ==
    ASSUME NEW T \in SUBSET Transaction, IsFiniteSet(T),
           NEW n \in Transaction, n \notin T, NEW op, NEW p
    PROVE  Total(T \cup {n}, op, p) =
             IF n.pid = p /\ n.ok /\ n.pkey.op = op
             THEN Total(T, op, p) + n.amt ELSE Total(T, op, p)
<1> DEFINE M == Made(T, op, p)
<1>1. CASE n.pid = p /\ n.ok /\ n.pkey.op = op
  <2>1. Made(T \cup {n}, op, p) = M \cup {n}
      BY <1>1 DEF Made
  <2>2. n \notin M /\ M \subseteq T
      BY DEF Made
  <2>3. IsFiniteSet(T \cup {n}) /\ IsFiniteSet(M)
      BY <2>2, FS_AddElement, FS_Subset
  <2>4. \A t \in T \cup {n} : AmtOf[t] \in Nat
      BY MoneyFacts DEF AmtOf, Transaction
  <2>5. AmtOf[n] = n.amt
      BY DEF AmtOf
  <2> HIDE DEF M
  <2>6. SumOver(AmtOf, M \cup {n}) = AmtOf[n] + SumOver(AmtOf, M)
      BY <2>2, <2>3, <2>4, SumAddElement
  <2>7. SumOver(AmtOf, M) \in Nat
      BY <2>2, <2>3, <2>4, SumIsNatural
  <2>8. n.amt \in Nat
      BY <2>4, <2>5
  <2>9. Total(T \cup {n}, op, p) = n.amt + Total(T, op, p)
      BY <2>1, <2>5, <2>6 DEF Total, M
  <2>10. Total(T, op, p) \in Nat
      BY <2>7 DEF Total, M
  <2> DEFINE a == n.amt
             t == Total(T, op, p)
  <2>11. a \in Nat /\ t \in Nat /\ Total(T \cup {n}, op, p) = a + t
      BY <2>8, <2>9, <2>10
  <2>12. a \in Nat /\ t \in Nat => a + t = t + a
      <3> HIDE DEF a, t
      <3> QED
          OBVIOUS
  <2> QED
      BY <1>1, <2>11, <2>12
<1>2. CASE ~(n.pid = p /\ n.ok /\ n.pkey.op = op)
  <2>1. Made(T \cup {n}, op, p) = M
      BY <1>2 DEF Made
  <2> QED
      BY <1>2, <2>1 DEF Total
<1> QED
    BY <1>1, <1>2

\* A total over nothing.
LEMMA TotalOfNothing ==
    ASSUME NEW T, NEW op, NEW p, \A t \in T : ~(t.pid = p /\ t.pkey.op = op)
    PROVE  Total(T, op, p) = 0
<1>1. Made(T, op, p) = {}
    BY DEF Made
<1>2. SumOver(AmtOf, {}) = 0
    BY SumUnfolds, FS_EmptySet
<1> QED
    BY <1>1, <1>2 DEF Total

\* T has no capture of p.
NoCaptures(T, p) == \A t \in T : ~(t.pid = p /\ t.pkey.op = "capture")

\* The book of the stored payment x, named p, in the transactions T.
Book(T, p, x) ==
    /\ x.refunded = Total(T, "refund", p)
    /\ x.snap.status = "PENDING" => NoCaptures(T, p)
    /\ ~x.purchase =>
         \/ x.captured = Total(T, "capture", p)
         \/ /\ x.snap = Snapshot("SUCCEEDED", "APPROVED")
            /\ x.captured = Amount
            /\ NoCaptures(T, p)

\* The books of all payments.
Books ==
    /\ IsFiniteSet(txs)
    /\ \A p \in Req : IF ppay[p] = none THEN \A t \in txs : t.pid # p
                      ELSE Book(txs, p, ppay[p])

\* The book of a new payment is empty.
LEMMA CreateBook ==
    ASSUME NEW T, NEW r, NEW x, \A t \in T : t.pid # r, x.refunded = 0,
           x.captured = 0 \/ x.purchase
    PROVE  Book(T, r, x)
<1>1. Total(T, "refund", r) = 0 /\ Total(T, "capture", r) = 0
    BY TotalOfNothing
<1> QED
    BY <1>1 DEF Book, NoCaptures

\* What a capture, a cancellation and a refund add to the totals.
LEMMA ActionTotals ==
    ASSUME NEW T \in SUBSET Transaction, IsFiniteSet(T),
           NEW n \in Transaction, n \notin T
    PROVE  /\ Total(T \cup {n}, "capture", n.pid) =
                IF n.ok /\ n.pkey.op = "capture"
                THEN Total(T, "capture", n.pid) + n.amt
                ELSE Total(T, "capture", n.pid)
           /\ Total(T \cup {n}, "refund", n.pid) =
                IF n.ok /\ n.pkey.op = "refund"
                THEN Total(T, "refund", n.pid) + n.amt
                ELSE Total(T, "refund", n.pid)
<1>1. \A op : Total(T \cup {n}, op, n.pid) =
                IF n.pid = n.pid /\ n.ok /\ n.pkey.op = op
                THEN Total(T, op, n.pid) + n.amt ELSE Total(T, op, n.pid)
    BY TotalAdds
<1> QED
    BY <1>1

\* An action keeps the book of its payment.  Nothing is captured from, or
\* given back of, an authorization whose processing ended in success.
LEMMA ActionBook ==
    ASSUME NEW T \in SUBSET Transaction, IsFiniteSet(T),
           NEW n \in Transaction, n \notin T, NEW p, n.pid = p,
           NEW x \in ProviderPayment, NEW y \in ProviderPayment,
           Book(T, p, x), T = txs, x = ppay[p],
           Effect(p, x, n.pkey.op, n.amt, y, n.ok)
    PROVE  Book(T \cup {n}, p, y)
<1> DEFINE N == T \cup {n}
<1>1. /\ Total(N, "capture", p) = IF n.ok /\ n.pkey.op = "capture"
                                  THEN Total(T, "capture", p) + n.amt
                                  ELSE Total(T, "capture", p)
      /\ Total(N, "refund", p) = IF n.ok /\ n.pkey.op = "refund"
                                 THEN Total(T, "refund", p) + n.amt
                                 ELSE Total(T, "refund", p)
    BY ActionTotals
<1>2. n.pkey.op # "capture" /\ NoCaptures(T, p) => NoCaptures(N, p)
    BY DEF NoCaptures
<1> HIDE DEF N
<1>3. CASE n.pkey.op = "capture"
  <2> DEFINE c == x.captured + n.amt
             s == Snapshot("SUCCEEDED", IF c = Amount THEN "CAPTURED"
                                        ELSE "PARTIALLY_CAPTURED")
  <2>1. /\ y = [x EXCEPT !.captured = c, !.snap = s]
        /\ ~x.purchase /\ OpenAuthorization(x) /\ n.ok
      BY <1>3 DEF Effect, CanCapture, captureInStore
  <2>2. s.status = "SUCCEEDED" /\ x.snap # Snapshot("SUCCEEDED", "APPROVED")
      BY <2>1 DEF OpenAuthorization, Snapshot
  <2>3. /\ x.refunded = Total(T, "refund", p)
        /\ x.captured = Total(T, "capture", p)
      BY <2>1, <2>2 DEF Book
  <2>4. c = Total(N, "capture", p) /\ x.refunded = Total(N, "refund", p)
      BY <1>1, <1>3, <2>1, <2>3
  <2> HIDE DEF c, s
  <2>5. y.captured = c /\ y.snap = s /\ y.refunded = x.refunded
      BY <2>1 DEF ProviderPayment
  <2> QED
      BY <2>2, <2>4, <2>5 DEF Book, N
<1>4. CASE n.pkey.op = "cancel"
  <2> DEFINE s == IF x.captured = 0 THEN Snapshot("CANCELED", "CANCELED")
                  ELSE Snapshot("SUCCEEDED", "CAPTURED")
  <2>1. y = [x EXCEPT !.snap = s] /\ ~x.purchase /\ OpenAuthorization(x)
      BY <1>4 DEF Effect, CanCancel, cancelInStore
  <2>2. s.status # "PENDING" /\ x.snap # Snapshot("SUCCEEDED", "APPROVED")
      BY <2>1 DEF OpenAuthorization, Snapshot
  <2>3. /\ x.refunded = Total(T, "refund", p)
        /\ x.captured = Total(T, "capture", p)
      BY <2>1, <2>2 DEF Book
  <2> HIDE DEF s
  <2>4. y.captured = x.captured /\ y.snap = s /\ y.refunded = x.refunded
      BY <2>1 DEF ProviderPayment
  <2> QED
      BY <1>1, <1>4, <2>2, <2>3, <2>4 DEF Book, N
<1>5. CASE n.pkey.op = "refund"
  <2>1. /\ x.snap.status = "SUCCEEDED" /\ Refundable(ppay, p, txs)
        /\ y = refundInStore(x, n.amt) /\ n.ok = (x.scenario # "refund_failed")
      BY <1>5 DEF Effect, CanRefund
  <2>2. /\ x.refunded = Total(T, "refund", p)
        /\ ~x.purchase => x.captured = Total(T, "capture", p)
      BY <2>1 DEF Book, Refundable, NoCaptures
  <2>3. CASE x.scenario = "refund_failed"
    <3>1. y = x /\ ~n.ok
        BY <2>1, <2>3 DEF refundInStore
    <3> QED
        BY <1>1, <2>1, <2>2, <3>1 DEF Book, N
  <2>4. CASE x.scenario # "refund_failed"
    <3> DEFINE f == x.refunded + n.amt
               s == IF f = x.captured THEN Snapshot("REFUNDED", "REFUNDED")
                    ELSE Snapshot("SUCCEEDED", "PARTIALLY_REFUNDED")
    <3>1. y = [x EXCEPT !.refunded = f, !.snap = s] /\ n.ok
        BY <2>1, <2>4 DEF refundInStore
    <3>2. s.status # "PENDING"
        BY DEF Snapshot
    <3>3. f = Total(N, "refund", p)
        BY <1>1, <1>5, <2>2, <3>1
    <3> HIDE DEF f, s
    <3>4. /\ y.refunded = f /\ y.snap = s /\ y.captured = x.captured
          /\ y.purchase = x.purchase
        BY <3>1 DEF ProviderPayment
    <3> QED
        BY <1>1, <1>5, <2>2, <3>2, <3>3, <3>4 DEF Book, N
  <2> QED
      BY <2>3, <2>4
<1> QED
    BY <1>3, <1>4, <1>5 DEF Effect

\* So does the end of processing or of a 3-D Secure challenge: nothing was
\* captured before.
LEMMA OutcomeBook ==
    ASSUME NEW T, NEW p, NEW x \in ProviderPayment, NEW y \in ProviderPayment,
           Book(T, p, x), Sound(x), Outcome(x, y)
    PROVE  Book(T, p, y)
<1>1. CASE y = [x EXCEPT !.pending = "none"]
  <2>1. /\ y.captured = x.captured /\ y.refunded = x.refunded /\ y.snap = x.snap
        /\ y.purchase = x.purchase
      BY <1>1 DEF ProviderPayment
  <2> QED
      BY <2>1 DEF Book
<1>2. ASSUME x.pending \in {"SUCCEEDED", "DECLINED", "3ds"},
             NEW s \in {Snapshot("SUCCEEDED", "APPROVED"),
                        Snapshot("AUTHORIZED", "AUTHORIZED"),
                        Snapshot("DECLINED", "DECLINED"),
                        Snapshot("EXPIRED", "EXPIRED")},
             y = Terminal(x, s)
      PROVE  Book(T, p, y)
  <2>1. x.snap.status = "PENDING" /\ x.captured = 0
      BY <1>2 DEF Sound
  <2>2. NoCaptures(T, p) /\ Total(T, "capture", p) = 0
      BY <2>1, TotalOfNothing DEF Book, NoCaptures
  <2>3. /\ s.status # "PENDING"
        /\ s.status = "SUCCEEDED" => s = Snapshot("SUCCEEDED", "APPROVED")
      BY <1>2 DEF Snapshot
  <2>4. /\ y.captured = (IF s.status = "SUCCEEDED" THEN Amount ELSE 0)
        /\ y.refunded = x.refunded /\ y.snap = s /\ y.purchase = x.purchase
      BY <1>2, <2>1 DEF Terminal, ProviderPayment
  <2> QED
      BY <2>2, <2>3, <2>4 DEF Book
<1> QED
    BY <1>1, <1>2 DEF Outcome

\* The book of another payment does not see the transaction.
LEMMA OtherBook ==
    ASSUME NEW T \in SUBSET Transaction, IsFiniteSet(T),
           NEW n \in Transaction, n \notin T, NEW p, n.pid # p,
           NEW x, Book(T, p, x)
    PROVE  Book(T \cup {n}, p, x)
<1>1. \A op : Total(T \cup {n}, op, p) = Total(T, op, p)
    BY TotalAdds
<1>2. NoCaptures(T, p) => NoCaptures(T \cup {n}, p)
    BY DEF NoCaptures
<1> QED
    BY <1>1, <1>2 DEF Book

\* The provider keeps its books.
LEMMA ProviderBooks ==
    ASSUME TypeOK, Shape, Charges, Links, Claims, Operations, Books,
           ProviderMoves
    PROVE  Books'
<1>1. \A p \in Req : ppay[p] # none => ppay[p] \in ProviderPayment /\ Sound(ppay[p])
    BY DEF TypeOK, ProviderTypeOK, Claims, SoundPayments
<1>2. CASE UNCHANGED <<ppay, txs>>
    BY <1>2 DEF Books, Book, Total, Made, NoCaptures
<1>3. ASSUME NEW p \in Req, NEW x \in ProviderPayment, PaymentTakes(p, x),
             UNCHANGED txs, Book(txs, p, x)
      PROVE  Books'
  <2>1. x # none /\ ppay'[p] = x /\ \A q \in Req \ {p} : ppay'[q] = ppay[q]
      BY <1>3, NoneAssumption DEF PaymentTakes
  <2>2. \A q \in Req : IF ppay'[q] = none THEN \A t \in txs : t.pid # q
                       ELSE Book(txs, q, ppay'[q])
      BY <1>3, <2>1 DEF Books
  <2> QED
      BY <1>3, <2>2 DEF Books, Book, Total, Made, NoCaptures
<1>4. CASE Quiet
    BY <1>2, <1>4 DEF Quiet
<1>5. ASSUME NEW r \in Req, NEW x \in ProviderPayment, Creates(r, x)
      PROVE  Books'
  <2>1. ppay[r] = none /\ PaymentTakes(r, x) /\ UNCHANGED txs
      BY <1>5 DEF Creates, Executes, Links, CalledOnce
  <2>2. x.refunded = 0 /\ (x.captured = 0 \/ x.purchase)
      BY <1>5 DEF Creates
  <2>3. \A t \in txs : t.pid # r
      BY <2>1 DEF Books
  <2> QED
      BY <1>3, <2>1, <2>2, <2>3, CreateBook
<1>6. ASSUME NEW r \in Req, NEW x \in ProviderPayment, NEW amt \in Money,
             NEW ok \in BOOLEAN, Acts(r, x, amt, ok)
      PROVE  Books'
  <2> DEFINE k == call[r].pkey
             p == k.pid
             n == [pid |-> p, by |-> r, pkey |-> k, amt |-> amt, ok |-> ok]
             T == txs \cup {n}
  <2>1. /\ call[r].stage = "begun" /\ k \in ProviderKey /\ p \in Req
        /\ ppay[p] # none /\ PaymentTakes(p, x)
        /\ Effect(p, ppay[p], k.op, amt, x, ok) /\ txs' = T
      BY <1>6 DEF Acts, Executes
  <2>2. n \in Transaction
      BY <2>1 DEF Transaction
  <2>3. n.pid = p /\ n.pkey = k /\ n.amt = amt /\ n.ok = ok
      OBVIOUS
  <2> HIDE DEF n
  <2>4. n \notin txs
      BY <2>1, <2>3 DEF Operations, NoTxYet, Blank
  <2>5. IsFiniteSet(txs) /\ txs \in SUBSET Transaction
      BY DEF Books, TypeOK, ProviderTypeOK
  <2>6. IsFiniteSet(T)
      BY <2>5, FS_AddElement
  <2>7. Book(T, p, x)
    <3>1. Effect(p, ppay[p], n.pkey.op, n.amt, x, n.ok)
        BY <2>1, <2>3
    <3>2. Book(txs, p, ppay[p]) /\ ppay[p] \in ProviderPayment
        BY <1>1, <2>1 DEF Books
    <3> HIDE DEF k, p
    <3> QED
        BY <2>2, <2>3, <2>4, <2>5, <3>1, <3>2, ActionBook
  <2>8. \A q \in Req \ {p} : ppay[q] # none => Book(T, q, ppay[q])
    <3> SUFFICES ASSUME NEW q \in Req \ {p}, ppay[q] # none
                 PROVE  Book(T, q, ppay[q])
        OBVIOUS
    <3>1. Book(txs, q, ppay[q]) /\ n.pid # q
        BY <2>3 DEF Books
    <3> HIDE DEF k, p
    <3> QED
        BY <2>2, <2>4, <2>5, <3>1, OtherBook
  <2>9. \A q \in Req \ {p} : ppay[q] = none => \A t \in T : t.pid # q
      BY <2>3 DEF Books
  <2>10. ppay'[p] = x /\ x # none /\ \A q \in Req \ {p} : ppay'[q] = ppay[q]
      BY <2>1, NoneAssumption DEF PaymentTakes
  <2> HIDE DEF p, T
  <2>11. \A q \in Req : IF ppay'[q] = none THEN \A t \in T : t.pid # q
                        ELSE Book(T, q, ppay'[q])
      BY <2>7, <2>8, <2>9, <2>10
  <2> QED
      BY <2>1, <2>6, <2>11 DEF Books, Book, Total, Made, NoCaptures
<1>7. ASSUME NEW p \in Req, NEW y \in ProviderPayment, Passes(p, y)
      PROVE  Books'
  <2>1. /\ ppay[p] # none /\ Outcome(ppay[p], y) /\ PaymentTakes(p, y)
        /\ UNCHANGED txs
      BY <1>7 DEF Passes
  <2>2. Book(txs, p, ppay[p])
      BY <2>1 DEF Books
  <2> QED
      BY <1>1, <1>3, <2>1, <2>2, OutcomeBook
<1> QED
    BY <1>4, <1>5, <1>6, <1>7 DEF ProviderMoves

\* Every step keeps the books.
LEMMA NextBooks ==
    /\ TypeOK /\ Shape /\ Gate /\ Charges /\ Links /\ Claims /\ Operations
    /\ Books /\ [Next]_vars
    => Books'
<1> SUFFICES ASSUME TypeOK, Shape, Gate, Charges, Links, Claims, Operations,
                    Books, [Next]_vars
             PROVE  Books'
    OBVIOUS
<1>1. CASE ProviderWorks \/ ProviderFails
    BY <1>1, AllProviderMoves, ProviderBooks
<1>2. CASE UNCHANGED <<ppay, txs>>
    BY <1>2 DEF Books, Book, Total, Made, NoCaptures
<1> QED
    BY <1>1, <1>2, PlatformLinks, PlatformRefunds DEF LinksKept, Next

\* The books' invariant gives the property.
LEMMA BooksBalance == TypeOK /\ Claims /\ Books => ProviderBooksBalance
<1> SUFFICES ASSUME TypeOK, Claims, Books, NEW p \in Req, ppay[p] # none
             PROVE  /\ ppay[p].refunded = SumOf("refund", p)
                    /\ ppay[p].refunded <= ppay[p].captured
                    /\ ppay[p].captured <= Amount
                    /\ ~ppay[p].purchase =>
                         \/ ppay[p].captured = SumOf("capture", p)
                         \/ /\ ppay[p].snap = Snapshot("SUCCEEDED", "APPROVED")
                            /\ ppay[p].captured = Amount
                            /\ SumOf("capture", p) = 0
    BY DEF ProviderBooksBalance
<1>1. /\ SumOf("refund", p) = Total(txs, "refund", p)
      /\ SumOf("capture", p) = Total(txs, "capture", p)
    BY SumOfIsTotal DEF Books
<1>2. Book(txs, p, ppay[p])
    BY DEF Books
<1>3. NoCaptures(txs, p) => Total(txs, "capture", p) = 0
    BY TotalOfNothing DEF NoCaptures
<1>4. ppay[p].refunded <= ppay[p].captured
    BY DEF Claims, SoundPayments, Sound
<1>5. ppay[p].captured <= Amount
    BY WireAssumption DEF TypeOK, ProviderTypeOK, ProviderPayment, Money
<1> QED
    BY <1>1, <1>2, <1>3, <1>4, <1>5 DEF Book

\* captureInStore / refundInStore: for any number of operations, replays and
\* failures, the amounts of a provider payment are the sums of its
\* transactions, refunds stay within captures and captures within the amount.
THEOREM BalancedBooks == Spec => []ProviderBooksBalance
<1>1. Init => Books
    BY FS_EmptySet DEF Init, ProviderInit, Books
<1> QED
    BY <1>1, BooksBalance, NextBooks, MoneyInvariant, OperationsInvariant, Typed,
       PTL DEF Spec
=============================================================================
