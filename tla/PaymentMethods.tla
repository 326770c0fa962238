--------------------------- MODULE PaymentMethods ---------------------------
(***************************************************************************)
(* Enrollment of payment methods: beginEnrollment, getEnrollment,          *)
(* patchPaymentMethod and deletePaymentMethod                              *)
(* (src/src/services/payments/payment-service.ts), the adapter's calls     *)
(* (src/src/providers/yuno/yuno-adapter.ts) and the customers, sessions    *)
(* and methods of the provider (src/yuno_mock/src/services).               *)
(*                                                                         *)
(* A request takes the store's lock for each of its steps and calls the    *)
(* provider between them; the answer of a call may be lost after it took   *)
(* effect.  A principal has one customer; a session has the name of the    *)
(* enrollment it is for; a card's fingerprint is the card; a vaulted       *)
(* token is the position of its method at the provider.                    *)
(***************************************************************************)
EXTENDS Naturals, Sequences, FiniteSetsExt

CONSTANTS
    Principal,
    Enrollment,    \* bound: sessions and enrollments
    Card,
    lfd,           \* [Card -> the last four digits]
    Call,          \* requests in flight
    MaxFailures,   \* bound: lost answers and abandoned requests
    None

ASSUME MethodsAssumption ==
    MaxFailures \in Nat /\ DOMAIN lfd = Card /\ None \notin Principal \cup Card

VARIABLES
    customers,    \* store.customers: the principals that have one
    enrollment,   \* store.enrollments
    methods,      \* store.paymentMethods
    pcustomers,   \* the provider's customers, by merchant_customer_id
    session,      \* the provider's sessions with their pending vault
    enrolled,     \* the provider's payment methods
    replay,       \* X-Idempotency-Key enroll:<enrollment> -> method, or 0
    call,
    failures

store == <<customers, enrollment, methods>>
provider == <<pcustomers, session, enrolled, replay>>
vars == <<store, provider, call, failures>>

Method == [enrollment : Enrollment, principal : Principal,
           status : {"active", "inactive"}, isDefault : BOOLEAN,
           providerMethod : Nat, token : Nat]
ProviderMethod == [principal : Principal, card : Card, session : Enrollment,
                   status : {"ENROLLED", "UNENROLLED"}]
Idle == [pc |-> "idle", principal |-> None, enrollment |-> None, method |-> 0,
         token |-> 0]

TypeOK ==
    /\ customers \subseteq Principal
    /\ enrollment \in [Enrollment ->
         [status : {"none", "pending_user_action", "completed"},
          principal : Principal \cup {None}]]
    /\ methods \in Seq(Method)
    /\ pcustomers \subseteq Principal
    /\ session \in [Enrollment -> [principal : Principal \cup {None},
                                   card : Card \cup {None}]]
    /\ enrolled \in Seq(ProviderMethod)
    /\ replay \in [Enrollment -> Nat]
    /\ call \in [Call ->
         [pc : {"idle", "customer", "record", "session", "push", "enroll",
                "list", "complete", "unenroll", "deactivate"},
          principal : Principal \cup {None}, enrollment : Enrollment \cup {None},
          method : Nat, token : Nat]]
    /\ failures \in Nat

Init ==
    /\ customers = {}
    /\ enrollment = [e \in Enrollment |-> [status |-> "none", principal |-> None]]
    /\ methods = <<>>
    /\ pcustomers = {}
    /\ session = [e \in Enrollment |-> [principal |-> None, card |-> None]]
    /\ enrolled = <<>>
    /\ replay = [e \in Enrollment |-> 0]
    /\ call = [c \in Call |-> Idle]
    /\ failures = 0

Begin(c, request) ==
    call[c].pc = "idle" /\ call' = [call EXCEPT ![c] = request]

(* The request ends, with an answer or an error. *)
End(c) == call' = [call EXCEPT ![c] = Idle] /\ UNCHANGED failures

Continue(c, request) == call' = [call EXCEPT ![c] = request] /\ UNCHANGED failures

(* The provider's answer arrives and the request goes on, or it is lost and *)
(* the request ends with payment_outcome_unknown.                           *)
Answer(c, request) ==
    \/ Continue(c, request)
    \/ /\ failures < MaxFailures
       /\ failures' = failures + 1
       /\ call' = [call EXCEPT ![c] = Idle]

(* A call that does not reach the provider, or a crash. *)
Abandon(c) ==
    /\ call[c].pc # "idle"
    /\ failures < MaxFailures
    /\ failures' = failures + 1
    /\ call' = [call EXCEPT ![c] = Idle]
    /\ UNCHANGED <<store, provider>>

-----------------------------------------------------------------------------
(* beginEnrollment. *)

Unopened(e) == session[e].principal = None

BeginEnrollment(c, p) ==
    /\ \E e \in Enrollment : Unopened(e)
    /\ Begin(c, [Idle EXCEPT !.principal = p,
                   !.pc = IF p \in customers THEN "session" ELSE "customer"])
    /\ UNCHANGED <<store, provider, failures>>

(* createOrFindCustomer: the provider refuses a merchant_customer_id it     *)
(* has, and the request ends.                                               *)
CreateCustomer(c) ==
    /\ call[c].pc = "customer"
    /\ IF call[c].principal \in pcustomers
       THEN End(c) /\ UNCHANGED pcustomers
       ELSE /\ pcustomers' = pcustomers \cup {call[c].principal}
            /\ Answer(c, [call[c] EXCEPT !.pc = "record"])
    /\ UNCHANGED <<store, session, enrolled, replay>>

RecordCustomer(c) ==
    /\ call[c].pc = "record"
    /\ customers' = customers \cup {call[c].principal}
    /\ Continue(c, [call[c] EXCEPT !.pc = "session"])
    /\ UNCHANGED <<enrollment, methods, provider>>

CreateSession(c, e) ==
    /\ call[c].pc = "session"
    /\ Unopened(e)
    /\ session' = [session EXCEPT ![e].principal = call[c].principal]
    /\ Answer(c, [call[c] EXCEPT !.pc = "push", !.enrollment = e])
    /\ UNCHANGED <<store, pcustomers, enrolled, replay>>

PushEnrollment(c) ==
    /\ call[c].pc = "push"
    /\ enrollment' = [enrollment EXCEPT ![call[c].enrollment] =
                        [status |-> "pending_user_action",
                         principal |-> call[c].principal]]
    /\ End(c)
    /\ UNCHANGED <<customers, methods, provider>>

(* The person types a card, or another one, into the page of the session.   *)
Tokenize(e, card) ==
    /\ enrollment[e].status # "none"
    /\ session' = [session EXCEPT ![e].card = card]
    /\ UNCHANGED <<store, pcustomers, enrolled, replay, call, failures>>

-----------------------------------------------------------------------------
(* getEnrollment of a pending enrollment. *)

\* Deviation (mutant): only a session with a card in it is polled.
GetEnrollmentTokenized(c, e) ==
    /\ enrollment[e].status = "pending_user_action" /\ session[e].card # None
    /\ Begin(c, [Idle EXCEPT !.pc = "enroll", !.enrollment = e,
                             !.principal = enrollment[e].principal])
    /\ UNCHANGED <<store, provider, failures>>

GetEnrollment(c, e) ==
    /\ enrollment[e].status = "pending_user_action"
    /\ Begin(c, [Idle EXCEPT !.pc = "enroll", !.enrollment = e,
                             !.principal = enrollment[e].principal])
    /\ UNCHANGED <<store, provider, failures>>

(* The fingerprint is enrolled for this customer already. *)
AlreadyEnrolled(e) ==
    \E i \in DOMAIN enrolled :
        /\ enrolled[i].principal = session[e].principal
        /\ enrolled[i].card = session[e].card
        /\ enrolled[i].status = "ENROLLED"

(* enrollPaymentMethod: a key that has a result is answered with it;        *)
(* without a card, or with one that is enrolled, the enrollment stays       *)
(* pending.                                                                 *)
Enroll(c) ==
    LET e == call[c].enrollment
        n == Len(enrolled) + 1
    IN  /\ call[c].pc = "enroll"
        /\ \/ /\ replay[e] # 0
              /\ Answer(c, [call[c] EXCEPT !.pc = "list", !.method = replay[e]])
              /\ UNCHANGED provider
           \/ /\ replay[e] = 0
              /\ session[e].card = None \/ AlreadyEnrolled(e)
              /\ End(c)
              /\ UNCHANGED provider
           \/ /\ replay[e] = 0
              /\ session[e].card # None /\ ~AlreadyEnrolled(e)
              /\ enrolled' = Append(enrolled,
                   [principal |-> session[e].principal, card |-> session[e].card,
                    session |-> e, status |-> "ENROLLED"])
              /\ session' = [session EXCEPT ![e].card = None]
              /\ replay' = [replay EXCEPT ![e] = n]
              /\ Answer(c, [call[c] EXCEPT !.pc = "list", !.method = n])
              /\ UNCHANGED pcustomers
        /\ UNCHANGED store

(* The method is read for its last four digits, the customer's methods are  *)
(* listed, and the token is that of the first one with these digits.        *)
Matching(c) ==
    {i \in DOMAIN enrolled :
        /\ enrolled[i].principal = call[c].principal
        /\ enrolled[i].status = "ENROLLED"
        /\ lfd[enrolled[i].card] = lfd[enrolled[call[c].method].card]}

ListMethods(c) ==
    /\ call[c].pc = "list"
    /\ IF Matching(c) = {} THEN End(c)
       ELSE Continue(c, [call[c] EXCEPT !.pc = "complete",
                                        !.token = Min(Matching(c))])
    /\ UNCHANGED <<store, provider>>

ActiveOf(p) ==
    {i \in DOMAIN methods : methods[i].principal = p /\ methods[i].status = "active"}

\* Deviation (mutant): the latest method is the default one.
MakesDefaultAlways(p) == TRUE

MakesDefault(p) == ActiveOf(p) = {}

NewMethod(request) ==
    [enrollment |-> request.enrollment, principal |-> request.principal,
     status |-> "active", isDefault |-> MakesDefault(request.principal),
     providerMethod |-> request.method, token |-> request.token]

\* Deviation (mutant): the status is not looked at again under the lock.
CompleteUnchecked(c) ==
    /\ call[c].pc = "complete"
    /\ methods' = Append(methods, NewMethod(call[c]))
    /\ enrollment' = [enrollment EXCEPT ![call[c].enrollment].status = "completed"]
    /\ End(c)
    /\ UNCHANGED <<customers, provider>>

(* Under the lock, unless another request has completed it meanwhile.       *)
Complete(c) ==
    LET e == call[c].enrollment
    IN  /\ call[c].pc = "complete"
        /\ IF enrollment[e].status = "pending_user_action"
           THEN /\ methods' = Append(methods, NewMethod(call[c]))
                /\ enrollment' = [enrollment EXCEPT ![e].status = "completed"]
           ELSE UNCHANGED <<methods, enrollment>>
        /\ End(c)
        /\ UNCHANGED <<customers, provider>>

-----------------------------------------------------------------------------
(* patchPaymentMethod and deletePaymentMethod. *)

(* { isDefault: true }: every other method of the principal loses it.       *)
PatchDefault(m) ==
    /\ methods' = [i \in DOMAIN methods |->
                     IF methods[i].principal = methods[m].principal
                     THEN [methods[i] EXCEPT !.isDefault = (i = m)]
                     ELSE methods[i]]
    /\ UNCHANGED <<customers, enrollment, provider, call, failures>>

DeleteMethod(c, m) ==
    /\ Begin(c, [Idle EXCEPT !.pc = "unenroll", !.method = m,
                             !.principal = methods[m].principal])
    /\ UNCHANGED <<store, provider, failures>>

(* The provider refuses a method that is unenrolled already, and the        *)
(* request ends.                                                            *)
Unenroll(c) ==
    LET i == methods[call[c].method].providerMethod
    IN  /\ call[c].pc = "unenroll"
        /\ IF enrolled[i].status = "UNENROLLED"
           THEN End(c) /\ UNCHANGED enrolled
           ELSE /\ enrolled' = [enrolled EXCEPT ![i].status = "UNENROLLED"]
                /\ Answer(c, [call[c] EXCEPT !.pc = "deactivate"])
        /\ UNCHANGED <<store, pcustomers, session, replay>>

Deactivate(c) ==
    /\ call[c].pc = "deactivate"
    /\ methods' = [methods EXCEPT ![call[c].method].status = "inactive"]
    /\ End(c)
    /\ UNCHANGED <<customers, enrollment, provider>>

-----------------------------------------------------------------------------

CallStep(c) ==
    \/ CreateCustomer(c) \/ RecordCustomer(c) \/ PushEnrollment(c)
    \/ \E e \in Enrollment : CreateSession(c, e)
    \/ Enroll(c) \/ ListMethods(c) \/ Complete(c)
    \/ Unenroll(c) \/ Deactivate(c)

Next ==
    \/ \E c \in Call :
         \/ \E p \in Principal : BeginEnrollment(c, p)
         \/ \E e \in Enrollment : GetEnrollment(c, e)
         \/ \E m \in DOMAIN methods : DeleteMethod(c, m)
         \/ CallStep(c) \/ Abandon(c)
    \/ \E e \in Enrollment, card \in Card : Tokenize(e, card)
    \/ \E m \in DOMAIN methods : PatchDefault(m)

Spec == Init /\ [][Next]_vars

(* A request in flight goes on, and the page polls its enrollment while it  *)
(* is pending, also between other requests.                                 *)
Fairness ==
    /\ \A c \in Call : WF_vars(CallStep(c))
    /\ \A e \in Enrollment : SF_vars(\E c \in Call : GetEnrollment(c, e))

FairSpec == Spec /\ Fairness

-----------------------------------------------------------------------------
(* Properties. *)

(* An enrollment yields one method, at the provider and on the platform,    *)
(* however many requests poll it at once, whatever answers are lost and     *)
(* whether another card is typed in meanwhile.                              *)
OneMethodPerEnrollment ==
    /\ \A i, j \in DOMAIN methods :
         methods[i].enrollment = methods[j].enrollment => i = j
    /\ \A i, j \in DOMAIN enrolled :
         enrolled[i].session = enrolled[j].session => i = j

(* A person has one default method at most among the active ones, through   *)
(* deletions that keep the flag and enrollments that set it.                *)
OneDefault ==
    \A i, j \in DOMAIN methods :
        /\ methods[i].principal = methods[j].principal
        /\ methods[i].status = "active" /\ methods[j].status = "active"
        /\ methods[i].isDefault /\ methods[j].isDefault
        => i = j

(* A card that is enrolled at the provider becomes a method of the          *)
(* platform, also when the answer was lost: the next poll gets it again     *)
(* under the same key.                                                      *)
EnrolledIsRecorded ==
    \A e \in Enrollment :
        replay[e] # 0 ~> enrollment[e].status = "completed"

-----------------------------------------------------------------------------
(* What the documents say and the code does not do. *)

(* The token of a method is that of the card that was enrolled ("Internal   *)
(* payment_method_id | Yuno payment_method_id + vaulted_token"); false when *)
(* two cards of a customer end in the same digits.                          *)
TokenIsOfMethod ==
    \A i \in DOMAIN methods : methods[i].token = methods[i].providerMethod

(* "DELETE: Unenroll at provider + deactivate locally": no method is active *)
(* once it is unenrolled and no request is about to deactivate it.          *)
UnenrolledIsInactive ==
    \A m \in DOMAIN methods :
        /\ enrolled[methods[m].providerMethod].status = "UNENROLLED"
        /\ \A c \in Call : ~(call[c].pc = "deactivate" /\ call[c].method = m)
        => methods[m].status = "inactive"

(* "Payment customer create/retrieve at the provider": a customer of the    *)
(* provider is one of the platform, or a request is about to record it.     *)
CustomerIsKnown ==
    \A p \in pcustomers :
        p \in customers \/ \E c \in Call : call[c].pc = "record" /\ call[c].principal = p

=============================================================================
