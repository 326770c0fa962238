------------------------ MODULE MethodWebhookProofs -------------------------
(***************************************************************************)
(* Enrollment of payment methods, for any people, enrollments, cards,      *)
(* digits, requests and lost answers: an enrollment yields one method, and *)
(* a person has one default method.  Webhooks to merchants, for any        *)
(* endpoints, loops and crashes: what is called delivered was taken.       *)
(***************************************************************************)
EXTENDS PaymentMethods, OutboundWebhooks, SetFacts

(* Steps of a request that opens an enrollment, and that polls one. *)
Opening == {"customer", "record", "session", "push"}
Polling == {"enroll", "list", "complete"}

(* A session is opened before its enrollment is known, for somebody. *)
Opened == \A e \in Enrollment :
              enrollment[e].status # "none" =>
                  ~Unopened(e) /\ enrollment[e].principal \in Principal

(* A request works on what exists.                                          *)
RequestSound(q) ==
    /\ q.pc \in Opening \cup Polling => q.principal \in Principal
    /\ q.pc = "push" => /\ q.enrollment \in Enrollment
                        /\ ~Unopened(q.enrollment)
                        /\ enrollment[q.enrollment].status = "none"
    /\ q.pc \in Polling => /\ q.enrollment \in Enrollment
                           /\ enrollment[q.enrollment].status # "none"
    /\ q.pc \in {"list", "complete"} => q.method \in DOMAIN enrolled
    /\ q.pc = "complete" => q.token \in DOMAIN enrolled
    /\ q.pc \in {"unenroll", "deactivate"} => q.method \in DOMAIN methods

(* So for the request in slot c. *)
CallSound(c) == RequestSound(call[c])

(* The sessions of two requests are never one. *)
PushesApart ==
    \A c, d \in Call :
        /\ call[c].pc = "push" /\ call[d].pc = "push"
        /\ call[c].enrollment = call[d].enrollment
        => c = d

(* A method is of a completed enrollment, and of a method of the provider.  *)
MethodsSound ==
    \A i \in DOMAIN methods :
        /\ enrollment[methods[i].enrollment].status = "completed"
        /\ methods[i].providerMethod \in DOMAIN enrolled
        /\ methods[i].token \in DOMAIN enrolled

(* The provider's key of an enrollment remembers what it made. *)
Remembered ==
    /\ \A e \in Enrollment : replay[e] # 0 => replay[e] \in DOMAIN enrolled
    /\ \A i \in DOMAIN enrolled : replay[enrolled[i].session] = i

(* The inductive invariant. *)
MethodsInv ==
    /\ TypeOK /\ Opened /\ PushesApart /\ MethodsSound /\ Remembered
    /\ \A c \in Call : CallSound(c)
    /\ OneMethodPerEnrollment
    /\ OneDefault

-----------------------------------------------------------------------------
(* What a step leaves of the requests in flight. *)

(* The requests in flight. *)
Request == [pc : {"idle", "customer", "record", "session", "push", "enroll",
                  "list", "complete", "unenroll", "deactivate"},
            principal : Principal \cup {None},
            enrollment : Enrollment \cup {None}, method : Nat, token : Nat]

(* A session that was opened stays so, an enrollment that is known stays    *)
(* known, and no method goes away.                                          *)
Grown ==
    /\ \A e \in Enrollment : ~Unopened(e) => ~Unopened(e)'
    /\ \A e \in Enrollment : enrollment[e].status # "none" =>
                                enrollment'[e].status # "none"
    /\ DOMAIN enrolled \subseteq DOMAIN enrolled'
    /\ DOMAIN methods \subseteq DOMAIN methods'

(* What a request relies on stays, if nobody else stores its enrollment.    *)
LEMMA SoundStays ==
    ASSUME Grown, NEW q, RequestSound(q),
           q.pc = "push" => enrollment'[q.enrollment].status = "none"
    PROVE  RequestSound(q)'
BY DEF Grown, RequestSound, Polling, Opening

(* A request that has ended relies on nothing.                              *)
LEMMA IdleSound == Idle \in Request /\ RequestSound(Idle) /\ RequestSound(Idle)'
BY DEF Idle, Request, RequestSound, Polling, Opening

(* One request goes on as q, and stores no enrollment.                      *)
LEMMA CallTakes ==
    ASSUME MethodsInv, Grown, NEW c \in Call, NEW q \in Request, RequestSound(q)',
           call' = [call EXCEPT ![c] = q],
           \A e \in Enrollment : enrollment[e].status = "none" =>
                                     enrollment'[e].status = "none",
           q.pc = "push" => \A d \in Call : call[d].pc = "push" =>
                                call[d].enrollment # q.enrollment
    PROVE  /\ call' \in [Call -> Request]
           /\ \A d \in Call : CallSound(d)'
           /\ PushesApart'
<1>1. call \in [Call -> Request]
  BY DEF MethodsInv, TypeOK, Request
<1>2. call'[c] = q /\ \A d \in Call \ {c} : call'[d] = call[d]
  BY <1>1
<1>3. ASSUME NEW d \in Call PROVE CallSound(d)'
  <2>1. CASE d = c
    BY <2>1, <1>2 DEF CallSound
  <2>2. CASE d # c
    <3>1. PICK r : r = call[d]
      OBVIOUS
    <3>2. RequestSound(r)
      BY <3>1 DEF MethodsInv, CallSound
    <3>3. r.pc = "push" => enrollment'[r.enrollment].status = "none"
      BY <3>2 DEF RequestSound
    <3>4. RequestSound(r)'
      BY <3>2, <3>3, SoundStays
    <3>5. r = call'[d]
      BY <3>1, <2>2, <1>2
    <3>6. QED
      BY <3>4, <3>5 DEF CallSound
  <2>3. QED
    BY <2>1, <2>2
<1>4. PushesApart'
  BY <1>2 DEF MethodsInv, PushesApart
<1>5. QED
  BY <1>1, <1>3, <1>4

(* A step that touches neither the store nor the provider.                  *)
LEMMA CallOnly ==
    ASSUME MethodsInv, UNCHANGED <<store, provider>>, failures' \in Nat,
           NEW c \in Call, NEW q \in Request, RequestSound(q)', q.pc # "push",
           call' = [call EXCEPT ![c] = q]
    PROVE  MethodsInv'
<1> USE DEF store, provider
<1>1. Grown
  BY DEF Grown, Unopened
<1>2. /\ call' \in [Call -> Request]
      /\ \A d \in Call : CallSound(d)'
      /\ PushesApart'
  BY <1>1, CallTakes
<1>3. TypeOK'
  BY <1>2 DEF MethodsInv, TypeOK, Request
<1>4. Opened' /\ MethodsSound' /\ Remembered' /\ OneMethodPerEnrollment' /\ OneDefault'
  BY DEF MethodsInv, Opened, Unopened, MethodsSound, Remembered, OneMethodPerEnrollment,
         OneDefault
<1>5. QED
  BY <1>2, <1>3, <1>4 DEF MethodsInv

(* The rows are records of their types. *)
LEMMA RowsTyped ==
    ASSUME TypeOK
    PROVE  /\ \A i \in DOMAIN methods : methods[i] \in Method /\ i \in Nat
           /\ \A i \in DOMAIN enrolled : enrolled[i] \in ProviderMethod /\ i \in Nat
<1>1. methods \in Seq(Method) /\ enrolled \in Seq(ProviderMethod)
  BY DEF TypeOK
<1>2. QED
  BY <1>1

(* The answer of a call lets its request go on as q, or end. *)
LEMMA Answers ==
    ASSUME TypeOK, NEW c \in Call, NEW q \in Request, Answer(c, q)
    PROVE  /\ failures' \in Nat
           /\ \E r \in {q, Idle} : call' = [call EXCEPT ![c] = r]
BY DEF TypeOK, Answer, Continue

-----------------------------------------------------------------------------
(* beginEnrollment. *)

(* A request that begins. *)
LEMMA BeginSteps ==
    ASSUME MethodsInv, NEW c \in Call,
           \/ \E p \in Principal : BeginEnrollment(c, p)
           \/ \E e \in Enrollment : GetEnrollment(c, e)
           \/ \E m \in DOMAIN methods : DeleteMethod(c, m)
    PROVE  MethodsInv'
<1> USE DEF store, provider
<1>1. ASSUME NEW p \in Principal, BeginEnrollment(c, p) PROVE MethodsInv'
  <2>1. PICK q : q = [Idle EXCEPT !.principal = p,
                        !.pc = IF p \in customers THEN "session" ELSE "customer"]
    OBVIOUS
  <2>2. /\ q \in Request /\ q.principal = p /\ q.pc \in {"session", "customer"}
    BY <2>1 DEF Idle, Request
  <2>3. RequestSound(q)'
    BY <2>2 DEF RequestSound, Polling
  <2>4. call' = [call EXCEPT ![c] = q] /\ UNCHANGED <<store, provider, failures>>
    BY <1>1, <2>1 DEF BeginEnrollment, Begin
  <2>5. failures' \in Nat
    BY <2>4 DEF MethodsInv, TypeOK
  <2>6. QED
    BY <2>2, <2>3, <2>4, <2>5, CallOnly
<1>2. ASSUME NEW e \in Enrollment, GetEnrollment(c, e) PROVE MethodsInv'
  <2>1. PICK q : q = [Idle EXCEPT !.pc = "enroll", !.enrollment = e,
                                  !.principal = enrollment[e].principal]
    OBVIOUS
  <2>2. /\ enrollment[e].status # "none" /\ enrollment[e].principal \in Principal
    BY <1>2 DEF GetEnrollment, MethodsInv, Opened
  <2>3. /\ q \in Request /\ q.principal \in Principal /\ q.pc = "enroll"
        /\ q.enrollment = e
    BY <2>1, <2>2 DEF Idle, Request
  <2>4. call' = [call EXCEPT ![c] = q] /\ UNCHANGED <<store, provider, failures>>
    BY <1>2, <2>1 DEF GetEnrollment, Begin
  <2>5. RequestSound(q)'
    BY <2>2, <2>3, <2>4 DEF RequestSound, Polling
  <2>6. failures' \in Nat
    BY <2>4 DEF MethodsInv, TypeOK
  <2>7. QED
    BY <2>3, <2>4, <2>5, <2>6, CallOnly
<1>3. ASSUME NEW m \in DOMAIN methods, DeleteMethod(c, m) PROVE MethodsInv'
  <2>1. PICK q : q = [Idle EXCEPT !.pc = "unenroll", !.method = m,
                                  !.principal = methods[m].principal]
    OBVIOUS
  <2>2. methods[m].principal \in Principal /\ m \in Nat
    BY RowsTyped DEF MethodsInv, Method
  <2>3. q \in Request /\ q.pc = "unenroll" /\ q.method = m
    BY <2>1, <2>2 DEF Idle, Request
  <2>4. call' = [call EXCEPT ![c] = q] /\ UNCHANGED <<store, provider, failures>>
    BY <1>3, <2>1 DEF DeleteMethod, Begin
  <2>5. RequestSound(q)'
    BY <2>3, <2>4 DEF RequestSound, Polling, Opening
  <2>6. failures' \in Nat
    BY <2>4 DEF MethodsInv, TypeOK
  <2>7. QED
    BY <2>3, <2>4, <2>5, <2>6, CallOnly
<1>4. QED
  BY <1>1, <1>2, <1>3

(* A request that is abandoned. *)
LEMMA AbandonStep == ASSUME MethodsInv, NEW c \in Call, Abandon(c) PROVE MethodsInv'
<1>1. /\ UNCHANGED <<store, provider>> /\ failures' \in Nat
      /\ call' = [call EXCEPT ![c] = Idle]
  BY DEF Abandon, MethodsInv, TypeOK
<1>2. Idle.pc # "push"
  BY DEF Idle
<1>3. QED
  BY <1>1, <1>2, IdleSound, CallOnly

(* Facts about the invariant that do not mention requests.                  *)
StoreInv == Opened /\ MethodsSound /\ Remembered /\ OneMethodPerEnrollment /\ OneDefault

(* createOrFindCustomer, and the customer that is recorded. *)
LEMMA CustomerSteps ==
    ASSUME MethodsInv, NEW c \in Call, CreateCustomer(c) \/ RecordCustomer(c)
    PROVE  MethodsInv'
<1>1. PICK q : q = call[c]
  OBVIOUS
<1>2. q \in Request /\ RequestSound(q)
  BY <1>1 DEF MethodsInv, TypeOK, Request, CallSound
<1>3. UNCHANGED <<enrollment, methods, session, enrolled, replay>>
  BY DEF CreateCustomer, RecordCustomer, store, provider
<1>4. q.principal \in Principal
  BY <1>1, <1>2 DEF CreateCustomer, RecordCustomer, RequestSound, Opening
<1>5. /\ customers' \subseteq Principal /\ pcustomers' \subseteq Principal
      /\ failures' \in Nat
      /\ \E to \in {"record", "session"} :
           \E r \in {[q EXCEPT !.pc = to], Idle} : call' = [call EXCEPT ![c] = r]
  BY <1>1, <1>4 DEF CreateCustomer, RecordCustomer, store, provider, Answer, Continue,
                    End, MethodsInv, TypeOK
<1>6. PICK to, r : /\ to \in {"record", "session"} /\ r \in {[q EXCEPT !.pc = to], Idle}
                   /\ call' = [call EXCEPT ![c] = r]
  BY <1>5
<1>7. r \in Request /\ RequestSound(r)' /\ r.pc # "push"
  <2>1. CASE r = Idle
    <3>1. Idle.pc # "push"
      BY DEF Idle
    <3>2. r \in Request /\ RequestSound(r)'
      BY <2>1, IdleSound
    <3>3. r.pc # "push"
      BY <2>1, <3>1
    <3>4. QED
      BY <3>2, <3>3
  <2>2. CASE r = [q EXCEPT !.pc = to]
    <3>1. r \in Request /\ r.pc \in {"record", "session"} /\ r.principal \in Principal
      BY <2>2, <1>2, <1>4, <1>6 DEF Request
    <3>2. RequestSound(r)'
      BY <3>1 DEF RequestSound, Opening, Polling
    <3>3. QED
      BY <3>1, <3>2
  <2>3. QED
    BY <1>6, <2>1, <2>2
<1>8. Grown
  BY <1>3 DEF Grown, Unopened
<1>9. /\ call' \in [Call -> Request]
      /\ \A d \in Call : CallSound(d)'
      /\ PushesApart'
  BY <1>3, <1>6, <1>7, <1>8, CallTakes
<1>10. TypeOK'
  BY <1>3, <1>5, <1>9 DEF MethodsInv, TypeOK, Request
<1>11. StoreInv'
  BY <1>3 DEF MethodsInv, StoreInv, Opened, Unopened, MethodsSound, Remembered,
              OneMethodPerEnrollment, OneDefault
<1>12. QED
  BY <1>9, <1>10, <1>11 DEF MethodsInv, StoreInv

(* A session is opened, and no other request has it.                        *)
LEMMA SessionStep ==
    ASSUME MethodsInv, NEW c \in Call, NEW e \in Enrollment, CreateSession(c, e)
    PROVE  MethodsInv'
<1>1. PICK q : q = call[c]
  OBVIOUS
<1>2. q \in Request /\ RequestSound(q) /\ q.pc = "session"
  BY <1>1 DEF MethodsInv, TypeOK, Request, CallSound, CreateSession
<1>3. UNCHANGED <<customers, enrollment, methods, pcustomers, enrolled, replay>>
  BY DEF CreateSession, store
<1>4. q.principal \in Principal /\ q.principal # None
  BY <1>2, MethodsAssumption DEF RequestSound, Opening
<1>5. /\ session' = [session EXCEPT ![e].principal = q.principal]
      /\ session' \in [Enrollment -> [principal : Principal \cup {None},
                                      card : Card \cup {None}]]
      /\ ~Unopened(e)' /\ \A f \in Enrollment \ {e} : session'[f] = session[f]
  <2>1. /\ session' = [session EXCEPT ![e].principal = q.principal]
        /\ session \in [Enrollment -> [principal : Principal \cup {None},
                                       card : Card \cup {None}]]
    BY <1>1 DEF CreateSession, MethodsInv, TypeOK
  <2>2. session'[e].principal = q.principal
    BY <2>1
  <2>3. QED
    BY <2>1, <2>2, <1>4 DEF Unopened
<1>6. enrollment[e].status = "none"
  BY DEF CreateSession, MethodsInv, Opened
<1>7. PICK n : n = [q EXCEPT !.pc = "push", !.enrollment = e]
  OBVIOUS
<1>8. n \in Request /\ n.pc = "push" /\ n.enrollment = e /\ n.principal = q.principal
  BY <1>2, <1>7 DEF Request
<1>9. RequestSound(n)'
  BY <1>3, <1>4, <1>5, <1>6, <1>8 DEF RequestSound, Polling
<1>10. PICK r \in {n, Idle} : call' = [call EXCEPT ![c] = r] /\ failures' \in Nat
  BY <1>1, <1>7, <1>8, Answers DEF CreateSession, MethodsInv
<1>11. r \in Request /\ RequestSound(r)'
  BY <1>8, <1>9, IdleSound
<1>12. ASSUME r.pc = "push", NEW d \in Call, call[d].pc = "push"
       PROVE  call[d].enrollment # r.enrollment
  <2>1. r = n
    BY <1>12 DEF Idle
  <2>2. ~Unopened(call[d].enrollment)
    BY <1>12 DEF MethodsInv, CallSound, RequestSound
  <2>3. QED
    BY <2>1, <2>2, <1>8 DEF CreateSession
<1>13. Grown
  BY <1>3, <1>5 DEF Grown, Unopened
<1>14. /\ call' \in [Call -> Request]
       /\ \A d \in Call : CallSound(d)'
       /\ PushesApart'
  BY <1>3, <1>10, <1>11, <1>12, <1>13, CallTakes
<1>15. TypeOK'
  BY <1>3, <1>5, <1>10, <1>14 DEF MethodsInv, TypeOK, Request
<1>16. StoreInv'
  BY <1>3, <1>5 DEF MethodsInv, StoreInv, Opened, Unopened, MethodsSound, Remembered,
                    OneMethodPerEnrollment, OneDefault
<1>17. QED
  BY <1>14, <1>15, <1>16 DEF MethodsInv, StoreInv

(* The enrollment is stored: nobody else was about to store it.             *)
LEMMA PushStep ==
    ASSUME MethodsInv, NEW c \in Call, PushEnrollment(c) PROVE MethodsInv'
<1>1. PICK q : q = call[c]
  OBVIOUS
<1>2. q \in Request /\ RequestSound(q) /\ q.pc = "push"
  BY <1>1 DEF MethodsInv, TypeOK, Request, CallSound, PushEnrollment
<1>3. PICK e : e = q.enrollment
  OBVIOUS
<1>4. /\ UNCHANGED <<customers, methods, pcustomers, session, enrolled, replay, failures>>
      /\ call' = [call EXCEPT ![c] = Idle]
  BY DEF PushEnrollment, provider, End
<1>5. /\ q.principal \in Principal /\ e \in Enrollment /\ ~Unopened(e)
      /\ enrollment[e].status = "none"
  BY <1>2, <1>3 DEF RequestSound, Opening
<1>6. /\ enrollment' \in [Enrollment ->
           [status : {"none", "pending_user_action", "completed"},
            principal : Principal \cup {None}]]
      /\ enrollment'[e].status = "pending_user_action"
      /\ enrollment'[e].principal = q.principal
      /\ \A f \in Enrollment \ {e} : enrollment'[f] = enrollment[f]
  BY <1>1, <1>3, <1>5 DEF PushEnrollment, MethodsInv, TypeOK
<1>7. Grown
  BY <1>4, <1>6 DEF Grown, Unopened
<1>8. call \in [Call -> Request]
  BY DEF MethodsInv, TypeOK, Request
<1>9. call'[c] = Idle /\ \A d \in Call \ {c} : call'[d] = call[d]
  BY <1>4, <1>8
<1>10. ASSUME NEW d \in Call PROVE CallSound(d)'
  <2>1. CASE d = c
    BY <2>1, <1>9, IdleSound DEF CallSound
  <2>2. CASE d # c
    <3>1. PICK r : r = call[d]
      OBVIOUS
    <3>2. RequestSound(r)
      BY <3>1 DEF MethodsInv, CallSound
    <3>3. r.pc = "push" => r.enrollment \in Enrollment \ {e}
      BY <1>1, <1>2, <1>3, <2>2, <3>1, <3>2 DEF MethodsInv, PushesApart, RequestSound
    <3>4. r.pc = "push" => enrollment'[r.enrollment].status = "none"
      BY <3>2, <3>3, <1>6 DEF RequestSound
    <3>5. RequestSound(r)'
      BY <3>2, <3>4, <1>7, SoundStays
    <3>6. r = call'[d]
      BY <3>1, <2>2, <1>9
    <3>7. QED
      BY <3>5, <3>6 DEF CallSound
  <2>3. QED
    BY <2>1, <2>2
<1>11. PushesApart'
  BY <1>9 DEF MethodsInv, PushesApart, Idle
<1>12. TypeOK'
  BY <1>4, <1>6, <1>8, IdleSound DEF MethodsInv, TypeOK, Request
<1>13. Opened'
  BY <1>4, <1>5, <1>6 DEF MethodsInv, Opened, Unopened
<1>14. MethodsSound'
  <2>1. ASSUME NEW i \in DOMAIN methods
        PROVE  enrollment'[methods[i].enrollment].status = "completed"
    <3>1. /\ methods[i].enrollment \in Enrollment
          /\ enrollment[methods[i].enrollment].status = "completed"
      BY RowsTyped DEF MethodsInv, MethodsSound, Method
    <3>2. QED
      BY <3>1, <1>5, <1>6
  <2>2. QED
    BY <2>1, <1>4 DEF MethodsInv, MethodsSound
<1>15. Remembered' /\ OneMethodPerEnrollment' /\ OneDefault'
  BY <1>4 DEF MethodsInv, Remembered, OneMethodPerEnrollment, OneDefault
<1>16. QED
  BY <1>10, <1>11, <1>12, <1>13, <1>14, <1>15 DEF MethodsInv

(* A card is typed into the page. *)
LEMMA TokenizeStep ==
    ASSUME MethodsInv, NEW e \in Enrollment, NEW card \in Card, Tokenize(e, card)
    PROVE  MethodsInv'
<1>1. UNCHANGED <<customers, enrollment, methods, pcustomers, enrolled, replay, call,
                  failures>>
  BY DEF Tokenize, store
<1>2. /\ session' \in [Enrollment -> [principal : Principal \cup {None},
                                      card : Card \cup {None}]]
      /\ \A f \in Enrollment : session'[f].principal = session[f].principal
  BY DEF Tokenize, MethodsInv, TypeOK
<1>3. TypeOK'
  BY <1>1, <1>2 DEF MethodsInv, TypeOK
<1>4. StoreInv' /\ PushesApart'
  BY <1>1, <1>2 DEF MethodsInv, StoreInv, Opened, Unopened, MethodsSound, Remembered,
                    OneMethodPerEnrollment, OneDefault, PushesApart
<1>5. \A d \in Call : CallSound(d)'
  BY <1>1, <1>2 DEF MethodsInv, CallSound, RequestSound, Unopened
<1>6. QED
  BY <1>3, <1>4, <1>5 DEF MethodsInv, StoreInv

-----------------------------------------------------------------------------
(* getEnrollment. *)

(* A session was opened for somebody. *)
LEMMA SessionTyped ==
    ASSUME TypeOK, NEW e \in Enrollment
    PROVE  /\ ~Unopened(e) => session[e].principal \in Principal
           /\ session[e].card # None => session[e].card \in Card
BY DEF TypeOK, Unopened

(* The provider enrolls the card of a session it has nothing of yet.        *)
LEMMA EnrollNew ==
    ASSUME MethodsInv, NEW c \in Call, NEW q \in Request, q = call[c], RequestSound(q),
           q.pc = "enroll", NEW e \in Enrollment, e = q.enrollment, replay[e] = 0,
           session[e].card # None, NEW n \in Nat, n = Len(enrolled) + 1,
           enrolled' = Append(enrolled,
                         [principal |-> session[e].principal,
                          card |-> session[e].card, session |-> e,
                          status |-> "ENROLLED"]),
           session' = [session EXCEPT ![e].card = None],
           replay' = [replay EXCEPT ![e] = n],
           Answer(c, [q EXCEPT !.pc = "list", !.method = n]),
           UNCHANGED <<customers, enrollment, methods, pcustomers>>
    PROVE  MethodsInv'
<1>1. PICK m : m = [principal |-> session[e].principal, card |-> session[e].card,
                    session |-> e, status |-> "ENROLLED"]
  OBVIOUS
<1>2. ~Unopened(e) /\ enrollment[e].status # "none"
  BY DEF RequestSound, Polling, MethodsInv, Opened
<1>3. m \in ProviderMethod /\ m.session = e
  BY <1>1, <1>2, SessionTyped DEF MethodsInv, ProviderMethod
<1>4. /\ enrolled \in Seq(ProviderMethod) /\ enrolled' = Append(enrolled, m)
  BY <1>1 DEF MethodsInv, TypeOK
<1>5. /\ enrolled' \in Seq(ProviderMethod)
      /\ DOMAIN enrolled = 1..(n - 1) /\ DOMAIN enrolled' = 1..n /\ n > 0
      /\ enrolled'[n] = m
      /\ \A i \in DOMAIN enrolled : enrolled'[i] = enrolled[i]
  BY <1>3, <1>4
<1>6. /\ session' \in [Enrollment -> [principal : Principal \cup {None},
                                      card : Card \cup {None}]]
      /\ \A f \in Enrollment : session'[f].principal = session[f].principal
  <2>1. session \in [Enrollment -> [principal : Principal \cup {None},
                                    card : Card \cup {None}]]
    BY DEF MethodsInv, TypeOK
  <2>2. PICK x : x = [session[e] EXCEPT !.card = None]
    OBVIOUS
  <2>3. /\ x \in [principal : Principal \cup {None}, card : Card \cup {None}]
        /\ x.principal = session[e].principal
    BY <2>1, <2>2
  <2>4. session' = [session EXCEPT ![e] = x]
    BY <2>2
  <2>5. QED
    BY <2>1, <2>3, <2>4
<1>7. /\ replay' \in [Enrollment -> Nat] /\ replay'[e] = n
      /\ \A f \in Enrollment \ {e} : replay'[f] = replay[f]
  BY DEF MethodsInv, TypeOK
<1>8. Grown
  BY <1>5, <1>6 DEF Grown, Unopened
<1>9. PICK r : r = [q EXCEPT !.pc = "list", !.method = n]
  OBVIOUS
<1>10. /\ r \in Request /\ r.pc = "list" /\ r.method = n /\ r.principal = q.principal
       /\ r.enrollment = e
  BY <1>9 DEF Request
<1>11. q.principal \in Principal
  BY DEF RequestSound, Polling
<1>12. RequestSound(r)'
  BY <1>2, <1>5, <1>10, <1>11 DEF RequestSound, Polling
<1>13. Answer(c, r)
  BY <1>9
<1>14. PICK x \in {r, Idle} : call' = [call EXCEPT ![c] = x] /\ failures' \in Nat
  BY <1>10, <1>13, Answers DEF MethodsInv
<1>15. x.pc # "push"
  BY <1>10, <1>14 DEF Idle
<1>16. x \in Request /\ RequestSound(x)'
  BY <1>10, <1>12, <1>14, IdleSound
<1>17. /\ call' \in [Call -> Request]
       /\ \A d \in Call : CallSound(d)'
       /\ PushesApart'
  BY <1>8, <1>14, <1>15, <1>16, CallTakes
<1>18. TypeOK'
  BY <1>5, <1>6, <1>7, <1>14, <1>17 DEF MethodsInv, TypeOK, Request
<1>19. Opened' /\ OneDefault'
  BY <1>6 DEF MethodsInv, Opened, Unopened, OneDefault
<1>20. MethodsSound'
  BY <1>8 DEF MethodsInv, MethodsSound, Grown
<1>21. \A i \in DOMAIN enrolled : enrolled[i].session \in Enrollment \ {e} /\ i \in Nat
  <2>1. \A i \in DOMAIN enrolled : /\ enrolled[i].session \in Enrollment /\ i \in Nat \ {0}
                                   /\ replay[enrolled[i].session] = i
    BY <1>4, RowsTyped DEF MethodsInv, ProviderMethod, Remembered
  <2>2. QED
    BY <2>1
<1>22. Remembered'
  <2>1. \A f \in Enrollment : replay'[f] # 0 => replay'[f] \in DOMAIN enrolled'
    BY <1>5, <1>7 DEF MethodsInv, Remembered
  <2>2. ASSUME NEW i \in DOMAIN enrolled' PROVE replay'[enrolled'[i].session] = i
    <3>1. CASE i = n
      BY <3>1, <1>3, <1>5, <1>7
    <3>2. CASE i \in DOMAIN enrolled
      BY <3>2, <1>5, <1>7, <1>21 DEF MethodsInv, Remembered
    <3>3. QED
      BY <3>1, <3>2, <1>5, <2>2
  <2>3. QED
    BY <2>1, <2>2 DEF Remembered
<1>23. OneMethodPerEnrollment'
  BY <1>22 DEF Remembered, MethodsInv, OneMethodPerEnrollment
<1>24. QED
  BY <1>17, <1>18, <1>19, <1>20, <1>22, <1>23 DEF MethodsInv

(* enrollPaymentMethod, with its answer replayed, refused or new.           *)
LEMMA EnrollStep ==
    ASSUME MethodsInv, NEW c \in Call, Enroll(c) PROVE MethodsInv'
<1>1. PICK q : q = call[c]
  OBVIOUS
<1>2. q \in Request /\ RequestSound(q) /\ q.pc = "enroll"
  BY <1>1 DEF MethodsInv, TypeOK, Request, CallSound, Enroll
<1>3. PICK e : e = q.enrollment
  OBVIOUS
<1>4. /\ q.principal \in Principal /\ e \in Enrollment
      /\ enrollment[e].status # "none"
  BY <1>2, <1>3 DEF RequestSound, Polling
<1>5. PICK n : n = Len(enrolled) + 1
  OBVIOUS
<1>6. n \in Nat
  <2>1. enrolled \in Seq(ProviderMethod)
    BY DEF MethodsInv, TypeOK
  <2>2. QED
    BY <2>1, <1>5
<1>7. CASE /\ replay[e] # 0
           /\ Answer(c, [q EXCEPT !.pc = "list", !.method = replay[e]])
           /\ UNCHANGED <<store, provider>>
  <2>1. PICK r : r = [q EXCEPT !.pc = "list", !.method = replay[e]]
    OBVIOUS
  <2>2. replay[e] \in DOMAIN enrolled /\ replay[e] \in Nat
    BY <1>4, <1>7 DEF MethodsInv, Remembered, TypeOK
  <2>3. /\ r \in Request /\ r.pc = "list" /\ r.method = replay[e]
        /\ r.principal = q.principal /\ r.enrollment = e
    BY <1>2, <1>3, <2>1, <2>2 DEF Request
  <2>4. RequestSound(r)'
    BY <2>2, <2>3, <1>4, <1>7 DEF RequestSound, Polling, store, provider
  <2>5. Answer(c, r)
    BY <1>7, <2>1
  <2>6. PICK x \in {r, Idle} : call' = [call EXCEPT ![c] = x] /\ failures' \in Nat
    BY <2>3, <2>5, Answers DEF MethodsInv
  <2>7. x.pc # "push"
    BY <2>3, <2>6 DEF Idle
  <2>8. x \in Request /\ RequestSound(x)'
    BY <2>3, <2>4, <2>6, IdleSound
  <2>9. QED
    BY <1>7, <2>6, <2>7, <2>8, CallOnly
<1>8. CASE End(c) /\ UNCHANGED <<store, provider>>
  <2>1. Idle.pc # "push"
    BY DEF Idle
  <2>2. call' = [call EXCEPT ![c] = Idle] /\ failures' \in Nat
    BY <1>8 DEF End, MethodsInv, TypeOK
  <2>3. QED
    BY <1>8, <2>1, <2>2, IdleSound, CallOnly
<1>9. CASE /\ replay[e] = 0 /\ session[e].card # None
           /\ enrolled' = Append(enrolled,
                [principal |-> session[e].principal, card |-> session[e].card,
                 session |-> e, status |-> "ENROLLED"])
           /\ session' = [session EXCEPT ![e].card = None]
           /\ replay' = [replay EXCEPT ![e] = n]
           /\ Answer(c, [q EXCEPT !.pc = "list", !.method = n])
           /\ UNCHANGED <<customers, enrollment, methods, pcustomers>>
  BY <1>1, <1>2, <1>3, <1>4, <1>5, <1>6, <1>9, EnrollNew
<1>10. QED
  BY <1>1, <1>3, <1>5, <1>7, <1>8, <1>9 DEF Enroll, store, provider

(* The methods of the customer are listed. *)
LEMMA ListStep ==
    ASSUME MethodsInv, NEW c \in Call, ListMethods(c) PROVE MethodsInv'
<1>1. PICK q : q = call[c]
  OBVIOUS
<1>2. q \in Request /\ RequestSound(q) /\ q.pc = "list"
  BY <1>1 DEF MethodsInv, TypeOK, Request, CallSound, ListMethods
<1>3. /\ UNCHANGED <<store, provider>> /\ failures' \in Nat
  BY DEF ListMethods, End, Continue, MethodsInv, TypeOK
<1>4. CASE Matching(c) = {}
  <2>1. Idle.pc # "push"
    BY DEF Idle
  <2>2. call' = [call EXCEPT ![c] = Idle]
    BY <1>4 DEF ListMethods, End
  <2>3. QED
    BY <1>3, <2>1, <2>2, IdleSound, CallOnly
<1>5. CASE Matching(c) # {}
  <2>1. PICK M : M = Matching(c)
    OBVIOUS
  <2>2. M \subseteq DOMAIN enrolled /\ M # {}
    BY <1>5, <2>1 DEF Matching
  <2>3. M \subseteq 1..Len(enrolled) /\ Len(enrolled) \in Nat
    <3>1. enrolled \in Seq(ProviderMethod)
      BY DEF MethodsInv, TypeOK
    <3>2. QED
      BY <2>2, <3>1
  <2>4. \E i \in M : \A j \in M : i <= j
    BY <2>2, <2>3, LeastPlace
  <2>5. Min(M) \in M
    BY <2>4 DEF Min
  <2>6. Min(M) \in DOMAIN enrolled /\ Min(M) \in Nat
    BY <2>2, <2>3, <2>5
  <2>7. PICK r : r = [q EXCEPT !.pc = "complete", !.token = Min(M)]
    OBVIOUS
  <2>8. /\ r \in Request /\ r.pc = "complete" /\ r.token = Min(M)
        /\ r.method = q.method /\ r.principal = q.principal
        /\ r.enrollment = q.enrollment
    BY <1>2, <2>6, <2>7 DEF Request
  <2>9. RequestSound(r)'
    BY <1>2, <1>3, <2>6, <2>8 DEF RequestSound, Polling, store, provider
  <2>10. call' = [call EXCEPT ![c] = r]
    BY <1>1, <1>5, <2>1, <2>7 DEF ListMethods, Continue
  <2>11. QED
    BY <1>3, <2>8, <2>9, <2>10, CallOnly
<1>6. QED
  BY <1>4, <1>5

(* The method is stored and the enrollment completed, once.                 *)
LEMMA CompleteStep ==
    ASSUME MethodsInv, NEW c \in Call, Complete(c) PROVE MethodsInv'
<1>1. PICK q : q = call[c]
  OBVIOUS
<1>2. q \in Request /\ RequestSound(q) /\ q.pc = "complete"
  BY <1>1 DEF MethodsInv, TypeOK, Request, CallSound, Complete
<1>3. PICK e : e = q.enrollment
  OBVIOUS
<1>4. /\ q.principal \in Principal /\ e \in Enrollment /\ enrollment[e].status # "none"
      /\ q.method \in DOMAIN enrolled /\ q.token \in DOMAIN enrolled
      /\ q.method \in Nat /\ q.token \in Nat
  BY <1>2, <1>3 DEF RequestSound, Polling, Request
<1>5. /\ UNCHANGED <<customers, pcustomers, session, enrolled, replay, failures>>
      /\ call' = [call EXCEPT ![c] = Idle]
  BY DEF Complete, provider, End
<1>6. CASE enrollment[e].status # "pending_user_action"
  <2>1. Idle.pc # "push"
    BY DEF Idle
  <2>2. UNCHANGED <<store, provider>> /\ failures' \in Nat
    BY <1>1, <1>3, <1>5, <1>6 DEF Complete, store, provider, MethodsInv, TypeOK
  <2>3. QED
    BY <1>5, <2>1, <2>2, IdleSound, CallOnly
<1>7. CASE enrollment[e].status = "pending_user_action"
  <2>1. PICK m : m = NewMethod(q)
    OBVIOUS
  <2>2. /\ m \in Method /\ m.enrollment = e /\ m.principal = q.principal
        /\ m.isDefault = (ActiveOf(q.principal) = {})
        /\ m.providerMethod = q.method /\ m.token = q.token
    BY <1>3, <1>4, <2>1 DEF NewMethod, Method, MakesDefault
  <2>3. /\ methods \in Seq(Method) /\ methods' = Append(methods, m)
        /\ enrollment' = [enrollment EXCEPT ![e].status = "completed"]
    BY <1>1, <1>3, <1>7, <2>1 DEF Complete, MethodsInv, TypeOK
  <2>4. PICK n : n = Len(methods) + 1
    OBVIOUS
  <2>5. /\ methods' \in Seq(Method)
        /\ DOMAIN methods = 1..(n - 1) /\ DOMAIN methods' = 1..n /\ n \in Nat \ {0}
        /\ methods'[n] = m
        /\ \A i \in DOMAIN methods : methods'[i] = methods[i]
    BY <2>2, <2>3, <2>4
  <2>6. /\ enrollment' \in [Enrollment ->
             [status : {"none", "pending_user_action", "completed"},
              principal : Principal \cup {None}]]
        /\ enrollment'[e].status = "completed"
        /\ \A f \in Enrollment \ {e} : enrollment'[f] = enrollment[f]
        /\ \A f \in Enrollment : enrollment'[f].principal = enrollment[f].principal
    BY <2>3, <1>4 DEF MethodsInv, TypeOK
  <2>7. Grown
    BY <1>5, <2>5, <2>6 DEF Grown, Unopened
  <2>8. Idle.pc # "push"
    BY DEF Idle
  <2>9. /\ call' \in [Call -> Request]
        /\ \A d \in Call : CallSound(d)'
        /\ PushesApart'
    BY <1>4, <1>5, <2>6, <2>7, <2>8, IdleSound, CallTakes
  <2>10. TypeOK'
    BY <1>5, <2>5, <2>6, <2>9 DEF MethodsInv, TypeOK, Request
  <2>11. Opened'
    BY <1>4, <1>5, <2>6 DEF MethodsInv, Opened, Unopened
  <2>12. \A i \in DOMAIN methods : /\ methods[i] \in Method /\ i \in Nat
                                   /\ methods[i].enrollment \in Enrollment \ {e}
    BY <1>7, RowsTyped DEF MethodsInv, MethodsSound, Method
  <2>13. MethodsSound'
    <3>1. ASSUME NEW i \in DOMAIN methods'
          PROVE  /\ enrollment'[methods'[i].enrollment].status = "completed"
                 /\ methods'[i].providerMethod \in DOMAIN enrolled
                 /\ methods'[i].token \in DOMAIN enrolled
      <4>1. CASE i = n
        BY <4>1, <1>4, <2>2, <2>5, <2>6
      <4>2. CASE i \in DOMAIN methods
        BY <4>2, <2>5, <2>6, <2>12 DEF MethodsInv, MethodsSound
      <4>3. QED
        BY <4>1, <4>2, <2>5, <3>1
    <3>2. QED
      BY <3>1, <1>5 DEF MethodsSound
  <2>14. Remembered'
    BY <1>5 DEF MethodsInv, Remembered
  <2>15. OneMethodPerEnrollment'
    <3>1. ASSUME NEW i \in DOMAIN methods', NEW j \in DOMAIN methods',
                 methods'[i].enrollment = methods'[j].enrollment
          PROVE  i = j
      <4>1. CASE i = n /\ j \in DOMAIN methods
        BY <4>1, <3>1, <2>2, <2>5, <2>12
      <4>2. CASE j = n /\ i \in DOMAIN methods
        BY <4>2, <3>1, <2>2, <2>5, <2>12
      <4>3. CASE i \in DOMAIN methods /\ j \in DOMAIN methods
        BY <4>3, <3>1, <2>5 DEF MethodsInv, OneMethodPerEnrollment
      <4>4. QED
        BY <4>1, <4>2, <4>3, <2>5, <3>1
    <3>2. QED
      BY <3>1, <1>5 DEF MethodsInv, OneMethodPerEnrollment
  <2>16. OneDefault'
    <3>1. ASSUME NEW i \in DOMAIN methods', NEW j \in DOMAIN methods',
                 methods'[i].principal = methods'[j].principal,
                 methods'[i].status = "active", methods'[j].status = "active",
                 methods'[i].isDefault, methods'[j].isDefault
          PROVE  i = j
      <4>1. ASSUME NEW k \in DOMAIN methods, methods[k].status = "active",
                   methods[k].principal = q.principal
            PROVE  ~m.isDefault
        BY <4>1, <2>2 DEF ActiveOf
      <4>2. CASE i = n /\ j \in DOMAIN methods
        BY <4>1, <4>2, <3>1, <2>2, <2>5
      <4>3. CASE j = n /\ i \in DOMAIN methods
        BY <4>1, <4>3, <3>1, <2>2, <2>5
      <4>4. CASE i \in DOMAIN methods /\ j \in DOMAIN methods
        BY <4>4, <3>1, <2>5 DEF MethodsInv, OneDefault
      <4>5. QED
        BY <4>2, <4>3, <4>4, <2>5, <3>1
    <3>2. QED
      BY <3>1 DEF OneDefault
  <2>17. QED
    BY <2>9, <2>10, <2>11, <2>13, <2>14, <2>15, <2>16 DEF MethodsInv
<1>8. QED
  BY <1>6, <1>7

-----------------------------------------------------------------------------
(* Changes of methods. *)

(* The methods are rewritten row by row: their enrollment and provider      *)
(* method stay.                                                             *)
LEMMA MethodsRewritten ==
    ASSUME MethodsInv, methods' \in Seq(Method), DOMAIN methods' = DOMAIN methods,
           \A i \in DOMAIN methods :
               /\ methods'[i].enrollment = methods[i].enrollment
               /\ methods'[i].providerMethod = methods[i].providerMethod
               /\ methods'[i].token = methods[i].token,
           UNCHANGED <<customers, enrollment, pcustomers, session, enrolled, replay>>
    PROVE  /\ Grown /\ Opened' /\ MethodsSound' /\ Remembered' /\ OneMethodPerEnrollment'
<1>1. Grown /\ Opened'
  BY DEF Grown, Unopened, MethodsInv, Opened
<1>2. MethodsSound' /\ Remembered'
  BY DEF MethodsInv, MethodsSound, Remembered
<1>3. OneMethodPerEnrollment'
  BY DEF MethodsInv, OneMethodPerEnrollment
<1>4. QED
  BY <1>1, <1>2, <1>3

(* Another method becomes the default. *)
LEMMA PatchStep ==
    ASSUME MethodsInv, NEW m \in DOMAIN methods, PatchDefault(m) PROVE MethodsInv'
<1>1. /\ UNCHANGED <<customers, enrollment, pcustomers, session, enrolled, replay, call,
                     failures>>
      /\ methods' = [i \in DOMAIN methods |->
                       IF methods[i].principal = methods[m].principal
                       THEN [methods[i] EXCEPT !.isDefault = (i = m)]
                       ELSE methods[i]]
  BY DEF PatchDefault, provider
<1>2. methods \in Seq(Method) /\ DOMAIN methods = 1..Len(methods) /\ Len(methods) \in Nat
  BY DEF MethodsInv, TypeOK
<1>3. ASSUME NEW i \in DOMAIN methods
      PROVE  /\ methods'[i] \in Method
             /\ methods'[i].enrollment = methods[i].enrollment
             /\ methods'[i].principal = methods[i].principal
             /\ methods'[i].providerMethod = methods[i].providerMethod
             /\ methods'[i].token = methods[i].token
             /\ methods'[i].isDefault =
                  IF methods[i].principal = methods[m].principal THEN i = m
                  ELSE methods[i].isDefault
             /\ methods'[i].status = methods[i].status
  <2>1. methods[i] \in Method
    BY RowsTyped DEF MethodsInv
  <2>2. QED
    BY <1>1, <2>1 DEF Method
<1>4. methods' \in Seq(Method) /\ DOMAIN methods' = DOMAIN methods
  <2>1. methods' \in [1..Len(methods) -> Method]
    BY <1>1, <1>2, <1>3
  <2>2. QED
    BY <1>2, <2>1
<1>5. /\ Grown /\ Opened' /\ MethodsSound' /\ Remembered' /\ OneMethodPerEnrollment'
  BY <1>1, <1>3, <1>4, MethodsRewritten
<1>6. TypeOK' /\ PushesApart'
  BY <1>1, <1>4 DEF MethodsInv, TypeOK, PushesApart
<1>7. \A d \in Call : CallSound(d)'
  BY <1>1, <1>4 DEF MethodsInv, CallSound, RequestSound, Unopened
<1>8. OneDefault'
  <2>1. ASSUME NEW i \in DOMAIN methods, NEW j \in DOMAIN methods,
               methods'[i].principal = methods'[j].principal,
               methods'[i].status = "active", methods'[j].status = "active",
               methods'[i].isDefault, methods'[j].isDefault
        PROVE  i = j
    <3>1. CASE methods[i].principal = methods[m].principal
      <4>1. methods[j].principal = methods[m].principal
        BY <3>1, <2>1, <1>3
      <4>2. methods'[i].isDefault = (i = m)
        BY <3>1, <1>3
      <4>3. methods'[j].isDefault = (j = m)
        BY <4>1, <1>3
      <4>4. QED
        BY <4>2, <4>3, <2>1
    <3>2. CASE methods[i].principal # methods[m].principal
      <4>1. /\ methods[i].principal = methods[j].principal
            /\ methods[i].status = "active" /\ methods[j].status = "active"
        BY <2>1, <1>3
      <4>2. methods[i].isDefault /\ methods[j].isDefault
        BY <3>2, <4>1, <2>1, <1>3
      <4>3. QED
        BY <4>1, <4>2 DEF MethodsInv, OneDefault
    <3>3. QED
      BY <3>1, <3>2
  <2>2. QED
    BY <2>1, <1>4 DEF OneDefault
<1>9. QED
  BY <1>5, <1>6, <1>7, <1>8 DEF MethodsInv

(* The method is unenrolled at the provider. *)
LEMMA UnenrollStep ==
    ASSUME MethodsInv, NEW c \in Call, Unenroll(c) PROVE MethodsInv'
<1>1. PICK q : q = call[c]
  OBVIOUS
<1>2. q \in Request /\ RequestSound(q) /\ q.pc = "unenroll"
  BY <1>1 DEF MethodsInv, TypeOK, Request, CallSound, Unenroll
<1>3. PICK i : i = methods[q.method].providerMethod
  OBVIOUS
<1>4. q.method \in DOMAIN methods /\ i \in DOMAIN enrolled
  BY <1>2, <1>3 DEF RequestSound, MethodsInv, MethodsSound
<1>5. CASE enrolled[i].status = "UNENROLLED"
  <2>1. Idle.pc # "push"
    BY DEF Idle
  <2>2. /\ UNCHANGED <<store, provider>> /\ failures' \in Nat
        /\ call' = [call EXCEPT ![c] = Idle]
    BY <1>1, <1>3, <1>5 DEF Unenroll, End, store, provider, MethodsInv, TypeOK
  <2>3. QED
    BY <2>1, <2>2, IdleSound, CallOnly
<1>6. CASE enrolled[i].status # "UNENROLLED"
  <2>1. /\ enrolled' = [enrolled EXCEPT ![i].status = "UNENROLLED"]
        /\ Answer(c, [q EXCEPT !.pc = "deactivate"])
        /\ UNCHANGED <<customers, enrollment, methods, pcustomers, session, replay>>
    BY <1>1, <1>3, <1>6 DEF Unenroll, store
  <2>2. enrolled \in Seq(ProviderMethod) /\ enrolled[i] \in ProviderMethod
    BY <1>4, RowsTyped DEF MethodsInv, TypeOK
  <2>3. PICK x : x = [enrolled[i] EXCEPT !.status = "UNENROLLED"]
    OBVIOUS
  <2>4. x \in ProviderMethod /\ x.session = enrolled[i].session
    BY <2>2, <2>3 DEF ProviderMethod
  <2>5. enrolled' = [enrolled EXCEPT ![i] = x]
    BY <2>1, <2>3
  <2>6. /\ enrolled' \in Seq(ProviderMethod) /\ DOMAIN enrolled' = DOMAIN enrolled
        /\ enrolled'[i] = x
        /\ \A j \in DOMAIN enrolled \ {i} : enrolled'[j] = enrolled[j]
    BY <1>4, <2>2, <2>4, <2>5
  <2>7. \A j \in DOMAIN enrolled : enrolled'[j].session = enrolled[j].session
    BY <2>4, <2>6
  <2>8. PICK r : r = [q EXCEPT !.pc = "deactivate"]
    OBVIOUS
  <2>9. r \in Request /\ r.pc = "deactivate" /\ r.method = q.method
    BY <1>2, <2>8 DEF Request
  <2>10. RequestSound(r)'
    BY <1>4, <2>1, <2>9 DEF RequestSound, Opening, Polling
  <2>11. Answer(c, r)
    BY <2>1, <2>8
  <2>12. PICK y \in {r, Idle} : call' = [call EXCEPT ![c] = y] /\ failures' \in Nat
    BY <2>9, <2>11, Answers DEF MethodsInv
  <2>13. y.pc # "push"
    BY <2>9, <2>12 DEF Idle
  <2>14. y \in Request /\ RequestSound(y)'
    BY <2>9, <2>10, <2>12, IdleSound
  <2>15. Grown
    BY <2>1, <2>6 DEF Grown, Unopened
  <2>16. /\ call' \in [Call -> Request]
         /\ \A d \in Call : CallSound(d)'
         /\ PushesApart'
    BY <2>1, <2>12, <2>13, <2>14, <2>15, CallTakes
  <2>17. TypeOK'
    BY <2>1, <2>6, <2>12, <2>16 DEF MethodsInv, TypeOK, Request
  <2>18. Opened' /\ MethodsSound' /\ OneDefault'
    BY <2>1, <2>6 DEF MethodsInv, Opened, Unopened, MethodsSound, OneDefault
  <2>19. Remembered'
    BY <2>1, <2>6, <2>7 DEF MethodsInv, Remembered
  <2>20. OneMethodPerEnrollment'
    BY <2>1, <2>6, <2>7 DEF MethodsInv, OneMethodPerEnrollment
  <2>21. QED
    BY <2>16, <2>17, <2>18, <2>19, <2>20 DEF MethodsInv
<1>7. QED
  BY <1>5, <1>6

(* The method is deactivated on the platform, and keeps its flag.           *)
LEMMA DeactivateStep ==
    ASSUME MethodsInv, NEW c \in Call, Deactivate(c) PROVE MethodsInv'
<1>1. PICK m : m = call[c].method
  OBVIOUS
<1>2. m \in DOMAIN methods
  BY <1>1 DEF Deactivate, MethodsInv, CallSound, RequestSound
<1>3. /\ methods' = [methods EXCEPT ![m].status = "inactive"]
      /\ call' = [call EXCEPT ![c] = Idle]
      /\ UNCHANGED <<customers, enrollment, pcustomers, session, enrolled, replay, failures>>
  BY <1>1 DEF Deactivate, End, provider
<1>4. methods \in Seq(Method) /\ methods[m] \in Method
  BY <1>2, RowsTyped DEF MethodsInv, TypeOK
<1>5. PICK x : x = [methods[m] EXCEPT !.status = "inactive"]
  OBVIOUS
<1>6. /\ x \in Method /\ x.enrollment = methods[m].enrollment /\ x.status = "inactive"
      /\ x.providerMethod = methods[m].providerMethod /\ x.token = methods[m].token
  BY <1>4, <1>5 DEF Method
<1>7. methods' = [methods EXCEPT ![m] = x]
  BY <1>3, <1>5
<1>8. /\ methods' \in Seq(Method) /\ DOMAIN methods' = DOMAIN methods
      /\ methods'[m] = x /\ \A i \in DOMAIN methods \ {m} : methods'[i] = methods[i]
  BY <1>2, <1>4, <1>6, <1>7
<1>9. /\ Grown /\ Opened' /\ MethodsSound' /\ Remembered' /\ OneMethodPerEnrollment'
  BY <1>3, <1>6, <1>8, MethodsRewritten
<1>10. Idle.pc # "push"
  BY DEF Idle
<1>11. /\ call' \in [Call -> Request]
       /\ \A d \in Call : CallSound(d)'
       /\ PushesApart'
  BY <1>3, <1>9, <1>10, IdleSound, CallTakes
<1>12. TypeOK'
  BY <1>3, <1>8, <1>11 DEF MethodsInv, TypeOK, Request
<1>13. OneDefault'
  BY <1>6, <1>8 DEF MethodsInv, OneDefault
<1>14. QED
  BY <1>9, <1>11, <1>12, <1>13 DEF MethodsInv

-----------------------------------------------------------------------------

(* The invariant holds at the start and through every step.                 *)
THEOREM MethodsInvariant == Spec => []MethodsInv
<1>1. Init => MethodsInv
  <2> SUFFICES ASSUME Init PROVE MethodsInv
    OBVIOUS
  <2>1. TypeOK
    BY IdleSound DEF Init, TypeOK, Request
  <2>2. Opened /\ PushesApart /\ MethodsSound /\ Remembered /\ OneMethodPerEnrollment
        /\ OneDefault
    BY DEF Init, Opened, PushesApart, MethodsSound, Remembered, Idle,
           OneMethodPerEnrollment, OneDefault
  <2>3. \A c \in Call : CallSound(c)
    BY IdleSound DEF Init, CallSound
  <2>4. QED
    BY <2>1, <2>2, <2>3 DEF MethodsInv
<1>2. MethodsInv /\ [Next]_vars => MethodsInv'
  <2> SUFFICES ASSUME MethodsInv, [Next]_vars PROVE MethodsInv'
    OBVIOUS
  <2>1. ASSUME NEW c \in Call, CallStep(c) PROVE MethodsInv'
    BY <2>1, CustomerSteps, PushStep, SessionStep, EnrollStep, ListStep, CompleteStep,
       UnenrollStep, DeactivateStep DEF CallStep
  <2>2. CASE UNCHANGED vars
    <3>1. UNCHANGED <<customers, enrollment, methods, pcustomers, session, enrolled,
                      replay, call, failures>>
      BY <2>2 DEF vars, store, provider
    <3>2. TypeOK' /\ Opened' /\ PushesApart' /\ MethodsSound' /\ Remembered'
      BY <3>1 DEF MethodsInv, TypeOK, Opened, Unopened, PushesApart, MethodsSound,
                  Remembered
    <3>3. OneMethodPerEnrollment' /\ OneDefault' /\ \A c \in Call : CallSound(c)'
      BY <3>1 DEF MethodsInv, OneMethodPerEnrollment, OneDefault, CallSound,
                  RequestSound, Unopened
    <3>4. QED
      BY <3>2, <3>3 DEF MethodsInv
  <2>3. QED
    BY <2>1, <2>2, BeginSteps, AbandonStep, TokenizeStep, PatchStep DEF Next
<1>3. QED
  BY <1>1, <1>2, PTL DEF Spec

(* The state of both sides of an enrollment is well typed. *)
THEOREM MethodsTypeCorrect == Spec => []TypeOK
<1>1. MethodsInv => TypeOK
  BY DEF MethodsInv
<1>2. QED
  BY <1>1, MethodsInvariant, PTL

(* An enrollment yields one method on the platform and one at the provider, *)
(* through polls that overlap, lost answers and another card.               *)
THEOREM MethodOfEnrollment == Spec => []OneMethodPerEnrollment
<1>1. MethodsInv => OneMethodPerEnrollment
  BY DEF MethodsInv
<1>2. QED
  BY <1>1, MethodsInvariant, PTL

(* A person has one active default method at most. *)
THEOREM DefaultMethod == Spec => []OneDefault
<1>1. MethodsInv => OneDefault
  BY DEF MethodsInv
<1>2. QED
  BY <1>1, MethodsInvariant, PTL

-----------------------------------------------------------------------------
(* Webhooks to merchants. *)

(* The loops are records; of the rows they have to go, which SelectSeq made, *)
(* nothing is known.                                                         *)
LoopsTyped ==
    /\ loop = [l \in Loop |-> loop[l]]
    /\ \A l \in Loop :
         /\ loop[l] = [pc |-> loop[l].pc, rows |-> loop[l].rows, ok |-> loop[l].ok]
         /\ loop[l].ok \in BOOLEAN

(* Endpoints are created one by one. *)
EndpointsTyped ==
    /\ endpoint \in [Endpoint -> {"none", "active", "inactive"}]
    /\ IsFiniteSet({e \in Endpoint : endpoint[e] # "none"})

(* A loop that was told a row is taken was told so by the merchant.         *)
SuccessWasAcknowledged ==
    \A l \in Loop :
        loop[l].pc = "answered" /\ loop[l].ok => Head(loop[l].rows) \in acknowledged

(* The inductive invariant. *)
WebhookInv ==
    /\ LoopsTyped /\ EndpointsTyped /\ deliveries \in Seq(Delivery)
    /\ SuccessWasAcknowledged
    /\ DeliveredWasAcknowledged

(* A loop becomes r. *)
LEMMA LoopTakes ==
    ASSUME LoopsTyped, NEW l \in Loop, NEW p, NEW rows, NEW ok \in BOOLEAN,
           loop' = [loop EXCEPT ![l] = [pc |-> p, rows |-> rows, ok |-> ok]]
    PROVE  /\ LoopsTyped'
           /\ loop'[l].pc = p /\ loop'[l].rows = rows /\ loop'[l].ok = ok
           /\ \A m \in Loop \ {l} : loop'[m] = loop[m]
BY DEF LoopsTyped

(* Fields of a loop rewritten one after the other. *)
LEMMA TwoFields ==
    ASSUME NEW z, NEW p, NEW q, NEW r, z = [pc |-> p, rows |-> q, ok |-> r],
           NEW x, NEW y, NEW v
    PROVE  /\ v = [z EXCEPT !.pc = x, !.ok = y]
                => v = [pc |-> x, rows |-> q, ok |-> y]
           /\ v = [z EXCEPT !.pc = x, !.rows = y]
                => v = [pc |-> x, rows |-> y, ok |-> r]
<1>1. PICK u : u = [z EXCEPT !.pc = x]
  OBVIOUS
<1>2. u = [pc |-> x, rows |-> q, ok |-> r]
  BY <1>1
<1>3. /\ [u EXCEPT !.ok = y] = [pc |-> x, rows |-> q, ok |-> y]
      /\ [u EXCEPT !.rows = y] = [pc |-> x, rows |-> y, ok |-> r]
  BY <1>2
<1>4. /\ [z EXCEPT !.pc = x, !.ok = y] = [u EXCEPT !.ok = y]
      /\ [z EXCEPT !.pc = x, !.rows = y] = [u EXCEPT !.rows = y]
  BY <1>1
<1>5. QED
  BY <1>3, <1>4

(* A row with its status and its attempts rewritten. *)
LEMMA RowRewritten ==
    ASSUME NEW d \in Delivery, NEW to \in {"delivered", "failed"}
    PROVE  LET x == [d EXCEPT !.status = to, !.attempts = @ + 1]
           IN  x \in Delivery /\ x.status = to
<1>1. PICK a, e, t : /\ d = [endpoint |-> e, status |-> t, attempts |-> a]
                     /\ e \in Endpoint /\ a \in Nat
  BY DEF Delivery
<1>2. PICK u, b : u = [d EXCEPT !.status = to] /\ b = a + 1
  OBVIOUS
<1>3. u = [endpoint |-> e, status |-> to, attempts |-> a]
  BY <1>1, <1>2
<1>4. [u EXCEPT !.attempts = b] = [endpoint |-> e, status |-> to, attempts |-> b]
  BY <1>3
<1>5. d.attempts = a
  BY <1>1
<1>6. [d EXCEPT !.status = to, !.attempts = @ + 1] = [u EXCEPT !.attempts = b]
  BY <1>2, <1>5
<1>7. b \in Nat
  BY <1>1, <1>2
<1>8. QED
  BY <1>1, <1>4, <1>6, <1>7 DEF Delivery

(* What is left of a loop. *)
LEMMA LoopIsRecord ==
    ASSUME NEW rows
    PROVE  LoopOver(rows) = [pc |-> IF rows = <<>> THEN "done" ELSE "posting",
                             rows |-> rows, ok |-> FALSE]
<1>1. PICK p : p = IF rows = <<>> THEN "done" ELSE "posting"
  OBVIOUS
<1>2. PICK z, q, r, k : /\ q = "idle" /\ r = <<>> /\ k = FALSE
                        /\ z = [pc |-> q, rows |-> r, ok |-> k]
  OBVIOUS
<1>3. PICK v : v = [z EXCEPT !.pc = p, !.rows = rows]
  OBVIOUS
<1>4. LoopOver(rows) = v
  BY <1>1, <1>2, <1>3 DEF LoopOver, IdleLoop
<1>5. z = [pc |-> q, rows |-> r, ok |-> k]
  BY <1>2
<1>6. v = [pc |-> p, rows |-> rows, ok |-> k]
  BY <1>3, <1>5, TwoFields
<1>7. k = FALSE
  BY <1>2
<1>8. QED
  BY <1>1, <1>4, <1>6, <1>7

(* Endpoints come and go. *)
LEMMA EndpointSteps ==
    ASSUME WebhookInv, NEW e \in Endpoint,
           CreateWebhookEndpoint(e) \/ DeleteWebhookEndpoint(e)
    PROVE  WebhookInv'
<1>1. UNCHANGED <<deliveries, loop, acknowledged>>
  BY DEF CreateWebhookEndpoint, DeleteWebhookEndpoint
<1>2. endpoint' \in [Endpoint -> {"none", "active", "inactive"}]
  BY DEF CreateWebhookEndpoint, DeleteWebhookEndpoint, WebhookInv, EndpointsTyped
<1>3. PICK S : S = {x \in Endpoint : endpoint[x] # "none"}
  OBVIOUS
<1>4. {x \in Endpoint : endpoint'[x] # "none"} \subseteq S \cup {e}
  BY <1>3 DEF CreateWebhookEndpoint, DeleteWebhookEndpoint, WebhookInv, EndpointsTyped
<1>5. IsFiniteSet(S \cup {e})
  BY <1>3, FS_AddElement DEF WebhookInv, EndpointsTyped
<1>6. IsFiniteSet({x \in Endpoint : endpoint'[x] # "none"})
  BY <1>4, <1>5, FS_Subset
<1>7. EndpointsTyped'
  BY <1>2, <1>6 DEF EndpointsTyped
<1>8. QED
  BY <1>1, <1>7 DEF WebhookInv, LoopsTyped, SuccessWasAcknowledged,
                    DeliveredWasAcknowledged

(* The rows of an applied event are new and pending.                        *)
LEMMA InboundStep ==
    ASSUME WebhookInv, NEW l \in Loop, NEW applied \in BOOLEAN,
           HandleInbound(l, applied)
    PROVE  WebhookInv'
<1>1. PICK active : active = {e \in Endpoint : endpoint[e] = "active"}
  OBVIOUS
<1>2. PICK S : S = {NewRow(e) : e \in active}
  OBVIOUS
<1>3. IsFiniteSet(S)
  <2>1. active \subseteq {e \in Endpoint : endpoint[e] # "none"}
    BY <1>1
  <2>2. IsFiniteSet(active)
    BY <2>1, FS_Subset DEF WebhookInv, EndpointsTyped
  <2>3. PICK f : f = [e \in active |-> NewRow(e)]
    OBVIOUS
  <2>4. f \in Surjection(active, S)
    BY <1>2, <2>3 DEF Surjection
  <2>5. QED
    BY <2>2, <2>4, FS_Surjection
<1>4. \A d \in S : d \in Delivery /\ d.status = "pending"
  BY <1>1, <1>2 DEF NewRow, Delivery
<1>5. PICK q : q = SetToSeq(S)
  OBVIOUS
<1>6. PICK n \in Nat : q \in [1..n -> S]
  BY <1>3, <1>5, Listed
<1>7. q \in Seq(S) /\ Len(q) = n /\ \A i \in 1..n : q[i] \in S
  BY <1>6
<1>8. deliveries' \in {deliveries, deliveries \o q}
  BY <1>1, <1>2, <1>5 DEF HandleInbound
<1>9. /\ deliveries' \in Seq(Delivery)
      /\ \A i \in DOMAIN deliveries' : i \in DOMAIN deliveries \/ deliveries'[i].status = "pending"
      /\ \A i \in DOMAIN deliveries : i \in DOMAIN deliveries' /\ deliveries'[i] = deliveries[i]
  <2>1. deliveries \in Seq(Delivery)
    BY DEF WebhookInv
  <2>2. CASE deliveries' = deliveries
    BY <2>1, <2>2
  <2>3. CASE deliveries' = deliveries \o q
    <3>1. q \in Seq(Delivery)
      BY <1>4, <1>6
    <3>2. deliveries' \in Seq(Delivery)
      BY <2>1, <2>3, <3>1
    <3>3. PICK k \in Nat : k = Len(deliveries)
      BY <2>1
    <3>4. /\ DOMAIN deliveries = 1..k /\ DOMAIN deliveries' = 1..(k + n)
          /\ \A i \in 1..k : deliveries'[i] = deliveries[i]
          /\ \A i \in (k + 1)..(k + n) : deliveries'[i] = q[i - k]
      <4>1. PICK d, e : d = deliveries /\ e = deliveries'
        OBVIOUS
      <4>2. d \in Seq(Delivery) /\ q \in Seq(Delivery) /\ k = Len(d) /\ n = Len(q)
        BY <2>1, <3>1, <3>3, <4>1, <1>7
      <4>3. e = d \o q
        BY <2>3, <4>1
      <4>4. /\ DOMAIN d = 1..k /\ DOMAIN e = 1..(k + n)
            /\ \A i \in 1..k : e[i] = d[i]
            /\ \A i \in (k + 1)..(k + n) : e[i] = q[i - k]
        BY <4>2, <4>3, Appended
      <4>5. QED
        BY <4>1, <4>4
    <3>5. ASSUME NEW i \in (k + 1)..(k + n) PROVE deliveries'[i].status = "pending"
      <4>1. i - k \in 1..n
        OBVIOUS
      <4>2. QED
        BY <4>1, <3>4, <1>4, <1>7
    <3>6. QED
      BY <3>2, <3>4, <3>5
  <2>4. QED
    BY <1>8, <2>2, <2>3
<1>10. /\ LoopsTyped' /\ loop'[l].pc = "reading"
       /\ \A m \in Loop \ {l} : loop'[m] = loop[m]
  <2>1. PICK r : r = [loop[l] EXCEPT !.pc = "reading"]
    OBVIOUS
  <2>2. loop' = [loop EXCEPT ![l] = r]
    BY <2>1 DEF HandleInbound
  <2>3. r = [pc |-> "reading", rows |-> loop[l].rows, ok |-> loop[l].ok]
    BY <2>1 DEF WebhookInv, LoopsTyped
  <2>4. loop[l].ok \in BOOLEAN /\ LoopsTyped
    BY DEF WebhookInv, LoopsTyped
  <2>5. loop' = [loop EXCEPT ![l] = [pc |-> "reading", rows |-> loop[l].rows,
                                     ok |-> loop[l].ok]]
    BY <2>2, <2>3
  <2>6. QED
    BY <2>4, <2>5, LoopTakes
<1>11. UNCHANGED <<endpoint, acknowledged>>
  BY DEF HandleInbound
<1>12. SuccessWasAcknowledged'
  BY <1>10, <1>11 DEF WebhookInv, SuccessWasAcknowledged
<1>13. DeliveredWasAcknowledged'
  BY <1>9, <1>11 DEF WebhookInv, DeliveredWasAcknowledged
<1>14. QED
  BY <1>9, <1>10, <1>11, <1>12, <1>13 DEF WebhookInv, EndpointsTyped

(* A loop reads what is pending. *)
LEMMA ReadStep ==
    ASSUME WebhookInv, NEW l \in Loop, ReadPending(l) PROVE WebhookInv'
<1>1. \E rows : loop' = [loop EXCEPT ![l] = LoopOver(rows)]
  BY Zenon DEF ReadPending
<1>2. PICK rows, p : /\ loop' = [loop EXCEPT ![l] = LoopOver(rows)]
                     /\ p = IF rows = <<>> THEN "done" ELSE "posting"
  BY <1>1
<1>3. loop' = [loop EXCEPT ![l] = [pc |-> p, rows |-> rows, ok |-> FALSE]]
  BY <1>2, LoopIsRecord
<1>4. /\ LoopsTyped' /\ loop'[l].pc = p
      /\ \A m \in Loop \ {l} : loop'[m] = loop[m]
  BY <1>3, LoopTakes DEF WebhookInv
<1>5. UNCHANGED <<endpoint, deliveries, acknowledged>>
  BY DEF ReadPending, webhookStore
<1>6. SuccessWasAcknowledged'
  BY <1>2, <1>4, <1>5 DEF WebhookInv, SuccessWasAcknowledged
<1>7. QED
  BY <1>4, <1>5, <1>6 DEF WebhookInv, EndpointsTyped, DeliveredWasAcknowledged

(* A merchant takes a row or not, and the loop hears of it or not.          *)
LEMMA PostStep ==
    ASSUME WebhookInv, NEW l \in Loop, NEW taken \in BOOLEAN, NEW answered \in BOOLEAN,
           Post(l, taken, answered)
    PROVE  WebhookInv'
<1>1. PICK ok \in BOOLEAN : ok = (taken /\ answered)
  OBVIOUS
<1>2. loop' = [loop EXCEPT ![l] = [pc |-> "answered", rows |-> loop[l].rows, ok |-> ok]]
  <2>1. PICK r : r = [loop[l] EXCEPT !.pc = "answered", !.ok = ok]
    OBVIOUS
  <2>2. loop' = [loop EXCEPT ![l] = r]
    BY <1>1, <2>1 DEF Post, WebhookInv, LoopsTyped
  <2>3. PICK p, q, k : loop[l] = [pc |-> p, rows |-> q, ok |-> k] /\ q = loop[l].rows
    BY DEF WebhookInv, LoopsTyped
  <2>4. PICK z, a : z = loop[l] /\ a = "answered"
    OBVIOUS
  <2>5. r = [pc |-> a, rows |-> q, ok |-> ok]
    BY <2>1, <2>3, <2>4, TwoFields
  <2>6. QED
    BY <2>2, <2>3, <2>4, <2>5
<1>3. /\ LoopsTyped' /\ loop'[l].rows = loop[l].rows /\ loop'[l].ok = ok
      /\ \A m \in Loop \ {l} : loop'[m] = loop[m]
  BY <1>2, LoopTakes DEF WebhookInv
<1>4. UNCHANGED <<endpoint, deliveries>> /\ acknowledged \subseteq acknowledged'
  BY DEF Post, webhookStore
<1>5. ok => Head(loop[l].rows) \in acknowledged'
  BY <1>1 DEF Post
<1>6. SuccessWasAcknowledged'
  BY <1>3, <1>4, <1>5 DEF WebhookInv, SuccessWasAcknowledged
<1>7. QED
  BY <1>3, <1>4, <1>6 DEF WebhookInv, EndpointsTyped, DeliveredWasAcknowledged

(* The row is written as the loop was told.                                 *)
LEMMA RecordStep ==
    ASSUME WebhookInv, NEW l \in Loop, Record(l) PROVE WebhookInv'
<1>1. PICK n : n = Head(loop[l].rows)
  OBVIOUS
<1>2. PICK ok \in BOOLEAN : ok = loop[l].ok
  BY DEF WebhookInv, LoopsTyped
<1>3. ok => n \in acknowledged
  BY <1>1, <1>2 DEF Record, WebhookInv, SuccessWasAcknowledged
<1>4. PICK p, rows : p = (IF rows = <<>> THEN "done" ELSE "posting")
                     /\ rows = Tail(loop[l].rows)
  OBVIOUS
<1>5. loop' = [loop EXCEPT ![l] = [pc |-> p, rows |-> rows, ok |-> FALSE]]
  BY <1>4, LoopIsRecord DEF Record
<1>6. /\ LoopsTyped' /\ loop'[l].pc = p
      /\ \A m \in Loop \ {l} : loop'[m] = loop[m]
  BY <1>5, LoopTakes DEF WebhookInv
<1>7. UNCHANGED <<endpoint, acknowledged>>
  BY DEF Record
<1>8. /\ deliveries' \in Seq(Delivery) /\ DOMAIN deliveries' = DOMAIN deliveries
      /\ \A i \in DOMAIN deliveries \ {n} : deliveries'[i] = deliveries[i]
      /\ n \in DOMAIN deliveries /\ ~ok => deliveries'[n].status = "failed"
  <2>1. PICK x : x = Settled(deliveries[n], ok)
    OBVIOUS
  <2>2. deliveries \in Seq(Delivery) /\ deliveries' = [deliveries EXCEPT ![n] = x]
    BY <1>1, <1>2, <2>1 DEF Record, WebhookInv
  <2>3. CASE n \in DOMAIN deliveries
    <3>1. deliveries[n] \in Delivery
      BY <2>2, <2>3
    <3>2. x \in Delivery /\ (~ok => x.status = "failed")
      <4>1. PICK d, to : d = deliveries[n] /\ to = IF ok THEN "delivered" ELSE "failed"
        OBVIOUS
      <4>2. d \in Delivery /\ to \in {"delivered", "failed"} /\ (~ok => to = "failed")
        BY <3>1, <4>1
      <4>3. x = [d EXCEPT !.status = to, !.attempts = @ + 1]
        BY <2>1, <4>1 DEF Settled
      <4>4. QED
        BY <4>2, <4>3, RowRewritten
    <3>3. QED
      BY <2>2, <2>3, <3>2
  <2>4. CASE n \notin DOMAIN deliveries
    <3>1. deliveries' = deliveries
      BY <2>2, <2>4
    <3>2. QED
      BY <2>2, <2>4, <3>1
  <2>5. QED
    BY <2>3, <2>4
<1>9. SuccessWasAcknowledged'
  BY <1>4, <1>6, <1>7 DEF WebhookInv, SuccessWasAcknowledged
<1>10. DeliveredWasAcknowledged'
  BY <1>3, <1>7, <1>8 DEF WebhookInv, DeliveredWasAcknowledged
<1>11. QED
  BY <1>6, <1>7, <1>8, <1>9, <1>10 DEF WebhookInv, EndpointsTyped

(* The process stops, and the loops with it.                                *)
LEMMA CrashStep == ASSUME WebhookInv, Crash PROVE WebhookInv'
<1>1. UNCHANGED <<endpoint, deliveries, acknowledged>>
  BY DEF Crash, webhookStore
<1>2. LoopsTyped' /\ SuccessWasAcknowledged'
  BY DEF Crash, IdleLoop, LoopsTyped, SuccessWasAcknowledged
<1>3. QED
  BY <1>1, <1>2 DEF WebhookInv, EndpointsTyped, DeliveredWasAcknowledged

(* The invariant holds at the start and through every step. *)
THEOREM WebhookInvariant == WebhookSpec => []WebhookInv
<1>1. WebhookInit => WebhookInv
  <2> SUFFICES ASSUME WebhookInit PROVE WebhookInv
    OBVIOUS
  <2>1. {e \in Endpoint : endpoint[e] # "none"} = {}
    BY DEF WebhookInit
  <2>2. EndpointsTyped
    BY <2>1, FS_EmptySet DEF WebhookInit, EndpointsTyped
  <2>3. QED
    <3>1. LoopsTyped /\ SuccessWasAcknowledged
      BY DEF WebhookInit, LoopsTyped, IdleLoop, SuccessWasAcknowledged
    <3>2. deliveries \in Seq(Delivery) /\ DeliveredWasAcknowledged
      BY DEF WebhookInit, DeliveredWasAcknowledged
    <3>3. QED
      BY <2>2, <3>1, <3>2 DEF WebhookInv
<1>2. WebhookInv /\ [WebhookNext]_webhookVars => WebhookInv'
  <2> SUFFICES ASSUME WebhookInv, [WebhookNext]_webhookVars PROVE WebhookInv'
    OBVIOUS
  <2>1. CASE UNCHANGED webhookVars
    BY <2>1 DEF webhookVars, WebhookInv, LoopsTyped, EndpointsTyped,
                SuccessWasAcknowledged, DeliveredWasAcknowledged
  <2>2. QED
    BY <2>1, EndpointSteps, InboundStep, ReadStep, PostStep, RecordStep, CrashStep
       DEF WebhookNext, LoopStep
<1>3. QED
  BY <1>1, <1>2, PTL DEF WebhookSpec

(* A delivery that is called delivered was taken by its merchant, whichever *)
(* of the loops wrote its row last.                                         *)
THEOREM DeliveredAcknowledged == WebhookSpec => []DeliveredWasAcknowledged
<1>1. WebhookInv => DeliveredWasAcknowledged
  BY DEF WebhookInv
<1>2. QED
  BY <1>1, WebhookInvariant, PTL

=============================================================================
