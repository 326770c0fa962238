---------------------------- MODULE PaymentWire ----------------------------
(***************************************************************************)
(* What the platform's payment service and the payment provider share: the *)
(* requests clients make, the HTTP calls that carry them to the provider,  *)
(* the provider's answers, and the provider's webhook events.              *)
(*                                                                         *)
(* A member of Req is one HTTP request received by the platform; each      *)
(* makes at most one mutating call to the provider, so calls are indexed   *)
(* by Req too.  Ids the code draws at random (payment ids, provider        *)
(* payment ids, event ids) are named after the request that draws them.    *)
(***************************************************************************)
EXTENDS PaymentStates, FiniteSets

CONSTANTS
    Req,        \* HTTP requests the platform receives
    Key,        \* (actor, Idempotency-Key) pairs
    Amount,     \* amount of every payment, in minor units
    none        \* "undefined"

ASSUME WireAssumption ==
    /\ Amount \in Nat \ {0}
    /\ none \notin Req
    /\ none \notin Key

VARIABLE call   \* the provider call of each request

Op    == {"create", "capture", "cancel", "refund"}
Money == 0 .. Amount

\* A client request: op, its idempotency key, and its body: the payment it is
\* about (none for create), an amount (0 = not given), the capture method.
Request == [op : Op, key : Key, pay : Req \cup {none}, amt : Money,
            manual : BOOLEAN]

\* X-Idempotency-Key with the scope the provider files it under.
ProviderKey == [op : Op, key : Key, pid : Req \cup {none}]

\* The provider's answer as the adapter reads it: a payment view (kind "ok"),
\* a 4xx, or an uncertain outcome (5xx).
Response == [kind : {"none", "ok", "rejected", "unknown"},
             code : {"", "invalid_request", "request_in_progress",
                     "idempotency_key_reused"},
             pid : Req \cup {none}, snap : ProviderSnapshot \cup {none},
             captured : Money, refunded : Money, rtx : BOOLEAN,
             refundFailed : BOOLEAN]

NoResponse ==
    [kind |-> "none", code |-> "", pid |-> none, snap |-> none,
     captured |-> 0, refunded |-> 0, rtx |-> FALSE, refundFailed |-> FALSE]

Rejected(c) == [NoResponse EXCEPT !.kind = "rejected", !.code = c]
Uncertain   == [NoResponse EXCEPT !.kind = "unknown"]

\* Stages of a call at the provider; "lost": the provider died with it.
Stage == {"none", "sent", "begun", "executed", "answered", "lost"}

Call == [stage : Stage, pkey : ProviderKey \cup {none}, amt : Money,
         manual : BOOLEAN, resp : Response]

NoCall == [stage |-> "none", pkey |-> none, amt |-> 0, manual |-> FALSE,
           resp |-> NoResponse]

\* A webhook event: drawn by request r in the part of its life named by tag.
EventId == Req \X {"create", "terminal", "stale", "action"}
Event   == [id : EventId, pid : Req, snap : ProviderSnapshot,
            captured : Money, refunded : Money,
            tx : {"PURCHASE", "AUTHORIZE", "CAPTURE", "CANCEL", "REFUND"}]

WireTypeOK == call \in [Req -> Call]
WireInit   == call = [r \in Req |-> NoCall]
=============================================================================
