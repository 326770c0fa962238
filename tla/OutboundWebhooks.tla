-------------------------- MODULE OutboundWebhooks --------------------------
(***************************************************************************)
(* Webhooks from the platform to its merchants: the endpoints, the         *)
(* delivery rows an applied provider event leaves behind, and              *)
(* deliverPendingOutboundWebhooks                                          *)
(* (src/src/services/payments/payment-service.ts), which every inbound     *)
(* webhook starts at its end and nobody awaits.                            *)
(*                                                                         *)
(* The store is read and written under its lock, one row at a time; the    *)
(* POST happens between two locks.  An endpoint is never removed, only     *)
(* deactivated, so a row always finds its URL.                             *)
(***************************************************************************)
EXTENDS Naturals, Sequences, SequencesExt

CONSTANTS
    Endpoint,
    Loop,        \* bound: the inbound webhooks, each with its delivery loop
    MaxCrashes,  \* bound: restarts of the process
    MaxRows      \* bound: the rows RowIsSettled looks at

ASSUME OutboundAssumption == MaxCrashes \in Nat /\ MaxRows \in Nat

VARIABLES
    endpoint,      \* store.webhookEndpoints
    deliveries,    \* store.webhookDeliveries
    loop,          \* the delivery loops in flight
    acknowledged,  \* the rows a merchant received and answered with 2xx
    crashes

webhookStore == <<endpoint, deliveries>>
webhookVars == <<endpoint, deliveries, loop, acknowledged, crashes>>

Delivery == [endpoint : Endpoint, status : {"pending", "delivered", "failed"},
             attempts : Nat]

IdleLoop == [pc |-> "idle", rows |-> <<>>, ok |-> FALSE]

WebhookTypeOK ==
    /\ endpoint \in [Endpoint -> {"none", "active", "inactive"}]
    /\ deliveries \in Seq(Delivery)
    /\ loop \in [Loop -> [pc : {"idle", "reading", "posting", "answered", "done"},
                          rows : Seq(Nat), ok : BOOLEAN]]
    /\ acknowledged \subseteq DOMAIN deliveries
    /\ crashes \in Nat

WebhookInit ==
    /\ endpoint = [e \in Endpoint |-> "none"]
    /\ deliveries = <<>>
    /\ loop = [l \in Loop |-> IdleLoop]
    /\ acknowledged = {}
    /\ crashes = 0

CreateWebhookEndpoint(e) ==
    /\ endpoint[e] = "none"
    /\ endpoint' = [endpoint EXCEPT ![e] = "active"]
    /\ UNCHANGED <<deliveries, loop, acknowledged, crashes>>

DeleteWebhookEndpoint(e) ==
    /\ endpoint[e] # "none"
    /\ endpoint' = [endpoint EXCEPT ![e] = "inactive"]
    /\ UNCHANGED <<deliveries, loop, acknowledged, crashes>>

NewRow(e) == [endpoint |-> e, status |-> "pending", attempts |-> 0]

(* The end of an inbound webhook: an applied event leaves a row for every   *)
(* active endpoint, any other leaves none; either way a loop starts.        *)
HandleInbound(l, applied) ==
    LET active == {e \in Endpoint : endpoint[e] = "active"}
    IN  /\ loop[l].pc = "idle"
        /\ deliveries' = IF applied
                         THEN deliveries \o SetToSeq({NewRow(e) : e \in active})
                         ELSE deliveries
        /\ loop' = [loop EXCEPT ![l].pc = "reading"]
        /\ UNCHANGED <<endpoint, acknowledged, crashes>>

-----------------------------------------------------------------------------
(* deliverPendingOutboundWebhooks. *)

\* Deviation (mutant): rows of endpoints deactivated since are passed over.
PendingActive(n) ==
    deliveries[n].status = "pending" /\ endpoint[deliveries[n].endpoint] = "active"

Pending(n) == deliveries[n].status = "pending"

(* What is left of a loop once it has these rows to go. *)
LoopOver(rows) ==
    [IdleLoop EXCEPT !.pc = IF rows = <<>> THEN "done" ELSE "posting", !.rows = rows]

ReadPending(l) ==
    /\ loop[l].pc = "reading"
    /\ loop' = [loop EXCEPT ![l] =
                  LoopOver(SelectSeq([n \in DOMAIN deliveries |-> n], Pending))]
    /\ UNCHANGED <<webhookStore, acknowledged, crashes>>

(* The POST: the merchant takes it or not, and the answer may be lost.      *)
Post(l, taken, answered) ==
    /\ loop[l].pc = "posting"
    /\ loop' = [loop EXCEPT ![l].pc = "answered", ![l].ok = taken /\ answered]
    /\ acknowledged' = IF taken THEN acknowledged \cup {Head(loop[l].rows)}
                       ELSE acknowledged
    /\ UNCHANGED <<webhookStore, crashes>>

\* Deviation (mutant): an answer is taken for a success, whatever it says.
SettledAnyway(row, ok) == [row EXCEPT !.status = "delivered", !.attempts = @ + 1]

(* The row as it is written after the answer, whatever it says by now.      *)
Settled(row, ok) ==
    [row EXCEPT !.status = IF ok THEN "delivered" ELSE "failed",
                !.attempts = @ + 1]

Record(l) ==
    /\ loop[l].pc = "answered"
    /\ deliveries' = [deliveries EXCEPT ![Head(loop[l].rows)] =
                                          Settled(@, loop[l].ok)]
    /\ loop' = [loop EXCEPT ![l] = LoopOver(Tail(loop[l].rows))]
    /\ UNCHANGED <<endpoint, acknowledged, crashes>>

(* The process ends and starts again on its file: the loops are gone.       *)
Crash ==
    /\ crashes < MaxCrashes
    /\ crashes' = crashes + 1
    /\ loop' = [l \in Loop |-> IF loop[l].pc = "idle" THEN IdleLoop
                               ELSE [IdleLoop EXCEPT !.pc = "done"]]
    /\ UNCHANGED <<webhookStore, acknowledged>>

LoopStep(l) ==
    \/ ReadPending(l) \/ Record(l)
    \/ \E taken, answered \in BOOLEAN : Post(l, taken, answered)

WebhookNext ==
    \/ \E e \in Endpoint : CreateWebhookEndpoint(e) \/ DeleteWebhookEndpoint(e)
    \/ \E l \in Loop, applied \in BOOLEAN : HandleInbound(l, applied)
    \/ \E l \in Loop : LoopStep(l)
    \/ Crash

WebhookSpec == WebhookInit /\ [][WebhookNext]_webhookVars

(* A loop that runs gets its answers, or their timeout. *)
WebhookFairSpec == WebhookSpec /\ \A l \in Loop : WF_webhookVars(LoopStep(l))

-----------------------------------------------------------------------------
(* Properties. *)

(* A row is only called delivered when its merchant took it, whichever of   *)
(* the overlapping loops wrote the row last (delivery status of             *)
(* docs/PAYMENTS.md).                                                       *)
DeliveredWasAcknowledged ==
    \A n \in DOMAIN deliveries :
        deliveries[n].status = "delivered" => n \in acknowledged

(* A loop that starts settles every row it finds pending, also when the     *)
(* endpoint was deactivated meanwhile, when other loops run, and when the   *)
(* row was left behind by a crash - unless the process crashes again.  An   *)
(* applied event starts a loop with its rows, so only a crash leaves a row  *)
(* pending, and only until the next inbound webhook.                        *)
RowIsSettled ==
    \A k \in 1..MaxRows, c \in 0..MaxCrashes :
        (/\ k \in DOMAIN deliveries /\ deliveries[k].status = "pending"
         /\ crashes = c
         /\ \E l \in Loop : loop[l].pc = "reading")
        ~> (\/ crashes # c
            \/ k \in DOMAIN deliveries => deliveries[k].status # "pending")

(* What "delivery status + attempt count" (docs/PAYMENTS.md) says and two   *)
(* overlapping loops do not keep: a delivery recorded as delivered stays so.*)
DeliveredStays ==
    [][\A n \in DOMAIN deliveries :
         deliveries[n].status = "delivered" =>
            deliveries'[n].status = "delivered"]_deliveries

=============================================================================
