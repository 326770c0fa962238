-------------------------- MODULE MCPaymentSystem --------------------------
(***************************************************************************)
(* Instances of PaymentSystem for TLC.  A behaviour stays within one of    *)
(* several scenarios: the requests clients send, what the provider may do  *)
(* with a payment, and how many requests, creates, faults there are.       *)
(***************************************************************************)
EXTENDS PaymentSystem, TLC

CONSTANTS r1, r2, r3, k1, k2, g1, g2

Create(k, m) == [op |-> "create", key |-> k, pay |-> none, amt |-> 0,
                 manual |-> m]
Act(o, k, p, a) == [op |-> o, key |-> k, pay |-> p, amt |-> a,
                    manual |-> FALSE]

\* Creation under one key, with a retry that changes the body.
CreateMenu == {Create(k1, FALSE), Create(k1, TRUE)}

\* Creations under two keys side by side.
TwoKeyMenu == {Create(k1, FALSE), Create(k2, FALSE)}

\* Nothing but one create and its retries.
OneCreateMenu == {Create(k1, FALSE)}

\* One authorized payment; a partial and a full capture of it.
CaptureMenu ==
    {Create(k1, TRUE)} \cup
    UNION {{Act("capture", k1, p, 1), Act("capture", k2, p, 0)} : p \in Req}

\* A partial capture and a cancel of it.
CancelMenu ==
    {Create(k1, TRUE)} \cup
    UNION {{Act("capture", k1, p, 1), Act("cancel", k1, p, 0)} : p \in Req}

\* One captured payment; a partial refund, one of it all.
RefundMenu ==
    {Create(k1, FALSE)} \cup
    UNION {{Act("refund", k1, p, 1), Act("refund", k2, p, 2)} : p \in Req}

\* The same and a refund of what is left.
RefundRestMenu == RefundMenu \cup {Act("refund", k2, p, 0) : p \in Req}

\* One create, its retry, and a capture of the payment, which is captured
\* already: it is refused while the payment's outcome is still being learned.
SettleMenu == {Create(k1, FALSE), Act("capture", k1, r1, 0)}

CreateMenus    == CreateMenu \cup TwoKeyMenu
OperationMenus == OneCreateMenu \cup CaptureMenu \cup CancelMenu \cup RefundRestMenu

Prompt == {"success", "provider_timeout"}
Late   == {"success", "declined", "requires_3ds", "processing_then_success",
           "processing_then_declined", "out_of_order_webhooks"}

Bounds(menu, outcomes, requests, creates, maxFaults, polls) ==
    [menu |-> menu, outcomes |-> outcomes, requests |-> requests,
     creates |-> creates, faults |-> maxFaults, polls |-> polls]

CreateScenarios ==
    {Bounds(CreateMenu, Prompt, 3, 3, 2, FALSE),
     Bounds(TwoKeyMenu, Prompt, 3, 3, 1, FALSE)}

OperationScenarios ==
    {Bounds(CaptureMenu, {"success"}, 3, 1, 1, FALSE),
     Bounds(CancelMenu, {"success"}, 3, 1, 0, FALSE),
     Bounds(RefundMenu, {"success"}, 3, 1, 1, FALSE),
     Bounds(RefundRestMenu, {"success", "refund_failed"}, 3, 1, 0, FALSE)}

\* An authorization whose processing ends late, by itself.
ManualMenu == {Create(k1, TRUE)}

WebhookScenarios ==
    {Bounds(OneCreateMenu, Late, 2, 2, 2, TRUE),
     Bounds(ManualMenu, {"processing_then_success"}, 1, 1, 0, TRUE)}

Sent(op) == {r \in Req : arg[r] # none /\ arg[r].op \in op}

Within(s) ==
    /\ {arg[r] : r \in Sent(Op)} \subseteq s.menu
    /\ Cardinality(Sent(Op)) <= s.requests
    /\ Cardinality(Sent({"create"})) <= s.creates
    /\ {ppay[r].scenario : r \in {q \in Req : ppay[q] # none}}
          \subseteq s.outcomes
    /\ faults <= s.faults
    /\ s.polls \/ \A g \in Poller : poll[g] = NoPoll

OneOf(scenarios) == Next /\ (\E s \in scenarios : Within(s))'

CreateSpec == Init /\ [][OneOf(CreateScenarios)]_vars

OperationSpec ==
    Init /\ [][OneOf(OperationScenarios \cup WebhookScenarios)]_vars

Symmetry == Permutations(Req)
=============================================================================
