----------------------------- MODULE MCMandates -----------------------------
(***************************************************************************)
(* Small instances of the mandates: one open checkout mandate (mc), one    *)
(* open payment mandate (mp), three transactions; and the anchor outbox    *)
(* with two jobs that share a closed hash.  The outbox shares no state     *)
(* with the rest, so a behaviour moves one or the other.                   *)
(***************************************************************************)
EXTENDS MandateSystem, AnchorOutbox, TLC

CONSTANTS mc, mp, t1, t2, t3, c1, c2, c3, c4, k1, k2, a1, a2,
          e1, e2, h1, h2, h3, w1, w2

Both(x, y) == (mc :> x) @@ (mp :> y)

(* Two calls for the same transaction and one for each other. *)
MCCall == {c1, c2, c3, c4}
CallTransactions == (c1 :> t2) @@ (c2 :> t2) @@ (c3 :> t1) @@ (c4 :> t3)
CallCheckout == [c \in MCCall |-> mc]
CallPayment == [c \in MCCall |-> mp]
Amounts == (t1 :> 2) @@ (t2 :> 1) @@ (t3 :> 1)
Budgets == Both(4, 2)
Operations == Both(2, 3)
PerWindow == Both(2, 1)
Windows == Both(2, 1)
Expiries == Both(4, 3)

CheckoutHash == (e1 :> h1) @@ (e2 :> h1)
PaymentHash == (e1 :> h2) @@ (e2 :> h3)

(* Two approvals at once of the payment mandate, which expires first, while *)
(* the agent's status changes.                                              *)
Approvals ==
    /\ mandate[mc].status = "absent" /\ mc \in kya
    /\ \A c \in Call : call[c].pc = "idle"

(* Concurrent calls, with one approval at a time: four on the Map, three on *)
(* the table, whose answers may be lost and whose releases may fail.        *)
Closings ==
    /\ approval[a2].pc = "idle" /\ kya = Mandate
    /\ durable => call[c4].pc = "idle"

allVars == <<vars, anchorVars>>

MCInit == Init /\ OutboxInit

MCNext ==
    \/ /\ Next /\ (Approvals \/ Closings)'
       /\ OutboxInit /\ UNCHANGED anchorVars
    \/ /\ OutboxNext
       /\ Init /\ UNCHANGED vars

MCSpec == MCInit /\ [][MCNext]_allVars

Symmetry == Permutations({w1, w2})

=============================================================================
