--------------------------- MODULE PaymentStates ---------------------------
(***************************************************************************)
(* The two vocabularies of payment states and the functions between them:  *)
(* the provider's (status, sub_status) pairs, the platform's public        *)
(* status, the lifecycle rank of a provider pair and the guard that        *)
(* decides whether an inbound provider event may change a stored payment.  *)
(* Both the platform and the provider mock use the guard.                  *)
(***************************************************************************)
EXTENDS Naturals

PublicPaymentStatus ==
    {"created", "requires_user_action", "processing", "authorized",
     "succeeded", "declined", "failed", "canceled",
     "partially_refunded", "refunded"}

\* A provider snapshot.  The absent sub_status is "".
Snapshot(s, sub) == [status |-> s, sub |-> sub]

\* The snapshots the provider stores and announces.
ProviderSnapshot ==
    {Snapshot("DECLINED", "DECLINED"), Snapshot("EXPIRED", "EXPIRED"),
     Snapshot("PENDING", "WAITING_ADDITIONAL_STEP"),
     Snapshot("PENDING", "IN_PROCESS"),
     Snapshot("AUTHORIZED", "AUTHORIZED"),
     Snapshot("SUCCEEDED", "APPROVED"), Snapshot("SUCCEEDED", "CAPTURED"),
     Snapshot("SUCCEEDED", "PARTIALLY_CAPTURED"),
     Snapshot("SUCCEEDED", "PARTIALLY_REFUNDED"),
     Snapshot("REFUNDED", "REFUNDED"), Snapshot("CANCELED", "CANCELED")}

\* Later in the lifecycle = higher.  The order of the tests is the code's.
paymentStateRank(x) ==
    IF x.status \in {"DECLINED", "REJECTED", "ERROR", "EXPIRED"} THEN 100
    ELSE IF "REFUNDED" \in {x.status, x.sub} THEN 90
    ELSE IF x.sub = "PARTIALLY_REFUNDED" THEN 80
    ELSE IF x.status \in {"CANCELED", "CANCELLED"} THEN 55
    ELSE IF x.sub = "PARTIALLY_CAPTURED" THEN 60
    ELSE IF \/ x.status \in {"SUCCEEDED", "APPROVED", "CAPTURED"}
            \/ x.sub \in {"CAPTURED", "APPROVED"} THEN 70
    ELSE IF "AUTHORIZED" \in {x.status, x.sub} THEN 50
    ELSE IF x.status = "PENDING"
         THEN IF x.sub = "WAITING_ADDITIONAL_STEP" THEN 20
              ELSE IF x.sub \in {"IN_PROCESS", "PENDING"} THEN 30 ELSE 25
    ELSE IF x.status \in {"CREATED", "READY_TO_PAY"} THEN 10
    ELSE 0

isTerminalPaymentStatus(s) ==
    s \in {"DECLINED", "REJECTED", "ERROR", "EXPIRED",
           "CANCELED", "CANCELLED", "REFUNDED"}

\* Deviation (mutant): the ranks are not compared.
SupersedesSoftStateLax(cur, inc) == paymentStateRank(inc) > 0

\* The last two tests of the guard, for an event not seen before that
\* announces another state than the current one.
SupersedesSoftState(cur, inc) ==
    LET c == paymentStateRank(cur)
        i == paymentStateRank(inc)
    IN  i >= c /\ ~(c >= 50 /\ i <= c)

\* TRUE where the code answers "accepted"; its three refusals (duplicate,
\* same state, stale) leave the payment alone and differ only in the reason
\* they log.
decidePaymentEventApplication(cur, inc, seen) ==
    /\ ~seen
    /\ cur # inc
    /\ ~isTerminalPaymentStatus(cur.status)
    /\ SupersedesSoftState(cur, inc)

\* Deviation (mutant): any refund is a full one, and what is not
\* refused or refunded counts as a success.
mapYunoPaymentStatusCoarse(x) ==
    CASE x.status \in {"DECLINED", "REJECTED"} -> "declined"
      [] x.status \in {"ERROR", "EXPIRED"}     -> "failed"
      [] x.sub \in {"REFUNDED", "PARTIALLY_REFUNDED"} -> "refunded"
      [] OTHER                                 -> "succeeded"

mapYunoPaymentStatus(x) ==
    IF x.status \in {"CREATED", "READY_TO_PAY"} THEN "created"
    ELSE IF x.status \in {"PENDING", "WAITING_ADDITIONAL_STEP"}
         THEN IF x.sub = "WAITING_ADDITIONAL_STEP" THEN "requires_user_action"
              ELSE IF x.sub = "AUTHORIZED" THEN "authorized" ELSE "processing"
    ELSE IF "AUTHORIZED" \in {x.status, x.sub} THEN "authorized"
    ELSE IF x.sub = "PARTIALLY_REFUNDED" THEN "partially_refunded"
    ELSE IF "REFUNDED" \in {x.status, x.sub} THEN "refunded"
    ELSE IF \/ x.status \in {"SUCCEEDED", "APPROVED", "CAPTURED"}
            \/ x.sub \in {"CAPTURED", "APPROVED"} THEN "succeeded"
    ELSE IF x.status \in {"DECLINED", "REJECTED"} THEN "declined"
    ELSE IF x.status \in {"ERROR", "EXPIRED"} THEN "failed"
    ELSE IF x.status \in {"CANCELED", "CANCELLED"} THEN "canceled"
    ELSE "processing"

\* How the platform reads its own stored status back as a provider snapshot
\* before it asks the guard.
StoredSnapshot(s) ==
    CASE s = "authorized"           -> Snapshot("AUTHORIZED", "AUTHORIZED")
      [] s = "succeeded"            -> Snapshot("SUCCEEDED", "APPROVED")
      [] s = "declined"             -> Snapshot("DECLINED", "")
      [] s = "canceled"             -> Snapshot("CANCELED", "")
      [] s = "refunded"             -> Snapshot("REFUNDED", "")
      [] s = "partially_refunded"   -> Snapshot("SUCCEEDED", "PARTIALLY_REFUNDED")
      [] s = "failed"               -> Snapshot("ERROR", "")
      [] s = "processing"           -> Snapshot("PENDING", "IN_PROCESS")
      [] s = "requires_user_action" -> Snapshot("PENDING", "WAITING_ADDITIONAL_STEP")
      [] OTHER                      -> Snapshot("CREATED", "")
=============================================================================
