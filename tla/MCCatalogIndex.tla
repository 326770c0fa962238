--------------------------- MODULE MCCatalogIndex ---------------------------
(***************************************************************************)
(* Small instances of CatalogIndex.  One run covers two deployments:       *)
(*   alone: one worker, two items; merchants edit texts and withdraw items *)
(*          (an item put back on sale and a product patched with some of   *)
(*          its variants do not keep ChangeIsQueued);                      *)
(*   team:  two workers, one item and every kind of edit.                  *)
(***************************************************************************)
EXTENDS CatalogIndex

CONSTANTS w1, i1

VARIABLE deployment

Alone ==
    /\ \A w \in Worker : worker[w].pc # "idle" => w = w1
    /\ patch # NoPatch =>
         /\ patch.body.available # "yes"
         /\ patch.body.product =>
              \A i \in Item : Exists(i) => i \in patch.body.items
                                           \/ patch.body.items = {}

Team == patch # NoPatch => patch.body.items \subseteq {i1}

(* Keys only tell patches apart: they are taken in order.  Three patches    *)
(* for one item, two for two.                                               *)
PatchBound ==
    patch # NoPatch =>
        /\ patch.key = Cardinality(receipts) + 1
        /\ patch.key + Cardinality(patch.body.items
                                     \cup {i \in Item : Exists(i)}) <= 4

MCInit == Init /\ deployment \in {"alone", "team"}

MCNext ==
    /\ Next /\ UNCHANGED deployment
    /\ IF deployment = "alone" THEN Alone' ELSE Team'
    /\ PatchBound'

allVars == <<vars, deployment>>

MCSpec == MCInit /\ [][MCNext]_allVars

(* Fairness of CatalogIndex for the worker both deployments run. *)
MCFairSpec ==
    /\ MCSpec
    /\ WF_allVars(WorkerStep(w1) /\ UNCHANGED deployment)
    /\ WF_allVars((\E n \in DOMAIN outbox : BackoffEnds(n)) /\ UNCHANGED deployment)
    /\ WF_allVars(PatchCommit /\ UNCHANGED deployment)

-----------------------------------------------------------------------------
(* With one worker every accepted change of searchable text is in the       *)
(* search documents or in the outbox.                                       *)
AloneChangeIsQueued == deployment = "alone" => ChangeIsQueued

(* With one worker an item on sale is found under its current text in the   *)
(* end, unless its job ran out of attempts.                                 *)
AloneIndexCatchesUp == deployment = "alone" => IndexCatchesUp

=============================================================================
