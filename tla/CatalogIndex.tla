---------------------------- MODULE CatalogIndex ----------------------------
(***************************************************************************)
(* Ingestion of a merchant's product feed and the reindexing of its search *)
(* documents, on PostgreSQL.                                               *)
(*                                                                         *)
(*  - PostgresAcpIngestionService.patchProducts                            *)
(*    (src/src/catalog/postgres-acp-store.ts) around                       *)
(*    AcpIngestionService.patchProducts (src/src/catalog/ingestion.ts):    *)
(*    one transaction under the feed's row lock, which reads the feed,     *)
(*    merges the patch in memory and writes rows and outbox jobs;          *)
(*  - PostgresReindexWorker (src/src/catalog/postgres-reindex-worker.ts):  *)
(*    each job is one READ COMMITTED transaction that holds its outbox row *)
(*    and nothing else; its writes appear when it commits.                 *)
(*                                                                         *)
(* One product with its variants (items).  A text is the number of times   *)
(* it was edited.  The lease is written and cleared inside the worker's    *)
(* transaction and nobody ever reads it; the backoff after a failure is a  *)
(* flag.                                                                   *)
(***************************************************************************)
EXTENDS Integers, Sequences, FiniteSets, SequencesExt

CONSTANTS
    Item,
    Worker,
    IdempotencyKey,  \* bound: one PATCH is accepted per key
    Edits,           \* what merchants do: subset of EditKinds
    maxAttempts,
    MaxFailures      \* bound: failed and crashed transactions

EditKinds == {"product",    \* the product's text, with all variants or none
              "siblings",   \* the product's text, with some of its variants
              "text", "hide", "show"}

ASSUME CatalogAssumption ==
    /\ IsFiniteSet(Item) /\ Edits \subseteq EditKinds
    /\ maxAttempts \in Nat \ {0} /\ MaxFailures \in Nat

VARIABLES
    productText,
    variant,      \* catalog_variants_current: [Item -> record]
    outbox,       \* catalog_reindex_outbox
    document,     \* catalog_search_documents_current: [Item -> record]
    receipts,     \* catalog_ingest_receipts: keys
    patch,        \* the PATCH that holds the feed lock, with what it has read
    worker,       \* [Worker -> the job in its transaction]
    failures

rows == <<productText, variant, outbox, document, receipts>>
vars == <<productText, variant, outbox, document, receipts, patch, worker,
          failures>>

Variant == [text : Nat, data_revision : Nat, search_revision : Nat,
            index_revision : Nat, tombstoned : BOOLEAN]
Job == [item : Item, search_revision : Nat, operation : {"upsert", "delete"},
        status : {"pending", "done", "dead_letter"}, attempts : Nat,
        delayed : BOOLEAN, created_at : Nat]
Document == [index_revision : Nat, text : Nat \X Nat]

NoVariant == [text |-> 0, data_revision |-> 0, search_revision |-> 0,
              index_revision |-> 0, tombstoned |-> FALSE]
NoDocument == [index_revision |-> 0, text |-> <<0, 0>>]
NoPatch == [pc |-> "idle"]
Idle == [pc |-> "idle", job |-> 0, attempts |-> 0, text |-> <<0, 0>>]

TypeOK ==
    /\ productText \in Nat
    /\ variant \in [Item -> Variant]
    /\ outbox \in Seq(Job)
    /\ document \in [Item -> Document]
    /\ receipts \subseteq IdempotencyKey
    /\ patch.pc \in {"idle", "merging"}
    /\ worker \in [Worker -> [pc : {"idle", "claimed", "checked", "embedded",
                                    "confirmed", "failed"},
                              job : Nat, attempts : Nat, text : Nat \X Nat]]
    /\ failures \in Nat

Init ==
    /\ productText = 0
    /\ variant = [i \in Item |-> NoVariant]
    /\ outbox = <<>>
    /\ document = [i \in Item |-> NoDocument]
    /\ receipts = {}
    /\ patch = NoPatch
    /\ worker = [w \in Worker |-> Idle]
    /\ failures = 0

Exists(i) == variant[i].data_revision > 0

-----------------------------------------------------------------------------
(* PATCH. *)

(* product: the product's text changes; items: the variants in the body;    *)
(* text: theirs changes; available: what the body says of it.               *)
PatchBody ==
    [product : BOOLEAN, items : SUBSET Item, text : BOOLEAN,
     available : {"unsaid", "no", "yes"}]

Sensible(p) ==
    /\ p.text => "text" \in Edits
    /\ p.available = "no" => "hide" \in Edits
    /\ p.available = "yes" => "show" \in Edits
    /\ p.product => IF \A i \in Item : Exists(i) => i \in p.items
                       \/ p.items = {}
                    THEN "product" \in Edits ELSE "siblings" \in Edits
    /\ p.items = {} => p.product /\ ~p.text /\ p.available = "unsaid"

(* withFeedLock: a key that has a receipt is answered from it; otherwise    *)
(* the feed is read under its lock.                                         *)
PatchBegin(k, p) ==
    /\ patch.pc = "idle"
    /\ k \notin receipts
    /\ Sensible(p)
    /\ patch' = [pc |-> "merging", key |-> k, body |-> p, read |-> variant]
    /\ UNCHANGED <<rows, worker, failures>>

(* What the body touches: its variants, or all when it lists none. *)
Touched == IF patch.body.items = {}
           THEN {i \in Item : Exists(i)} ELSE patch.body.items

\* Deviation (mutant): the fingerprint leaves out the product's own text.
SearchableChangedVariant(i) ==
    patch.read[i].data_revision = 0 \/ patch.body.text

(* searchableFingerprint of product and variant differs, or a new variant. *)
SearchableChanged(i) ==
    patch.read[i].data_revision = 0 \/ patch.body.product \/ patch.body.text

Merged(i) ==
    LET v == patch.read[i]
    IN  [v EXCEPT
           !.text = IF patch.body.text THEN @ + 1 ELSE @,
           !.data_revision = @ + 1,
           !.search_revision = IF SearchableChanged(i)
                               THEN v.data_revision + 1 ELSE @,
           !.tombstoned = IF patch.body.available = "unsaid"
                          THEN @ ELSE patch.body.available = "no"]

NewJob(i) ==
    [item |-> i, search_revision |-> Merged(i).search_revision,
     operation |-> IF Merged(i).tombstoned THEN "delete" ELSE "upsert",
     status |-> "pending", attempts |-> 0, delayed |-> FALSE,
     created_at |-> Cardinality(receipts)]

Enqueued ==
    {NewJob(i) : i \in {j \in Touched : SearchableChanged(j)
                                        \/ Merged(j).tombstoned}}

\* Deviation (mutant): the row is written back as it was read.
PatchedRowWhole(i) == Merged(i)

(* persistMemory: the row of a variant that exists keeps its own            *)
(* index_revision, which a worker may have written meanwhile.               *)
PatchedRow(i) == [Merged(i) EXCEPT !.index_revision = variant[i].index_revision]

PatchCommit ==
    /\ patch.pc = "merging"
    /\ variant' = [i \in Item |->
                     IF i \in Touched THEN PatchedRow(i) ELSE variant[i]]
    /\ productText' = IF patch.body.product THEN productText + 1 ELSE productText
    /\ outbox' = outbox \o SetToSeq(Enqueued)
    /\ receipts' = receipts \cup {patch.key}
    /\ patch' = NoPatch
    /\ UNCHANGED <<document, worker, failures>>

(* The transaction is rolled back; the merchant may send it again. *)
PatchFails ==
    /\ failures < MaxFailures
    /\ failures' = failures + 1
    /\ patch.pc = "merging"
    /\ patch' = NoPatch
    /\ UNCHANGED <<rows, worker>>

-----------------------------------------------------------------------------
(* The worker. *)

InTransaction(w) == worker[w].pc \notin {"idle", "failed"}

Locked(n) == \E w \in Worker : InTransaction(w) /\ worker[w].job = n

\* Deviation (mutant): a job that failed is not tried again.
ClaimableFresh(n) ==
    outbox[n].status = "pending" /\ outbox[n].attempts = 0 /\ ~Locked(n)

Claimable(n) ==
    outbox[n].status = "pending" /\ ~outbox[n].delayed /\ ~Locked(n)

(* ORDER BY created_at FOR UPDATE SKIP LOCKED LIMIT 1. *)
Claim(w, n) ==
    /\ worker[w].pc = "idle"
    /\ Claimable(n)
    /\ \A m \in DOMAIN outbox :
         Claimable(m) => outbox[n].created_at <= outbox[m].created_at
    /\ worker' = [worker EXCEPT ![w] = [Idle EXCEPT !.pc = "claimed", !.job = n,
                                          !.attempts = outbox[n].attempts]]
    /\ UNCHANGED <<rows, patch, failures>>

JobOf(w) == outbox[worker[w].job]

(* COMMIT with the job done. *)
Finish(w) ==
    /\ outbox' = [outbox EXCEPT ![worker[w].job].status = "done",
                                ![worker[w].job].delayed = FALSE]
    /\ worker' = [worker EXCEPT ![w] = Idle]

Goto(w, pc) == worker' = [worker EXCEPT ![w].pc = pc] /\ UNCHANGED outbox

Delete(w) ==
    /\ worker[w].pc = "claimed" /\ JobOf(w).operation = "delete"
    /\ document' = [document EXCEPT ![JobOf(w).item] = NoDocument]
    /\ Finish(w)
    /\ UNCHANGED <<productText, variant, receipts, patch, failures>>

Obsolete(job) == job.search_revision < variant[job.item].search_revision

Indexed(job) == variant[job.item].index_revision >= job.search_revision

Check(w) ==
    /\ worker[w].pc = "claimed" /\ JobOf(w).operation = "upsert"
    /\ IF Obsolete(JobOf(w)) \/ Indexed(JobOf(w))
       THEN Finish(w) ELSE Goto(w, "checked")
    /\ UNCHANGED <<productText, variant, document, receipts, patch, failures>>

CurrentText(i) == <<productText, variant[i].text>>

(* The texts are read; the embedding is computed. *)
Embed(w) ==
    /\ worker[w].pc = "checked"
    /\ worker' = [worker EXCEPT ![w].pc = "embedded",
                                ![w].text = CurrentText(JobOf(w).item)]
    /\ UNCHANGED <<rows, patch, failures>>

(* The revision is read once more ... *)
Confirm(w) ==
    /\ worker[w].pc = "embedded"
    /\ IF Obsolete(JobOf(w)) THEN Finish(w) ELSE Goto(w, "confirmed")
    /\ UNCHANGED <<productText, variant, document, receipts, patch, failures>>

(* ... and the document is written, whatever is there by now.               *)
Publish(w) ==
    LET job == JobOf(w)
    IN  /\ worker[w].pc = "confirmed"
        /\ document' = [document EXCEPT ![job.item] =
                          [index_revision |-> job.search_revision,
                           text |-> worker[w].text]]
        /\ variant' = IF variant[job.item].search_revision = job.search_revision
                      THEN [variant EXCEPT ![job.item].index_revision =
                                             job.search_revision]
                      ELSE variant
        /\ Finish(w)
        /\ UNCHANGED <<productText, receipts, patch, failures>>

(* The embedding or a query fails: ROLLBACK, which frees the row ... *)
Fail(w) ==
    /\ failures < MaxFailures
    /\ failures' = failures + 1
    /\ InTransaction(w)
    /\ worker' = [worker EXCEPT ![w].pc = "failed"]
    /\ UNCHANGED <<rows, patch>>

(* ... and then the attempt is recorded, in a statement of its own.         *)
RecordFailure(w) ==
    LET n == worker[w].job
        attempts == worker[w].attempts + 1
    IN  /\ worker[w].pc = "failed"
        /\ ~Locked(n)
        /\ outbox' = [outbox EXCEPT
                        ![n].status = IF attempts >= maxAttempts
                                      THEN "dead_letter" ELSE "pending",
                        ![n].attempts = attempts,
                        ![n].delayed = attempts < maxAttempts]
        /\ worker' = [worker EXCEPT ![w] = Idle]
        /\ UNCHANGED <<productText, variant, document, receipts, patch, failures>>

BackoffEnds(n) ==
    /\ outbox[n].delayed
    /\ outbox' = [outbox EXCEPT ![n].delayed = FALSE]
    /\ UNCHANGED <<productText, variant, document, receipts, patch, worker,
                   failures>>

Crash(w) ==
    /\ failures < MaxFailures
    /\ failures' = failures + 1
    /\ worker[w].pc # "idle"
    /\ worker' = [worker EXCEPT ![w] = Idle]
    /\ UNCHANGED <<rows, patch>>

WorkerStep(w) ==
    \/ \E n \in DOMAIN outbox : Claim(w, n)
    \/ Delete(w) \/ Check(w) \/ Embed(w) \/ Confirm(w) \/ Publish(w)
    \/ RecordFailure(w)

Next ==
    \/ \E k \in IdempotencyKey, p \in PatchBody : PatchBegin(k, p)
    \/ PatchCommit \/ PatchFails
    \/ \E w \in Worker : WorkerStep(w) \/ Fail(w) \/ Crash(w)
    \/ \E n \in DOMAIN outbox : BackoffEnds(n)

Spec == Init /\ [][Next]_vars

(* The worker's loop and the clock go on; merchants need not.               *)
Fairness ==
    /\ \A w \in Worker : WF_vars(WorkerStep(w))
    /\ WF_vars(\E n \in DOMAIN outbox : BackoffEnds(n))
    /\ WF_vars(PatchCommit)

FairSpec == Spec /\ Fairness

-----------------------------------------------------------------------------
(* Properties. *)

(* An item that is on sale. *)
Live(i) == Exists(i) /\ ~variant[i].tombstoned

Current(i) ==
    document[i].index_revision > 0 /\ document[i].text = CurrentText(i)

Outstanding(i) ==
    \E n \in DOMAIN outbox :
        outbox[n].item = i /\ outbox[n].status \in {"pending", "dead_letter"}

(* Every accepted change of searchable text is in the search documents or   *)
(* in the outbox - through merges, skipped and repeated jobs, failures and  *)
(* crashes of the worker ("Todo cambio searchable aceptado MUST producir    *)
(* trabajo durable").                                                       *)
ChangeIsQueued ==
    \A i \in Item : Live(i) => Current(i) \/ Outstanding(i)

(* The revisions of an item are monotonic and ordered, although a PATCH     *)
(* writes back what it read before a worker committed ("MUST tener          *)
(* data_revision, search_revision e index_revision monotonicas").           *)
RevisionsGrow ==
    [][\A i \in Item :
         /\ variant[i].data_revision <= variant'[i].data_revision
         /\ variant[i].search_revision <= variant'[i].search_revision
         /\ variant[i].index_revision <= variant'[i].index_revision
         /\ variant'[i].index_revision <= variant'[i].search_revision
         /\ variant'[i].search_revision <= variant'[i].data_revision]_variant

(* An item on sale is found under its current text in the end, unless its   *)
(* job ran out of attempts.                                                 *)
IndexCatchesUp ==
    \A i \in Item :
        Live(i) ~> \/ Current(i) \/ ~Live(i)
                   \/ \E n \in DOMAIN outbox :
                        outbox[n].item = i /\ outbox[n].status = "dead_letter"

-----------------------------------------------------------------------------
(* What the documents say and the code does not do. *)

(* "Eventos anteriores MUST NOT sobrescribir texto nuevo": a document is    *)
(* never replaced by one of an earlier revision.                            *)
NewerDocumentStays ==
    [][\A i \in Item :
         document'[i].index_revision > 0 =>
           document[i].index_revision <= document'[i].index_revision]_document

(* "index MUST senalar la search revision vectorizada": the index_revision  *)
(* of an item on sale is the revision of its document.                      *)
IndexPointsAtDocument ==
    \A i \in Item :
        Live(i) /\ variant[i].index_revision > 0 =>
            document[i].index_revision = variant[i].index_revision

=============================================================================
