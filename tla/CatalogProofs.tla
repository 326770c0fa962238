--------------------------- MODULE CatalogProofs ---------------------------
(***************************************************************************)
(* The catalog, for any items, workers, keys and failures: the revisions   *)
(* of an item only grow; and with one worker, for merchants who edit texts *)
(* and withdraw items, every accepted change of searchable text is in the  *)
(* search documents or in the outbox.                                      *)
(***************************************************************************)
EXTENDS MCCatalogIndex, SetFacts

(* The PATCH that holds the feed lock read what is still there, but for     *)
(* what the workers write.                                                  *)
SameBut(v, u) ==
    /\ v.text = u.text /\ v.data_revision = u.data_revision
    /\ v.search_revision = u.search_revision /\ v.tombstoned = u.tombstoned

PatchSound ==
    \/ patch = NoPatch
    \/ /\ patch = [pc |-> "merging", key |-> patch.key, body |-> patch.body,
                   read |-> patch.read]
       /\ patch.key \in IdempotencyKey /\ patch.body \in PatchBody
       /\ patch.read \in [Item -> Variant]
       /\ \A i \in Item : SameBut(patch.read[i], variant[i])

(* The revisions of an item are ordered, and an item that exists has a text *)
(* to be found by.                                                          *)
RowsOrdered ==
    \A i \in Item :
        /\ variant[i].index_revision <= variant[i].search_revision
        /\ variant[i].search_revision <= variant[i].data_revision
        /\ Exists(i) => variant[i].search_revision > 0

(* A job is for a revision the item has had. *)
JobsSound ==
    \A n \in DOMAIN outbox :
        /\ Exists(outbox[n].item)
        /\ outbox[n].search_revision > 0
        /\ outbox[n].search_revision <= variant[outbox[n].item].search_revision

(* A worker that is not idle has a job. *)
WorkersSound ==
    \A w \in Worker : worker[w].pc # "idle" => worker[w].job \in DOMAIN outbox

(* The inductive invariant of any deployment. *)
CatalogInv ==
    /\ TypeOK /\ IsFiniteSet(receipts)
    /\ PatchSound /\ RowsOrdered /\ JobsSound /\ WorkersSound

-----------------------------------------------------------------------------
(* Rows. *)

(* A variant is a record of its fields. *)
LEMMA VariantFields ==
    ASSUME NEW v \in Variant
    PROVE  /\ v = [text |-> v.text, data_revision |-> v.data_revision,
                   search_revision |-> v.search_revision,
                   index_revision |-> v.index_revision, tombstoned |-> v.tombstoned]
           /\ v.text \in Nat /\ v.data_revision \in Nat /\ v.search_revision \in Nat
           /\ v.index_revision \in Nat /\ v.tombstoned \in BOOLEAN
BY DEF Variant

(* Four fields rewritten. *)
Rewritten(v, t, d, s, h) ==
    [v EXCEPT !.text = t, !.data_revision = d, !.search_revision = s,
              !.tombstoned = h]

(* The record that results. *)
LEMMA VariantRewritten ==
    ASSUME NEW v \in Variant, NEW t \in Nat, NEW d \in Nat, NEW s \in Nat,
           NEW h \in BOOLEAN, NEW u,
           u = Rewritten(v, t, d, s, h)
    PROVE  /\ u \in Variant /\ u.text = t /\ u.data_revision = d
           /\ u.search_revision = s /\ u.tombstoned = h
           /\ u.index_revision = v.index_revision
<1>1. PICK a : a = [v EXCEPT !.text = t]
  OBVIOUS
<1>2. PICK b : b = [a EXCEPT !.data_revision = d]
  OBVIOUS
<1>3. PICK c : c = [b EXCEPT !.search_revision = s]
  OBVIOUS
<1>4. u = [c EXCEPT !.tombstoned = h]
  BY <1>1, <1>2, <1>3 DEF Rewritten
<1>5. a = [text |-> t, data_revision |-> v.data_revision,
           search_revision |-> v.search_revision,
           index_revision |-> v.index_revision, tombstoned |-> v.tombstoned]
  BY <1>1, VariantFields
<1>6. b = [text |-> t, data_revision |-> d, search_revision |-> v.search_revision,
           index_revision |-> v.index_revision, tombstoned |-> v.tombstoned]
  BY <1>2, <1>5
<1>7. c = [text |-> t, data_revision |-> d, search_revision |-> s,
           index_revision |-> v.index_revision, tombstoned |-> v.tombstoned]
  BY <1>3, <1>6
<1>8. u = [text |-> t, data_revision |-> d, search_revision |-> s,
           index_revision |-> v.index_revision, tombstoned |-> h]
  BY <1>4, <1>7
<1>9. v.index_revision \in Nat
  BY VariantFields
<1>10. QED
  BY <1>8, <1>9 DEF Variant

(* The index_revision rewritten. *)
LEMMA IndexRewritten ==
    ASSUME NEW v \in Variant, NEW x \in Nat, NEW u,
           u = [v EXCEPT !.index_revision = x]
    PROVE  u \in Variant /\ SameBut(u, v) /\ u.index_revision = x
<1>1. u = [text |-> v.text, data_revision |-> v.data_revision,
           search_revision |-> v.search_revision,
           index_revision |-> x, tombstoned |-> v.tombstoned]
  BY VariantFields
<1>2. QED
  BY <1>1, VariantFields DEF Variant, SameBut

(* What a PATCH writes into the row of an item. *)
LEMMA PatchedRowIs ==
    ASSUME CatalogInv, patch.pc = "merging", NEW i \in Item
    PROVE  LET u == PatchedRow(i)
               v == variant[i]
           IN  /\ u \in Variant
               /\ u.text = IF patch.body.text THEN v.text + 1 ELSE v.text
               /\ u.data_revision = v.data_revision + 1
               /\ u.search_revision = Merged(i).search_revision
               /\ u.tombstoned = Merged(i).tombstoned
               /\ u.index_revision = v.index_revision
               /\ u.search_revision = IF SearchableChanged(i)
                                      THEN v.data_revision + 1
                                      ELSE v.search_revision
               /\ u.tombstoned = IF patch.body.available = "unsaid"
                                 THEN v.tombstoned
                                 ELSE patch.body.available = "no"
<1>1. /\ patch.read[i] \in Variant /\ variant[i] \in Variant
      /\ SameBut(patch.read[i], variant[i]) /\ patch.body \in PatchBody
  BY DEF CatalogInv, TypeOK, PatchSound, NoPatch
<1>2. PICK r : r = patch.read[i]
  OBVIOUS
<1>3. PICK v : v = variant[i]
  OBVIOUS
<1>4. PICK t : t = IF patch.body.text THEN v.text + 1 ELSE v.text
  OBVIOUS
<1>5. PICK s : s = IF SearchableChanged(i)
                   THEN v.data_revision + 1 ELSE v.search_revision
  OBVIOUS
<1>6. PICK h : h = IF patch.body.available = "unsaid"
                   THEN v.tombstoned ELSE patch.body.available = "no"
  OBVIOUS
<1>7. PICK d : d = v.data_revision + 1
  OBVIOUS
<1>8. t \in Nat /\ s \in Nat /\ d \in Nat
  BY <1>1, <1>3, <1>4, <1>5, <1>7, VariantFields
<1>9. h \in BOOLEAN
  BY <1>1, <1>3, <1>6, VariantFields
<1>10. Merged(i) = Rewritten(r, t, d, s, h)
  BY <1>1, <1>2, <1>3, <1>4, <1>5, <1>6, <1>7 DEF Merged, SameBut, Rewritten
<1>11. PICK m : m = Merged(i)
  OBVIOUS
<1>12. /\ m \in Variant /\ m.text = t /\ m.data_revision = d
       /\ m.search_revision = s /\ m.tombstoned = h
  <2>1. r \in Variant
    BY <1>1, <1>2
  <2>2. m = Rewritten(r, t, d, s, h)
    BY <1>10, <1>11
  <2>3. QED
    BY <2>1, <2>2, <1>8, <1>9, VariantRewritten
<1>13. PICK u : u = PatchedRow(i)
  OBVIOUS
<1>14. u = [m EXCEPT !.index_revision = v.index_revision]
  BY <1>3, <1>11, <1>13 DEF PatchedRow
<1>15. v.index_revision \in Nat
  BY <1>1, <1>3, VariantFields
<1>16. u \in Variant /\ SameBut(u, m) /\ u.index_revision = v.index_revision
  BY <1>12, <1>14, <1>15, IndexRewritten
<1>17. QED
  BY <1>3, <1>4, <1>5, <1>6, <1>7, <1>11, <1>12, <1>13, <1>16 DEF SameBut

-----------------------------------------------------------------------------
(* Jobs. *)

(* The job in row n gets status st. *)
Settles(n, st) ==
    /\ outbox' \in Seq(Job) /\ DOMAIN outbox' = DOMAIN outbox
    /\ \A m \in DOMAIN outbox \ {n} : outbox'[m] = outbox[m]
    /\ outbox'[n].item = outbox[n].item
    /\ outbox'[n].operation = outbox[n].operation
    /\ outbox'[n].search_revision = outbox[n].search_revision
    /\ outbox'[n].status = st

(* A job is a record of its fields. *)
LEMMA JobFields ==
    ASSUME NEW j \in Job
    PROVE  /\ j = [item |-> j.item, search_revision |-> j.search_revision,
                   operation |-> j.operation, status |-> j.status,
                   attempts |-> j.attempts, delayed |-> j.delayed,
                   created_at |-> j.created_at]
           /\ j.item \in Item /\ j.search_revision \in Nat
           /\ j.operation \in {"upsert", "delete"} /\ j.attempts \in Nat
           /\ j.status \in {"pending", "done", "dead_letter"}
           /\ j.delayed \in BOOLEAN /\ j.created_at \in Nat
BY DEF Job

(* Status, attempts and delay rewritten. *)
JobWith(j, st, a, d) ==
    [item |-> j.item, search_revision |-> j.search_revision,
     operation |-> j.operation, status |-> st, attempts |-> a,
     delayed |-> d, created_at |-> j.created_at]

(* It is a job for the same revision. *)
LEMMA JobRewritten ==
    ASSUME NEW j \in Job, NEW st \in {"pending", "done", "dead_letter"},
           NEW a \in Nat, NEW d \in BOOLEAN, NEW y, y = JobWith(j, st, a, d)
    PROVE  /\ y \in Job /\ y.item = j.item /\ y.operation = j.operation
           /\ y.search_revision = j.search_revision /\ y.status = st
BY JobFields DEF Job, JobWith

(* One field at a time. *)
LEMMA JobSteps ==
    ASSUME NEW j \in Job, NEW st, NEW a, NEW d, NEW x
    PROVE  /\ j = JobWith(j, j.status, j.attempts, j.delayed)
           /\ x = [JobWith(j, j.status, j.attempts, j.delayed) EXCEPT !.status = st]
                => x = JobWith(j, st, j.attempts, j.delayed)
           /\ x = [JobWith(j, st, j.attempts, j.delayed) EXCEPT !.attempts = a]
                => x = JobWith(j, st, a, j.delayed)
           /\ x = [JobWith(j, st, a, j.delayed) EXCEPT !.delayed = d]
                => x = JobWith(j, st, a, d)
BY JobFields DEF JobWith

(* One row of a sequence of jobs rewritten. *)
LEMMA RowRewritten ==
    ASSUME outbox \in Seq(Job), NEW n \in DOMAIN outbox, NEW y \in Job,
           y.item = outbox[n].item, y.operation = outbox[n].operation,
           y.search_revision = outbox[n].search_revision,
           outbox' = [outbox EXCEPT ![n] = y]
    PROVE  Settles(n, y.status)
BY DEF Settles

(* A job is counted as failed. *)
LEMMA FailureSettles ==
    ASSUME CatalogInv, NEW n \in DOMAIN outbox, NEW a \in Nat, NEW d \in BOOLEAN,
           NEW st \in {"pending", "done", "dead_letter"},
           outbox' = [outbox EXCEPT ![n].status = st, ![n].attempts = a,
                                    ![n].delayed = d]
    PROVE  Settles(n, st)
<1>1. PICK j : j = outbox[n]
  OBVIOUS
<1>2. j \in Job /\ outbox \in Seq(Job)
  BY <1>1 DEF CatalogInv, TypeOK
<1>3. PICK k : k = JobWith(j, j.status, j.attempts, j.delayed)
  OBVIOUS
<1>4. PICK x : x = [k EXCEPT !.status = st]
  OBVIOUS
<1>5. PICK z : z = [x EXCEPT !.attempts = a]
  OBVIOUS
<1>6. PICK y : y = [z EXCEPT !.delayed = d]
  OBVIOUS
<1>7. j = k
  BY <1>2, <1>3, JobSteps
<1>8. x = JobWith(j, st, j.attempts, j.delayed)
  BY <1>2, <1>3, <1>4, JobSteps
<1>9. z = JobWith(j, st, a, j.delayed)
  BY <1>2, <1>5, <1>8, JobSteps
<1>10. y = JobWith(j, st, a, d)
  BY <1>2, <1>6, <1>9, JobSteps
<1>11. /\ y \in Job /\ y.item = j.item /\ y.operation = j.operation
       /\ y.search_revision = j.search_revision /\ y.status = st
  BY <1>2, <1>10, JobRewritten
<1>12. outbox' = [outbox EXCEPT ![n] = y]
  BY <1>1, <1>2, <1>4, <1>5, <1>6, <1>7
<1>13. QED
  BY <1>1, <1>2, <1>11, <1>12, RowRewritten

(* A job is done. *)
LEMMA DoneSettles ==
    ASSUME CatalogInv, NEW n \in DOMAIN outbox,
           outbox' = [outbox EXCEPT ![n].status = "done", ![n].delayed = FALSE]
    PROVE  Settles(n, "done")
<1>1. PICK j : j = outbox[n]
  OBVIOUS
<1>2. j \in Job /\ outbox \in Seq(Job)
  BY <1>1 DEF CatalogInv, TypeOK
<1>3. PICK st \in {"pending", "done", "dead_letter"}, d \in BOOLEAN :
         st = "done" /\ d = FALSE
  OBVIOUS
<1>4. PICK k : k = JobWith(j, j.status, j.attempts, j.delayed)
  OBVIOUS
<1>5. PICK x : x = [k EXCEPT !.status = st]
  OBVIOUS
<1>6. PICK y : y = [x EXCEPT !.delayed = d]
  OBVIOUS
<1>7. j = k
  BY <1>2, <1>4, JobSteps
<1>8. x = JobWith(j, st, j.attempts, j.delayed)
  BY <1>2, <1>4, <1>5, JobSteps
<1>9. y = JobWith(j, st, j.attempts, d)
  BY <1>2, <1>6, <1>8, JobSteps
<1>10. j.attempts \in Nat
  BY <1>2, JobFields
<1>11. /\ y \in Job /\ y.item = j.item /\ y.operation = j.operation
       /\ y.search_revision = j.search_revision /\ y.status = st
  BY <1>2, <1>3, <1>9, <1>10, JobRewritten
<1>12. outbox' = [outbox EXCEPT ![n] = y]
  BY <1>1, <1>2, <1>3, <1>5, <1>6, <1>7
<1>13. Settles(n, st)
  BY <1>1, <1>2, <1>11, <1>12, RowRewritten
<1>14. QED
  BY <1>3, <1>13

(* A job may be tried again. *)
LEMMA BackoffSettles ==
    ASSUME CatalogInv, NEW n \in DOMAIN outbox,
           outbox' = [outbox EXCEPT ![n].delayed = FALSE]
    PROVE  Settles(n, outbox[n].status)
<1>1. PICK j : j = outbox[n]
  OBVIOUS
<1>2. j \in Job /\ outbox \in Seq(Job)
  BY <1>1 DEF CatalogInv, TypeOK
<1>3. PICK d \in BOOLEAN : d = FALSE
  OBVIOUS
<1>4. PICK k : k = JobWith(j, j.status, j.attempts, j.delayed)
  OBVIOUS
<1>5. PICK y : y = [k EXCEPT !.delayed = d]
  OBVIOUS
<1>6. j = k
  BY <1>2, <1>4, JobSteps
<1>7. y = JobWith(j, j.status, j.attempts, d)
  BY <1>2, <1>4, <1>5, JobSteps
<1>8. j.attempts \in Nat /\ j.status \in {"pending", "done", "dead_letter"}
  BY <1>2, JobFields
<1>9. /\ y \in Job /\ y.item = j.item /\ y.operation = j.operation
      /\ y.search_revision = j.search_revision /\ y.status = j.status
  BY <1>2, <1>3, <1>7, <1>8, JobRewritten
<1>10. outbox' = [outbox EXCEPT ![n] = y]
  BY <1>1, <1>2, <1>3, <1>5, <1>6
<1>11. QED
  BY <1>1, <1>2, <1>9, <1>10, RowRewritten

(* The jobs of a PATCH come after those that are there. *)
LEMMA JobsAppended ==
    ASSUME CatalogInv, PatchCommit
    PROVE  /\ outbox' \in Seq(Job) /\ DOMAIN outbox \subseteq DOMAIN outbox'
           /\ \A n \in DOMAIN outbox : outbox'[n] = outbox[n]
           /\ \A n \in DOMAIN outbox' \ DOMAIN outbox : outbox'[n] \in Enqueued
           /\ \A j \in Enqueued : \E n \in DOMAIN outbox' : outbox'[n] = j
<1>1. PICK S : S = Enqueued
  OBVIOUS
<1>2. Touched \subseteq Item
  BY DEF Touched, CatalogInv, PatchSound, PatchBody, NoPatch, PatchCommit
<1>3. IsFiniteSet(S)
  <2>1. PICK T : T = {j \in Touched : SearchableChanged(j) \/ Merged(j).tombstoned}
    OBVIOUS
  <2>2. IsFiniteSet(T)
    BY <1>2, <2>1, CatalogAssumption, FS_Subset
  <2>3. PICK f : f = [i \in T |-> NewJob(i)]
    OBVIOUS
  <2>4. f \in Surjection(T, S)
    BY <1>1, <2>1, <2>3 DEF Surjection, Enqueued
  <2>5. QED
    BY <2>2, <2>4, FS_Surjection
<1>4. S \subseteq Job
  <2>1. Cardinality(receipts) \in Nat
    BY FS_CardinalityType DEF CatalogInv
  <2>2. ASSUME NEW i \in Item PROVE NewJob(i) \in Job
    <3>1. /\ Merged(i).search_revision \in Nat
      BY PatchedRowIs, VariantFields DEF PatchCommit
    <3>2. QED
      BY <2>1, <3>1 DEF NewJob, Job
  <2>3. QED
    BY <1>1, <1>2, <2>2 DEF Enqueued
<1>5. PICK q : q = SetToSeq(S)
  OBVIOUS
<1>6. PICK n \in Nat : n = Cardinality(S)
  BY <1>3, Listed
<1>7. q \in [1..n -> S] /\ \A x \in S : \E i \in 1..n : q[i] = x
  BY <1>3, <1>5, <1>6, Listed
<1>8. q \in Seq(Job) /\ Len(q) = n
  BY <1>4, <1>7
<1>9. PICK o, e : o = outbox /\ e = outbox'
  OBVIOUS
<1>10. o \in Seq(Job) /\ e = o \o q
  BY <1>1, <1>5, <1>9 DEF CatalogInv, TypeOK, PatchCommit
<1>11. PICK k \in Nat : k = Len(o)
  BY <1>10
<1>12. /\ e \in Seq(Job) /\ DOMAIN o = 1..k /\ DOMAIN e = 1..(k + n)
       /\ \A i \in 1..k : e[i] = o[i]
       /\ \A i \in (k + 1)..(k + n) : e[i] = q[i - k]
  <2>1. PICK p : p = o \o q
    OBVIOUS
  <2>2. /\ p \in Seq(Job) /\ DOMAIN o = 1..k /\ DOMAIN p = 1..(k + n)
        /\ \A i \in 1..k : p[i] = o[i]
        /\ \A i \in (k + 1)..(k + n) : p[i] = q[i - k]
    <3>1. /\ o \in Seq(Job) /\ q \in Seq(Job) /\ k \in Nat /\ n \in Nat
          /\ k = Len(o) /\ n = Len(q)
      BY <1>8, <1>10, <1>11
    <3>2. QED
      BY <2>1, <3>1, Appended
  <2>3. QED
    BY <1>10, <2>1, <2>2
<1>13. ASSUME NEW i \in (k + 1)..(k + n) PROVE e[i] \in S
  <2>1. i - k \in 1..n
    OBVIOUS
  <2>2. QED
    BY <2>1, <1>7, <1>12
<1>14. ASSUME NEW x \in S PROVE \E i \in DOMAIN e : e[i] = x
  <2>1. PICK i \in 1..n : q[i] = x
    BY <1>7
  <2>2. i + k \in (k + 1)..(k + n) /\ (i + k) - k = i
    OBVIOUS
  <2>3. QED
    BY <2>1, <2>2, <1>12
<1>15. \A i \in DOMAIN e \ DOMAIN o : e[i] \in S
  BY <1>12, <1>13
<1>16. DOMAIN o \subseteq DOMAIN e
  BY <1>12
<1>17. QED
  BY <1>1, <1>9, <1>12, <1>14, <1>15, <1>16

-----------------------------------------------------------------------------
(* One worker, and merchants who edit texts and withdraw items. *)

(* What the worker has checked and read still holds, unless the item has    *)
(* another revision by now.                                                 *)
Reads(x) ==
    LET j == outbox[x.job]
    IN  /\ x.pc \in {"checked", "embedded", "confirmed"} =>
             variant[j.item].index_revision < j.search_revision
        /\ /\ x.pc \in {"embedded", "confirmed"}
           /\ variant[j.item].search_revision = j.search_revision
           => x.text = CurrentText(j.item)

WorkerReads == \A w \in Worker : Reads(worker[w])

(* A document is only removed of an item that is withdrawn. *)
Withdrawn ==
    \A n \in DOMAIN outbox :
        outbox[n].operation = "delete" => variant[outbox[n].item].tombstoned

(* The job of an item's last searchable change is still to be done. *)
LatestOutstanding(i) ==
    \E n \in DOMAIN outbox :
        /\ outbox[n].item = i /\ outbox[n].status \in {"pending", "dead_letter"}
        /\ outbox[n].search_revision = variant[i].search_revision

(* An item whose row says that it is indexed is; the others have a job.     *)
Caught(i) ==
    IF variant[i].index_revision = variant[i].search_revision
    THEN Current(i) ELSE LatestOutstanding(i)

AloneInv ==
    /\ Alone /\ WorkerReads /\ Withdrawn
    /\ \A i \in Item : Live(i) => Caught(i)

-----------------------------------------------------------------------------
(* The steps of a worker. *)

WorkerRec == [pc : {"idle", "claimed", "checked", "embedded", "confirmed", "failed"},
              job : Nat, attempts : Nat, text : Nat \X Nat]

SameJob(j, k) ==
    /\ j.item = k.item /\ j.operation = k.operation
    /\ j.search_revision = k.search_revision

(* What a worker may do to the rows: it keeps the jobs, and moves the index *)
(* of an item up to its search_revision at most.                            *)
ByWorker ==
    /\ UNCHANGED <<productText, receipts, patch>> /\ failures' \in Nat
    /\ document' \in [Item -> Document]
    /\ worker' \in [Worker -> WorkerRec]
    /\ \A w \in Worker : worker'[w].pc # "idle" => worker'[w].job \in DOMAIN outbox
    /\ outbox' \in Seq(Job) /\ DOMAIN outbox' = DOMAIN outbox
    /\ \A n \in DOMAIN outbox : SameJob(outbox'[n], outbox[n])
    /\ variant' \in [Item -> Variant]
    /\ \A i \in Item :
         /\ SameBut(variant'[i], variant[i])
         /\ variant[i].index_revision <= variant'[i].index_revision
         /\ variant'[i].index_revision <= variant[i].search_revision

(* Such a step keeps the invariant. *)
LEMMA ByWorkerKeeps ==
    ASSUME CatalogInv, ByWorker PROVE CatalogInv'
<1>1. \A i \in Item : Exists(i)' = Exists(i)
  BY DEF ByWorker, SameBut, Exists
<1>2. TypeOK' /\ IsFiniteSet(receipts')
  BY DEF CatalogInv, TypeOK, ByWorker, WorkerRec
<1>3. PatchSound'
  <2>1. CASE patch = NoPatch
    BY <2>1 DEF ByWorker, PatchSound
  <2>2. CASE patch # NoPatch
    BY <2>2 DEF CatalogInv, ByWorker, PatchSound, SameBut
  <2>3. QED
    BY <2>1, <2>2
<1>4. RowsOrdered'
  BY <1>1 DEF CatalogInv, RowsOrdered, ByWorker, SameBut
<1>5. JobsSound'
  <2>1. \A n \in DOMAIN outbox : outbox[n].item \in Item
    BY JobFields DEF CatalogInv, TypeOK
  <2>2. QED
    BY <1>1, <2>1 DEF CatalogInv, JobsSound, ByWorker, SameBut, SameJob
<1>6. WorkersSound'
  BY DEF WorkersSound, ByWorker
<1>7. QED
  BY <1>2, <1>3, <1>4, <1>5, <1>6 DEF CatalogInv

(* Worker w becomes x. *)
Becomes(w, x) ==
    /\ worker' \in [Worker -> WorkerRec] /\ worker'[w] = x
    /\ \A v \in Worker \ {w} : worker'[v] = worker[v]

(* A worker that is assigned. *)
LEMMA WorkerSet ==
    ASSUME CatalogInv, NEW w \in Worker, NEW x \in WorkerRec,
           worker' = [worker EXCEPT ![w] = x]
    PROVE  Becomes(w, x)
BY DEF CatalogInv, TypeOK, Becomes, WorkerRec

(* A worker is a record of its fields. *)
LEMMA WorkerFields ==
    ASSUME NEW x \in WorkerRec
    PROVE  /\ x = [pc |-> x.pc, job |-> x.job, attempts |-> x.attempts, text |-> x.text]
           /\ x.pc \in {"idle", "claimed", "checked", "embedded", "confirmed", "failed"}
           /\ x.job \in Nat /\ x.attempts \in Nat /\ x.text \in Nat \X Nat
BY DEF WorkerRec

(* One field of a worker's record at a time. *)
LEMMA WorkerSteps ==
    ASSUME NEW p, NEW j, NEW a, NEW t, NEW q, NEW k, NEW b, NEW u, NEW x
    PROVE  /\ x = [[pc |-> p, job |-> j, attempts |-> a, text |-> t] EXCEPT !.pc = q]
                => x = [pc |-> q, job |-> j, attempts |-> a, text |-> t]
           /\ x = [[pc |-> p, job |-> j, attempts |-> a, text |-> t] EXCEPT !.job = k]
                => x = [pc |-> p, job |-> k, attempts |-> a, text |-> t]
           /\ x = [[pc |-> p, job |-> j, attempts |-> a, text |-> t]
                     EXCEPT !.attempts = b]
                => x = [pc |-> p, job |-> j, attempts |-> b, text |-> t]
           /\ x = [[pc |-> p, job |-> j, attempts |-> a, text |-> t] EXCEPT !.text = u]
                => x = [pc |-> p, job |-> j, attempts |-> a, text |-> u]
OBVIOUS

(* The worker goes to stage q. *)
LEMMA StageSet ==
    ASSUME CatalogInv, NEW w \in Worker,
           NEW q \in {"idle", "claimed", "checked", "embedded", "confirmed", "failed"},
           worker' = [worker EXCEPT ![w].pc = q]
    PROVE  \E x \in WorkerRec :
              /\ Becomes(w, x) /\ x.pc = q
              /\ x.job = worker[w].job /\ x.text = worker[w].text
<1>1. PICK z : z = worker[w]
  OBVIOUS
<1>2. z \in WorkerRec
  BY <1>1 DEF CatalogInv, TypeOK, WorkerRec
<1>3. PICK x : x = [z EXCEPT !.pc = q]
  OBVIOUS
<1>4. x = [pc |-> q, job |-> z.job, attempts |-> z.attempts, text |-> z.text]
  BY <1>2, <1>3, WorkerFields, WorkerSteps
<1>5. x \in WorkerRec /\ x.pc = q /\ x.job = z.job /\ x.text = z.text
  BY <1>2, <1>4, WorkerFields DEF WorkerRec
<1>6. worker' = [worker EXCEPT ![w] = x]
  BY <1>1, <1>3
<1>7. QED
  BY <1>1, <1>5, <1>6, WorkerSet

(* The worker is idle again. *)
LEMMA IdleSet ==
    ASSUME CatalogInv, NEW w \in Worker, worker' = [worker EXCEPT ![w] = Idle]
    PROVE  \E x \in WorkerRec : Becomes(w, x) /\ x.pc = "idle"
<1>1. Idle \in WorkerRec /\ Idle.pc = "idle"
  BY DEF Idle, WorkerRec
<1>2. QED
  BY <1>1, WorkerSet

(* A step that leaves the rows alone: the worker goes on or gives up. *)
Proceeds(w) ==
    \/ \E n \in DOMAIN outbox : Claim(w, n)
    \/ Embed(w) \/ Fail(w) \/ Crash(w)
    \/ Check(w) /\ Goto(w, "checked")
       /\ ~Obsolete(JobOf(w)) /\ ~Indexed(JobOf(w))
    \/ Confirm(w) /\ Goto(w, "confirmed") /\ ~Obsolete(JobOf(w))

(* It keeps a job, and relies on what it has read. *)
LEMMA Proceeding ==
    ASSUME CatalogInv, NEW w \in Worker, Proceeds(w)
    PROVE  /\ UNCHANGED <<rows, patch>> /\ failures' \in Nat
           /\ \E x \in WorkerRec :
                /\ Becomes(w, x)
                /\ x.pc # "idle" => x.job \in DOMAIN outbox
                /\ x.pc # "idle" /\ (worker[w].pc # "idle" => Reads(worker[w]))
                     => Reads(x)
<1>1. UNCHANGED <<rows, patch>> /\ failures' \in Nat
  <2>1. failures \in Nat
    BY DEF CatalogInv, TypeOK
  <2>2. CASE \E n \in DOMAIN outbox : Claim(w, n)
    BY <2>1, <2>2 DEF Claim, rows
  <2>3. CASE Embed(w) \/ Fail(w) \/ Crash(w)
    BY <2>1, <2>3 DEF Embed, Fail, Crash, rows
  <2>4. CASE (Check(w) /\ Goto(w, "checked")) \/ (Confirm(w) /\ Goto(w, "confirmed"))
    BY <2>1, <2>4 DEF Check, Confirm, Goto, rows
  <2>5. QED
    BY <2>2, <2>3, <2>4 DEF Proceeds
<1>2. CASE \E n \in DOMAIN outbox : Claim(w, n)
  <2>1. PICK n \in DOMAIN outbox : Claim(w, n)
    BY <1>2
  <2>2. n \in Nat /\ outbox[n].attempts \in Nat
    BY JobFields DEF CatalogInv, TypeOK
  <2>3. PICK a, t, p : a = Idle /\ t = Idle.text /\ p = "claimed"
    OBVIOUS
  <2>4. PICK b : b = [a EXCEPT !.pc = p]
    OBVIOUS
  <2>5. PICK c : c = [b EXCEPT !.job = n]
    OBVIOUS
  <2>6. PICK x : x = [c EXCEPT !.attempts = outbox[n].attempts]
    OBVIOUS
  <2>7. a = [pc |-> "idle", job |-> 0, attempts |-> 0, text |-> t]
    BY <2>3 DEF Idle
  <2>8. b = [pc |-> p, job |-> 0, attempts |-> 0, text |-> t]
    BY <2>4, <2>7, WorkerSteps
  <2>9. c = [pc |-> p, job |-> n, attempts |-> 0, text |-> t]
    BY <2>5, <2>8, WorkerSteps
  <2>10. x = [pc |-> p, job |-> n, attempts |-> outbox[n].attempts, text |-> t]
    BY <2>6, <2>9, WorkerSteps
  <2>11. t \in Nat \X Nat
    BY <2>3 DEF Idle
  <2>12. x \in WorkerRec /\ x.pc = "claimed" /\ x.job = n
    BY <2>2, <2>3, <2>10, <2>11 DEF WorkerRec
  <2>13. worker' = [worker EXCEPT ![w] = x]
    BY <2>1, <2>3, <2>4, <2>5, <2>6 DEF Claim
  <2>14. Becomes(w, x)
    BY <2>12, <2>13, WorkerSet
  <2>15. Reads(x)
    BY <2>12 DEF Reads
  <2>16. QED
    BY <1>1, <2>12, <2>14, <2>15
<1>3. CASE Embed(w)
  <2>1. PICK i, n : n = worker[w].job /\ i = JobOf(w).item
    OBVIOUS
  <2>2. worker[w].pc = "checked" /\ n \in DOMAIN outbox /\ i \in Item
    BY <1>3, <2>1, JobFields DEF Embed, CatalogInv, TypeOK, WorkersSound, JobOf
  <2>3. PICK u, q : u = CurrentText(i) /\ q = "embedded"
    OBVIOUS
  <2>4. variant[i].text \in Nat /\ productText \in Nat
    BY <2>2, VariantFields DEF CatalogInv, TypeOK
  <2>5. u \in Nat \X Nat
    BY <2>3, <2>4 DEF CurrentText
  <2>6. PICK z : z = worker[w]
    OBVIOUS
  <2>7. z \in WorkerRec
    BY <2>6 DEF CatalogInv, TypeOK, WorkerRec
  <2>8. PICK y : y = [z EXCEPT !.pc = q]
    OBVIOUS
  <2>9. PICK x : x = [y EXCEPT !.text = u]
    OBVIOUS
  <2>10. y = [pc |-> q, job |-> z.job, attempts |-> z.attempts, text |-> z.text]
    BY <2>7, <2>8, WorkerFields, WorkerSteps
  <2>11. x = [pc |-> q, job |-> z.job, attempts |-> z.attempts, text |-> u]
    BY <2>9, <2>10, WorkerSteps
  <2>12. x \in WorkerRec /\ x.pc = "embedded" /\ x.job = n /\ x.text = u
    BY <2>1, <2>3, <2>5, <2>6, <2>7, <2>11, WorkerFields DEF WorkerRec
  <2>13. worker' = [worker EXCEPT ![w] = x]
    BY <1>3, <2>1, <2>3, <2>6, <2>8, <2>9 DEF Embed, CatalogInv, TypeOK
  <2>14. Becomes(w, x)
    BY <2>12, <2>13, WorkerSet
  <2>15. Reads(worker[w]) => Reads(x)
    BY <2>1, <2>2, <2>3, <2>12 DEF Reads, JobOf
  <2>16. QED
    BY <1>1, <2>2, <2>12, <2>14, <2>15
<1>4. CASE Crash(w)
  <2>1. PICK x \in WorkerRec : Becomes(w, x) /\ x.pc = "idle"
    BY <1>4, IdleSet DEF Crash
  <2>2. QED
    BY <1>1, <2>1
<1>5. CASE Fail(w)
  <2>1. PICK x \in WorkerRec : /\ Becomes(w, x) /\ x.pc = "failed"
                               /\ x.job = worker[w].job
    BY <1>5, StageSet DEF Fail
  <2>2. x.job \in DOMAIN outbox
    BY <1>5, <2>1 DEF Fail, InTransaction, CatalogInv, WorkersSound
  <2>3. Reads(x)
    BY <2>1 DEF Reads
  <2>4. QED
    BY <1>1, <2>1, <2>2, <2>3
<1>6. CASE /\ Check(w) /\ Goto(w, "checked")
           /\ ~Obsolete(JobOf(w)) /\ ~Indexed(JobOf(w))
  <2>1. PICK x \in WorkerRec : /\ Becomes(w, x) /\ x.pc = "checked"
                               /\ x.job = worker[w].job
    BY <1>6, StageSet DEF Goto
  <2>2. x.job \in DOMAIN outbox
    BY <1>6, <2>1 DEF Check, CatalogInv, WorkersSound
  <2>3. PICK j : j = outbox[x.job]
    OBVIOUS
  <2>4. j.item \in Item /\ j.search_revision \in Nat
    BY <2>2, <2>3, JobFields DEF CatalogInv, TypeOK
  <2>5. variant[j.item].index_revision \in Nat
    BY <2>4, VariantFields DEF CatalogInv, TypeOK
  <2>6. variant[j.item].index_revision < j.search_revision
    BY <1>6, <2>1, <2>3, <2>4, <2>5 DEF Indexed, JobOf
  <2>7. Reads(x)
    BY <2>1, <2>3, <2>6 DEF Reads
  <2>8. QED
    BY <1>1, <2>1, <2>2, <2>7
<1>7. CASE Confirm(w) /\ Goto(w, "confirmed") /\ ~Obsolete(JobOf(w))
  <2>1. PICK x \in WorkerRec : /\ Becomes(w, x) /\ x.pc = "confirmed"
                               /\ x.job = worker[w].job /\ x.text = worker[w].text
    BY <1>7, StageSet DEF Goto
  <2>2. x.job \in DOMAIN outbox /\ worker[w].pc = "embedded"
    BY <1>7, <2>1 DEF Confirm, CatalogInv, WorkersSound
  <2>3. Reads(worker[w]) => Reads(x)
    BY <2>1, <2>2 DEF Reads
  <2>4. QED
    BY <1>1, <2>1, <2>2, <2>3
<1>8. QED
  BY <1>2, <1>3, <1>4, <1>5, <1>6, <1>7 DEF Proceeds

(* The step ends the attempt at job n, or only its delay. *)
Settling(n, st) ==
    /\ n \in DOMAIN outbox /\ Settles(n, st)
    /\ UNCHANGED <<productText, receipts, patch, failures>>
    /\ document' \in [Item -> Document]
    /\ worker' \in [Worker -> WorkerRec]
    /\ \A w \in Worker : worker'[w].pc = "idle" \/ worker'[w] = worker[w]

(* The worker skips an upsert that is obsolete or done. *)
Skips(w) ==
    /\ Finish(w) /\ worker[w].pc # "idle"
    /\ Obsolete(JobOf(w)) \/ Indexed(JobOf(w))
    /\ UNCHANGED <<productText, variant, document, receipts, patch, failures>>

(* A worker that finishes is done with its job. *)
LEMMA FinishSettles ==
    ASSUME CatalogInv, NEW w \in Worker, worker[w].pc # "idle", Finish(w),
           UNCHANGED <<productText, receipts, patch, failures>>,
           document' \in [Item -> Document]
    PROVE  Settling(worker[w].job, "done") /\ worker'[w].pc = "idle"
<1>1. worker[w].job \in DOMAIN outbox
  BY DEF CatalogInv, WorkersSound
<1>2. PICK n : n = worker[w].job
  OBVIOUS
<1>3. Settles(n, "done")
  BY <1>1, <1>2, DoneSettles DEF Finish
<1>4. PICK x \in WorkerRec : Becomes(w, x) /\ x.pc = "idle"
  BY IdleSet DEF Finish
<1>5. QED
  BY <1>1, <1>2, <1>3, <1>4 DEF Settling, Becomes

(* A document that is removed settles its job. *)
LEMMA DeleteSettles ==
    ASSUME CatalogInv, NEW w \in Worker, Delete(w)
    PROVE  Settling(worker[w].job, "done") /\ worker'[w].pc = "idle"
<1>1. NoDocument \in Document
  BY DEF NoDocument, Document
<1>2. document' \in [Item -> Document]
  BY <1>1 DEF Delete, CatalogInv, TypeOK
<1>3. QED
  BY <1>2, FinishSettles DEF Delete

(* A document that is written settles its job. *)
LEMMA PublishSettles ==
    ASSUME CatalogInv, NEW w \in Worker, Publish(w)
    PROVE  /\ Settling(worker[w].job, "done") /\ worker'[w].pc = "idle"
           /\ JobOf(w) \in Job
           /\ document'[JobOf(w).item].index_revision = JobOf(w).search_revision
           /\ document'[JobOf(w).item].text = worker[w].text
           /\ \A i \in Item \ {JobOf(w).item} : document'[i] = document[i]
<1>1. PICK j, t : j = JobOf(w) /\ t = worker[w].text
  OBVIOUS
<1>2. j \in Job /\ t \in Nat \X Nat /\ worker[w].pc # "idle"
  BY <1>1 DEF Publish, CatalogInv, WorkersSound, TypeOK, JobOf
<1>3. j.item \in Item /\ j.search_revision \in Nat
  BY <1>2, JobFields
<1>4. PICK d : d = [index_revision |-> j.search_revision, text |-> t]
  OBVIOUS
<1>5. d \in Document /\ d.index_revision = j.search_revision /\ d.text = t
  BY <1>2, <1>3, <1>4 DEF Document
<1>6. document' = [document EXCEPT ![j.item] = d]
  BY <1>1, <1>4 DEF Publish
<1>7. /\ document' \in [Item -> Document] /\ document'[j.item] = d
      /\ \A i \in Item \ {j.item} : document'[i] = document[i]
  BY <1>3, <1>5, <1>6 DEF CatalogInv, TypeOK
<1>8. Settling(worker[w].job, "done") /\ worker'[w].pc = "idle"
  BY <1>2, <1>7, FinishSettles DEF Publish
<1>9. QED
  BY <1>1, <1>2, <1>5, <1>7, <1>8

(* A failed attempt leaves the job to be done, by hand in the end. *)
LEMMA FailureRecorded ==
    ASSUME CatalogInv, NEW w \in Worker, RecordFailure(w)
    PROVE  /\ worker'[w].pc = "idle" /\ UNCHANGED <<variant, document>>
           /\ \E st \in {"pending", "dead_letter"} : Settling(worker[w].job, st)
<1>1. PICK n, a : n = worker[w].job /\ a = worker[w].attempts + 1
  OBVIOUS
<1>2. n \in DOMAIN outbox /\ a \in Nat
  BY <1>1 DEF RecordFailure, CatalogInv, WorkersSound, TypeOK
<1>3. PICK st : st = IF a >= maxAttempts THEN "dead_letter" ELSE "pending"
  OBVIOUS
<1>4. PICK d : d = (a < maxAttempts) /\ d \in BOOLEAN
  <2>1. (a < maxAttempts) \in BOOLEAN
    OBVIOUS
  <2>2. QED
    BY <2>1, Zenon
<1>5. outbox' = [outbox EXCEPT ![n].status = st, ![n].attempts = a, ![n].delayed = d]
  BY <1>1, <1>3, <1>4 DEF RecordFailure
<1>6. st \in {"pending", "dead_letter"} /\ st \in {"pending", "done", "dead_letter"}
  BY <1>3
<1>7. Settles(n, st)
  <2>1. d \in BOOLEAN
    BY <1>4
  <2>2. QED
    BY <2>1, <1>2, <1>5, <1>6, FailureSettles
<1>8. PICK x \in WorkerRec : Becomes(w, x) /\ x.pc = "idle"
  BY IdleSet DEF RecordFailure
<1>9. Settling(n, st) /\ worker'[w].pc = "idle" /\ UNCHANGED <<variant, document>>
  BY <1>2, <1>7, <1>8 DEF Settling, Becomes, RecordFailure, CatalogInv, TypeOK
<1>10. QED
  BY <1>1, <1>6, <1>9

(* A delay that ends leaves the job as it is. *)
LEMMA BackoffEnded ==
    ASSUME CatalogInv, NEW n \in DOMAIN outbox, BackoffEnds(n)
    PROVE  Settling(n, outbox[n].status) /\ UNCHANGED <<variant, document, worker>>
<1>1. Settles(n, outbox[n].status)
  BY BackoffSettles DEF BackoffEnds
<1>2. QED
  BY <1>1 DEF Settling, BackoffEnds, CatalogInv, TypeOK, WorkerRec

(* Every job keeps what it is for. *)
LEMMA SettlesJobs ==
    ASSUME NEW n, NEW st, Settles(n, st)
    PROVE  \A m \in DOMAIN outbox : SameJob(outbox'[m], outbox[m])
BY DEF Settles, SameJob

(* The steps above are steps by a worker. *)
LEMMA ProceedByWorker ==
    ASSUME CatalogInv, NEW w \in Worker, Proceeds(w) PROVE ByWorker
<1>1. PICK x \in WorkerRec : Becomes(w, x) /\ (x.pc # "idle" => x.job \in DOMAIN outbox)
  BY Proceeding
<1>2. UNCHANGED <<rows, patch>> /\ failures' \in Nat
  BY Proceeding
<1>3. \A v \in Worker : worker'[v].pc # "idle" => worker'[v].job \in DOMAIN outbox
  BY <1>1 DEF Becomes, CatalogInv, WorkersSound
<1>4. \A i \in Item : variant[i].index_revision \in Nat
  BY VariantFields DEF CatalogInv, TypeOK
<1>5. QED
  BY <1>1, <1>2, <1>3, <1>4 DEF ByWorker, Becomes, rows, CatalogInv, TypeOK,
     RowsOrdered, SameBut, SameJob

(* So are those that end an attempt, when rows change as a worker may. *)
LEMMA SettlingByWorker ==
    ASSUME CatalogInv, NEW n, NEW st, Settling(n, st),
           variant' \in [Item -> Variant],
           \A i \in Item :
              /\ SameBut(variant'[i], variant[i])
              /\ variant[i].index_revision <= variant'[i].index_revision
              /\ variant'[i].index_revision <= variant[i].search_revision
    PROVE  ByWorker
<1>1. \A m \in DOMAIN outbox : SameJob(outbox'[m], outbox[m])
  BY SettlesJobs DEF Settling
<1>2. \A v \in Worker : worker'[v].pc # "idle" => worker'[v].job \in DOMAIN outbox
  BY DEF Settling, CatalogInv, WorkersSound
<1>3. failures' \in Nat
  BY DEF Settling, CatalogInv, TypeOK
<1>4. QED
  BY <1>1, <1>2, <1>3 DEF ByWorker, Settling, Settles

(* In particular when the rows do not change. *)
LEMMA SettlingRowsKept ==
    ASSUME CatalogInv, NEW n, NEW st, Settling(n, st), UNCHANGED variant
    PROVE  ByWorker
<1>1. \A i \in Item : variant[i].index_revision \in Nat
  BY VariantFields DEF CatalogInv, TypeOK
<1>2. QED
  BY <1>1, SettlingByWorker DEF CatalogInv, TypeOK, RowsOrdered, SameBut

(* A document that is written moves the index of its item, if anything. *)
LEMMA PublishRows ==
    ASSUME CatalogInv, NEW w \in Worker, Publish(w)
    PROVE  /\ ByWorker
           /\ \A i \in Item \ {JobOf(w).item} : variant'[i] = variant[i]
           /\ LET j == JobOf(w)
              IN  IF variant[j.item].search_revision = j.search_revision
                  THEN variant'[j.item].index_revision = j.search_revision
                  ELSE variant' = variant
<1>1. PICK j, i : j = JobOf(w) /\ i = j.item
  OBVIOUS
<1>2. j \in Job
  BY <1>1, PublishSettles
<1>3. i \in Item /\ j.search_revision \in Nat
  BY <1>1, <1>2, JobFields
<1>4. variant \in [Item -> Variant]
  BY DEF CatalogInv, TypeOK
<1>5. \A k \in Item : variant[k].index_revision \in Nat
  BY <1>4, VariantFields
<1>6. Settling(worker[w].job, "done")
  BY PublishSettles
<1>7. CASE variant[i].search_revision = j.search_revision
  <2>1. PICK u : u = [variant[i] EXCEPT !.index_revision = j.search_revision]
    OBVIOUS
  <2>2. u \in Variant /\ SameBut(u, variant[i]) /\ u.index_revision = j.search_revision
    BY <1>3, <1>4, <2>1, IndexRewritten
  <2>3. variant' = [variant EXCEPT ![i] = u]
    BY <1>1, <1>7, <2>1 DEF Publish
  <2>4. /\ variant' \in [Item -> Variant] /\ variant'[i] = u
        /\ \A k \in Item \ {i} : variant'[k] = variant[k]
    BY <1>3, <1>4, <2>2, <2>3
  <2>5. variant[i].index_revision <= j.search_revision
    BY <1>3, <1>7 DEF CatalogInv, RowsOrdered
  <2>6. \A k \in Item : /\ SameBut(variant'[k], variant[k])
                        /\ variant[k].index_revision <= variant'[k].index_revision
                        /\ variant'[k].index_revision <= variant[k].search_revision
    BY <1>3, <1>5, <1>7, <2>2, <2>4, <2>5 DEF CatalogInv, RowsOrdered, SameBut
  <2>7. ByWorker
    BY <1>6, <2>4, <2>6, SettlingByWorker
  <2>8. QED
    BY <1>1, <1>7, <2>2, <2>4, <2>7
<1>8. CASE variant[i].search_revision # j.search_revision
  <2>1. variant' = variant
    BY <1>1, <1>8 DEF Publish
  <2>2. QED
    BY <1>1, <1>6, <1>8, <2>1, SettlingRowsKept
<1>9. QED
  BY <1>7, <1>8

(* What a worker does is one of these. *)
LEMMA WorkerCases ==
    ASSUME CatalogInv, NEW w \in Worker, WorkerStep(w) \/ Fail(w) \/ Crash(w)
    PROVE  \/ Proceeds(w) \/ Skips(w) \/ Delete(w) \/ Publish(w) \/ RecordFailure(w)
<1>1. CASE Check(w)
  BY <1>1 DEF Check, Proceeds, Skips
<1>2. CASE Confirm(w)
  BY <1>2 DEF Confirm, Proceeds, Skips
<1>3. QED
  BY <1>1, <1>2 DEF WorkerStep, Proceeds

(* A skipped upsert settles its job. *)
LEMMA SkipSettles ==
    ASSUME CatalogInv, NEW w \in Worker, Skips(w)
    PROVE  Settling(worker[w].job, "done") /\ worker'[w].pc = "idle"
<1>1. document' \in [Item -> Document]
  BY DEF Skips, CatalogInv, TypeOK
<1>2. QED
  BY <1>1, FinishSettles DEF Skips

(* Every step of the workers is such a step. *)
LEMMA WorkerByWorker ==
    ASSUME CatalogInv,
           \/ \E w \in Worker : WorkerStep(w) \/ Fail(w) \/ Crash(w)
           \/ \E n \in DOMAIN outbox : BackoffEnds(n)
    PROVE  ByWorker
<1>1. CASE \E n \in DOMAIN outbox : BackoffEnds(n)
  BY <1>1, BackoffEnded, SettlingRowsKept
<1>2. CASE \E w \in Worker : WorkerStep(w) \/ Fail(w) \/ Crash(w)
  <2>1. PICK w \in Worker : \/ Proceeds(w) \/ Skips(w) \/ Delete(w)
                            \/ Publish(w) \/ RecordFailure(w)
    BY <1>2, WorkerCases
  <2>2. CASE Skips(w) \/ Delete(w)
    <3>1. Settling(worker[w].job, "done") /\ UNCHANGED variant
      BY <2>2, SkipSettles, DeleteSettles DEF Skips, Delete
    <3>2. QED
      BY <3>1, SettlingRowsKept
  <2>3. CASE RecordFailure(w)
    BY <2>3, FailureRecorded, SettlingRowsKept
  <2>4. QED
    BY <2>1, <2>2, <2>3, ProceedByWorker, PublishRows
<1>3. QED
  BY <1>1, <1>2

-----------------------------------------------------------------------------
(* The steps of a PATCH. *)

(* The lock is taken and the rows are read. *)
LEMMA PatchBegins ==
    ASSUME CatalogInv, NEW k \in IdempotencyKey, NEW p \in PatchBody, PatchBegin(k, p)
    PROVE  CatalogInv'
<1>1. UNCHANGED <<rows, worker, failures>>
  BY DEF PatchBegin
<1>2. PatchSound' /\ patch'.pc = "merging"
  BY <1>1 DEF PatchBegin, PatchSound, SameBut, CatalogInv, TypeOK, rows
<1>3. QED
  BY <1>1, <1>2 DEF rows, CatalogInv, TypeOK, RowsOrdered, Exists, JobsSound, WorkersSound

(* It is rolled back. *)
LEMMA PatchGivenUp ==
    ASSUME CatalogInv, PatchFails PROVE CatalogInv'
<1>1. UNCHANGED <<rows, worker>> /\ failures' \in Nat /\ patch' = NoPatch
  BY DEF PatchFails, CatalogInv, TypeOK
<1>2. PatchSound' /\ patch'.pc = "idle"
  BY <1>1 DEF PatchSound, NoPatch
<1>3. QED
  BY <1>1, <1>2 DEF rows, CatalogInv, TypeOK, RowsOrdered, Exists, JobsSound, WorkersSound

(* The rows after a PATCH: those it touches have a later data_revision, and *)
(* a later search_revision where the text has changed.                      *)
LEMMA CommittedRows ==
    ASSUME CatalogInv, PatchCommit, NEW i \in Item
    PROVE  /\ variant'[i] \in Variant
           /\ i \notin Touched => variant'[i] = variant[i]
           /\ i \in Touched =>
                /\ variant'[i].text = IF patch.body.text THEN variant[i].text + 1
                                      ELSE variant[i].text
                /\ variant'[i].data_revision = variant[i].data_revision + 1
                /\ variant'[i].search_revision = Merged(i).search_revision
                /\ variant'[i].tombstoned = Merged(i).tombstoned
                /\ variant'[i].tombstoned =
                      IF patch.body.available = "unsaid" THEN variant[i].tombstoned
                      ELSE patch.body.available = "no"
                /\ variant'[i].search_revision =
                      IF SearchableChanged(i) THEN variant[i].data_revision + 1
                      ELSE variant[i].search_revision
           /\ variant'[i].index_revision = variant[i].index_revision
<1>1. variant'[i] = IF i \in Touched THEN PatchedRow(i) ELSE variant[i]
  BY DEF PatchCommit
<1>2. variant[i] \in Variant
  BY DEF CatalogInv, TypeOK
<1>3. patch.pc = "merging"
  BY DEF PatchCommit
<1>4. CASE i \in Touched
  BY <1>1, <1>3, <1>4, PatchedRowIs
<1>5. CASE i \notin Touched
  BY <1>1, <1>2, <1>5
<1>6. QED
  BY <1>4, <1>5

(* An item's revisions grow, and it begins with a text to be found by.      *)
LEMMA CommittedRevisions ==
    ASSUME CatalogInv, PatchCommit, NEW i \in Item
    PROVE  /\ variant[i].data_revision <= variant'[i].data_revision
           /\ variant[i].search_revision <= variant'[i].search_revision
           /\ variant[i].index_revision <= variant'[i].index_revision
           /\ variant'[i].index_revision <= variant'[i].search_revision
           /\ variant'[i].search_revision <= variant'[i].data_revision
           /\ Exists(i) => Exists(i)'
           /\ Exists(i)' => variant'[i].search_revision > 0
           /\ i \in Touched => Exists(i)'
           /\ ~Exists(i) /\ i \in Touched => SearchableChanged(i)
<1>1. PICK v, u : v = variant[i] /\ u = variant'[i]
  OBVIOUS
<1>2. v \in Variant /\ u \in Variant
  BY <1>1, CommittedRows DEF CatalogInv, TypeOK
<1>3. /\ v.data_revision \in Nat /\ v.search_revision \in Nat /\ v.index_revision \in Nat
      /\ u.data_revision \in Nat /\ u.search_revision \in Nat /\ u.index_revision \in Nat
  BY <1>2, VariantFields
<1>4. /\ v.index_revision <= v.search_revision /\ v.search_revision <= v.data_revision
      /\ v.data_revision > 0 => v.search_revision > 0
  BY <1>1 DEF CatalogInv, RowsOrdered, Exists
<1>5. u.index_revision = v.index_revision
  BY <1>1, CommittedRows
<1>6. (Exists(i) <=> v.data_revision > 0) /\ (Exists(i)' <=> u.data_revision > 0)
  BY <1>1 DEF Exists
<1>7. CASE i \in Touched
  <2>1. /\ u.data_revision = v.data_revision + 1
        /\ u.search_revision = IF SearchableChanged(i) THEN v.data_revision + 1
                               ELSE v.search_revision
    BY <1>1, <1>7, CommittedRows
  <2>2. v.data_revision = 0 => SearchableChanged(i)
    BY <1>1 DEF SearchableChanged, CatalogInv, PatchSound, SameBut, PatchCommit, NoPatch
  <2>3. QED
    BY <1>1, <1>3, <1>4, <1>5, <1>6, <2>1, <2>2
<1>8. CASE i \notin Touched
  <2>1. u = v
    BY <1>1, <1>8, CommittedRows
  <2>2. QED
    BY <1>1, <1>3, <1>4, <1>6, <1>8, <2>1
<1>9. QED
  BY <1>7, <1>8

(* A job of this PATCH is for the row as it writes it. *)
LEMMA CommittedJobs ==
    ASSUME CatalogInv, PatchCommit, NEW j \in Enqueued
    PROVE  /\ j.item \in Touched /\ j.item \in Item /\ j.status = "pending"
           /\ j.search_revision = variant'[j.item].search_revision
           /\ j.operation = "delete" => variant'[j.item].tombstoned
<1>1. PICK i \in Touched : j = NewJob(i)
  BY DEF Enqueued
<1>2. i \in Item
  BY DEF Touched, CatalogInv, PatchSound, PatchBody, NoPatch, PatchCommit
<1>3. /\ j.item = i /\ j.status = "pending"
      /\ j.search_revision = Merged(i).search_revision
      /\ j.operation = "delete" => Merged(i).tombstoned
  BY <1>1 DEF NewJob
<1>4. /\ variant'[i].search_revision = Merged(i).search_revision
      /\ variant'[i].tombstoned = Merged(i).tombstoned
  BY <1>2, CommittedRows
<1>5. QED
  BY <1>2, <1>3, <1>4

(* It is committed. *)
LEMMA PatchCommitted ==
    ASSUME CatalogInv, PatchCommit PROVE CatalogInv'
<1>1. TypeOK'
  <2>1. variant' \in [Item -> Variant]
    BY CommittedRows DEF PatchCommit
  <2>2. productText' \in Nat
    BY DEF PatchCommit, CatalogInv, TypeOK
  <2>3. receipts' \subseteq IdempotencyKey
    BY DEF PatchCommit, CatalogInv, TypeOK, PatchSound, NoPatch
  <2>4. outbox' \in Seq(Job)
    BY JobsAppended
  <2>5. QED
    BY <2>1, <2>2, <2>3, <2>4 DEF PatchCommit, NoPatch, CatalogInv, TypeOK
<1>2. IsFiniteSet(receipts')
  BY FS_AddElement DEF PatchCommit, CatalogInv
<1>3. PatchSound'
  BY DEF PatchCommit, PatchSound
<1>4. RowsOrdered'
  BY CommittedRevisions DEF RowsOrdered
<1>5. JobsSound'
  <2> SUFFICES ASSUME NEW n \in DOMAIN outbox'
               PROVE  /\ variant'[outbox'[n].item].data_revision > 0
                      /\ outbox'[n].search_revision > 0
                      /\ outbox'[n].search_revision
                           <= variant'[outbox'[n].item].search_revision
    BY DEF JobsSound, Exists
  <2>1. CASE n \in DOMAIN outbox
    <3>1. PICK j : j = outbox[n]
      OBVIOUS
    <3>2. outbox'[n] = j
      BY <2>1, <3>1, JobsAppended
    <3>3. /\ Exists(j.item) /\ j.search_revision > 0
          /\ j.search_revision <= variant[j.item].search_revision
      BY <2>1, <3>1 DEF CatalogInv, JobsSound
    <3>4. j.item \in Item /\ j.search_revision \in Nat
      BY <2>1, <3>1, JobFields DEF CatalogInv, TypeOK
    <3>5. /\ Exists(j.item)'
          /\ variant[j.item].search_revision <= variant'[j.item].search_revision
      BY <3>3, <3>4, CommittedRevisions
    <3>6. /\ variant[j.item].search_revision \in Nat
          /\ variant'[j.item].search_revision \in Nat
      BY <3>4, <1>1, VariantFields DEF CatalogInv, TypeOK
    <3>7. variant'[outbox'[n].item].data_revision > 0
      BY <3>2, <3>5 DEF Exists
    <3>8. QED
      BY <3>2, <3>3, <3>4, <3>5, <3>6, <3>7
  <2>2. CASE n \notin DOMAIN outbox
    <3>1. PICK j \in Enqueued : j = outbox'[n]
      BY <2>2, JobsAppended
    <3>2. /\ j.item \in Touched /\ j.item \in Item
          /\ j.search_revision = variant'[j.item].search_revision
      BY CommittedJobs
    <3>3. variant'[j.item].search_revision \in Nat
      BY <3>2, <1>1, VariantFields DEF TypeOK
    <3>4. Exists(j.item)' /\ variant'[j.item].search_revision > 0
      BY <3>2, CommittedRevisions
    <3>5. variant'[outbox'[n].item].data_revision > 0
      BY <3>1, <3>4 DEF Exists
    <3>6. QED
      BY <3>1, <3>2, <3>3, <3>4, <3>5
  <2>3. QED
    BY <2>1, <2>2
<1>6. WorkersSound'
  BY JobsAppended DEF WorkersSound, PatchCommit, CatalogInv
<1>7. QED
  BY <1>1, <1>2, <1>3, <1>4, <1>5, <1>6 DEF CatalogInv

-----------------------------------------------------------------------------
(* Revisions, in every deployment. *)

LEMMA CatalogStarts == Init => CatalogInv
<1> SUFFICES ASSUME Init PROVE CatalogInv
  OBVIOUS
<1>1. NoVariant \in Variant /\ NoDocument \in Document /\ Idle \in WorkerRec
  BY DEF NoVariant, Variant, NoDocument, Document, Idle, WorkerRec
<1>2. TypeOK
  BY <1>1 DEF Init, TypeOK, NoPatch, WorkerRec
<1>3. IsFiniteSet(receipts)
  BY FS_EmptySet DEF Init
<1>4. QED
  BY <1>2, <1>3 DEF Init, CatalogInv, PatchSound, RowsOrdered, NoVariant, Exists,
     JobsSound, WorkersSound, Idle

(* Every step keeps the invariant. *)
LEMMA CatalogSteps ==
    ASSUME CatalogInv, Next PROVE CatalogInv'
BY PatchBegins, PatchGivenUp, PatchCommitted, WorkerByWorker, ByWorkerKeeps DEF Next

(* So does a stutter. *)
LEMMA CatalogStutters ==
    ASSUME CatalogInv, UNCHANGED vars PROVE CatalogInv'
BY DEF vars, rows, CatalogInv, TypeOK, PatchSound, RowsOrdered, Exists, JobsSound,
       WorkersSound

(* The invariant holds at the start and through every step. *)
THEOREM CatalogInvariant == Spec => []CatalogInv
<1>1. CatalogInv /\ [Next]_vars => CatalogInv'
  BY CatalogSteps, CatalogStutters
<1>2. QED
  BY <1>1, CatalogStarts, PTL DEF Spec

(* Rows, outbox, documents and workers are well typed. *)
THEOREM CatalogTypeCorrect == Spec => []TypeOK
<1>1. CatalogInv => TypeOK
  BY DEF CatalogInv
<1>2. QED
  BY <1>1, CatalogInvariant, PTL

(* The revisions of an item never go back, whatever a PATCH has read and    *)
(* the workers have written meanwhile.                                      *)
THEOREM RevisionsOnlyGrow == Spec => RevisionsGrow
<1> DEFINE Grows == \A i \in Item :
                      /\ variant[i].data_revision <= variant'[i].data_revision
                      /\ variant[i].search_revision <= variant'[i].search_revision
                      /\ variant[i].index_revision <= variant'[i].index_revision
                      /\ variant'[i].index_revision <= variant'[i].search_revision
                      /\ variant'[i].search_revision <= variant'[i].data_revision
<1>1. CatalogInv /\ [Next]_vars => [Grows]_variant
  <2> SUFFICES ASSUME CatalogInv, [Next]_vars PROVE Grows \/ UNCHANGED variant
    OBVIOUS
  <2>1. CASE PatchCommit
    BY <2>1, CommittedRevisions
  <2>2. CASE ByWorker
    <3>1. \A i \in Item : /\ variant[i].data_revision \in Nat
                          /\ variant[i].search_revision \in Nat
      BY VariantFields DEF CatalogInv, TypeOK
    <3>2. QED
      BY <2>2, <3>1 DEF ByWorker, SameBut, CatalogInv, RowsOrdered
  <2>3. CASE UNCHANGED variant
    BY <2>3
  <2>4. CASE \/ \E k \in IdempotencyKey, p \in PatchBody : PatchBegin(k, p)
             \/ PatchFails
    BY <2>3, <2>4 DEF PatchBegin, PatchFails, rows
  <2>5. CASE UNCHANGED vars
    BY <2>3, <2>5 DEF vars, rows
  <2>6. QED
    BY <2>1, <2>2, <2>4, <2>5, WorkerByWorker DEF Next
<1>2. QED
  BY <1>1, CatalogInvariant, PTL DEF Spec, RevisionsGrow

-----------------------------------------------------------------------------
(* Changes of text, with one worker. *)

(* After the step every worker is idle or as it was, with the rows it read. *)
LEMMA AloneByWorker ==
    ASSUME CatalogInv, AloneInv, ByWorker, Alone',
           \A v \in Worker : \/ worker'[v].pc = "idle"
                             \/ worker'[v] = worker[v] /\ UNCHANGED variant,
           \A i \in Item : Live(i) => Caught(i)'
    PROVE  AloneInv'
<1>1. \A n \in DOMAIN outbox : outbox[n].item \in Item
  BY JobFields DEF CatalogInv, TypeOK
<1>2. WorkerReads'
  <2> SUFFICES ASSUME NEW v \in Worker PROVE Reads(worker[v])'
    BY DEF WorkerReads
  <2>1. CASE worker'[v].pc = "idle"
    BY <2>1 DEF Reads
  <2>2. CASE worker'[v].pc # "idle"
    <3>1. worker'[v] = worker[v] /\ UNCHANGED <<variant, productText>>
      BY <2>2 DEF ByWorker
    <3>2. PICK n : n = worker[v].job
      OBVIOUS
    <3>3. n \in DOMAIN outbox
      BY <2>2, <3>1, <3>2 DEF CatalogInv, WorkersSound
    <3>4. SameJob(outbox'[n], outbox[n])
      BY <3>3 DEF ByWorker
    <3>5. Reads(worker[v])
      BY DEF AloneInv, WorkerReads
    <3>6. QED
      BY <3>1, <3>2, <3>4, <3>5 DEF Reads, SameJob, CurrentText
  <2>3. QED
    BY <2>1, <2>2
<1>3. Withdrawn'
  BY <1>1 DEF AloneInv, Withdrawn, ByWorker, SameJob, SameBut
<1>4. \A i \in Item : Live(i)' = Live(i)
  BY DEF ByWorker, SameBut, Live, Exists
<1>5. QED
  BY <1>2, <1>3, <1>4 DEF AloneInv

(* An item keeps its last job unless that is the one which ends.            *)
LEMMA JobRemains ==
    ASSUME CatalogInv, NEW n, NEW st, Settling(n, st), NEW i \in Item,
           variant'[i].search_revision = variant[i].search_revision,
           LatestOutstanding(i),
           st = "done" => \/ outbox[n].item # i
                          \/ outbox[n].search_revision # variant[i].search_revision,
           st \in {"done", "pending", "dead_letter"}
    PROVE  LatestOutstanding(i)'
<1>1. PICK m \in DOMAIN outbox :
         /\ outbox[m].item = i /\ outbox[m].status \in {"pending", "dead_letter"}
         /\ outbox[m].search_revision = variant[i].search_revision
  BY DEF LatestOutstanding
<1>2. m \in DOMAIN outbox' /\ SameJob(outbox'[m], outbox[m])
  BY <1>1, SettlesJobs DEF Settling, Settles
<1>3. outbox'[m].status \in {"pending", "dead_letter"}
  BY <1>1 DEF Settling, Settles
<1>4. QED
  BY <1>1, <1>2, <1>3 DEF LatestOutstanding, SameJob

(* Who works is alone. *)
LEMMA AloneOthersIdle ==
    ASSUME Alone, NEW w \in Worker, worker[w].pc # "idle"
    PROVE  \A v \in Worker \ {w} : worker[v].pc = "idle"
BY DEF Alone

(* The worker goes on. *)
LEMMA AloneProceeds ==
    ASSUME CatalogInv, AloneInv, NEW w \in Worker, Proceeds(w), Alone'
    PROVE  AloneInv'
<1>1. UNCHANGED <<productText, variant, outbox, document>>
  BY Proceeding DEF rows
<1>2. PICK x \in WorkerRec :
         /\ Becomes(w, x)
         /\ x.pc # "idle" /\ (worker[w].pc # "idle" => Reads(worker[w])) => Reads(x)
  BY Proceeding
<1>3. x.pc = "idle" => Reads(x)
  BY DEF Reads
<1>4. Reads(x)
  BY <1>2, <1>3 DEF AloneInv, WorkerReads
<1>5. \A v \in Worker : Reads(worker'[v])
  BY <1>2, <1>4 DEF Becomes, AloneInv, WorkerReads
<1>6. WorkerReads'
  BY <1>1, <1>5 DEF WorkerReads, Reads, CurrentText
<1>7. QED
  BY <1>1, <1>6 DEF AloneInv, Withdrawn, Live, Exists, Caught, Current, CurrentText,
     LatestOutstanding

(* The skipped job is not the item's last, or the item is indexed. *)
LEMMA AloneSkips ==
    ASSUME CatalogInv, AloneInv, NEW w \in Worker, Skips(w), Alone'
    PROVE  AloneInv'
<1>1. PICK n : n = worker[w].job
  OBVIOUS
<1>2. Settling(n, "done") /\ UNCHANGED <<productText, variant, document>>
  BY <1>1, SkipSettles DEF Skips
<1>3. ByWorker
  BY <1>2, SettlingRowsKept
<1>4. PICK j : j = outbox[n]
  OBVIOUS
<1>5. j.item \in Item /\ j.search_revision \in Nat
  BY <1>2, <1>4, JobFields DEF Settling, CatalogInv, TypeOK
<1>6. \/ j.search_revision < variant[j.item].search_revision
      \/ variant[j.item].index_revision >= j.search_revision
  BY <1>1, <1>4 DEF Skips, Obsolete, Indexed, JobOf
<1>7. ASSUME NEW i \in Item, Live(i) PROVE Caught(i)'
  <2>1. /\ variant[i].search_revision \in Nat /\ variant[i].index_revision \in Nat
        /\ variant[i].index_revision <= variant[i].search_revision
    BY VariantFields DEF CatalogInv, TypeOK, RowsOrdered
  <2>2. Caught(i)
    BY <1>7 DEF AloneInv
  <2>3. CASE variant[i].index_revision = variant[i].search_revision
    BY <1>2, <2>2, <2>3 DEF Caught, Current, CurrentText
  <2>4. CASE variant[i].index_revision # variant[i].search_revision
    <3>1. LatestOutstanding(i)
      BY <2>2, <2>4 DEF Caught
    <3>2. j.item # i \/ j.search_revision # variant[i].search_revision
      BY <1>5, <1>6, <2>1, <2>4
    <3>3. LatestOutstanding(i)'
      BY <1>2, <1>4, <3>1, <3>2, JobRemains
    <3>4. QED
      BY <1>2, <2>4, <3>3 DEF Caught
  <2>5. QED
    BY <2>3, <2>4
<1>8. QED
  BY <1>2, <1>3, <1>7, AloneByWorker DEF Settling

(* The document is of an item that is withdrawn. *)
LEMMA AloneDeletes ==
    ASSUME CatalogInv, AloneInv, NEW w \in Worker, Delete(w), Alone'
    PROVE  AloneInv'
<1>1. PICK n : n = worker[w].job
  OBVIOUS
<1>2. Settling(n, "done") /\ UNCHANGED <<productText, variant>>
  BY <1>1, DeleteSettles DEF Delete
<1>3. ByWorker
  BY <1>2, SettlingRowsKept
<1>4. PICK j : j = outbox[n]
  OBVIOUS
<1>5. j.item \in Item /\ j.operation = "delete"
  BY <1>1, <1>2, <1>4, JobFields DEF Settling, CatalogInv, TypeOK, Delete, JobOf
<1>6. variant[j.item].tombstoned
  BY <1>2, <1>4, <1>5 DEF AloneInv, Withdrawn, Settling
<1>7. \A i \in Item \ {j.item} : document'[i] = document[i]
  BY <1>1, <1>4 DEF Delete, JobOf, CatalogInv, TypeOK
<1>8. ASSUME NEW i \in Item, Live(i) PROVE Caught(i)'
  <2>1. i # j.item
    BY <1>6, <1>8 DEF Live
  <2>2. Caught(i)
    BY <1>8 DEF AloneInv
  <2>3. CASE variant[i].index_revision = variant[i].search_revision
    BY <1>2, <1>7, <2>1, <2>2, <2>3 DEF Caught, Current, CurrentText
  <2>4. CASE variant[i].index_revision # variant[i].search_revision
    <3>1. LatestOutstanding(i)
      BY <2>2, <2>4 DEF Caught
    <3>2. LatestOutstanding(i)'
      BY <1>2, <1>4, <2>1, <3>1, JobRemains
    <3>3. QED
      BY <1>2, <2>4, <3>2 DEF Caught
  <2>5. QED
    BY <2>3, <2>4
<1>9. QED
  BY <1>2, <1>3, <1>8, AloneByWorker DEF Settling

(* The document has the item's current text, or the item has a later job. *)
LEMMA AlonePublishes ==
    ASSUME CatalogInv, AloneInv, NEW w \in Worker, Publish(w), Alone'
    PROVE  AloneInv'
<1>1. PICK n, j, t : n = worker[w].job /\ j = outbox[n] /\ t = worker[w].text
  OBVIOUS
<1>2. JobOf(w) = j
  BY <1>1 DEF JobOf
<1>3. /\ Settling(n, "done") /\ worker'[w].pc = "idle" /\ j \in Job
      /\ document'[j.item].index_revision = j.search_revision
      /\ document'[j.item].text = t
      /\ \A i \in Item \ {j.item} : document'[i] = document[i]
  BY <1>1, <1>2, PublishSettles
<1>4. /\ ByWorker /\ \A i \in Item \ {j.item} : variant'[i] = variant[i]
      /\ IF variant[j.item].search_revision = j.search_revision
         THEN variant'[j.item].index_revision = j.search_revision
         ELSE variant' = variant
  BY <1>2, PublishRows
<1>5. j.item \in Item /\ j.search_revision \in Nat
  BY <1>3, JobFields
<1>6. worker[w].pc = "confirmed" /\ UNCHANGED productText
  BY DEF Publish
<1>7. /\ variant[j.item].index_revision < j.search_revision
      /\ variant[j.item].search_revision = j.search_revision => t = CurrentText(j.item)
  BY <1>1, <1>6 DEF AloneInv, WorkerReads, Reads
<1>8. j.search_revision > 0 /\ j.search_revision <= variant[j.item].search_revision
  BY <1>1, <1>3 DEF CatalogInv, JobsSound, Settling
<1>9. \A v \in Worker : worker'[v].pc = "idle"
  <2>1. \A v \in Worker \ {w} : worker[v].pc = "idle"
    BY <1>6, AloneOthersIdle DEF AloneInv
  <2>2. QED
    BY <1>3, <2>1 DEF Settling
<1>10. ASSUME NEW i \in Item, Live(i) PROVE Caught(i)'
  <2>1. SameBut(variant'[i], variant[i])
    BY <1>4 DEF ByWorker
  <2>2. CurrentText(i)' = CurrentText(i)
    BY <1>6, <2>1 DEF CurrentText, SameBut
  <2>3. Caught(i)
    BY <1>10 DEF AloneInv
  <2>4. CASE i = j.item /\ variant[i].search_revision = j.search_revision
    <3>1. variant'[i].index_revision = variant'[i].search_revision
      BY <1>4, <2>1, <2>4 DEF SameBut
    <3>2. Current(i)'
      BY <1>3, <1>7, <1>8, <2>2, <2>4 DEF Current
    <3>3. QED
      BY <3>1, <3>2 DEF Caught
  <2>5. CASE i = j.item /\ variant[i].search_revision # j.search_revision
    <3>1. variant'[i] = variant[i]
      BY <1>4, <2>5
    <3>2. variant[i].index_revision # variant[i].search_revision
      <4>1. variant[i].index_revision \in Nat /\ variant[i].search_revision \in Nat
        BY VariantFields DEF CatalogInv, TypeOK
      <4>2. QED
        BY <1>5, <1>7, <1>8, <2>5, <4>1
    <3>3. LatestOutstanding(i)
      BY <2>3, <3>2 DEF Caught
    <3>4. LatestOutstanding(i)'
      BY <1>1, <1>3, <2>5, <3>1, <3>3, JobRemains
    <3>5. QED
      BY <3>1, <3>2, <3>4 DEF Caught
  <2>6. CASE i # j.item
    <3>1. variant'[i] = variant[i] /\ document'[i] = document[i]
      BY <1>3, <1>4, <2>6
    <3>2. CASE variant[i].index_revision = variant[i].search_revision
      BY <2>2, <2>3, <3>1, <3>2 DEF Caught, Current
    <3>3. CASE variant[i].index_revision # variant[i].search_revision
      <4>1. LatestOutstanding(i)
        BY <2>3, <3>3 DEF Caught
      <4>2. LatestOutstanding(i)'
        BY <1>1, <1>3, <2>6, <3>1, <4>1, JobRemains
      <4>3. QED
        BY <3>1, <3>3, <4>2 DEF Caught
    <3>4. QED
      BY <3>2, <3>3
  <2>7. QED
    BY <2>4, <2>5, <2>6
<1>11. QED
  BY <1>4, <1>9, <1>10, AloneByWorker

(* A job that has failed, or whose delay has passed, is still to be done.   *)
LEMMA AlonePostpones ==
    ASSUME CatalogInv, AloneInv, NEW n, NEW st \in {"done", "pending", "dead_letter"},
           Settling(n, st), st = "done" => outbox[n].status = "done",
           UNCHANGED <<variant, document>>, Alone'
    PROVE  AloneInv'
<1>1. ByWorker
  BY SettlingRowsKept
<1>2. ASSUME NEW i \in Item, LatestOutstanding(i) PROVE LatestOutstanding(i)'
  <2>1. PICK m \in DOMAIN outbox :
           /\ outbox[m].item = i /\ outbox[m].status \in {"pending", "dead_letter"}
           /\ outbox[m].search_revision = variant[i].search_revision
    BY <1>2 DEF LatestOutstanding
  <2>2. m \in DOMAIN outbox' /\ SameJob(outbox'[m], outbox[m])
    BY <2>1, SettlesJobs DEF Settling, Settles
  <2>3. outbox'[m].status \in {"pending", "dead_letter"}
    BY <2>1 DEF Settling, Settles
  <2>4. QED
    BY <2>1, <2>2, <2>3 DEF LatestOutstanding, SameJob
<1>3. ASSUME NEW i \in Item, Live(i) PROVE Caught(i)'
  <2>1. Caught(i)
    BY <1>3 DEF AloneInv
  <2>2. UNCHANGED productText
    BY DEF Settling
  <2>3. QED
    BY <1>2, <2>1, <2>2 DEF Caught, Current, CurrentText
<1>4. QED
  BY <1>1, <1>3, AloneByWorker DEF Settling

(* With one product text in every item it lists or has, a PATCH that leaves *)
(* an item's search_revision leaves its texts.                              *)
LEMMA TextKept ==
    ASSUME CatalogInv, Alone, PatchCommit, NEW i \in Item, Exists(i),
           variant'[i].search_revision = variant[i].search_revision
    PROVE  CurrentText(i)' = CurrentText(i)
<1>1. /\ variant[i].search_revision \in Nat /\ variant[i].data_revision \in Nat
      /\ variant[i].search_revision <= variant[i].data_revision
  BY VariantFields DEF CatalogInv, TypeOK, RowsOrdered
<1>2. patch # NoPatch
  BY DEF PatchCommit, NoPatch
<1>3. CASE i \in Touched
  <2>1. ~SearchableChanged(i)
    BY <1>1, <1>3, CommittedRows
  <2>2. ~patch.body.product /\ ~patch.body.text
    BY <2>1 DEF SearchableChanged
  <2>3. productText' = productText
    BY <2>2 DEF PatchCommit
  <2>4. variant'[i].text = variant[i].text
    BY <1>3, <2>2, CommittedRows
  <2>5. QED
    BY <2>3, <2>4 DEF CurrentText
<1>4. CASE i \notin Touched
  <2>1. ~patch.body.product
    BY <1>2, <1>4 DEF Alone, Touched
  <2>2. productText' = productText
    BY <2>1 DEF PatchCommit
  <2>3. variant'[i] = variant[i]
    BY <1>4, CommittedRows
  <2>4. QED
    BY <2>2, <2>3 DEF CurrentText
<1>5. QED
  BY <1>3, <1>4

(* What is withdrawn stays withdrawn. *)
LEMMA WithdrawnStays ==
    ASSUME CatalogInv, Alone, PatchCommit, NEW i \in Item, variant[i].tombstoned
    PROVE  variant'[i].tombstoned
<1>1. patch.body.available \in {"unsaid", "no"}
  BY DEF Alone, PatchCommit, NoPatch, CatalogInv, PatchSound, PatchBody
<1>2. CASE i \in Touched
  BY <1>1, <1>2, CommittedRows
<1>3. CASE i \notin Touched
  BY <1>3, CommittedRows
<1>4. QED
  BY <1>2, <1>3

(* An item whose text changes has a new job; the others keep what they had. *)
LEMMA AloneCommits ==
    ASSUME CatalogInv, AloneInv, PatchCommit, Alone' PROVE AloneInv'
<1>1. Alone /\ UNCHANGED <<worker, document>>
  BY DEF AloneInv, PatchCommit
<1>2. \A n \in DOMAIN outbox : outbox[n].item \in Item /\ outbox[n].search_revision \in Nat
  BY JobFields DEF CatalogInv, TypeOK
<1>3. \A i \in Item : /\ variant[i].search_revision \in Nat
                      /\ variant[i].index_revision \in Nat
                      /\ variant'[i].search_revision \in Nat
  BY CommittedRows, VariantFields DEF CatalogInv, TypeOK
<1>4. WorkerReads'
  <2> SUFFICES ASSUME NEW w \in Worker PROVE Reads(worker[w])'
    BY DEF WorkerReads
  <2>1. CASE worker[w].pc = "idle"
    BY <1>1, <2>1 DEF Reads
  <2>2. CASE worker[w].pc # "idle"
    <3>1. PICK n, j, i : n = worker[w].job /\ j = outbox[n] /\ i = j.item
      OBVIOUS
    <3>2. n \in DOMAIN outbox
      BY <2>2, <3>1 DEF CatalogInv, WorkersSound
    <3>3. outbox'[n] = j
      BY <3>1, <3>2, JobsAppended
    <3>4. /\ i \in Item /\ j.search_revision \in Nat /\ Exists(i)
          /\ j.search_revision <= variant[i].search_revision
      BY <1>2, <3>1, <3>2 DEF CatalogInv, JobsSound
    <3>5. /\ variant[i].search_revision <= variant'[i].search_revision
          /\ variant'[i].index_revision = variant[i].index_revision
      BY <3>4, CommittedRevisions, CommittedRows
    <3>6. variant'[i].search_revision = j.search_revision =>
            /\ variant[i].search_revision = j.search_revision
            /\ CurrentText(i)' = CurrentText(i)
      BY <1>1, <1>3, <3>4, <3>5, TextKept
    <3>7. Reads(worker[w])
      BY DEF AloneInv, WorkerReads
    <3>8. PICK x : x = worker[w]
      OBVIOUS
    <3>9. worker'[w] = x /\ x.job = n
      BY <1>1, <3>1, <3>8
    <3>10. /\ x.pc \in {"checked", "embedded", "confirmed"} =>
                variant'[i].index_revision < j.search_revision
           /\ /\ x.pc \in {"embedded", "confirmed"}
              /\ variant'[i].search_revision = j.search_revision
              => x.text = CurrentText(i)'
      BY <3>1, <3>5, <3>6, <3>7, <3>8 DEF Reads
    <3>11. QED
      BY <3>1, <3>3, <3>9, <3>10 DEF Reads, CurrentText
  <2>3. QED
    BY <2>1, <2>2
<1>5. Withdrawn'
  <2> SUFFICES ASSUME NEW n \in DOMAIN outbox', outbox'[n].operation = "delete"
               PROVE  variant'[outbox'[n].item].tombstoned
    BY DEF Withdrawn
  <2>1. CASE n \in DOMAIN outbox
    <3>1. outbox'[n] = outbox[n]
      BY <2>1, JobsAppended
    <3>2. variant[outbox[n].item].tombstoned
      BY <2>1, <3>1 DEF AloneInv, Withdrawn
    <3>3. QED
      BY <1>1, <1>2, <2>1, <3>1, <3>2, WithdrawnStays
  <2>2. CASE n \notin DOMAIN outbox
    <3>1. outbox'[n] \in Enqueued
      BY <2>2, JobsAppended
    <3>2. QED
      BY <3>1, CommittedJobs
  <2>3. QED
    BY <2>1, <2>2
<1>6. ASSUME NEW i \in Item, Live(i)' PROVE Caught(i)'
  <2>1. Exists(i)' /\ ~variant'[i].tombstoned
    BY <1>6 DEF Live
  <2>2. /\ variant'[i].index_revision = variant[i].index_revision
        /\ variant[i].search_revision <= variant'[i].search_revision
        /\ variant[i].index_revision <= variant[i].search_revision
    BY CommittedRows, CommittedRevisions DEF CatalogInv, RowsOrdered
  <2>3. CASE i \in Touched /\ SearchableChanged(i)
    <3>1. variant'[i].search_revision = variant[i].data_revision + 1
      BY <2>3, CommittedRows
    <3>2. /\ variant[i].search_revision <= variant[i].data_revision
          /\ variant[i].data_revision \in Nat
      BY VariantFields DEF CatalogInv, TypeOK, RowsOrdered
    <3>3. variant'[i].index_revision # variant'[i].search_revision
      BY <1>3, <2>2, <3>1, <3>2
    <3>4. PICK j \in Enqueued : j = NewJob(i)
      BY <2>3 DEF Enqueued
    <3>5. j.item = i
      BY <3>4 DEF NewJob
    <3>6. j.status = "pending" /\ j.search_revision = variant'[i].search_revision
      BY <3>5, CommittedJobs
    <3>7. PICK n \in DOMAIN outbox' : outbox'[n] = j
      BY JobsAppended
    <3>8. LatestOutstanding(i)'
      BY <3>5, <3>6, <3>7 DEF LatestOutstanding
    <3>9. QED
      BY <3>3, <3>8 DEF Caught
  <2>4. CASE ~(i \in Touched /\ SearchableChanged(i))
    <3>1. variant'[i].search_revision = variant[i].search_revision /\ Exists(i)
      <4>1. CASE i \in Touched
        BY <2>4, <4>1, CommittedRows, CommittedRevisions
      <4>2. CASE i \notin Touched
        <5>1. variant'[i] = variant[i]
          BY <4>2, CommittedRows
        <5>2. QED
          BY <2>1, <5>1 DEF Exists
      <4>3. QED
        BY <4>1, <4>2
    <3>2. CurrentText(i)' = CurrentText(i)
      BY <1>1, <3>1, TextKept
    <3>3. ~variant[i].tombstoned
      BY <1>1, <2>1, WithdrawnStays
    <3>4. Caught(i)
      BY <3>1, <3>3 DEF AloneInv, Live
    <3>5. CASE variant[i].index_revision = variant[i].search_revision
      BY <1>1, <2>2, <3>1, <3>2, <3>4, <3>5 DEF Caught, Current
    <3>6. CASE variant[i].index_revision # variant[i].search_revision
      <4>1. PICK n \in DOMAIN outbox :
               /\ outbox[n].item = i
               /\ outbox[n].status \in {"pending", "dead_letter"}
               /\ outbox[n].search_revision = variant[i].search_revision
        BY <3>4, <3>6 DEF Caught, LatestOutstanding
      <4>2. n \in DOMAIN outbox' /\ outbox'[n] = outbox[n]
        BY JobsAppended
      <4>3. LatestOutstanding(i)'
        BY <3>1, <4>1, <4>2 DEF LatestOutstanding
      <4>4. QED
        BY <2>2, <3>1, <3>6, <4>3 DEF Caught
    <3>7. QED
      BY <3>5, <3>6
  <2>5. QED
    BY <2>3, <2>4
<1>7. QED
  BY <1>4, <1>5, <1>6 DEF AloneInv

(* Rows and workers stay. *)
LEMMA AloneQuiet ==
    ASSUME AloneInv, UNCHANGED <<rows, worker>>, Alone' PROVE AloneInv'
BY DEF rows, AloneInv, WorkerReads, Reads, Withdrawn, Live, Exists, Caught, Current,
       CurrentText, LatestOutstanding

(* Every step of the lone worker and its merchants. *)
LEMMA AloneSteps ==
    ASSUME CatalogInv, AloneInv, Next, Alone' PROVE AloneInv'
<1>1. CASE \/ \E k \in IdempotencyKey, p \in PatchBody : PatchBegin(k, p)
           \/ PatchFails
  BY <1>1, AloneQuiet DEF PatchBegin, PatchFails
<1>2. CASE PatchCommit
  BY <1>2, AloneCommits
<1>3. CASE \E w \in Worker : WorkerStep(w) \/ Fail(w) \/ Crash(w)
  <2>1. PICK w \in Worker : \/ Proceeds(w) \/ Skips(w) \/ Delete(w)
                            \/ Publish(w) \/ RecordFailure(w)
    BY <1>3, WorkerCases
  <2>2. CASE RecordFailure(w)
    <3>1. PICK st \in {"pending", "dead_letter"} : Settling(worker[w].job, st)
      BY <2>2, FailureRecorded
    <3>2. UNCHANGED <<variant, document>>
      BY <2>2, FailureRecorded
    <3>3. st # "done" /\ st \in {"done", "pending", "dead_letter"}
      BY <3>1
    <3>4. QED
      BY <3>1, <3>2, <3>3, AlonePostpones
  <2>3. QED
    BY <2>1, <2>2, AloneProceeds, AloneSkips, AloneDeletes, AlonePublishes
<1>4. CASE \E n \in DOMAIN outbox : BackoffEnds(n)
  <2>1. PICK n \in DOMAIN outbox : BackoffEnds(n)
    BY <1>4
  <2>2. /\ Settling(n, outbox[n].status) /\ UNCHANGED <<variant, document>>
        /\ outbox[n].status \in {"done", "pending", "dead_letter"}
    BY <2>1, BackoffEnded, JobFields DEF CatalogInv, TypeOK
  <2>3. QED
    BY <2>2, AlonePostpones
<1>5. QED
  BY <1>1, <1>2, <1>3, <1>4 DEF Next

(* The inductive invariant of both deployments. *)
DeploymentInv == CatalogInv /\ (deployment = "alone" => AloneInv)

(* The invariant holds at the start and through every step. *)
LEMMA DeploymentInvariant == MCSpec => []DeploymentInv
<1>1. MCInit => DeploymentInv
  <2> SUFFICES ASSUME MCInit PROVE DeploymentInv
    OBVIOUS
  <2>1. Init /\ CatalogInv
    BY CatalogStarts DEF MCInit
  <2>2. Alone /\ WorkerReads
    BY <2>1 DEF Init, Alone, Idle, WorkerReads, Reads
  <2>3. Withdrawn
    BY <2>1 DEF Init, Withdrawn
  <2>4. \A i \in Item : ~Live(i)
    BY <2>1 DEF Init, Live, Exists, NoVariant
  <2>5. QED
    BY <2>1, <2>2, <2>3, <2>4 DEF DeploymentInv, AloneInv
<1>2. DeploymentInv /\ [MCNext]_allVars => DeploymentInv'
  <2> SUFFICES ASSUME DeploymentInv, [MCNext]_allVars PROVE DeploymentInv'
    OBVIOUS
  <2>1. CASE MCNext
    <3>1. CatalogInv'
      BY <2>1, CatalogSteps DEF MCNext, DeploymentInv
    <3>2. deployment = "alone" => AloneInv'
      BY <2>1, AloneSteps DEF MCNext, DeploymentInv
    <3>3. QED
      BY <2>1, <3>1, <3>2 DEF MCNext, DeploymentInv
  <2>2. CASE UNCHANGED allVars
    <3>1. UNCHANGED vars /\ UNCHANGED deployment
      BY <2>2 DEF allVars
    <3>2. UNCHANGED <<rows, worker, patch>>
      BY <3>1 DEF vars, rows
    <3>3. Alone => Alone'
      BY <3>2 DEF Alone, Exists, rows
    <3>4. AloneInv => AloneInv'
      BY <3>2, <3>3, AloneQuiet DEF AloneInv
    <3>5. QED
      BY <3>1, <3>4, CatalogStutters DEF DeploymentInv
  <2>3. QED
    BY <2>1, <2>2
<1>3. QED
  BY <1>1, <1>2, PTL DEF MCSpec

(* With one worker, and merchants who neither put an item back on sale nor  *)
(* patch a product with some of its items, a change of text that was        *)
(* accepted is in the documents or in the outbox, for any items and keys    *)
(* and through any failures.                                                *)
THEOREM ChangesAreQueued == MCSpec => []AloneChangeIsQueued
<1>1. DeploymentInv => AloneChangeIsQueued
  <2> SUFFICES ASSUME DeploymentInv, deployment = "alone", NEW i \in Item, Live(i)
               PROVE  Current(i) \/ Outstanding(i)
    BY DEF AloneChangeIsQueued, ChangeIsQueued
  <2>1. Caught(i)
    BY DEF DeploymentInv, AloneInv
  <2>2. QED
    BY <2>1 DEF Caught, LatestOutstanding, Outstanding
<1>2. QED
  BY <1>1, DeploymentInvariant, PTL
=============================================================================
