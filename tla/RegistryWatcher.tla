--------------------------- MODULE RegistryWatcher ---------------------------
(***************************************************************************)
(* The registry watcher: startEventWatcher with stateless polling, and     *)
(* applyRegisteredEvent and applyTransferEvent (src/src/registry/events.ts)*)
(* over the store of the ceremony.                                         *)
(*                                                                         *)
(* The poll loop and the flush timer run side by side; each works on one   *)
(* log at a time, and the flush at the end of a poll is a turn of the      *)
(* flush loop.  A log is named by its index.  Logs of another registry,    *)
(* the mint's Transfer and the cursor record, which nothing reads, are     *)
(* left out, and so is the age limit of the durable queue.                 *)
(***************************************************************************)
EXTENDS AgentAccess

CONSTANTS
    confirmations,
    MaxDurable,      \* MAX_DURABLE_PENDING_EVENTS
    Faults,          \* what may fail: subset of {"lock", "owner"}
    MaxFailures,     \* bound: failed store or node calls of the watcher
    MaxRestarts      \* bound: restarts of the server

ASSUME WatcherAssumption ==
    /\ confirmations \in Nat \ {0} /\ MaxDurable \in Nat \ {0}
    /\ Faults \subseteq {"lock", "owner"}
    /\ MaxFailures \in Nat /\ MaxRestarts \in Nat

Loop == {"poll", "flush"}

VARIABLES
    processedEvents,   \* store: logs applied
    durable,           \* store: pendingRegistryEvents, oldest first
    pending,           \* memory: logs waiting for confirmations or evidence
    lastPolledBlock,   \* memory
    batch,             \* memory: the logs of the poll under way
    pollTo,            \* memory: its last block; -1: no poll under way
    job,               \* memory: [Loop -> the log being applied]
    failures, restarts

watcherVars == <<processedEvents, durable, pending, lastPolledBlock, batch,
                 pollTo, job, failures, restarts>>

NoJob == [pc |-> "idle", log |-> 0, owner |-> None, agent |-> None, cred |-> 0]

WatcherTypeOK ==
    /\ processedEvents \subseteq Nat
    /\ durable \in Seq(Nat)
    /\ pending \subseteq Nat
    /\ lastPolledBlock \in Nat
    /\ batch \subseteq Nat
    /\ pollTo \in Nat \cup {-1}
    /\ job \in [Loop -> [pc : {"idle", "owner", "apply", "keep", "drop",
                               "transfer", "suspend", "suspend_write"},
                         log : Nat, owner : Owner \cup {None},
                         agent : Agent \cup {None}, cred : Nat]]
    /\ failures \in Nat /\ restarts \in Nat

WatcherInit ==
    /\ processedEvents = {} /\ durable = <<>> /\ pending = {}
    /\ lastPolledBlock = 0 /\ batch = {} /\ pollTo = -1
    /\ job = [w \in Loop |-> NoJob]
    /\ failures = 0 /\ restarts = 0

Elements(s) == {s[i] : i \in DOMAIN s}

Without(s, i) == SelectSeq(s, LAMBDA j : j # i)

-----------------------------------------------------------------------------
hasEnoughConfirmations(i) == height - logs[i].block + 1 >= confirmations

(* Registered logs need the verified owner first. *)
StartJob(w, i) ==
    job' = [job EXCEPT ![w] =
              [NoJob EXCEPT !.log = i,
                            !.pc = IF logs[i].kind = "Registered"
                                   THEN "owner" ELSE "transfer"]]

EndJob(w) == job' = [job EXCEPT ![w] = NoJob]

(* poll: the logs of every block since the last poll ... *)
PollBegin ==
    /\ pollTo = -1
    /\ height > lastPolledBlock
    /\ pollTo' = height
    /\ batch' = {i \in LogIndex : logs[i].block > lastPolledBlock}
    /\ UNCHANGED <<storeVars, call, processedEvents, durable, pending,
                   lastPolledBlock, job, failures, restarts>>

NextLog == CHOOSE i \in batch : \A j \in batch : i <= j

(* ... are queued in memory or applied, one after the other ... *)
PollTake ==
    /\ batch # {}
    /\ job["poll"].pc = "idle"
    /\ batch' = batch \ {NextLog}
    /\ IF hasEnoughConfirmations(NextLog)
       THEN StartJob("poll", NextLog) /\ UNCHANGED pending
       ELSE pending' = pending \cup {NextLog} /\ UNCHANGED job
    /\ UNCHANGED <<storeVars, call, processedEvents, durable, lastPolledBlock,
                   pollTo, failures, restarts>>

(* ... and the block is advanced when all are done. *)
PollEnd ==
    /\ pollTo # -1 /\ batch = {} /\ job["poll"].pc = "idle"
    /\ lastPolledBlock' = pollTo
    /\ pollTo' = -1
    /\ UNCHANGED <<storeVars, call, processedEvents, durable, pending, batch,
                   job, failures, restarts>>

(* flush restores the durable queue and takes a confirmed log. *)
FlushTake(i) ==
    /\ job["flush"].pc = "idle"
    /\ i \in pending \cup Elements(durable)
    /\ hasEnoughConfirmations(i)
    /\ pending' = (pending \cup Elements(durable)) \ {i}
    /\ StartJob("flush", i)
    /\ UNCHANGED <<storeVars, call, processedEvents, durable, lastPolledBlock,
                   batch, pollTo, failures, restarts>>

(* resolveRegisteredOwner: ownerOf, before the lock ... *)
ReadOwner(w) ==
    /\ job[w].pc = "owner"
    /\ job' = [job EXCEPT ![w].owner = tokenOwner[logs[job[w].log].token],
                          ![w].pc = "apply"]
    /\ UNCHANGED <<storeVars, call, processedEvents, durable, pending,
                   lastPolledBlock, batch, pollTo, failures, restarts>>

(* ... and when the node fails, no owner at all: the error is swallowed. *)
ReadOwnerFails(w) ==
    /\ "owner" \in Faults /\ failures < MaxFailures
    /\ job[w].pc = "owner"
    /\ job' = [job EXCEPT ![w].pc = "apply"]
    /\ failures' = failures + 1
    /\ UNCHANGED <<storeVars, call, processedEvents, durable, pending,
                   lastPolledBlock, batch, pollTo, restarts>>

(* Only an enrollment that waits for its registration is matched. *)
AwaitsRegistration(e) == e.status \in {"awaiting_onchain", "awaiting_register"}

Unresolved(e) == e.intent /\ e.userOp # None /\ e.tx = None

\* Deviation (mutant): the transaction of the log is not compared.
EvidenceWithoutTransaction(log, e, verifiedOwner) ==
    /\ e.intent /\ e.userOp # None
    /\ verifiedOwner = log.owner
    /\ e.principal = verifiedOwner

EvidenceHolds(log, e, verifiedOwner) ==
    /\ e.intent /\ e.userOp # None
    /\ e.tx = log.token
    /\ verifiedOwner = log.owner
    /\ e.principal = verifiedOwner

(* applyRegisteredEvent, under the lock: an unresolved submission is        *)
(* retried, evidence that does not hold is dropped, and the rest is marked  *)
(* processed - also when no enrollment waits for it.                        *)
ApplyRegistered(w) ==
    LET i == job[w].log
        log == logs[i]
        e == enrollment[log.agent]
        fresh == i \notin processedEvents
        retry == fresh /\ AwaitsRegistration(e) /\ Unresolved(e)
        binds == fresh /\ AwaitsRegistration(e) /\ EvidenceHolds(log, e, job[w].owner)
    IN  /\ job[w].pc = "apply"
        /\ job' = [job EXCEPT ![w].pc = IF retry THEN "keep" ELSE "drop"]
        /\ processedEvents' = IF binds \/ ~AwaitsRegistration(e)
                              THEN processedEvents \cup {i}
                              ELSE processedEvents
        /\ enrollment' = IF binds
                         THEN [enrollment EXCEPT ![log.agent].status = "bound",
                                                 ![log.agent].agentId = log.token,
                                                 ![log.agent].owner = log.owner]
                         ELSE enrollment
        /\ UNCHANGED <<kyc, credentials, approvals, call, durable, pending,
                       lastPolledBlock, batch, pollTo, failures, restarts>>

(* The durable queue with log i: the oldest beyond the bound is dropped. *)
Persisted(i) ==
    IF i \in Elements(durable) THEN durable
    ELSE IF Len(durable) < MaxDurable THEN Append(durable, i)
         ELSE Append(Tail(durable), i)

\* Deviation (mutant): the retry is announced and not queued.
KeepPendingNot(w) ==
    /\ job[w].pc = "keep"
    /\ EndJob(w)
    /\ UNCHANGED <<storeVars, call, processedEvents, durable, pending,
                   lastPolledBlock, batch, pollTo, failures, restarts>>

(* persistPendingRegistered, then the memory queue. *)
KeepPending(w) ==
    /\ job[w].pc = "keep"
    /\ durable' = Persisted(job[w].log)
    /\ pending' = pending \cup {job[w].log}
    /\ EndJob(w)
    /\ UNCHANGED <<storeVars, call, processedEvents, lastPolledBlock, batch,
                   pollTo, failures, restarts>>

(* removePendingRegistered. *)
DropPending(w) ==
    /\ job[w].pc = "drop"
    /\ durable' = Without(durable, job[w].log)
    /\ EndJob(w)
    /\ UNCHANGED <<storeVars, call, processedEvents, pending, lastPolledBlock,
                   batch, pollTo, failures, restarts>>

Suspends(log, e) == e.agentId = log.token /\ e.status = "bound"

(* applyTransferEvent, under the lock: the event is processed for good,     *)
(* whether or not a bound enrollment is there to suspend.                   *)
ApplyTransfer(w) ==
    LET i == job[w].log
        log == logs[i]
        hit == {a \in Agent : Suspends(log, enrollment[a])}
        fresh == i \notin processedEvents
    IN  /\ job[w].pc = "transfer"
        /\ processedEvents' = processedEvents \cup {i}
        /\ IF fresh /\ hit # {}
           THEN /\ enrollment' = [a \in Agent |->
                     IF a \in hit
                     THEN [enrollment[a] EXCEPT !.status = "suspended",
                                                !.owner = log.owner]
                     ELSE enrollment[a]]
                /\ job' = [job EXCEPT ![w].pc = "suspend",
                                      ![w].agent = CHOOSE a \in hit : TRUE]
           ELSE /\ EndJob(w)
                /\ UNCHANGED enrollment
        /\ UNCHANGED <<kyc, credentials, approvals, call, durable, pending,
                       lastPolledBlock, batch, pollTo, failures, restarts>>

(* After the lock the agent's active credential is looked up ... *)
SuspendRead(w) ==
    /\ job[w].pc = "suspend"
    /\ LET i == FirstActive(job[w].agent)
       IN  IF i = 0 THEN EndJob(w)
           ELSE job' = [job EXCEPT ![w].pc = "suspend_write", ![w].cred = i]
    /\ UNCHANGED <<storeVars, call, processedEvents, durable, pending,
                   lastPolledBlock, batch, pollTo, failures, restarts>>

(* ... and set to suspended whatever it has become (setCredentialStatus).   *)
SuspendWrite(w) ==
    /\ job[w].pc = "suspend_write"
    /\ credentials' = [credentials EXCEPT ![job[w].cred].status = "suspended"]
    /\ EndJob(w)
    /\ UNCHANGED <<enrollment, kyc, approvals, call, processedEvents, durable,
                   pending, lastPolledBlock, batch, pollTo, failures, restarts>>

(* The store fails.  A failed flush queues its log again; a failed poll     *)
(* reads the whole range again.                                             *)
JobFails(w) ==
    /\ "lock" \in Faults /\ failures < MaxFailures
    /\ job[w].pc \notin {"idle", "owner"}
    /\ failures' = failures + 1
    /\ EndJob(w)
    /\ IF w = "flush"
       THEN pending' = pending \cup {job[w].log} /\ UNCHANGED <<batch, pollTo>>
       ELSE batch' = {} /\ pollTo' = -1 /\ UNCHANGED pending
    /\ UNCHANGED <<storeVars, call, processedEvents, durable, lastPolledBlock,
                   restarts>>

(* The server stops and starts again: requests and memory are gone, and     *)
(* polling starts at the current block.                                     *)
Restart ==
    /\ restarts < MaxRestarts
    /\ restarts' = restarts + 1
    /\ call' = [c \in Call |-> Idle]
    /\ pending' = {} /\ batch' = {} /\ pollTo' = -1
    /\ job' = [w \in Loop |-> NoJob]
    /\ lastPolledBlock' = height
    /\ UNCHANGED <<storeVars, processedEvents, durable, failures>>

WatcherNext ==
    \/ PollBegin \/ PollTake \/ PollEnd
    \/ \E i \in LogIndex : FlushTake(i)
    \/ \E w \in Loop : \/ ReadOwner(w)
                       \/ ReadOwnerFails(w)
                       \/ ApplyRegistered(w)
                       \/ KeepPending(w)
                       \/ DropPending(w)
                       \/ ApplyTransfer(w)
                       \/ SuspendRead(w)
                       \/ SuspendWrite(w)
                       \/ JobFails(w)
    \/ Restart

=============================================================================
