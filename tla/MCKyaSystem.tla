---------------------------- MODULE MCKyaSystem ----------------------------
(***************************************************************************)
(* Small instances of KyaSystem, some of them with an agent that has gone  *)
(* through the ceremony already.                                           *)
(***************************************************************************)
EXTENDS KyaSystem, TLC

Symmetry ==
    Permutations(Call) \cup Permutations(Owner) \cup Permutations(Key)
        \cup Permutations(Session) \cup Permutations(Token)

(***************************************************************************)
(* One run covers three situations; each bounds what may happen in it, as  *)
(* the constants bound what may happen at all.                             *)
(*   binding:  from enrollment to binding, with a failed node call or a    *)
(*             restart;                                                    *)
(*   access:   two requests at a time for a bound agent, whose key changes *)
(*             and whose credential, challenge or KYC runs out or is       *)
(*             rejected;                                                   *)
(*   transfer: a bound agent changes hands and is bound again.             *)
(***************************************************************************)
VARIABLE situation

Budget ==
    [binding  |-> [calls |-> 1, keys |-> 1, owners |-> 2, sessions |-> 1,
                   tokens |-> 2, height |-> 2, transfers |-> 0,
                   credentials |-> 0, lapses |-> 0,
                   rejections |-> FALSE, faults |-> 1],
     access   |-> [calls |-> 2, keys |-> 2, owners |-> 1, sessions |-> 1,
                   tokens |-> 1, height |-> 1, transfers |-> 0,
                   credentials |-> 2, lapses |-> 1,
                   rejections |-> TRUE, faults |-> 0],
     transfer |-> [calls |-> 1, keys |-> 1, owners |-> 2, sessions |-> 2,
                   tokens |-> 1, height |-> 3, transfers |-> 2,
                   credentials |-> 2, lapses |-> 0,
                   rejections |-> FALSE, faults |-> 0]]

Lapsed ==
    {a \in Agent : enrollment[a].lapsed}
        \cup {o \in Owner : kyc[o] = "lapsed"}
        \cup {n \in Nonce : nonce[n].state = "lapsed"}

LapsedCredentials == {i \in DOMAIN credentials : credentials[i].lapsed}

Within(b) ==
    /\ Cardinality({c \in Call : call[c].op # "idle"}) <= b.calls
    /\ Cardinality(({enrollment[a].key : a \in Agent}
                       \cup {x[3] : x \in approvals}) \ {None}) <= b.keys
    /\ Cardinality({o \in Owner : kyc[o] # "absent"}) <= b.owners
    /\ Cardinality({s \in Session : kycSession[s].owner # None}) <= b.sessions
    /\ Cardinality(({t \in Token : tokenOwner[t] # None}
                       \cup {enrollment[a].userOp : a \in Agent}) \ {None})
         <= b.tokens
    /\ height <= b.height
    /\ Cardinality({i \in LogIndex : logs[i].kind = "Transfer"}) <= b.transfers
    /\ Len(credentials) <= b.credentials
    /\ (\E n \in Nonce : nonce[n].state # "free") => b.credentials > 0
    /\ Cardinality(Lapsed) + Cardinality(LapsedCredentials) <= b.lapses
    /\ (\E s \in Session : "rejected" \in kycSession[s].events) => b.rejections
    /\ failures + restarts <= b.faults

(* The agent is bound to one verified person; everybody else has signed in. *)
BoundRecord(o, t, k) ==
    [status |-> "bound", principal |-> o, key |-> k, claimed |-> TRUE,
     lapsed |-> FALSE, approved |-> TRUE, intent |-> TRUE, userOp |-> t,
     tx |-> t, agentId |-> t, owner |-> o, delivered |-> FALSE]

BoundInit ==
    \E a \in Agent, o \in Owner, t \in Token, k \in Key, s \in Session :
        /\ Agent = {a}
        /\ tokenOwner = [x \in Token |-> IF x = t THEN o ELSE None]
        /\ logs = <<[kind |-> "Registered", token |-> t, agent |-> a,
                     owner |-> o, block |-> 1]>>
        /\ height = 1
        /\ enrollment = [x \in Agent |-> BoundRecord(o, t, k)]
        /\ kyc = [x \in Owner |->
                    CASE x = o -> "verified"
                      [] x # o /\ situation = "transfer" -> "pending"
                      [] OTHER -> "absent"]
        /\ kycSession = [x \in Session |->
                           IF x = s THEN [owner |-> o, events |-> {"verified"}]
                           ELSE [owner |-> None, events |-> {}]]
        /\ credentials = <<>>
        /\ approvals = {<<a, o, k>>}
        /\ call = [c \in Call |-> Idle]
        /\ AccessInit
        /\ processedEvents = {1} /\ durable = <<>> /\ pending = {}
        /\ lastPolledBlock = 1 /\ batch = {} /\ pollTo = -1
        /\ job = [w \in Loop |-> NoJob]
        /\ failures = 0 /\ restarts = 0

MCInit ==
    /\ \/ situation = "binding" /\ Init
       \/ situation \in {"access", "transfer"} /\ BoundInit
    /\ Within(Budget[situation])

MCNext ==
    /\ Next /\ UNCHANGED situation
    /\ Within(Budget[situation])'

MCSpec == MCInit /\ [][MCNext]_<<vars, situation>>

(* An agent paired with a verified person, its key approved and its intent  *)
(* prepared.                                                                *)
PreparedInit ==
    /\ situation = "evidence"
    /\ \E a \in Agent, o \in Owner, k \in Key, s \in Session :
           /\ Agent = {a}
           /\ ChainInit
           /\ enrollment = [x \in Agent |->
                [NoEnrollment EXCEPT !.status = "awaiting_onchain",
                   !.principal = o, !.key = k, !.claimed = TRUE,
                   !.approved = TRUE, !.intent = TRUE]]
           /\ kyc = [x \in Owner |-> IF x = o THEN "verified" ELSE "absent"]
           /\ kycSession = [x \in Session |->
                              IF x = s THEN [owner |-> o, events |-> {"verified"}]
                              ELSE [owner |-> None, events |-> {}]]
           /\ credentials = <<>>
           /\ approvals = {<<a, o, k>>}
           /\ call = [c \in Call |-> Idle]
           /\ AccessInit
           /\ WatcherInit

(* The client reports its operation before it is mined. *)
RecordedFirst ==
    \A i \in DOMAIN logs' \ DOMAIN logs :
        logs'[i].kind = "Registered" =>
            enrollment[logs'[i].agent].userOp = logs'[i].token

PreparedSpec ==
    /\ PreparedInit
    /\ [][Next /\ RecordedFirst /\ UNCHANGED situation]_<<vars, situation>>

PreparedFairSpec == PreparedSpec /\ Fairness

=============================================================================
