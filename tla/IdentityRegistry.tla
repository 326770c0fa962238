-------------------------- MODULE IdentityRegistry --------------------------
(***************************************************************************)
(* The ERC-8004 Identity Registry as the platform uses it (external code:  *)
(* the ABI in src/src/registry/identity.ts, ownerOf and the Registered and *)
(* Transfer logs in src/src/registry/events.ts).                           *)
(*                                                                         *)
(* Every transaction is mined in a block of its own; confirmed blocks are  *)
(* final.  A token stands for the UserOperation that mints it, for the     *)
(* transaction that carries it and for the agentId it gets.  Anybody may   *)
(* register any agent URI; a URI names one enrollment.                     *)
(***************************************************************************)
EXTENDS Integers, Sequences, FiniteSets

CONSTANTS
    Agent,         \* enrollments, named by agentUuid and by agent URI
    Owner,         \* Smart Accounts
    Token,
    MaxTransfers,  \* bound: transfers on the chain
    MaxHeight,     \* bound: blocks
    None

ASSUME RegistryAssumption ==
    /\ MaxTransfers \in Nat /\ MaxHeight \in Nat
    /\ None \notin Agent \cup Owner \cup Token

VARIABLES
    tokenOwner,   \* ownerOf: [Token -> Owner or None]
    logs,         \* the registry's event logs, in chain order
    height        \* eth_blockNumber

chainVars == <<tokenOwner, logs, height>>

LogRecord == [kind : {"Registered", "Transfer"}, token : Token,
              agent : Agent \cup {None}, owner : Owner, block : Nat]

ChainTypeOK ==
    /\ tokenOwner \in [Token -> Owner \cup {None}]
    /\ logs \in Seq(LogRecord)
    /\ height \in Nat

ChainInit ==
    /\ tokenOwner = [t \in Token |-> None]
    /\ logs = <<>>
    /\ height = 0

LogIndex == DOMAIN logs

Mine(log) ==
    /\ height < MaxHeight
    /\ height' = height + 1
    /\ logs' = Append(logs, log)

Minted(t, o) ==
    \E i \in LogIndex : /\ logs[i].kind = "Registered"
                        /\ logs[i].token = t
                        /\ logs[i].owner = o

(* register(agentURI), sent by account o. *)
Register(t, o, a) ==
    /\ tokenOwner[t] = None
    /\ tokenOwner' = [tokenOwner EXCEPT ![t] = o]
    /\ Mine([kind |-> "Registered", token |-> t, agent |-> a, owner |-> o,
             block |-> height + 1])

TransferToken(t, o) ==
    /\ tokenOwner[t] \notin {None, o}
    /\ Cardinality({i \in LogIndex : logs[i].kind = "Transfer"}) < MaxTransfers
    /\ tokenOwner' = [tokenOwner EXCEPT ![t] = o]
    /\ Mine([kind |-> "Transfer", token |-> t, agent |-> None, owner |-> o,
             block |-> height + 1])

(* A block without an event of the registry. *)
EmptyBlock ==
    /\ height < MaxHeight
    /\ height' = height + 1
    /\ UNCHANGED <<tokenOwner, logs>>

ChainNext ==
    \/ \E t \in Token, o \in Owner, a \in Agent : Register(t, o, a)
    \/ \E t \in Token, o \in Owner : TransferToken(t, o)
    \/ EmptyBlock

=============================================================================
