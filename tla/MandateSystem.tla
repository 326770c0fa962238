--------------------------- MODULE MandateSystem ---------------------------
(***************************************************************************)
(* Autonomous closing of mandates: createAutonomousClosedMandates          *)
(* (src/src/mandates/autonomy.ts) over the registry and the trusted        *)
(* surface (OpenMandates) and the policy ledger (PolicyLedger).            *)
(*                                                                         *)
(* A call reads the two open mandates and the clock, awaits the agent's    *)
(* key, the checkout's verification and the trust verifier, reserves with  *)
(* the clock it read first, has both closed mandates signed and verified,  *)
(* and releases its reservation when that fails.  Mandates are not read    *)
(* again after the first step.                                             *)
(***************************************************************************)
EXTENDS OpenMandates, PolicyLedger

CONSTANTS
    Call,             \* concurrent calls of createAutonomousClosedMandates
    transactionId,    \* [Call -> Transaction]
    openCheckout,     \* [Call -> Mandate]
    openPayment       \* [Call -> Mandate]

ASSUME CallAssumption ==
    /\ transactionId \in [Call -> Transaction]
    /\ openCheckout \in [Call -> Mandate]
    /\ openPayment \in [Call -> Mandate]
    /\ LedgerMandate = Mandate

VARIABLE
    call   \* [Call -> [pc, now]]

vars == <<registryVars, kya, clock, ledgerVars, call>>

TypeOK ==
    /\ MandatesTypeOK
    /\ LedgerTypeOK
    /\ call \in [Call -> [pc : {"idle", "loaded", "reserved", "releasing",
                                "closed", "rejected"},
                          now : Nat]]

Init ==
    /\ MandatesInit
    /\ LedgerInit
    /\ call = [c \in Call |-> [pc |-> "idle", now |-> 0]]

Goto(c, pc) == call' = [call EXCEPT ![c].pc = pc]

MandatesOf(c) == {openCheckout[c], openPayment[c]}

(* Both mandates are read in one go, before the first await. *)
CloseLoad(c) ==
    /\ call[c].pc = "idle"
    /\ \A m \in MandatesOf(c) : AuthorizedActive(m, clock)
    /\ call' = [call EXCEPT ![c] = [pc |-> "loaded", now |-> clock]]
    /\ UNCHANGED <<registryVars, kya, clock, ledgerVars>>

(* Key, checkout, trust or policy evaluation refuse the call. *)
CloseRefuse(c) ==
    /\ call[c].pc = "loaded"
    /\ Goto(c, "rejected")
    /\ UNCHANGED <<registryVars, kya, clock, ledgerVars>>

ReserveFor(c) ==
    Reserve(openCheckout[c], openPayment[c], transactionId[c], call[c].now)

CloseReserve(c) ==
    /\ call[c].pc = "loaded"
    /\ ReserveFor(c)
    /\ Goto(c, "reserved")
    /\ UNCHANGED <<registryVars, kya, clock>>

\* Deviation (mutant): reserve inside the try block, whose catch releases.
CloseReserveRefusedReleases(c) ==
    /\ call[c].pc = "loaded"
    /\ ~CanReserve(openCheckout[c], openPayment[c], transactionId[c],
                   call[c].now)
    /\ Goto(c, "releasing")
    /\ UNCHANGED <<registryVars, kya, clock, ledgerVars>>

(* reserve() throws: the call is outside its try block and ends. *)
CloseReserveRefused(c) ==
    /\ call[c].pc = "loaded"
    /\ ~CanReserve(openCheckout[c], openPayment[c], transactionId[c],
                   call[c].now)
    /\ Goto(c, "rejected")
    /\ UNCHANGED <<registryVars, kya, clock, ledgerVars>>

(* The RPC of the durable ledger commits and its answer is lost. *)
CloseReserveLost(c) ==
    /\ durable
    /\ call[c].pc = "loaded"
    /\ ReserveFor(c)
    /\ Goto(c, "rejected")
    /\ UNCHANGED <<registryVars, kya, clock>>

CloseSigned(c) ==
    /\ call[c].pc = "reserved"
    /\ Goto(c, "closed")
    /\ UNCHANGED <<registryVars, kya, clock, ledgerVars>>

(* Signing or the independent verification fails: the catch block. *)
CloseSignFails(c) ==
    /\ call[c].pc = "reserved"
    /\ Goto(c, "releasing")
    /\ UNCHANGED <<registryVars, kya, clock, ledgerVars>>

CloseRelease(c) ==
    /\ call[c].pc = "releasing"
    /\ Release(transactionId[c])
    /\ Goto(c, "rejected")
    /\ UNCHANGED <<registryVars, kya, clock>>

(* The RPC of the durable ledger fails: the reservation stays. *)
CloseReleaseLost(c) ==
    /\ durable
    /\ call[c].pc = "releasing"
    /\ Goto(c, "rejected")
    /\ UNCHANGED <<registryVars, kya, clock, ledgerVars>>

Next ==
    \/ MandatesNext /\ UNCHANGED <<ledgerVars, call>>
    \/ \E c \in Call : \/ CloseLoad(c)
                       \/ CloseRefuse(c)
                       \/ CloseReserve(c)
                       \/ CloseReserveRefused(c)
                       \/ CloseReserveLost(c)
                       \/ CloseSigned(c)
                       \/ CloseSignFails(c)
                       \/ CloseRelease(c)
                       \/ CloseReleaseLost(c)

Spec == Init /\ [][Next]_vars

-----------------------------------------------------------------------------
(* Properties. *)

Closed == {c \in Call : call[c].pc = "closed"}

(* Every closed mandate pair keeps a reservation of its own: no release of  *)
(* another call - one that failed after it, or that was refused because the *)
(* transaction is taken - hands its budget back (reserve outside the try    *)
(* block, release inside the catch).                                        *)
ClosedIsReserved ==
    \A c \in Closed :
        [tx |-> transactionId[c], at |-> call[c].now,
         checkout |-> openCheckout[c], payment |-> openPayment[c]]
            \in reservations

(* At most one pair of mandates is closed for a transaction. *)
OneClosePerTransaction ==
    \A c, d \in Closed : transactionId[c] = transactionId[d] => c = d

(* The user's consent stands behind every closed pair: both open mandates   *)
(* were activated through a spent challenge of their own, and were within   *)
(* their validity at the clock the call runs on.                            *)
ClosedWasApproved ==
    \A c \in Closed : \A m \in MandatesOf(c) :
        /\ mandate[m].proof # None
        /\ challenge[mandate[m].proof].mandate = m
        /\ challenge[mandate[m].proof].state = "consumed"
        /\ Unexpired(m, call[c].now)

=============================================================================
