---------------------------- MODULE AtomicStore ----------------------------
(***************************************************************************)
(* What the services rely on when they write withLock: an operation takes  *)
(* effect once and in full, on the state it has seen, or not at all; one   *)
(* that is answered with success has taken effect and one that is refused  *)
(* has not.  Only an operation whose answer is lost may be either.         *)
(***************************************************************************)
CONSTANT Op

VARIABLES
    state,    \* the operations that have taken effect
    answer,   \* [Op -> what its caller was told]
    basis     \* [Op -> the state an operation in effect was computed from]

vars == <<state, answer, basis>>

Init ==
    /\ state = {}
    /\ answer = [o \in Op |-> "none"]
    /\ basis = [o \in Op |-> {}]

Apply(o, told) ==
    /\ answer[o] = "none"
    /\ o \notin state
    /\ state' = state \cup {o}
    /\ answer' = [answer EXCEPT ![o] = told]
    /\ basis' = [basis EXCEPT ![o] = state]

Refuse(o, told) ==
    /\ answer[o] = "none"
    /\ answer' = [answer EXCEPT ![o] = told]
    /\ UNCHANGED <<state, basis>>

Next ==
    \E o \in Op :
        \/ Apply(o, "ok") \/ Apply(o, "unknown")
        \/ Refuse(o, "refused") \/ Refuse(o, "unknown")

Spec == Init /\ [][Next]_vars

=============================================================================
