------------------------------ MODULE CasStore ------------------------------
(***************************************************************************)
(* SupabaseRepository.withLock (src/src/persistence/supabase-repository.ts)*)
(* in several server instances over one versioned row: an operation loads  *)
(* state and version, runs its callback on its copy and writes it back     *)
(* with kya_compare_and_swap_state.  The promise chain of an instance      *)
(* keeps its own operations apart; nothing keeps the instances apart but   *)
(* the version.                                                            *)
(*                                                                         *)
(* The state is the set of operations that it holds the effects of.  A     *)
(* conflict is reported and not retried.  The version an operation expects *)
(* is read off the instance (cachedVersion) as soon as its own load has    *)
(* set it: one step.  With one instance this is also the file repository.  *)
(***************************************************************************)
EXTENDS Integers

CONSTANTS
    Op,
    Instance,
    at    \* [Op -> Instance]: where it runs

ASSUME CasAssumption == at \in [Op -> Instance]

VARIABLES
    version,   \* kya_state.version
    state,     \* kya_state.state
    pc,        \* [Op -> how far it is, in the end what its caller is told]
    expected,  \* [Op -> the version it loaded]
    copy       \* [Op -> the state it loaded]

vars == <<version, state, pc, expected, copy>>

Outcome == {"ok", "refused", "unknown"}

TypeOK ==
    /\ version \in Nat
    /\ state \subseteq Op
    /\ pc \in [Op -> {"waiting", "loaded"} \cup Outcome]
    /\ expected \in [Op -> Nat]
    /\ copy \in [Op -> SUBSET Op]

Init ==
    /\ version = 0
    /\ state = {}
    /\ pc = [o \in Op |-> "waiting"]
    /\ expected = [o \in Op |-> 0]
    /\ copy = [o \in Op |-> {}]

(* The promise chain: the operation before it has ended. *)
ChainFree(i) == \A o \in Op : at[o] = i => pc[o] # "loaded"

Load(o) ==
    /\ pc[o] = "waiting"
    /\ ChainFree(at[o])
    /\ pc' = [pc EXCEPT ![o] = "loaded"]
    /\ expected' = [expected EXCEPT ![o] = version]
    /\ copy' = [copy EXCEPT ![o] = state]
    /\ UNCHANGED <<version, state>>

(* The load fails, the callback throws, or the instance stops before it     *)
(* writes: the chain goes on with the next.                                 *)
Fails(o, told) ==
    /\ pc[o] \in {"waiting", "loaded"}
    /\ pc' = [pc EXCEPT ![o] = told]
    /\ UNCHANGED <<version, state, expected, copy>>

(* kya_compare_and_swap_state, under the row's lock. *)
Matches(o) == expected[o] = version

\* Deviation (mutant): effects are merged into the row, whatever it holds.
SwapMerges(o, told) ==
    /\ pc[o] = "loaded"
    /\ version' = version + 1
    /\ state' = state \cup {o}
    /\ pc' = [pc EXCEPT ![o] = told]
    /\ UNCHANGED <<expected, copy>>

(* The row is written; the answer arrives or is lost.                       *)
Swap(o, told) ==
    /\ pc[o] = "loaded"
    /\ Matches(o)
    /\ version' = version + 1
    /\ state' = copy[o] \cup {o}
    /\ pc' = [pc EXCEPT ![o] = told]
    /\ UNCHANGED <<expected, copy>>

(* Another instance was faster: CAS_CONFLICT.                               *)
Conflict(o) ==
    /\ pc[o] = "loaded"
    /\ ~Matches(o)
    /\ pc' = [pc EXCEPT ![o] = "refused"]
    /\ UNCHANGED <<version, state, expected, copy>>

Next ==
    \E o \in Op :
        \/ Load(o) \/ Conflict(o)
        \/ Fails(o, "refused") \/ Fails(o, "unknown")
        \/ Swap(o, "ok") \/ Swap(o, "unknown")

Spec == Init /\ [][Next]_vars

-----------------------------------------------------------------------------
(* Properties. *)

(* An operation that was answered with success is in the state for good:    *)
(* no other instance writes over it, however their loads and writes         *)
(* interleave; a refused one never is.                                      *)
AnswerHolds ==
    \A o \in Op : /\ pc[o] = "ok" => o \in state
                  /\ pc[o] = "refused" => o \notin state

(* Why: a copy is the state as long as its version is the row's.            *)
CopyIsCurrent ==
    \A o \in Op :
        /\ expected[o] <= version
        /\ pc[o] = "loaded" /\ expected[o] = version => copy[o] = state
        /\ pc[o] \in {"waiting", "loaded", "refused"} => o \notin state
        /\ pc[o] = "ok" => o \in state

(* Every execution is one of the atomic store: an operation takes effect on *)
(* exactly the state its callback has seen.                                 *)
Atomic == INSTANCE AtomicStore WITH
    answer <- [o \in Op |-> IF pc[o] \in Outcome THEN pc[o] ELSE "none"],
    basis  <- [o \in Op |-> IF o \in state THEN copy[o] ELSE {}]

IsAtomic == Atomic!Spec

=============================================================================
