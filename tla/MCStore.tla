------------------------------ MODULE MCStore ------------------------------
(* Small instances of CasStore and of DpopReplay.  The versioned row and    *)
(* the replay records share no state (the records have a table of their     *)
(* own): a behaviour moves one or the other.                                *)
EXTENDS CasStore, DpopReplay, TLC

CONSTANTS i1, i2, o1, o2, o3, o4, p1, p2

(* Two operations queue on each of two instances. *)
Places == o1 :> i1 @@ o2 :> i1 @@ o3 :> i2 @@ o4 :> i2

(* A proof of the moment the clock starts and one from the future. *)
ProofTimes == p1 :> 1 @@ p2 :> 3

Symmetry == Permutations(Request)

MCInit == Init /\ DpopInit

MCNext ==
    \/ Next /\ DpopInit /\ UNCHANGED dpopVars
    \/ DpopNext /\ Init /\ UNCHANGED vars

MCSpec == MCInit /\ [][MCNext]_<<vars, dpopVars>>

=============================================================================
