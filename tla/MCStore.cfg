\* Two instances with two operations each; DPoP proofs sent again until
\* their records are gone.
SPECIFICATION MCSpec
CONSTANTS
    i1 = i1
    i2 = i2
    o1 = o1
    o2 = o2
    o3 = o3
    o4 = o4
    Instance = {i1, i2}
    Op = {o1, o2, o3, o4}
    at <- Places
    p1 = p1
    p2 = p2
    Proof = {p1, p2}
    Request = {r1, r2, r3}
    iat <- ProofTimes
    iatSkew = 2
    margin = 3
    maxWait = 1
    drift = 1
    MaxClock = 9
SYMMETRY Symmetry
INVARIANTS
    ProofServedOnce
PROPERTIES
    IsAtomic
CHECK_DEADLOCK FALSE
