\* From enrollment to binding, access of a bound agent, change of hands.
SPECIFICATION MCSpec
CONSTANTS
    Agent = {a1}
    Owner = {o1, o2}
    Token = {t1, t2}
    Key = {k1, k2}
    Call = {c1, c2}
    Nonce = {n1}
    Session = {s1, s2}
    KycEvent = {"verified", "rejected"}
    Lapses = {"credential", "nonce", "pairing", "kyc"}
    MaxTransfers = 2
    MaxHeight = 3
    MaxCredentials = 2
    confirmations = 1
    MaxDurable = 1
    Faults = {"owner"}
    MaxFailures = 1
    MaxRestarts = 1
    None = None
SYMMETRY Symmetry
INVARIANTS
    AgentIdIsEvidenced
    OneActiveCredential
    NonceYieldsToken
    KeyIsApproved
    
CHECK_DEADLOCK FALSE
