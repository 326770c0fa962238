\* The watcher keeps what it has read, when its store fails, and binds the agent.
SPECIFICATION PreparedFairSpec
CONSTANTS
    Agent = {a1}
    Owner = {o1, o2}
    Token = {t1, t2}
    Key = {k1}
    Call = {c1}
    Nonce = {}
    Session = {s1}
    KycEvent = {"verified"}
    Lapses = {}
    MaxTransfers = 0
    MaxHeight = 3
    MaxCredentials = 0
    confirmations = 1
    MaxDurable = 1
    Faults = {"lock"}
    MaxFailures = 2
    MaxRestarts = 0
    None = None
INVARIANTS
    EvidenceIsKept

    
CHECK_DEADLOCK FALSE
