SPECIFICATION Spec
CONSTANTS
    r1 = r1
    r2 = r2
    r3 = r3
    k1 = k1
    k2 = k2
    g1 = g1
    g2 = g2
    none = none
    Req = {r1, r2, r3}
    Key = {k1, k2}
    Poller = {}
    Amount = 2
    MaxFaults = 1
    Scenario = {"success"}
    Menu <- RefundMenu
SYMMETRY Symmetry
INVARIANTS
    RefundRecordedOnce
CHECK_DEADLOCK FALSE
