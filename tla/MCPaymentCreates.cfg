\* Creates under one key and under two.
SPECIFICATION CreateSpec
CONSTANTS
    r1 = r1
    r2 = r2
    r3 = r3
    k1 = k1
    k2 = k2
    g1 = g1
    g2 = g2
    none = none
    Req = {r1, r2, r3}
    Key = {k1, k2}
    Poller = {}
    Amount = 1
    MaxFaults = 2
    Scenario = {"success", "provider_timeout"}
    Menu <- CreateMenus
SYMMETRY Symmetry
INVARIANTS
    TypeOK
    OneRunnerPerKey
    OnePaymentPerKey
    OneChargePerKey
    SameKeySameAnswer
    LinkedToOwnCharge
CHECK_DEADLOCK FALSE
