\* Events lost, two faults, one client that polls.
SPECIFICATION FairSpec
CONSTANTS
    r1 = r1
    r2 = r2
    r3 = r3
    k1 = k1
    k2 = k2
    g1 = g1
    g2 = g2
    none = none
    Req = {r1, r2}
    Key = {k1}
    Poller = {g1}
    Amount = 1
    MaxFaults = 2
    Scenario = {"success", "declined", "requires_3ds", "processing_then_success", "processing_then_declined", "out_of_order_webhooks"}
    Menu <- SettleMenu
PROPERTIES
    OutcomeIsLearned
CHECK_DEADLOCK FALSE
