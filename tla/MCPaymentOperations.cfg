\* Captures, cancels and refunds of a payment; webhooks and GETs.
SPECIFICATION OperationSpec
CONSTANTS
    r1 = r1
    r2 = r2
    r3 = r3
    k1 = k1
    k2 = k2
    g1 = g1
    g2 = g2
    none = none
    Req = {r1, r2, r3}
    Key = {k1, k2}
    Poller = {g1}
    Amount = 2
    MaxFaults = 2
    Scenario = {"success", "declined", "requires_3ds", "processing_then_success", "processing_then_declined", "out_of_order_webhooks", "refund_failed"}
    Menu <- OperationMenus
SYMMETRY Symmetry
INVARIANTS
    PlatformNeverAhead
    FinalStatusIsBacked
    ProviderBooksBalance
    
    EventAppliedOnce
PROPERTIES
    WebhookNeverRewinds
CHECK_DEADLOCK FALSE
