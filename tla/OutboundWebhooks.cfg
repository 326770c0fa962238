\* Overlapping loops, deactivated endpoints and a crash.
SPECIFICATION WebhookFairSpec
CONSTANTS
    Endpoint = {e1, e2}
    Loop = {l1, l2}
    MaxCrashes = 1
    MaxRows = 4
INVARIANTS
    DeliveredWasAcknowledged

    
CHECK_DEADLOCK FALSE
