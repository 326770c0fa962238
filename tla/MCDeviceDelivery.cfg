\* Three polls on two instances whose keys differ, and a crash.
SPECIFICATION DeliveryFairSpec
CONSTANTS
    i1 = i1
    i2 = i2
    old = old
    new = new
    r1 = r1
    r2 = r2
    r3 = r3
    r4 = r4
    Instance = {i1, i2}
    Kid = {old, new}
    kid <- TwoKeys
    Request = {r1, r2, r3, r4}
    Poll = {r1, r2, r3}
    at <- Places
    MaxCrashes = 1
INVARIANTS
    DeliveredOnce
PROPERTIES
    RequestsEnd
CHECK_DEADLOCK FALSE
