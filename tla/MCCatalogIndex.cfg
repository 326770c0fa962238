\* One worker catches up with the merchant; two workers and every edit.
SPECIFICATION MCFairSpec
CONSTANTS
    i1 = i1
    w1 = w1
    Item = {i1, i2}
    Worker = {w1, w2}
    IdempotencyKey = {1, 2, 3}
    Edits = {"product", "text", "hide", "show", "siblings"}
    maxAttempts = 2
    MaxFailures = 1
INVARIANTS
    AloneChangeIsQueued
PROPERTIES
    RevisionsGrow
    AloneIndexCatchesUp
CHECK_DEADLOCK FALSE
