\* Two entitlements of either kind, one reconcile at a time.
CONSTANTS
    c1 = c1
    c2 = c2
    c3 = c3
    CRs = {c1, c2}
    Amount <- Amounts
    Kinds = {TRUE, FALSE}
    NamesAtCreate = {"empty", "legacy", "current"}
    MaxConcurrent = 1
    MaxAborts = 1
    MaxFailures = 1
    MaxOthers = 1
SPECIFICATION Spec
INVARIANTS
    TypeOK
    NoOrphanedQuota
CHECK_DEADLOCK FALSE
