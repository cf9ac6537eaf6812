\* Two enable-based entitlements deleted together, two reconciles at a time.
CONSTANTS
    c1 = c1
    c2 = c2
    c3 = c3
    CRs = {c1, c2}
    Amount <- Amounts
    Kinds = {FALSE}
    NamesAtCreate = {"empty"}
    MaxConcurrent = 2
    MaxAborts = 0
    MaxFailures = 0
    MaxOthers = 0
SPECIFICATION Spec
INVARIANTS
    NoOrphanedQuota
CHECK_DEADLOCK FALSE
