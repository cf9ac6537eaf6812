\* Two entitlements of either kind reconciled concurrently.
CONSTANTS
    c1 = c1
    c2 = c2
    c3 = c3
    CRs = {c1, c2}
    Amount <- Amounts
    Kinds = {TRUE, FALSE}
    NamesAtCreate = {"empty"}
    MaxConcurrent = 2
    MaxAborts = 0
    MaxFailures = 0
    MaxOthers = 1
SPECIFICATION FairSpec
PROPERTIES
    ForeignAssignmentUntouched
    AggregateConverges
CHECK_DEADLOCK FALSE
