\* Three reconciles, a write, three requests.
CONSTANTS
    r1 = r1
    r2 = r2
    r3 = r3
    Reconciles = {r1, r2, r3}
    MaxWrites = 1
    MaxIssues = 3
SPECIFICATION DescribeSpec
SYMMETRY Symmetry
INVARIANTS
    ReadsAreRecent
    StoredAnswersStand
CHECK_DEADLOCK FALSE
