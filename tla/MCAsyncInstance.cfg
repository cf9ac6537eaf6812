\* Every beginning and any two events.
CONSTANTS
    Worlds = {"empty", "foreign", "imported"}
    Allowed = {"edit", "reject", "lost", "drop", "blind", "restart", "late", "loss", "clear"}
    MaxEvents = 2
SPECIFICATION FairSpec
INVARIANTS
    ForeignIsSpared
    DeleteLeavesNothing
PROPERTIES
    EditsDoNotRelabel
    SpecIsApplied
    DeletionCompletes
CHECK_DEADLOCK FALSE
