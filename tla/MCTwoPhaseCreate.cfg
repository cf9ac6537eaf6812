\* Both kinds, every beginning and any four events.
CONSTANTS
    Kinds = {"ServiceManager", "CloudManagement"}
    Worlds = {"empty", "foreign", "imported", "half"}
    Allowed = {"lost", "drop", "blind", "restart", "late", "loss", "clear"}
    MaxEvents = 4
SPECIFICATION FairSpec
INVARIANTS
    ForeignIsSpared
    DeleteLeavesNothing
PROPERTIES
    RecordedIsKept
    BothAreRecorded
    DeletionCompletes
CHECK_DEADLOCK FALSE
