\* Three bindings and any two events.
CONSTANTS
    MaxBindings = 3
    Allowed = {"force", "edit", "fault", "loss", "stale"}
    MaxEvents = 2
SPECIFICATION FairSpec
INVARIANTS
    EveryBindingIsTracked
    DeleteLeavesNothing
PROPERTIES
    ForceMeansNewBinding
    RetiredKeysAreKept
    ExpiredKeysGo
    DeletionCompletes
CHECK_DEADLOCK FALSE
