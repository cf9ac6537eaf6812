\* All kinds, three objects made beside the foreign one, any three events.
CONSTANTS
    Kinds = {"kyma", "cloudfoundry", "subscription", "subaccount", "directory"}
    Allowed = {"edit", "fail", "lost", "blind", "drop", "restart", "loss", "clear"}
    MaxObjects = 4
    MaxEvents = 3
SPECIFICATION FairSpec
INVARIANTS
    DeleteLeavesNothing
    DeletedOnce
PROPERTIES
    ForeignIsSpared
    SpecIsApplied
    DeletionCompletes
CHECK_DEADLOCK FALSE
