\* Three bindings and any two events.
CONSTANTS
    Allowed = {"edit", "drop", "lost", "refuse", "cut", "loss", "restart", "clear", "stale"}
    MaxBindings = 3
    MaxEvents = 2
SPECIFICATION FairSpec
INVARIANTS
    EveryBindingIsTracked
    DeleteLeavesRotated
    SecretWorks
PROPERTIES
    MadeWhenNeeded
    RotationCompletes
CHECK_DEADLOCK FALSE
