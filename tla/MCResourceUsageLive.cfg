\* One source, one target name used once, one restart: liveness.
CONSTANTS
    s1 = s1
    t1 = t1
    Sources = {s1}
    Targets = {t1}
    SourceRef <- OneRef
    Ignore = {}
    MaxUID = 1
    MaxRestarts = 1
SPECIFICATION FairSpec
PROPERTIES
    UsageReleasedOrStalled
    TargetDeletionCompletes
CHECK_DEADLOCK FALSE
