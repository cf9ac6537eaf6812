\* One source, one target name used twice, no restart.
CONSTANTS
    s1 = s1
    t1 = t1
    Sources = {s1}
    Targets = {t1}
    SourceRef <- OneRef
    Ignore = {}
    MaxUID = 2
    MaxRestarts = 0
SPECIFICATION Spec
INVARIANTS
    TypeOK
    EstablishedUsageProtects
PROPERTIES
    FinalizerOutlivesTarget
    ProtectionIsStable
CHECK_DEADLOCK FALSE
