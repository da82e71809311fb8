SPECIFICATION Spec
CONSTANTS
    Generations = 2
    MaxFaults = 1
    MaxCrashes = 1
INVARIANTS OneGeneration NeverBackwards MarkersExclude MutationsAudited
PROPERTIES RequestKept Thaws
CHECK_DEADLOCK FALSE
