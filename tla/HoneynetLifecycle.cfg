SPECIFICATION FairLifecycleSpec
CONSTANTS
    MaxStarts = 2
    MaxPolls = 2
INVARIANTS LeftoversAreNew NewDirectoryNewCA
PROPERTIES StartEnds
CHECK_DEADLOCK FALSE
