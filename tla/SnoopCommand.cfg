SPECIFICATION FairSpec
CONSTANTS
    MaxLayout = 2
    Numbers = {"0", "12"}
    Zeros = {"0"}
    Telling = {"EPERM"}
    CommandLines <- MCLines
    Variables <- MCVariables
    Bounded <- MCBounded
    RingSize = 2
    MaxItems = 3
INVARIANTS ConfigIsLastSaid SkippedMeansRefused ReadyMeansAttached EmbeddedFitsBuild SilentSensorIsStale
PROPERTIES SelfTestEnds
CHECK_DEADLOCK FALSE
