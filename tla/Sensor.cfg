SPECIFICATION FairSpec
CONSTANTS
    Threads = {t1, t2}
    Target = {t1}
    Addresses = {a1, a2}
    Local = Local
    Setups = {{"networkLog", "wholeEvents"}, {"wholeEvents"}, {"networkLog"}}
    RingSize = 2
    MaxEntries = 1
    MaxCalls = 2
    MaxMissed = 1
INVARIANTS ConnectsConserved MisreportNeedsUnseenReturn
PROPERTIES EachConnectMovesOnce SensorEnds
CHECK_DEADLOCK FALSE
