SPECIFICATION Spec
CONSTANTS
    p1 = p1
    p2 = p2
    p3 = p3
    Pids = {p1, p2, p3}
    Null = Null
    Zero = Zero
    Instants = {1, 2}
    Bounded <- MCBounded
INVARIANTS ChainsComplete NoProcessTwice ChainsSound
PROPERTIES AnalysisEnds
CHECK_DEADLOCK FALSE
