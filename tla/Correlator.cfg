SPECIFICATION Spec
CONSTANTS
    r1 = r1
    e1 = e1
    p1 = p1
    RunIds = {r1, r2}
    Pids = {p1, p2}
    Endpoints = {e1, e2}
    Protos = {"tcp", "other"}
    Instants = {1, 2, 3}
    Flows = {f1, f2}
    CanaryIds = {c1}
    JoinWindow = 1
    NoPid = NoPid
    NoFlow = NoFlow
    BadTs = BadTs
    Bounded <- MCBounded
INVARIANTS NoMissedJoin JoinedPidConnected ConnectsReportedOnce RequestsOfFlowsReported
CHECK_DEADLOCK FALSE
