SPECIFICATION Spec
CONSTANTS
    Conns = {c1, c2}
    Capacities = {7, 9, 10}
    Starts <- MCStarts
    JoinWindow = 1
    MaxTicks = 3
INVARIANTS DamageIsOneFlowPerBreak JoinNeedsTimelyDrain RenderedTimeTicks
PROPERTIES KeepsWhatItIsHanded
CHECK_DEADLOCK FALSE
