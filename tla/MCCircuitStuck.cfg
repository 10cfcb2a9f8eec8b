CONSTANTS
    Caller = {c1, c2}
    Window = 2
    MinSamples = 2
    OpenTicks = 2
    StoreTicks = 3
    None = None
SPECIFICATION FairSpec
PROPERTY OpensForAFixedTime
CHECK_DEADLOCK FALSE
