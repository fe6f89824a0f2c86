CONSTANTS
    Conns = {c1, c2, c3}
    Header = 2
    MaxFrame = 2
    Rounds = 2
SPECIFICATION FairSpec
INVARIANTS TypeOK NoThreadOutlivesServe
PROPERTIES StopReturns AcceptedIsHandled
CHECK_DEADLOCK FALSE
