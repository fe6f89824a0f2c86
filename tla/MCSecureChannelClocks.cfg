CONSTANTS
    Calls = {c1, c2}
    Handlers = {h1, h2, h3}
    Window = 1
    MaxSkew = 2
    MaxTime = 2
SPECIFICATION Spec
SYMMETRY MCSymmetry
INVARIANTS ClocksNeedNotAgree
CHECK_DEADLOCK FALSE
