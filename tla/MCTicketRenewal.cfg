CONSTANTS
    Users = {u1, u2}
    Endpoints = {e1, e2}
    Lifetime = 5
    Margin = 4
    MaxSkew = 1
    Delay = 1
    MaxTime = 6
    MaxStarts = 3
    None = None
SPECIFICATION Spec
SYMMETRY MCSymmetry
INVARIANTS TypeOK
PROPERTIES ListedSeederServes
CHECK_DEADLOCK FALSE
