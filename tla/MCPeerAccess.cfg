CONSTANTS
    Users = {u1}
    Groups = {g1}
    Files = {f1}
    Peers = {p1, p2}
    Times <- MCTimes
    Lifetime = 2
    Window = 2
    MaxSkew = 1
    MaxTime = 3
    MaxHeld = 2
    MaxInFlight = 1
    NoPeer = NoPeer
SPECIFICATION Spec
SYMMETRY MCSymmetry
INVARIANTS TypeOK AccessEndsWithMembership ServedByListedSeeder GenuineNotDenied
