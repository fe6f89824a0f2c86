CONSTANTS
    Users = {u1, u2}
    Passwords = {pw}
    Sessions = {s1, s2}
    Groups = {g1}
    Files = {f1}
    Contents = {c1}
    Peers = {me, p1}
    Times = {0}
    Lifetime = 300
    NoUser = NoUser
    NoPassword = NoPassword
    NoSession = NoSession
    NoContent = NoContent
    NoPeer = NoPeer
    self = me
    Threads = {t1}
    MaxLate = 1
SPECIFICATION Spec
SYMMETRY MCSymmetry
VIEW MCView
INVARIANTS TypeOK ListedOnOwnSession ListedIsServed
