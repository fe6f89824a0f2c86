CONSTANTS
    Users = {u1, u2, u3}
    Passwords = {pw}
    Sessions = {s1, s2}
    Groups = {g1, g2}
    Files = {f1}
    Contents = {c1, c2}
    Peers = {p1}
    Times = {0}
    Lifetime = 300
    NoUser = NoUser
    NoPassword = NoPassword
    NoSession = NoSession
    NoContent = NoContent
    NoPeer = NoPeer
SPECIFICATION Spec
SYMMETRY MCSymmetry
INVARIANTS TypeOK SeedersBacked ListedIffSeeded GroupsCoherent
PROPERTIES MetadataFixed OwnerAdmits OnlySelfOrOwnerRemoves SessionsNotTakenOver
           ImplementsAccess
