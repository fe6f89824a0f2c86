CONSTANTS
    Lines <- MCLines
    Listings <- MCListings
    PieceSize = 4
    HashLength = 2
    KeyLength = 2
    Word = 256
    MaxPort = 6
    None = None
    Refused = Refused
SPECIFICATION Spec
INVARIANTS CommandArrives LocateReturnsListing
CHECK_DEADLOCK FALSE
