CONSTANTS
    Names = {f, g}
    Dests = {x, y}
    Pieces = {p1, p2}
    Handlers = {h1}
    MaxDownloads = 2
    NoFile = NoFile
    NoEntry = NoEntry
    NoData = NoData
SPECIFICATION Spec
SYMMETRY MCSymmetry
INVARIANTS EntryVerified
CHECK_DEADLOCK FALSE
