CONSTANTS
    Names = {f, g}
    Dests = {x, y}
    Pieces = {p1}
    Handlers = {h1}
    MaxDownloads = 2
    NoFile = NoFile
    NoEntry = NoEntry
    NoData = NoData
SPECIFICATION FairSpec
INVARIANTS TypeOK OneWriterPerPart NothingOutlivesClient
PROPERTIES SentVerified QuitReturns
CHECK_DEADLOCK FALSE
