CONSTANTS
    NPieces = 2
    NSeeders = 2
    Workers = {w1, w2}
    Passes = 2
    MaxRuns = 2
    NoFile = NoFile
SPECIFICATION FairSpec
INVARIANTS TypeOK OneWorkerPerPiece CompleteIsWhole JoinedIsWhole PublishedNeverWrong
           FailsOnlyForCause
PROPERTIES GoodPiecesKept EveryRunEnds
CHECK_DEADLOCK FALSE
