SPECIFICATION Spec
CONSTANTS
    Headers <- MCHeaders
    Scans <- MCScans
    MaxRuns = {1, 3}
    Last63 = 4
    MaxZeros = 1
    MaxSize = 2
    Half = 4
    BlockInputs <- MCBlockInputs
    Runs = 3
    Sizes = 3
    MaxLen = 5
    PeekBits = 2
    Segments <- MCSegments
    NumQ = 2
    LastBand = 2
    HalfI16 = 16
    DcValues <- MCDcValues
    AcValues <- MCAcValues
    JpegFiles <- MCJpegFiles
    RegBytes = 3
    BufSizes = {1, 4, 16}
    LiteralLens = {1, 5, 11}
    CodeLens = {2, 7, 10}
    MaxPastEof = 2
    Files <- MCFiles
INVARIANTS
    RowsRestartInStep EveryBlockOnce HandoffsAtRows
    PositionsAgree Rewritten NoSpuriousRefusal
    RebuildsFile ScanRebuilt
PROPERTY MarkerOnlyWhenReached
