SPECIFICATION Spec
CONSTANTS
    Headers <- NoInputs
    Scans <- NoInputs
    MaxRuns = {1, 3}
    Last63 = 4
    MaxZeros = 1
    MaxSize = 2
    Half = 4
    BlockInputs <- NoInputs
    Runs = 3
    Sizes = 3
    MaxLen = 5
    PeekBits = 2
    Segments <- NoInputs
    NumQ = 2
    LastBand = 2
    HalfI16 = 16
    DcValues <- MCDcValues
    AcValues <- MCAcValues
    JpegFiles <- Redefinitions
    RegBytes = 3
    BufSizes <- NoInputs
    LiteralLens <- NoInputs
    CodeLens <- NoInputs
    MaxPastEof = 0
    Files <- NoInputs
INVARIANT UpdatedTablesRestored
