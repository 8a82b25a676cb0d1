SPECIFICATION Spec
CONSTANTS
    Pictures <- MCPictures
    MaxThreads = 4
    SmallFile = 2
INVARIANTS
    EveryRowByOneThread ThreadsDecodeTheirOwn RowsRestored ImagesFit EndStaysEnd
