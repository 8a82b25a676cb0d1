SPECIFICATION FairSpec
CONSTANTS
    N = 2
    BlockLen <- Scaled
    Files <- MCFiles
    Plans <- MCPlans
    SliceSizes = {1, 4, 20}
    ReadSize = 2
    ResultSize = 2
INVARIANTS
    ResultsInOrder BlocksIntact PendingIsUnread VerdictJustified
PROPERTY
    CallReturns
