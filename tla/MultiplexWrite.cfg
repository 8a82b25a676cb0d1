SPECIFICATION FairSpec
CONSTANTS
    N = 3
    Cap = 2
    MaxChunk = 3
    BlockLen <- Scaled
    Plans <- PlanFunctions
INVARIANTS
    OutputIsCarousel OkMeansComplete RealErrorReported
PROPERTY
    CallReturns
