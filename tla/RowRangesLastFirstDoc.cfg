SPECIFICATION Spec
CONSTANTS
    Pictures <- MCLastComponentFirst
    MaxThreads = 4
    SmallFile = 2
INVARIANT EndStaysEnd
