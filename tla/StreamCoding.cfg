CONSTANTS
    Inputs <- MCInputs
    FlushBytes = 1
    MaxOps = 3
    Contexts <- MCContexts
    Openings <- MCOpenings
SPECIFICATION Spec
CHECK_DEADLOCK FALSE
INVARIANTS
    ReaderInStep ValueRestored BranchesExist
    WriterNeverPanics ValueBelowRange DecodesWhatWasCoded
