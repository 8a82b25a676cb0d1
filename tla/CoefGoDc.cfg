CONSTANTS
    Inputs <- MCGoInputs
    FlushBytes = 1
    MaxOps = 0
    Contexts <- NoStreams
    Openings <- NoStreams
SPECIFICATION Spec
CHECK_DEADLOCK FALSE

INVARIANT GoDcRestored
