SPECIFICATION Spec
INVARIANTS
    SplitInside SameSplitAsOriginal GoPortAgrees
