SPECIFICATION Spec
CONSTANTS
    Processes = {p1, p2, p3, p4}
    MaxCrashes = 2
    NoFile = NoFile
SYMMETRY Symmetry
INVARIANT MutualExclusion
CHECK_DEADLOCK FALSE
