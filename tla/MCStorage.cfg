CONSTANTS
    Storages = {a, b}
    Names = {"x", "y"}
    None = None
    DiffsBetweenSnapshots = 2
    Clients <- Sequential
SPECIFICATION Spec
INVARIANT TruncationKeepsVariables
INVARIANT ValidWriterIsCurrent
PROPERTY IsVersionedStore
SYMMETRY StorageSymmetry
CHECK_DEADLOCK FALSE
