SPECIFICATION Spec
CONSTANTS
    Keys = {1, 2, 3, 4}
    Prefixed = {1, 2, 4}
    Blobs = {b1, b2, b3}
    NoBlob = NoBlob
    Lifetimes = {0, 1}
    Never = Never
    Limit = 1
    Readers = {r1}
    MaxTime = 2
SYMMETRY Symmetry
INVARIANTS
    IInv
    MissesAreOvertaken
    GarbageIsCollected
    PagesAreComplete
PROPERTIES
    LiveEntriesStay
