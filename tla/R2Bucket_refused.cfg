SPECIFICATION Spec
CONSTANTS
    Keys = {k1}
    Blobs = {b1, b2, b3}
    Uploads = {u1}
    PartNumbers = {1, 2}
    Sizes = {2}
    MinPartSize = 2
    Selections <- MCSelections
    MaxSelected = 2
    Readers = {r1}
    NoKey = NoKey
    RetainDeleted = FALSE
SYMMETRY Symmetry
INVARIANTS
    RefusedPutsAreCollected
