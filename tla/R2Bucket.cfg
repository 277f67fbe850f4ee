SPECIFICATION Spec
CONSTANTS
    Keys = {k1, k2}
    Blobs = {b1, b2, b3}
    Uploads = {u1, u2}
    PartNumbers = {1, 2}
    Sizes = {1, 2}
    MinPartSize = 2
    Selections <- MCSelections
    MaxSelected = 2
    Readers = {r1}
    NoKey = NoKey
    RetainDeleted = FALSE
SYMMETRY Symmetry
INVARIANTS
    NoSharedBlobs
    ReferencedBlobsSurvive
    ObjectsIntact
    UploadsAndPartsAgree
    GarbageIsCollected
PROPERTIES
    
    InProgressPartsKept
    FinalisedUploadsStay
