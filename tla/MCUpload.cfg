CONSTANTS
    Requests = {r1, r2}
    Owners = {o1, o2}
    Instances = {i1}
    NBands = 4
    Per = 2
    MaxDistance = 5
    Photos <- MCPhotos
    Batches <- SomeTwins
    Unusable <- MCUnusable
    Oversized <- MCOversized
    MaxFiles = 2
    TooHeavy <- MCTooHeavy
    Misfielded <- MCMisfielded
    Near <- MCNear
    ShareBand <- MCShareBand
    ImageKit = TRUE
    Favoured = {o1}
    None = None
SPECIFICATION Spec
INVARIANTS
    NoTwins
    DuplicateHasOriginal
    EveryPhotoKept
    CorpusIsCurrent
    NearPairsSpread
PROPERTIES
    OwnersIndependent
    ImplementsPhotoSet
CHECK_DEADLOCK FALSE
