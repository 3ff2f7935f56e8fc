CONSTANTS
    NoBox = NoBox
    None = None
    MaxPixels = 120
    MinDimension = 5
    FaceMinPixels = 3
    AreaPercent = 10
    Requests = {r1, r2}
    MaxFiles = 2
    MaxLoads = 3
    Photos <- MCPhotos
    Batches <- MCBatches
SPECIFICATION Spec
INVARIANTS
    MeasuredInside
    VerdictIsOwn
    CrowdIgnored
    OneLoad
PROPERTIES
    FailureIsForgotten
    EveryBatchAnswered
CHECK_DEADLOCK FALSE
