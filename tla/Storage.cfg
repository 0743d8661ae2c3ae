SPECIFICATION Spec
CONSTANTS
    MaxBytes = 1
    MaxPages = 1
    N = 3
    Uploading = {3}
    Batch = 2
    Stuck = {1}
    QuarantineDays = 1
    RetentionDays = 2
    GraceDays = 0
CHECK_DEADLOCK FALSE
INVARIANTS
    AcceptedUploadIsStored
    StoredFileIsWhole
    CompletedContentIsKept
PROPERTIES
    ContentGoesInTheEnd
    ExpiredDocumentsGo
