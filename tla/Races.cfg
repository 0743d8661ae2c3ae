SPECIFICATION Spec
CONSTANTS
    Jobs = {j1}
    Messages = {m1, m2}
    Workers = {w1, w2}
    Requests = {r1, r2}
    Deletions = {}
    RedriveMax = 2
    MaxAttempts = 2
    NoJob = NoJob
    NoMessage = NoMessage
    NoPages = NoPages
SYMMETRY Symmetry
CHECK_DEADLOCK FALSE
INVARIANTS
    TypeOK
    ClaimsAreExclusive
    DocumentFollowsJob
    ValidatedKeyIsBacked
    DeadLetterIsEarned
    AcknowledgedWorkIsSaved
    UploadIsNeverLost
PROPERTY SettledJobIsNotClaimed
