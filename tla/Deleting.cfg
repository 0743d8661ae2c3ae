SPECIFICATION Spec
CONSTANTS
    Jobs = {j1}
    Messages = {m1}
    Workers = {w1, w2}
    Requests = {r1}
    Deletions = {d1, d2}
    RedriveMax = 2
    MaxAttempts = 2
    NoJob = NoJob
    NoMessage = NoMessage
    NoPages = NoPages
SYMMETRY Symmetry
CHECK_DEADLOCK FALSE
INVARIANT DeletionLeavesNoObject
PROPERTIES
    TombstoneTakesNoResult
    ImplementsClaimTickets
