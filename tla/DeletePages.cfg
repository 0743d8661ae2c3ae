SPECIFICATION Spec
CONSTANTS
    Jobs = {j1}
    Messages = {m1}
    Workers = {w1}
    Requests = {r1}
    Deletions = {d1}
    RedriveMax = 2
    MaxAttempts = 1
    NoJob = NoJob
    NoMessage = NoMessage
    NoPages = NoPages
SYMMETRY Symmetry
CHECK_DEADLOCK FALSE
INVARIANT DeletionLeavesNoPages
