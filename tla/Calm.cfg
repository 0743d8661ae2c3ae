SPECIFICATION CalmSpec
CONSTANTS
    Jobs = {j1}
    Messages = {m1, m2}
    Workers = {w1, w2}
    Requests = {r1, r2}
    Deletions = {}
    RedriveMax = 2
    MaxAttempts = 3
    NoJob = NoJob
    NoMessage = NoMessage
    NoPages = NoPages
CHECK_DEADLOCK FALSE
PROPERTIES
    DispatchedJobSettles
    WorkersComeBack
