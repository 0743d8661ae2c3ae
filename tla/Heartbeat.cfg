SPECIFICATION Spec
CONSTANTS
    Visibility = 8
    Interval = 3
    CallTime = 2
    Delay = 3
CHECK_DEADLOCK FALSE
INVARIANT HiddenWhileAttended
PROPERTIES
    WorkerHasTheLastWord
    WorkerRejoins
