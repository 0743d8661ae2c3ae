SPECIFICATION Spec
CONSTANTS
    Visibility = 3
    StaleAfter = 6
    RedriveMax = 5
    MaxAttempts = 4
    BaseDelay = 1
    MaxDelay = 4
    MaxCrashes = 3
CHECK_DEADLOCK FALSE
PROPERTY TimelyClaimIsRecovered
