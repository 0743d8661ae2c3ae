SPECIFICATION Spec
CONSTANTS
    Visibility = 4
    StaleAfter = 120
    RedriveMax = 4
    MaxAttempts = 4
    BaseDelay = 1
    MaxDelay = 30
    MaxCrashes = 1
CHECK_DEADLOCK FALSE
PROPERTY StaleClaimIsRecovered
