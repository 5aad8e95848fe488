CONSTANTS
    Sources <- HelperRetries
    MaxIter = 2
    MaxAttempts = 2
    MaxDefCallDepth = 3
SPECIFICATION Spec
INVARIANT CleanupFailureStopsPoll
CHECK_DEADLOCK FALSE
