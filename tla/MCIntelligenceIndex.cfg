SPECIFICATION Spec
CONSTANTS
    Day = 3
    RefreshInterval = 1
    FailureRetry = 1
    Fallback = 2
    MaxAttempts = 2
    MaxPages = 2
    Limit = 4
    Editions <- MCEditions
    Pages <- MCPages
    Version <- MCVersion
    Rows <- MCRows
INVARIANTS TypeOK ReserveCovers OneSnapshot CacheKept RetryAfterKept
PROPERTIES Refreshes
