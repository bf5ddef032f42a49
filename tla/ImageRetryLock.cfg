SPECIFICATION Spec
CONSTANTS
    Lines <- NoLines
    MaxLines = 1
    SpamMax = 0
    MaxFaults = 0
CHECK_DEADLOCK FALSE
INVARIANTS
    RetryFindsLockFree
