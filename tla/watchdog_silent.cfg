\* One session and its watchdog.
SPECIFICATION FairSpec
CONSTANT MaxCalls = 1
PROPERTY InactivityReturnsToWake
CHECK_DEADLOCK FALSE
