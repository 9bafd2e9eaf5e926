\* Three calls and two orders on each of the controllers.
SPECIFICATION FairSpec
CONSTANTS
    c1 = c1
    c2 = c2
    c3 = c3
    allowedApp = allowedApp
    otherApp = otherApp
    Calls = {c1, c2, c3}
    MaxOrders = 2
    Inputs = {c1, c2}
    Effects = {c1, c2}
    Keyed = {c1, c2}
    Titled = {c2}
    Apps = {allowedApp, otherApp}
    AllowedApps = {allowedApp}
    Openers = {c1, c2}
    Closers = {c3}
    Named <- MCNamed
    Names = {"first", "second"}
INVARIANTS TypeOK OneHelper ReportsAreBacked ContextsAreOwned
PROPERTIES GateKept StopReleases
CHECK_DEADLOCK FALSE
