CONSTANTS
    j1 = j1
    c1 = c1
    c2 = c2
    v1 = v1
    Jobs <- OneJob
    Clients <- OneClient
    Viewers <- NoViewer
    MaxFaults = 0
    WatchErrors = TRUE
SPECIFICATION Spec
INVARIANTS SaverNeverPanics
CHECK_DEADLOCK FALSE
