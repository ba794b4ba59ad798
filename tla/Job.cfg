CONSTANTS
    j1 = j1
    c1 = c1
    c2 = c2
    v1 = v1
    Jobs <- OneJob
    Clients <- TwoClients
    Viewers <- OneViewer
    MaxFaults = 1
    WatchErrors = TRUE
SPECIFICATION FairSpec
INVARIANTS TypeOK RunningJobRecorded DeletedForGood SavedHistoryWhole
CHECK_DEADLOCK FALSE
PROPERTIES EventsGetSaved StreamEnds
