CONSTANTS
    c1 = c1
    c2 = c2
    w1 = w1
    w2 = w2
    Clients <- TwoClients
    Workspaces <- TwoWorkspaces
    Access <- PartAccess
    Kind = "workflow"
    MaxWrites = 3
    SameMillisecond = FALSE
    DeleteLatest = TRUE
    MovingPatch = FALSE
SPECIFICATION Spec
INVARIANTS WorkspaceFixed
PROPERTIES NoLostUpdate
