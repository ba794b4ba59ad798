CONSTANTS
    c1 = c1
    c2 = c2
    w1 = w1
    w2 = w2
    Clients <- TwoClients
    Workspaces <- OneWorkspace
    Access <- FullAccess
    Kind = "component"
    MaxWrites = 4
    SameMillisecond = FALSE
    DeleteLatest = FALSE
    MovingPatch = FALSE
SPECIFICATION Spec
SYMMETRY ClientSymmetry
INVARIANTS TypeOK VersionsUnique LatestTagOnNewest
PROPERTIES NewVersionIsNext OnlyLatestPatched NoLostUpdate ImplementsHistory
