SPECIFICATION Spec
CONSTANTS
    VolumeConfigs = {"disk1", "disk2"}
    Jobs <- MCJobs
    Components <- ComponentsOf
    Received <- AsReceived
    Loaded <- AsLoaded
    Translate <- ToArgo
    MaxDeletes = 1
    MaxDepth = 5
INVARIANTS
    TypeOK
    MountsFollowWires
    ConnectedVolumesFound
    SecretsFollowWires
    ManifestClosed
    CrashesOnlyOnBadWiring
    ReferencesResolved
    LoadedAsSent
PROPERTIES
    CompileEnds
