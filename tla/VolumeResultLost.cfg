SPECIFICATION Spec
CONSTANTS
    VolumeConfigs = {"disk1", "disk2"}
    Jobs <- StoredVolumeJobs
    Components <- ComponentsOf
    Received <- AsReceived
    Loaded <- AsLoaded
    Translate <- ToArgo
    MaxDeletes = 1
    MaxDepth = 5
INVARIANT
    RoundTripWhole
