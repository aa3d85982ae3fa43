SPECIFICATION MCSpec
CONSTANTS
    MaxVersion = 4
    MaxPublished = 3
INVARIANTS
    StaleIsNoticed
    NotModifiedMeansActive
PROPERTIES
    SnapshotIsSafe
    RemoteSnapshotPromise
    UpdatesArrive
