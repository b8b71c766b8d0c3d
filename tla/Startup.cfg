SPECIFICATION Spec
CONSTANTS
    Kinds <- StoppedKinds
    MaxTransports = 2
    LateKinds <- CancelledKinds
INVARIANTS NativeHasRef NothingLeft TunOutlivesTun2Socks ConnectedIsComplete FailedStartStopsProxy
PROPERTY StopsFrontFirst
CHECK_DEADLOCK FALSE
