\* Sessions of one manager while other programs use the kernel logger.
SPECIFICATION Spec
CONSTANTS
    Samples <- SamplesSeen
    DriverLists <- ListsSeen
    ImageSize = 5
    Capacity = 2
    MaxWarnings = 2
    MaxSamples = 3
    Faults = {"elevation", "start", "open", "process", "other"}
INVARIANTS
    ReportIsCoherent
    MonitorHoldsTheLatest
    OriginIsDeclared
    LoggerLeftOnlyAfterFailure
PROPERTY
    SessionEndsInReport
