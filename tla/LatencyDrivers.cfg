\* Sessions without failures: the drivers named beside the highest times.
SPECIFICATION Spec
CONSTANTS
    Samples <- SamplesSeen
    DriverLists <- ListsSeen
    ImageSize = 5
    Capacity = 2
    MaxWarnings = 2
    MaxSamples = 2
    Faults = {}
INVARIANT
    HighestDriversRanThem
