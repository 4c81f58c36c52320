\* Sessions whose ProcessTrace may fail: what is left in the kernel.
SPECIFICATION Spec
CONSTANTS
    Samples <- SamplesSeen
    DriverLists <- ListsSeen
    ImageSize = 5
    Capacity = 2
    MaxWarnings = 2
    MaxSamples = 1
    Faults = {"process"}
INVARIANT
    LoggerIsNeverLeft
