\* Steps of an apply may fail, and nothing else.
SPECIFICATION TypicalSpec
CONSTANTS
    daemon = daemon
    supervisor = supervisor
    cli = cli
    speakers = speakers
    headset = headset
    balanced = balanced
    ultimate = ultimate
    high = high
    Actors = {daemon}
    Endpoints = {speakers}
    Schemes = {balanced, ultimate, high}
    Ultimate = ultimate
    HighPerformance = high
    Laptop = FALSE
    Exclusive = TRUE
    Faults = {"apply"}
INVARIANT
    AppliedAsAWhole
