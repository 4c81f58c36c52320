\* One caller that may die inside apply_optimizations.
SPECIFICATION TypicalSpec
CONSTANTS
    daemon = daemon
    supervisor = supervisor
    cli = cli
    speakers = speakers
    headset = headset
    balanced = balanced
    ultimate = ultimate
    high = high
    Actors = {daemon}
    Endpoints = {speakers}
    Schemes = {balanced, ultimate, high}
    Ultimate = ultimate
    HighPerformance = high
    Laptop = FALSE
    Exclusive = TRUE
    Faults = {"crashApply"}
INVARIANT
    BaselineWhenClean
