\* Apply, apply again, roll back: no failure at all.
SPECIFICATION TypicalSpec
CONSTANTS
    daemon = daemon
    supervisor = supervisor
    cli = cli
    speakers = speakers
    headset = headset
    balanced = balanced
    ultimate = ultimate
    high = high
    Actors = {daemon}
    Endpoints = {speakers}
    Schemes = {balanced, ultimate, high}
    Ultimate = ultimate
    HighPerformance = high
    Laptop = FALSE
    Exclusive = FALSE
    Faults = {}
INVARIANT
    BaselineWhenClean
