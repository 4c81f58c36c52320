\* Overlapping recoveries that may die, applies that fail part-way.
SPECIFICATION Spec
CONSTANTS
    daemon = daemon
    supervisor = supervisor
    cli = cli
    speakers = speakers
    headset = headset
    balanced = balanced
    ultimate = ultimate
    high = high
    Actors = {daemon, supervisor}
    Endpoints = {speakers, headset}
    Schemes = {balanced, ultimate, high}
    Ultimate = ultimate
    HighPerformance = high
    Laptop = FALSE
    Exclusive = TRUE
    Faults = {"apply", "remove", "crashRollback"}
INVARIANTS
    TypeOK
    BaselineWhenClean
    RecordRestoresBaseline
PROPERTY
    ImplementsTransaction
