\* Every interleaving of two callers, every failure.
SPECIFICATION TypicalSpec
CONSTANTS
    daemon = daemon
    supervisor = supervisor
    cli = cli
    speakers = speakers
    headset = headset
    balanced = balanced
    ultimate = ultimate
    high = high
    Actors = {daemon, cli}
    Endpoints = {speakers}
    Schemes = {balanced, ultimate, high}
    Ultimate = ultimate
    HighPerformance = high
    Laptop = TRUE
    Exclusive = FALSE
    Faults = {"query", "apply", "persist", "restore", "remove", "crashApply", "crashRollback"}
INVARIANTS
    NoForeignValues
