\* One operation at a time; files fail, actors die.
SPECIFICATION Spec
CONSTANTS
    daemon = daemon
    cli = cli
    default = default
    custom = custom
    balanced = balanced
    ultimate = ultimate
    k1 = k1
    k2 = k2
    k3 = k3
    k4 = k4
    Actors = {daemon, cli}
    Savers = {cli}
    Paths = {default}
    Schemes = {balanced, ultimate}
    Keys = {k1, k2}
    Junk = Junk
    NoKey = NoKey
    BadKey = BadKey
    Serial = TRUE
    Faults = {"capture", "io", "crash"}
INVARIANTS
    TypeOK
    SnapshotVerifiable
PROPERTY
    SnapshotKeptUntilRestored
