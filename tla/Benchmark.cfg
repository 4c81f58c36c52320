\* Captures with failing sessions, and the verdict over up to four trials.
SPECIFICATION MCSpec
CONSTANTS
    None = None
    Trials = 2
    FixtureTrials = 4
    Outcomes <- OutcomesSeen
    Gaps = {20, 25, 6000}
    MaxFrames = 2
    Warmup = 0
    Pids = {game, other}
    Target = game
    Faults = {"apply", "start", "open", "process", "stolen"}
INVARIANTS
    FramesBelongToTheirTrial
    StopEndsCapture
    LowsAreOrdered
    RankSumCountsPairs
    ImprovementIsSeparation
PROPERTY
    BenchmarkEnds
