\* Synthetic benchmarks of up to four trials: what an improvement is claimed to mean.
SPECIFICATION MCSpec
CONSTANTS
    None = None
    Trials = 1
    FixtureTrials = 4
    Outcomes <- OutcomesSpread
    Gaps = {20}
    MaxFrames = 1
    Warmup = 0
    Pids = {game}
    Target = game
    Faults = {}
INVARIANT
    ImprovementIsSignificant
