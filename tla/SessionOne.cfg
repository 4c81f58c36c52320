\* Sessions that follow each other, with cancellations and crashes.
SPECIFICATION FairSpec
CONSTANTS
    s1 = s1
    s2 = s2
    s3 = s3
    discord = discord
    browser = browser
    None = None
    Supervisors = {s1, s2}
    Apps = {discord, browser}
    Requests = {"launch", "rollback", "shutdown"}
    OneSession = TRUE
    Faults = {"open", "crash"}
INVARIANTS
    TunedWhilePlaying
PROPERTIES
    ExitRestores
    CancelledSupervisorEnds
