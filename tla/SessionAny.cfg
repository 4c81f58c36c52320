\* Every request, overlapping sessions, every failure.
SPECIFICATION Spec
CONSTANTS
    s1 = s1
    s2 = s2
    s3 = s3
    discord = discord
    browser = browser
    None = None
    Supervisors = {s1, s2, s3}
    Apps = {discord}
    Requests = {"launch", "apply", "rollback", "purge", "shutdown"}
    OneSession = FALSE
    Faults = {"purge", "apply", "persist", "restore", "relaunch", "open", "crash"}
INVARIANTS
    TypeOK
    OneUncancelledSupervisor
