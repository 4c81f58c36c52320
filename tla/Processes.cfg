\* Purges, launches and relaunches; services paused and resumed.
SPECIFICATION MCSpec
CONSTANTS
    None = None
    Pids = {5, 6, 7}
    Programs = {"explorer.exe", "discord.exe"}
    Machines <- MachinesSeen
    Firmware <- FirmwareSeen
    Events = 1
    Faults = {"open", "path", "survive", "token", "spawn", "moved"}
    Services = {"SysMain", "Spooler"}
    ServiceFaults = {"control", "start"}
INVARIANTS
    RelaunchForgetsNobody
    OneStartPerProcess
    DeescalatedWhenPossible
    PinnedToFastCores
PROPERTY
    ResumeReachesEveryService
CHECK_DEADLOCK FALSE
