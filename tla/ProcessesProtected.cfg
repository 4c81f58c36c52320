\* A purge while the user ends one program and starts another; no other failure.
SPECIFICATION MCSpec
CONSTANTS
    None = None
    Pids = {5}
    Programs = {"explorer.exe", "discord.exe"}
    Machines <- MachinesSeen
    Firmware <- FirmwareSeen
    Events = 2
    Faults = {}
    Services = {"SysMain"}
    ServiceFaults = {}
INVARIANT
    ProtectedNeverTerminated
CHECK_DEADLOCK FALSE
