CONSTANTS
    None = None
    ui = ui
    diagnostics = diagnostics
    Clients = {ui, diagnostics}
    Daemons = {d1, d2}
    Asks <- Buttons
    Faults = {"spawn", "create", "duplicate", "token", "handler", "crash"}
SPECIFICATION Spec
INVARIANTS
    OneRequestInService
    AtMostOnce
    ReplyTellsTruth
PROPERTIES
    RequestAnswered
CHECK_DEADLOCK TRUE
