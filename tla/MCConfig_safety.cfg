SPECIFICATION Spec
CONSTANTS
    Default <- Defaults
    IniGate <- IniGates
    UserGate <- UserGates
    InitOrder <- init_order
    ShutdownOrder <- shutdown_order
    IniFiles <- ini_files
    Security = "security"
    Handle = {h1}
    MaxWork = 4
INVARIANTS
    
    SaneSettings
PROPERTIES
    PolicyHolds
ACTION_CONSTRAINT
    Explored
CHECK_DEADLOCK FALSE
