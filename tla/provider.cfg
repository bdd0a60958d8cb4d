SPECIFICATION FairSpecAll
CONSTANTS
    Apps = {easyrsa, worker}
    UnitApps = {easyrsa}
    ExposedApps = {}
    CertApp = easyrsa
    BalancerApp = easyrsa
    Integrations = {}
    NeedsCredential = FALSE
    EndpointWritten = FALSE
    FaultBudget <- CrashFault
    JujuMachines = {o1}
    MachineIDs = {0, 1}
    BootstrapApps = {worker}
    None = None
INVARIANTS
    PanicsOnlyIfEarly
    AsksInTime
PROPERTIES
    MachinesGoneFirst
    NothingLeftInJuju
CHECK_DEADLOCK FALSE
