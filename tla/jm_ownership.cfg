SPECIFICATION Spec
CONSTANTS
    None = None
    Objects = {o1, o2}
    Apps = {a1}
    MachineIDs = {m1, m2}
    UseJujuProviderID = {o1}
    LatePrerequisites = {}
    LateBootstrap = {}
    FaultBudget <- OwnershipFaults
PROPERTIES
    ImplementsOwnership
SYMMETRY Symmetry
CHECK_DEADLOCK FALSE
