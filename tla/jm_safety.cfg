SPECIFICATION Spec
CONSTANTS
    None = None
    Objects = {o1}
    Apps = {a1, a2}
    MachineIDs = {m1, m2}
    UseJujuProviderID = {o1}
    LatePrerequisites = {}
    LateBootstrap = {}
    FaultBudget <- AllFaults
INVARIANTS
    TypeOK
    OneUnitPerApp
    NoOrphan
    ProviderIDsMatch
    ReadyHasProviderID
    NoPanic
PROPERTIES
    AcquiresUnderFinalizer
    FinalizerGuards
    ReadyWhenServing
SYMMETRY Symmetry
CHECK_DEADLOCK FALSE
