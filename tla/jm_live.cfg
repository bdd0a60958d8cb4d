SPECIFICATION FairSpec
CONSTANTS
    None = None
    Objects = {o1}
    Apps = {a1}
    MachineIDs = {m1, m2, m3}
    UseJujuProviderID = {o1}
    LatePrerequisites = {"cluster", "infrastructureReady", "model", "kubeconfig"}
    LateBootstrap = {o1}
    FaultBudget <- LiveFaults
PROPERTIES
    Provisioned
    DeletionCompletes
CHECK_DEADLOCK FALSE
