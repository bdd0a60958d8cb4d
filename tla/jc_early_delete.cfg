SPECIFICATION Spec
CONSTANTS
    Apps = {easyrsa, balancer}
    UnitApps = {easyrsa, balancer}
    ExposedApps = {}
    CertApp = easyrsa
    BalancerApp = balancer
    Integrations <- MCIntegrations
    NeedsCredential = FALSE
    EndpointWritten = FALSE
    FaultBudget <- NoFaults
INVARIANTS
    NothingLeft
CHECK_DEADLOCK FALSE
