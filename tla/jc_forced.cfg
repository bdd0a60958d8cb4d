SPECIFICATION Spec
CONSTANTS
    Apps = {easyrsa, balancer}
    UnitApps = {easyrsa, balancer}
    ExposedApps = {}
    CertApp = easyrsa
    BalancerApp = balancer
    Integrations <- MCIntegrations
    NeedsCredential = FALSE
    EndpointWritten = FALSE
    FaultBudget <- NoFaults
PROPERTIES
    ForcedOnlyInError
CHECK_DEADLOCK FALSE
