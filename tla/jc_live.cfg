SPECIFICATION FairSpec
CONSTANTS
    Apps = {easyrsa, balancer, worker}
    UnitApps = {easyrsa, balancer}
    ExposedApps = {worker}
    CertApp = easyrsa
    BalancerApp = balancer
    Integrations <- MCIntegrations
    NeedsCredential = TRUE
    EndpointWritten = FALSE
    FaultBudget <- DelayFaults
PROPERTIES
    Provisioned
    DeletionCompletes
CHECK_DEADLOCK FALSE
