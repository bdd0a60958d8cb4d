SPECIFICATION Spec
CONSTANTS
    Apps = {easyrsa, balancer}
    UnitApps = {easyrsa, balancer}
    ExposedApps = {easyrsa, balancer}
    CertApp = easyrsa
    BalancerApp = balancer
    Integrations <- MCIntegrations
    NeedsCredential = TRUE
    EndpointWritten = FALSE
    FaultBudget <- AllFaults
INVARIANTS
    TypeOK
    RegistrationValid
    NoPanic
    NeverForgotten
    AsSpecified
PROPERTIES
    BuildsUnderFinalizer
    ReadyWhenComplete
    ReleasesAll
    EmptiedFirst
    OneController
    ImplementsLifecycle
CONSTRAINT FewFaults
CHECK_DEADLOCK FALSE
