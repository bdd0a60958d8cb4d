SPECIFICATION FairSpec
CONSTANTS
    easyrsa = easyrsa
    worker = worker
    cni = cni
    storage = storage
    DefaultOrder <- MCOrder
    Additional = {cni, storage}
    DefaultIntegrations <- MCDefaultIntegrations
    Requirers <- MCRequirers
    Providers <- MCProviders
    Manifests <- MCManifests
    MaxFaults = 1
INVARIANTS
    TypeOK
    NoPanic
    SettledAsAsked
PROPERTIES
    SoundOnesDeployed
    Settles
CHECK_DEADLOCK FALSE
