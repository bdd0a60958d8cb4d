SPECIFICATION FairSpec
CONSTANTS
    short = short
    long = long
    namesake = namesake
    a = a
    ab = ab
    Clusters = {short, long, namesake}
    Names = {a, ab}
    Name <- MCName
    Found <- MCFound
    Nobody = Nobody
    MaxCreations <- MCCreations
    MaxFaults = 1
INVARIANTS
    BindingOfItsOwn
    NeverShared
    NoPanic
PROPERTIES
    SparesOthers
    Served
    TornDown
CHECK_DEADLOCK FALSE
