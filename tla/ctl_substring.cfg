SPECIFICATION Spec
CONSTANTS
    short = short
    long = long
    namesake = namesake
    a = a
    ab = ab
    Clusters = {short, long, namesake}
    Names = {a, ab}
    Name <- MCName
    Found <- MCFound
    Nobody = Nobody
    MaxCreations <- MCCreations
    MaxFaults = 0
PROPERTY OnlyItsOwn
CHECK_DEADLOCK FALSE
