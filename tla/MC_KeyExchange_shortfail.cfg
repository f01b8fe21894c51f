CONSTANTS
    h1 = h1
    h2 = h2
    h3 = h3
    s1 = s1
    c1 = c1
    c2 = c2
    k1 = k1
    k2 = k2
    NoKey = NoKey
    Helpers <- MCHelpers
    Silent <- MCSilent
    Containers <- MCContainers
    Keys <- MCKeys
    Target <- MCTarget
    KeyOf <- MCKeyOf
    Backlog = 2
    MaxGen = 2
    ShortReads = TRUE

SPECIFICATION FairSpec



CHECK_DEADLOCK FALSE
INVARIANT FailureMeansNotApplied
