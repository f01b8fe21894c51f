CONSTANTS
    h1 = h1
    h2 = h2
    h3 = h3
    s1 = s1
    c1 = c1
    c2 = c2
    k1 = k1
    k2 = k2
    NoKey = NoKey
    Helpers <- MCHelpers
    Silent <- MCSilent
    Containers <- MCContainers
    Keys <- MCKeys
    Target <- MCTarget
    KeyOf <- MCKeyOf
    Backlog = 2
    MaxGen = 2
    ShortReads = FALSE

SPECIFICATION FairSpec

INVARIANT TypeOK
INVARIANT SuccessMeansKeyApplied
INVARIANT FailureMeansNotApplied
INVARIANT KeyBelongsToIncarnation

 
PROPERTY HelperTerminates
PROPERTY AcceptLoopStops

CHECK_DEADLOCK FALSE
