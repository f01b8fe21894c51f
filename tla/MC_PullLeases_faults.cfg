CONSTANTS
    p1 = p1
    p2 = p2
    p3 = p3
    i1 = i1
    i2 = i2
    d1 = d1
    d2 = d2
    d3 = d3
    Pulls <- MCPulls
    Images <- MCImages
    Digests <- MCDigests
    ImageOf <- MCImageOf
    BlobsOf <- MCBlobsOf
    Faults <- MCFaultsAll
SPECIFICATION Spec
INVARIANT
    LeaseRefersToContent
CHECK_DEADLOCK FALSE
