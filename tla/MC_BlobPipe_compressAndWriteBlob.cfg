CONSTANTS
    Modes = {"compressAndWriteBlob"}
    Chunks = 2
    Faults <- MCFaults
SPECIFICATION Spec
PROPERTY
    BlobWriteSpec
CHECK_DEADLOCK FALSE
