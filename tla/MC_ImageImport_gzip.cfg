CONSTANTS
    Chunks = 4
    Faults <- MCFaults
    ImportFaults <- MCImportFaults
    Modes <- MCModesGzip
    Inputs = {"Gzip"}
SPECIFICATION ImportSpec
PROPERTIES
    BlobWriteSpec
    ImportReturns
CHECK_DEADLOCK FALSE
