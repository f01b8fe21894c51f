CONSTANTS
    Chunks = 2
    Faults <- MCFaults
    ImportFaults <- MCImportFaults
    Modes <- MCModesAll
    Inputs = {"Gzip", "Xz", "None"}
SPECIFICATION ImportSpec
INVARIANT
    ImportOKComplete
PROPERTIES
    ReleaseKeepsImageContent
    ImportReturns
CHECK_DEADLOCK FALSE
