SPECIFICATION ExportsSpec
CONSTANTS
    N = 2
    RetryCount = 2
    MaxRuns = 2
    FaultKinds <- AllFaults
    MaxFaults = 1
    Items = 4
    Skipped <- TheNvram
    VmwareRuns = 3
    Imports <- TwoImports
    VMName <- OwnNames
    Href <- SameVMDK
    OtherFaults = 2
CHECK_DEADLOCK FALSE
INVARIANTS TypeOK NothingLeftUnnoticed ListedInOrder ExportTidiesUp  VMDKsRemoved
PROPERTIES ImplementsContract    
