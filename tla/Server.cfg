SPECIFICATION Spec
CONSTANTS
    Files <- MCFiles
    Defaults <- MCDefaults
    M32 = 16
    M64 = 256
    MsPerS = 2
    SPerM = 3
    MPerH = 4
    Hash <- MCHash
    OpenOutcomes = {"opened", "error", "throws"}
    MaxThreads = 3
CHECK_DEADLOCK FALSE
INVARIANTS
    TypeOK
    ConfigAsWritten
    ExitExplains
    ServesComplete
PROPERTIES
    SignalStops
