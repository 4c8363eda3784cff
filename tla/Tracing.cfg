SPECIFICATION Spec
CONSTANTS
    Top = top
    p1 = p1
    p2 = p2
    Pids = {p1, p2}
    Executables <- MCExecutables
    Comm <- MCComm
    Paths <- MCPaths
    Links <- MCLinks
    CanaryDir <- MCCanaryDir
    SecretNames <- MCSecretNames
    Mount <- MCMount
    CatalogDirs <- MCCatalogDirs
    Bounded <- MCBounded
    PathMax = 5
    RingSize = 2
    MaxEvents = 3
    MaxLives = 3
    MaxThreads = 2
INVARIANTS ProcRowsAreTrueOrLate NoRowAfterTheLastExit CanaryMarksAreExplained
CHECK_DEADLOCK FALSE
