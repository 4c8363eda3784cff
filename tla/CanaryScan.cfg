SPECIFICATION Spec
CONSTANTS
    s1 = s1
    s2 = s2
    a = a
    b = b
    Bytes = {a, b}
    Secrets <- MCSecrets
    MatchToken <- MCMatchToken
    Catalog <- MCCatalog
    ChunkSize = 3
    MaxBody = 8
INVARIANTS ScanIsExact
CHECK_DEADLOCK FALSE
