SPECIFICATION SinkholeSpec
CONSTANTS
    s1 = s1
    s2 = s2
    Bytes = {0, 1, 64, 97, 98}
    Secrets <- MCSecrets
    MatchToken <- MCMatchToken
    Catalog <- MCCatalog
    Datagrams <- MCDatagrams
    Bounded <- MCBounded
    MaxFaults = 2
INVARIANTS RowsAndAnswersAgree DropsOnlyMalformed RowHidesTokens
CHECK_DEADLOCK FALSE
