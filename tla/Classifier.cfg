SPECIFICATION ClassifierSpec
CONSTANTS
    r1 = r1
    r2 = r2
    f1 = f1
    f2 = f2
    null = null
    Runs = {r1, r2}
    EgressEvents <- MCEgress
    HttpEvents <- MCHttp
    DnsEvents <- MCDns
    DomainLists <- MCLists
    UrlHost <- MCUrlHost
    AsciiLabel <- MCAscii
    IllegalLabels = {"64 letters"}
    IpLiterals <- MCIps
    LongLabels <- MCLong
    EntropyLabels <- MCEntropy
    Spelled <- MCSpelled
    Nothing = null
    MaxEvents = 3
PROPERTIES VerdictNeverSoftens LookupsConfirmTheirRun
CHECK_DEADLOCK FALSE
