CONSTANTS
    Clients = {c1, c2}
    NoClient = NoClient
    NoCommit = NoCommit
    NoRequest = NoRequest
    InitialProgram = InitialProgram
    ReloadProgram = ReloadProgram
    Payloads = {p1, bad, garbled}
    AcceptedPayloads = {p1}
    Authors = {a1, a2, a3}
    Undumpable = {a3, garbled}
    Limits = {1, 50}
    MaxTime = 0
    MaxRequests = 3
    MaxCommits = 3
    MaxDeployed = 3
    HotReload = TRUE
    Faults = {"insert", "head", "crash"}

SPECIFICATION FairSpec

INVARIANTS
    DeploymentsBacked
    AnswersAccurate

PROPERTIES
    UsesArchiveAsSpecified
    RequestAnswered

CHECK_DEADLOCK FALSE
