CONSTANTS
    Clients = {c1, c2}
    NoClient = NoClient
    NoCommit = NoCommit
    NoRequest = NoRequest
    InitialProgram = InitialProgram
    ReloadProgram = ReloadProgram
    Payloads = {p1, p2, bad}
    AcceptedPayloads = {p1, p2}
    Authors = {a1}
    Undumpable = {}
    Limits = {1, 50}
    MaxTime = 1
    MaxRequests = 2
    MaxCommits = 2
    MaxDeployed = 2
    HotReload = FALSE
    Faults = {}

SPECIFICATION Spec

INVARIANTS
    LatestDeploymentRuns

CHECK_DEADLOCK FALSE
