CONSTANTS
    Clients = {c1, c2}
    NoClient = NoClient
    NoCommit = NoCommit
    Payloads = {p1}
    Authors = {a1}
    MaxTime = 2
    MaxCommits = 3
    MaxDeployed = 1
    Faults = {"insert", "head", "read", "crash"}

SPECIFICATION Spec

INVARIANTS
    LinearHistory
    ReturnedCommitStored
    ListedLinked
    NoneListedEarly
