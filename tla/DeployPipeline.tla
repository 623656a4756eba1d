---------------------------- MODULE DeployPipeline ----------------------------
(***************************************************************************)
(* POST /api/deploy and GET /api/history: the handler threads of the HTTP  *)
(* server, between the LogicRuntime whose program they replace and the     *)
(* ConfigArchive that records it.  main() replaces the program once on its *)
(* own, and the process may die and be started again.                      *)
(*                                                                         *)
(* The handler holds no lock from its swap to its last INSERT: two of them *)
(* interleave wherever the archive's mutex lets them.  Log lines are left  *)
(* out (nothing reads them back); the archive is always given, as in main. *)
(***************************************************************************)
EXTENDS Integers, Sequences

CONSTANTS
    Clients, NoClient, Payloads, Authors, NoCommit,   \* see ConfigArchive
    MaxTime, MaxCommits, MaxDeployed, Faults,
    AcceptedPayloads,   \* those from_json accepts
    Undumpable,         \* authors and bodies that are not UTF-8: json::dump throws
    InitialProgram,     \* logic_example.json, loaded by main
    ReloadProgram,      \* logic_example_reload.json, which main swaps in
    HotReload,          \* main gets as far as doing so
    NoRequest,
    Limits,             \* ?limit= of the history requests
    MaxRequests         \* bound: requests received

ASSUME PipelineAssumption ==
    /\ NoClient \notin Clients
    /\ MaxTime \in Nat /\ MaxCommits \in Nat /\ MaxDeployed \in Nat
    /\ Faults \subseteq {"insert", "head", "read", "crash"}
    /\ AcceptedPayloads \subseteq Payloads
    /\ Undumpable \subseteq Authors \cup (Payloads \ AcceptedPayloads)
    /\ {InitialProgram, ReloadProgram} \cap Payloads = {}
    /\ NoRequest \notin [payload : Payloads, author : Authors]
    /\ HotReload \in BOOLEAN
    /\ Limits \subseteq Int
    /\ MaxRequests \in Nat

VARIABLES
    commits, snapshots, deployments, holder, step, draft, listed,
    handler,       \* where each thread is in its handler
    request,       \* the deploy it handles, or handled last
    status,        \* the status of its last response
    current,       \* LogicRuntime::current_
    hotReloaded,   \* main has done its reload
    received       \* requests received (bound)

archiveVars == <<commits, snapshots, deployments, holder, step, draft, listed>>
webVars == <<handler, request, status, received>>
runtimeVars == <<current, hotReloaded>>
vars == <<archiveVars, webVars, runtimeVars>>

Archive == INSTANCE ConfigArchive

\* What ConfigArchive assumes of its null commit.
ASSUME NullCommitAssumption ==
    /\ NoCommit \notin Archive!CommitId
    /\ NoCommit \notin [id : Archive!CommitId, parent : Archive!CommitId \cup {NoCommit}]

Request == [payload : Payloads, author : Authors]

-----------------------------------------------------------------------------

Init ==
    /\ Archive!Init
    /\ handler = [c \in Clients |-> "idle"]
    /\ request = [c \in Clients |-> NoRequest]
    /\ status = [c \in Clients |-> 0]
    /\ current = InitialProgram
    /\ hotReloaded = FALSE
    /\ received = 0

Receive(c, what, first) ==
    /\ handler[c] = "idle"
    /\ received < MaxRequests
    /\ received' = received + 1
    /\ request' = [request EXCEPT ![c] = what]
    /\ handler' = [handler EXCEPT ![c] = first]
    /\ status' = [status EXCEPT ![c] = 0]
    /\ UNCHANGED <<archiveVars, runtimeVars>>

ReceiveDeploy(c) == \E what \in Request : Receive(c, what, "validating")

ReceiveHistory(c) == Receive(c, NoRequest, "listing")

Answer(c, code) ==
    /\ handler' = [handler EXCEPT ![c] = "idle"]
    /\ status' = [status EXCEPT ![c] = code]
    /\ UNCHANGED <<request, received>>

\* A body that does not parse, or a document from_json refuses.  The parser
\* quotes what it could not read: dumping that may throw out of the catch
\* clause, and the library answers 500.
Reject(c) ==
    /\ handler[c] = "validating"
    /\ request[c].payload \notin AcceptedPayloads
    /\ Answer(c, IF request[c].payload \in Undumpable THEN 500 ELSE 400)
    /\ UNCHANGED <<archiveVars, runtimeVars>>

\* reload_from_json.
Swap(c) ==
    /\ handler[c] = "validating"
    /\ request[c].payload \in AcceptedPayloads
    /\ current' = request[c].payload
    /\ handler' = [handler EXCEPT ![c] = "swapped"]
    /\ UNCHANGED <<archiveVars, request, status, received, hotReloaded>>

\* commit_config, as far as its HEAD query; its INSERTs follow.
Commit(c) ==
    /\ handler[c] = "swapped"
    /\ \/ Archive!CommitConfig(c, request[c].payload, request[c].author)
       \/ Archive!CommitConfigHeadless(c, request[c].payload, request[c].author)
    /\ handler' = [handler EXCEPT ![c] = "archiving"]
    /\ UNCHANGED <<request, status, received, runtimeVars>>

Insert(c) == Archive!InsertStep(c) /\ UNCHANGED <<webVars, runtimeVars>>

RecordWithoutCommit(c) ==
    /\ handler[c] = "archiving"
    /\ step[c] \in {"committed", "failed"}
    /\ Archive!RecordDeployment(c, draft[c].id)
    /\ Answer(c, IF request[c].author \in Undumpable THEN 500 ELSE 200)
    /\ UNCHANGED runtimeVars

\* record_deployment and the response: dumping the author may throw, which
\* no catch clause of the handler names, and the library answers 500.
Record(c) ==
    /\ handler[c] = "archiving"
    /\ step[c] = "committed"
    /\ Archive!RecordDeployment(c, draft[c].id)
    /\ Answer(c, IF request[c].author \in Undumpable THEN 500 ELSE 200)
    /\ UNCHANGED runtimeVars

RecordFails(c) ==
    /\ handler[c] = "archiving"
    /\ step[c] = "committed"
    /\ Archive!RejectDeployment(c)
    /\ UNCHANGED <<webVars, runtimeVars>>

FailureAnsweredOk(c) ==
    /\ handler[c] = "archiving"
    /\ step[c] = "failed"
    /\ Answer(c, 200)
    /\ UNCHANGED <<archiveVars, runtimeVars>>

\* catch (const ConfigArchiveError&): the new program stays in.
AnswerFailure(c) ==
    /\ handler[c] = "archiving"
    /\ step[c] = "failed"
    /\ Answer(c, 500)
    /\ UNCHANGED <<archiveVars, runtimeVars>>

\* GET /api/history; one listed author that cannot be dumped spoils it.
ListHistory(c) ==
    /\ handler[c] = "listing"
    /\ \E limit \in Limits : Archive!GetCommitHistory(c, limit)
    /\ Answer(c, IF \E i \in DOMAIN listed'[c] : listed'[c][i].id.author \in Undumpable THEN 500 ELSE 200)
    /\ UNCHANGED runtimeVars

\* main's own reload, which is not archived.
MainReload ==
    /\ HotReload
    /\ ~ hotReloaded
    /\ hotReloaded' = TRUE
    /\ current' = ReloadProgram
    /\ UNCHANGED <<archiveVars, webVars>>

\* main starts again from logic_example.json, whatever the archive says.
Crash ==
    /\ Archive!Crash
    /\ handler' = [c \in Clients |-> "idle"]
    /\ request' = [c \in Clients |-> NoRequest]
    /\ status' = [c \in Clients |-> 0]
    /\ current' = InitialProgram
    /\ hotReloaded' = FALSE
    /\ UNCHANGED received

-----------------------------------------------------------------------------

HandlerStep(c) ==
    \/ Reject(c) \/ Swap(c) \/ Commit(c) \/ Insert(c) \/ Record(c) \/ RecordFails(c)
    \/ AnswerFailure(c) \/ ListHistory(c)

Next ==
    \/ \E c \in Clients : ReceiveDeploy(c) \/ ReceiveHistory(c) \/ HandlerStep(c)
    \/ MainReload \/ Crash

Spec == Init /\ [][Next]_vars

\* The operating system runs the handler threads.  Weak fairness of one that
\* waits for the mutex is enough because the requests of a run are finite.
FairSpec == Spec /\ \A c \in Clients : WF_vars(HandlerStep(c))

-----------------------------------------------------------------------------
(* Properties.                                                             *)

\* Types; a program that runs was accepted (the POST /api/deploy handler).
TypeOK ==
    /\ handler \in [Clients -> {"idle", "validating", "swapped", "archiving", "listing"}]
    /\ request \in [Clients -> Request \cup {NoRequest}]
    /\ status \in [Clients -> {0, 200, 400, 500}]
    /\ current \in AcceptedPayloads \cup {InitialProgram, ReloadProgram}
    /\ hotReloaded \in BOOLEAN
    /\ received \in 0 .. MaxRequests

\* Every deployments row is of a commit that is there, with the snapshot of a
\* program that was accepted, and no commit is recorded twice: failures,
\* collisions and crashes leave gaps in the table, never rows that lead
\* nowhere.  (SQLite does not enforce the REFERENCES clauses of the tables:
\* foreign_keys is off.)
DeploymentsBacked ==
    \A i \in DOMAIN deployments :
        /\ deployments[i] \in Archive!CommittedIds
        /\ \E row \in snapshots : row.commit = deployments[i] /\ row.payload \in AcceptedPayloads
        /\ \A j \in DOMAIN deployments : deployments[i] = deployments[j] => i = j

\* What a deploy is answered is true: 200 only if its own payload is now
\* committed, with its snapshot, and recorded as deployed; 400 exactly if the
\* payload was refused and could be quoted; nobody's commit has a refused one
\* (the POST /api/deploy handler).
AnswersAccurate ==
    \A c \in Clients : handler[c] = "idle" /\ request[c] # NoRequest =>
        /\ status[c] = 200 =>
              /\ draft[c].id \in Archive!CommittedIds \cap {deployments[i] : i \in DOMAIN deployments}
              /\ [commit |-> draft[c].id, payload |-> request[c].payload] \in snapshots
        /\ status[c] = 400 <=> request[c].payload \notin AcceptedPayloads \cup Undumpable
        /\ request[c].payload \notin AcceptedPayloads =>
              \A i \in DOMAIN commits : commits[i].id.payload # request[c].payload

\* The handlers use the archive as its specification lets clients use it, so
\* what holds of ConfigArchive (LinearHistory above all) holds here.
UsesArchiveAsSpecified == Archive!Spec

\* Every request is answered, also when the archive fails.
RequestAnswered == \A c \in Clients : handler[c] # "idle" ~> handler[c] = "idle"

AllIdle == \A c \in Clients : handler[c] = "idle"

\* config_archive.hpp:53: record_deployment "records that commit_sha256 is now
\* the actively running program".  Refuted: of two deploys, the one that swaps
\* first can be the one that is recorded last.
LatestDeploymentRuns ==
    AllIdle /\ deployments # <<>> => current = deployments[Len(deployments)].payload

\* Concepts/to-do.md:86: "Save & Deploy" is "to create a new database commit
\* before swapping runtime logic".  Refuted: the handler swaps first, and the
\* program runs before its commit is there, or without one if that fails.
RunningIsCommitted ==
    \/ current \in {InitialProgram, ReloadProgram}
    \/ \E row \in snapshots : row.payload = current

=============================================================================
