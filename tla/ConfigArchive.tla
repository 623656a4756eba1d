---------------------------- MODULE ConfigArchive ----------------------------
(***************************************************************************)
(* The SQLite archive of deployed programs: the rows of its three tables   *)
(* and the calls that clients (the threads of the HTTP server) have in     *)
(* progress.  One mutex serializes the calls; each INSERT is a transaction *)
(* of its own, so the process can die between any two of them and the rows *)
(* survive it.                                                             *)
(*                                                                         *)
(* A commit's id is the SHA-256 of payload, author, message and timestamp. *)
(* The hash is taken as injective: an id IS that tuple (author stands for  *)
(* author and message).  The parent is not part of it.                     *)
(***************************************************************************)
EXTENDS Integers, Sequences

CONSTANTS
    Clients,      \* the threads that call the archive
    NoClient,     \* the mutex is free
    Payloads,     \* the documents that are committed
    Authors,      \* who commits them, and with which message
    NoCommit,     \* a null parent; no commit in progress
    MaxTime,      \* bound: milliseconds the wall clock can show
    MaxCommits,   \* bound: rows in table commits
    MaxDeployed,  \* bound: rows in table deployments
    Faults        \* what may go wrong: some of "insert", "head", "read", "crash"

ASSUME ArchiveAssumption ==
    /\ NoClient \notin Clients
    /\ MaxTime \in Nat
    /\ MaxCommits \in Nat
    /\ MaxDeployed \in Nat
    /\ Faults \subseteq {"insert", "head", "read", "crash"}

Time == 0 .. MaxTime
CommitId == [payload : Payloads, author : Authors, at : Time]

ASSUME NoCommitAssumption == NoCommit \notin CommitId /\ NoCommit \notin [id : CommitId, parent : CommitId \cup {NoCommit}]

VARIABLES
    commits,       \* table commits, in rowid order
    snapshots,     \* table snapshots
    deployments,   \* table deployments: the commit of each row, in id order
    holder,        \* who holds mutex_
    step,          \* where each client is inside the archive
    draft,         \* the commit each client is writing, or last wrote
    listed         \* what get_commit_history just returned to each client

tables == <<commits, snapshots, deployments>>
vars == <<tables, holder, step, draft, listed>>

Commit == [id : CommitId, parent : CommitId \cup {NoCommit}]

\* SELECT sha256 FROM commits ORDER BY rowid DESC LIMIT 1
HeadCommit == IF commits = <<>> THEN NoCommit ELSE commits[Len(commits)].id

CommittedIds == {commits[i].id : i \in DOMAIN commits}
SnapshotIds == {row.commit : row \in snapshots}

HistoryOldestFirst(limit) == SubSeq(commits, 1, IF limit \in 0 .. Len(commits) THEN limit ELSE Len(commits))

\* SELECT ... ORDER BY rowid DESC LIMIT limit: a negative limit is none.
History(limit) ==
    LET rows == IF limit \in 0 .. Len(commits) THEN limit ELSE Len(commits)
    IN  [i \in 1 .. rows |-> commits[Len(commits) + 1 - i]]

-----------------------------------------------------------------------------

Init ==
    /\ commits = <<>>
    /\ snapshots = {}
    /\ deployments = <<>>
    /\ holder = NoClient
    /\ step = [c \in Clients |-> "idle"]
    /\ draft = [c \in Clients |-> NoCommit]
    /\ listed = [c \in Clients |-> <<>>]

CanCall(c) == step[c] \notin {"inserting", "snapshotting"}

Drafted(payload, author, at, parent) ==
    [id |-> [payload |-> payload, author |-> author, at |-> at], parent |-> parent]

ReadHeadUnlocked(c, payload, author, parent) ==
    /\ CanCall(c)
    /\ Len(commits) < MaxCommits
    /\ holder' = c
    /\ step' = [step EXCEPT ![c] = "inserting"]
    /\ \E at \in Time : draft' = [draft EXCEPT ![c] = Drafted(payload, author, at, parent)]
    /\ listed' = [listed EXCEPT ![c] = <<>>]
    /\ UNCHANGED tables

\* commit_config up to its first INSERT: take the lock, the time and HEAD.
\* The wall clock may show anything: nothing says it only moves forward.
ReadHead(c, payload, author, parent) ==
    /\ CanCall(c)
    /\ holder = NoClient
    /\ Len(commits) < MaxCommits
    /\ holder' = c
    /\ step' = [step EXCEPT ![c] = "inserting"]
    /\ \E at \in Time : draft' = [draft EXCEPT ![c] = Drafted(payload, author, at, parent)]
    /\ listed' = [listed EXCEPT ![c] = <<>>]
    /\ UNCHANGED tables

CommitConfig(c, payload, author) == ReadHead(c, payload, author, HeadCommit)

\* The HEAD query is prepared but its step returns an error, which the code
\* does not tell from "no row": the commit gets a null parent.
CommitConfigHeadless(c, payload, author) ==
    /\ "head" \in Faults
    /\ ReadHead(c, payload, author, NoCommit)

FailHoldingLock(c) ==
    /\ step' = [step EXCEPT ![c] = "failed"]
    /\ UNCHANGED <<tables, holder, draft, listed>>

\* ConfigArchiveError: the lock_guard is released on the way out.
Fail(c) ==
    /\ holder' = NoClient
    /\ step' = [step EXCEPT ![c] = "failed"]
    /\ listed' = [listed EXCEPT ![c] = <<>>]
    /\ UNCHANGED <<tables, draft>>

\* INSERT INTO commits.  It fails on a sha256 that is there already, and,
\* like every statement, when the database cannot be written.
InsertCommit(c) ==
    /\ step[c] = "inserting"
    /\ draft[c].id \notin CommittedIds
    /\ commits' = Append(commits, draft[c])
    /\ step' = [step EXCEPT ![c] = "snapshotting"]
    /\ UNCHANGED <<snapshots, deployments, holder, draft, listed>>

RejectCommit(c) ==
    /\ step[c] = "inserting"
    /\ draft[c].id \in CommittedIds \/ "insert" \in Faults
    /\ Fail(c)

InsertSnapshot(c) ==
    /\ step[c] = "snapshotting"
    /\ snapshots' = snapshots \cup {[commit |-> draft[c].id, payload |-> draft[c].id.payload]}
    /\ holder' = NoClient
    /\ step' = [step EXCEPT ![c] = "committed"]
    /\ UNCHANGED <<commits, deployments, draft, listed>>

RejectSnapshotUnnoticed(c) ==
    /\ step[c] = "snapshotting"
    /\ "insert" \in Faults
    /\ holder' = NoClient
    /\ step' = [step EXCEPT ![c] = "committed"]
    /\ UNCHANGED <<tables, draft, listed>>

RejectSnapshot(c) ==
    /\ step[c] = "snapshotting"
    /\ "insert" \in Faults
    /\ Fail(c)

\* record_deployment: one statement under the lock.
RecordDeployment(c, id) ==
    /\ CanCall(c)
    /\ holder = NoClient
    /\ Len(deployments) < MaxDeployed
    /\ deployments' = Append(deployments, id)
    /\ step' = [step EXCEPT ![c] = "recorded"]
    /\ listed' = [listed EXCEPT ![c] = <<>>]
    /\ UNCHANGED <<commits, snapshots, holder, draft>>

RejectDeployment(c) ==
    /\ CanCall(c)
    /\ holder = NoClient
    /\ "insert" \in Faults
    /\ Fail(c)

GetCommitHistoryUnlocked(c, limit) ==
    /\ CanCall(c)
    /\ listed' = [listed EXCEPT ![c] = History(limit)]
    /\ step' = [step EXCEPT ![c] = "listed"]
    /\ draft' = [draft EXCEPT ![c] = NoCommit]
    /\ UNCHANGED <<tables, holder>>

\* get_commit_history: a row that cannot be read ends the list early.
GetCommitHistory(c, limit) ==
    /\ CanCall(c)
    /\ holder = NoClient
    /\ \E rows \in 0 .. Len(History(limit)) :
        /\ rows = Len(History(limit)) \/ "read" \in Faults
        /\ listed' = [listed EXCEPT ![c] = SubSeq(History(limit), 1, rows)]
    /\ step' = [step EXCEPT ![c] = "listed"]
    /\ draft' = [draft EXCEPT ![c] = NoCommit]
    /\ UNCHANGED <<tables, holder>>

\* get_snapshot: there is a row for the commit, or it throws.
GetSnapshot(c, id) ==
    /\ CanCall(c)
    /\ holder = NoClient
    /\ id \in SnapshotIds
    /\ step' = [step EXCEPT ![c] = "read"]
    /\ listed' = [listed EXCEPT ![c] = <<>>]
    /\ UNCHANGED <<tables, holder, draft>>

MissSnapshot(c, id) ==
    /\ CanCall(c)
    /\ holder = NoClient
    /\ id \notin SnapshotIds \/ "read" \in Faults
    /\ Fail(c)

\* The process dies and is started again on the same database file.
Crash ==
    /\ "crash" \in Faults
    /\ holder' = NoClient
    /\ step' = [c \in Clients |-> "idle"]
    /\ draft' = [c \in Clients |-> NoCommit]
    /\ listed' = [c \in Clients |-> <<>>]
    /\ UNCHANGED tables

-----------------------------------------------------------------------------

InsertStep(c) == InsertCommit(c) \/ RejectCommit(c) \/ InsertSnapshot(c) \/ RejectSnapshot(c)

\* Any client, calling in any order.  Any other limit, a negative one too, is
\* as good as the number of rows.
Call(c) ==
    \/ \E payload \in Payloads, author \in Authors :
           CommitConfig(c, payload, author) \/ CommitConfigHeadless(c, payload, author)
    \/ \E id \in CommittedIds : RecordDeployment(c, id) \/ GetSnapshot(c, id) \/ MissSnapshot(c, id)
    \/ RejectDeployment(c)
    \/ \E limit \in 0 .. Len(commits) : GetCommitHistory(c, limit)

Next == (\E c \in Clients : Call(c) \/ InsertStep(c)) \/ Crash

Spec == Init /\ [][Next]_vars

-----------------------------------------------------------------------------
(* Properties.                                                             *)

\* Types; and the mutex is held by exactly the client that is between its two
\* INSERTs or before them: every return and every throw of commit_config
\* gives it back.
TypeOK ==
    /\ commits \in Seq(Commit)
    /\ snapshots \subseteq [commit : CommitId, payload : Payloads]
    /\ deployments \in Seq(CommitId)
    /\ holder \in Clients \cup {NoClient}
    /\ step \in [Clients -> {"idle", "inserting", "snapshotting", "committed", "recorded", "listed", "read", "failed"}]
    /\ draft \in [Clients -> Commit \cup {NoCommit}]
    /\ listed \in [Clients -> Seq(Commit)]
    /\ \A c \in Clients : holder = c <=> step[c] \in {"inserting", "snapshotting"}

\* A row's parent is the one it should have, or none because the HEAD query
\* failed.
ChainedTo(row, parent) ==
    \/ row.parent = parent
    \/ "head" \in Faults /\ row.parent = NoCommit

\* The commits are one chain in rowid order: the first has no parent, and the
\* parent of every other is the row before it -- whichever clients wrote them,
\* with failed inserts, collisions and restarts in between (config_archive.hpp:
\* "chains it to whatever commit is currently HEAD, forming a simple linear
\* history").  A HEAD query that fails may cut the chain, but not fork it.
LinearHistory ==
    \A i \in DOMAIN commits :
        ChainedTo(commits[i], IF i = 1 THEN NoCommit ELSE commits[i - 1].id)

\* What commit_config returned is in the database: the commit is a row, and
\* its snapshot is there and is the payload the id was computed from.  No
\* other client's failure and no later insert takes it away (commit_config).
ReturnedCommitStored ==
    \A c \in Clients : step[c] = "committed" =>
        /\ draft[c].id \in CommittedIds
        /\ [commit |-> draft[c].id, payload |-> draft[c].id.payload] \in snapshots

\* Whatever part of the history a client was given is linked from each entry
\* to the next, newest first, although rows were added while it asked
\* (get_commit_history).
ListedLinked ==
    \A c \in Clients : \A i \in 1 .. Len(listed[c]) - 1 :
        ChainedTo(listed[c][i], listed[c][i + 1].id)

\* Nobody has been shown a commit that its author is still writing: while a
\* snapshot is to come, get_snapshot is not asked for it (get_commit_history
\* against commit_config).
NoneListedEarly ==
    \A c, d \in Clients : \A i \in DOMAIN listed[c] :
        step[d] = "snapshotting" => listed[c][i].id # draft[d].id

\* config_archive.hpp:47 promises a commits row and a matching snapshots row.
\* Refuted: the two INSERTs are separate transactions.
CommitsHaveSnapshots == holder = NoClient => CommittedIds \subseteq SnapshotIds

=============================================================================
