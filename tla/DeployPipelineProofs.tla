------------------------- MODULE DeployPipelineProofs -------------------------
(***************************************************************************)
(* Proofs about DeployPipeline, for any number of handler threads, any     *)
(* documents and any faults: it uses the archive as ConfigArchive lets     *)
(* clients use it, and its deployments rows never lead nowhere.            *)
(***************************************************************************)
EXTENDS DeployPipeline, SequenceTheorems, TLAPS

Recorded == {deployments[i] : i \in DOMAIN deployments}

Stored(id) == [commit |-> id, payload |-> id.payload] \in snapshots

InsideArchive == {"inserting", "snapshotting", "committed"}

Types ==
    /\ commits \in Seq(Archive!Commit)
    /\ deployments \in Seq(Archive!CommitId)
    /\ step \in [Clients -> InsideArchive \cup {"idle", "recorded", "listed", "failed"}]
    /\ draft \in [Clients -> Archive!Commit \cup {NoCommit}]
    /\ handler \in [Clients -> {"idle", "validating", "swapped", "archiving", "listing"}]
    /\ request \in [Clients -> Request \cup {NoRequest}]

(* Where a thread is in its handler, in the archive, and what it carries.  *)
HandlerInv ==
    \A c \in Clients :
        /\ handler[c] \in {"validating", "swapped"} => request[c] \in Request
        /\ handler[c] = "swapped" => request[c].payload \in AcceptedPayloads
        /\ step[c] \in InsideArchive =>
              /\ handler[c] = "archiving"
              /\ draft[c] \in Archive!Commit
              /\ draft[c].id.payload \in AcceptedPayloads

(* A commit row belongs to the one thread that inserted it, which has not  *)
(* recorded it yet; this is why no deployment is recorded twice.           *)
InsertedInv ==
    \A c \in Clients : step[c] \in {"snapshotting", "committed"} =>
        /\ draft[c].id \in Archive!CommittedIds
        /\ draft[c].id \notin Recorded
        /\ step[c] = "committed" => Stored(draft[c].id)
        /\ \A d \in Clients \ {c} :
              step[d] \in {"snapshotting", "committed"} => draft[d].id # draft[c].id

BackedInv ==
    /\ \A id \in Recorded : id \in Archive!CommittedIds /\ Stored(id) /\ id.payload \in AcceptedPayloads
    /\ \A i, j \in DOMAIN deployments : deployments[i] = deployments[j] => i = j

PInv == Types /\ HandlerInv /\ InsertedInv /\ BackedInv

-----------------------------------------------------------------------------

LEMMA InitPInv == Init => PInv
<1> SUFFICES ASSUME Init PROVE PInv
  OBVIOUS
<1> USE DEF Init, Archive!Init
<1>1. Types
  BY DEF Types, InsideArchive
<1>2. HandlerInv /\ InsertedInv /\ BackedInv
  BY DEF HandlerInv, InsertedInv, BackedInv, Recorded, InsideArchive
<1> QED
  BY <1>1, <1>2 DEF PInv

(* Steps that leave the three tables and every draft alone, and move one   *)
(* thread from outside the archive to outside the archive.                 *)
LEMMA OutsideStep ==
    ASSUME PInv, Types', HandlerInv',
           UNCHANGED <<commits, snapshots, deployments>>,
           \A c \in Clients : step'[c] \in {"snapshotting", "committed"} =>
                                  step'[c] = step[c] /\ draft'[c] = draft[c]
    PROVE  PInv'
<1>1. Archive!CommittedIds' = Archive!CommittedIds /\ Recorded' = Recorded
  BY DEF Archive!CommittedIds, Recorded
<1>2. InsertedInv'
  BY <1>1 DEF PInv, InsertedInv, Stored
<1>3. BackedInv'
  BY <1>1 DEF PInv, BackedInv, Stored
<1> QED
  BY <1>2, <1>3 DEF PInv

LEMMA CommitStep == ASSUME PInv, NEW c \in Clients, Commit(c) PROVE PInv'
<1> USE DEF PInv
<1>1. PICK parent \in {Archive!HeadCommit, NoCommit} :
         Archive!ReadHead(c, request[c].payload, request[c].author, parent)
  BY DEF Commit, Archive!CommitConfig, Archive!CommitConfigHeadless
<1> DEFINE id(at) == [payload |-> request[c].payload, author |-> request[c].author, at |-> at]
<1>0. PICK at \in Archive!Time : draft' = [draft EXCEPT ![c] = [id |-> id(at), parent |-> parent]]
  BY <1>1 DEF Archive!ReadHead, Archive!Drafted
<1>2. /\ step' = [step EXCEPT ![c] = "inserting"]
      /\ draft' = [draft EXCEPT ![c] = [id |-> id(at), parent |-> parent]]
      /\ UNCHANGED <<commits, snapshots, deployments>>
  BY <1>0, <1>1 DEF Archive!ReadHead, Archive!tables
<1>3. /\ handler[c] = "swapped"
      /\ handler' = [handler EXCEPT ![c] = "archiving"]
      /\ request' = request
  BY DEF Commit
<1>4. request[c] \in Request /\ request[c].payload \in AcceptedPayloads
  BY <1>3 DEF HandlerInv
<1>5. id(at) \in Archive!CommitId
  BY <1>4 DEF Types, Request, Archive!CommitId
<1>6. parent \in Archive!CommitId \cup {NoCommit}
  <2>1. ASSUME commits # <<>> PROVE commits[Len(commits)] \in Archive!Commit
    BY <2>1, EmptySeq, LenProperties, ElementOfSeq DEF Types
  <2> QED
    BY <2>1 DEF Archive!HeadCommit, Archive!Commit
<1>7. [id |-> id(at), parent |-> parent] \in Archive!Commit
  BY <1>5, <1>6 DEF Archive!Commit
<1>8. Types'
  BY <1>2, <1>3, <1>7 DEF Types, InsideArchive
<1>9. /\ step'[c] = "inserting" /\ handler'[c] = "archiving"
      /\ draft'[c] = [id |-> id(at), parent |-> parent]
      /\ \A d \in Clients \ {c} :
            handler'[d] = handler[d] /\ step'[d] = step[d] /\ draft'[d] = draft[d]
  BY <1>2, <1>3 DEF Types
<1>10. HandlerInv'
  <2>1. draft'[c].id.payload = request[c].payload
    BY <1>9
  <2> QED
    BY <1>3, <1>4, <1>7, <1>9, <2>1 DEF HandlerInv
<1> QED
  BY <1>2, <1>8, <1>9, <1>10, OutsideStep

LEMMA InsertCommitStep ==
    ASSUME PInv, NEW c \in Clients, Archive!InsertCommit(c), UNCHANGED <<handler, request>>
    PROVE  PInv'
<1> USE DEF PInv
<1>1. /\ step[c] = "inserting"
      /\ draft[c].id \notin Archive!CommittedIds
      /\ commits' = Append(commits, draft[c])
      /\ step' = [step EXCEPT ![c] = "snapshotting"]
      /\ UNCHANGED <<snapshots, deployments, draft>>
  BY DEF Archive!InsertCommit
<1>2. draft[c] \in Archive!Commit
  BY <1>1 DEF HandlerInv, InsideArchive
<1>3. /\ commits' \in Seq(Archive!Commit)
      /\ Len(commits) \in Nat /\ Len(commits') = Len(commits) + 1
      /\ \A i \in 1 .. Len(commits) : commits'[i] = commits[i]
      /\ commits'[Len(commits) + 1] = draft[c]
  BY <1>1, <1>2, AppendProperties, LenProperties DEF Types
<1>4. DOMAIN commits = 1 .. Len(commits) /\ DOMAIN commits' = 1 .. Len(commits) + 1
  BY <1>3, LenProperties DEF Types
<1>5. Archive!CommittedIds \subseteq Archive!CommittedIds' /\ draft[c].id \in Archive!CommittedIds'
  BY <1>3, <1>4 DEF Archive!CommittedIds
<1>6. step'[c] = "snapshotting" /\ \A d \in Clients \ {c} : step'[d] = step[d]
  BY <1>1 DEF Types
<1>7. Types'
  BY <1>1, <1>3 DEF Types, InsideArchive
<1>8. HandlerInv'
  BY <1>1, <1>6 DEF HandlerInv, InsideArchive
<1>9. Recorded' = Recorded /\ draft[c].id \notin Recorded
  BY <1>1 DEF Recorded, BackedInv
<1>10. \A d \in Clients \ {c} : step[d] \in {"snapshotting", "committed"} => draft[d].id # draft[c].id
  BY <1>1 DEF InsertedInv
<1>11. InsertedInv'
  BY <1>1, <1>5, <1>6, <1>9, <1>10 DEF InsertedInv, Stored
<1>12. BackedInv'
  BY <1>1, <1>5, <1>9 DEF BackedInv, Stored
<1> QED
  BY <1>7, <1>8, <1>11, <1>12

LEMMA InsertSnapshotStep ==
    ASSUME PInv, NEW c \in Clients, Archive!InsertSnapshot(c), UNCHANGED <<handler, request>>
    PROVE  PInv'
<1> USE DEF PInv
<1>1. /\ step[c] = "snapshotting"
      /\ snapshots' = snapshots \cup {[commit |-> draft[c].id, payload |-> draft[c].id.payload]}
      /\ step' = [step EXCEPT ![c] = "committed"]
      /\ UNCHANGED <<commits, deployments, draft>>
  BY DEF Archive!InsertSnapshot
<1>2. step'[c] = "committed" /\ \A d \in Clients \ {c} : step'[d] = step[d]
  BY <1>1 DEF Types
<1>3. Types'
  BY <1>1 DEF Types, InsideArchive
<1>4. HandlerInv'
  BY <1>1, <1>2 DEF HandlerInv, InsideArchive
<1>5. Archive!CommittedIds' = Archive!CommittedIds /\ Recorded' = Recorded
  BY <1>1 DEF Archive!CommittedIds, Recorded
<1>6. InsertedInv'
  BY <1>1, <1>2, <1>5 DEF InsertedInv, Stored
<1>7. BackedInv'
  BY <1>1, <1>5 DEF BackedInv, Stored
<1> QED
  BY <1>3, <1>4, <1>6, <1>7

LEMMA RecordStep == ASSUME PInv, NEW c \in Clients, Record(c) PROVE PInv'
<1> USE DEF PInv
<1> DEFINE id == draft[c].id
<1>1. /\ step[c] = "committed"
      /\ deployments' = Append(deployments, id)
      /\ step' = [step EXCEPT ![c] = "recorded"]
      /\ handler' = [handler EXCEPT ![c] = "idle"]
      /\ UNCHANGED <<commits, snapshots, draft, request>>
  BY DEF Record, Archive!RecordDeployment, Answer
<1>2. /\ id \in Archive!CommitId /\ id.payload \in AcceptedPayloads
      /\ id \in Archive!CommittedIds /\ id \notin Recorded /\ Stored(id)
      /\ \A d \in Clients \ {c} : step[d] \in {"snapshotting", "committed"} => draft[d].id # id
  BY <1>1 DEF HandlerInv, InsertedInv, InsideArchive, Archive!Commit
<1> HIDE DEF id
<1>3. /\ deployments' \in Seq(Archive!CommitId)
      /\ Len(deployments) \in Nat /\ Len(deployments') = Len(deployments) + 1
      /\ \A i \in 1 .. Len(deployments) : deployments'[i] = deployments[i]
      /\ deployments'[Len(deployments) + 1] = id
  BY <1>1, <1>2, AppendProperties, LenProperties DEF Types
<1>4. DOMAIN deployments = 1 .. Len(deployments) /\ DOMAIN deployments' = 1 .. Len(deployments) + 1
  BY <1>3, LenProperties DEF Types
<1>5. Recorded' = Recorded \cup {id}
  <2>1. \A i \in 1 .. Len(deployments) : i \in 1 .. Len(deployments) + 1
    BY <1>3
  <2>2. \A i \in 1 .. Len(deployments) + 1 : i \in 1 .. Len(deployments) \/ i = Len(deployments) + 1
    BY <1>3
  <2>3. Len(deployments) + 1 \in 1 .. Len(deployments) + 1
    BY <1>3
  <2> QED
    BY <1>3, <1>4, <2>1, <2>2, <2>3 DEF Recorded
<1>6. /\ step'[c] = "recorded" /\ handler'[c] = "idle"
      /\ \A d \in Clients \ {c} : step'[d] = step[d] /\ handler'[d] = handler[d]
  BY <1>1 DEF Types
<1>7. Types'
  BY <1>1, <1>3 DEF Types, InsideArchive
<1>8. HandlerInv'
  BY <1>1, <1>6 DEF HandlerInv, InsideArchive
<1>9. Archive!CommittedIds' = Archive!CommittedIds
  BY <1>1 DEF Archive!CommittedIds
<1>10. InsertedInv'
  BY <1>1, <1>2, <1>5, <1>6, <1>9 DEF InsertedInv, Stored
<1>11. BackedInv'
  <2>1. \A x \in Recorded' : x \in Archive!CommittedIds' /\ Stored(x)' /\ x.payload \in AcceptedPayloads
    BY <1>1, <1>2, <1>5, <1>9 DEF BackedInv, Stored
  <2>2. ASSUME NEW i \in 1 .. Len(deployments) + 1, NEW j \in 1 .. Len(deployments) + 1,
               deployments'[i] = deployments'[j]
        PROVE  i = j
    <3>1. \A k \in 1 .. Len(deployments) : deployments[k] \in Recorded /\ deployments[k] # id
      BY <1>2, <1>4 DEF Recorded
    <3>2. i \in 1 .. Len(deployments) \/ i = Len(deployments) + 1
      BY <1>3
    <3>3. j \in 1 .. Len(deployments) \/ j = Len(deployments) + 1
      BY <1>3
    <3> QED
      BY <1>3, <1>4, <2>2, <3>1, <3>2, <3>3 DEF BackedInv
  <2> QED
    BY <1>4, <2>1, <2>2 DEF BackedInv
<1> QED
  BY <1>7, <1>8, <1>10, <1>11

LEMMA FailStep ==
    ASSUME PInv, NEW c \in Clients, Archive!Fail(c), UNCHANGED <<handler, request>>
    PROVE  PInv'
<1>1. step' = [step EXCEPT ![c] = "failed"] /\ UNCHANGED <<commits, snapshots, deployments, draft>>
  BY DEF Archive!Fail, Archive!tables
<1>2. step'[c] = "failed" /\ \A d \in Clients \ {c} : step'[d] = step[d]
  BY <1>1 DEF PInv, Types
<1>3. Types'
  BY <1>1 DEF PInv, Types
<1>4. HandlerInv'
  BY <1>1, <1>2 DEF PInv, HandlerInv, InsideArchive
<1> QED
  BY <1>1, <1>2, <1>3, <1>4, OutsideStep

LEMMA ListStep == ASSUME PInv, NEW c \in Clients, ListHistory(c) PROVE PInv'
<1>1. /\ step' = [step EXCEPT ![c] = "listed"]
      /\ draft' = [draft EXCEPT ![c] = NoCommit]
      /\ handler' = [handler EXCEPT ![c] = "idle"]
      /\ UNCHANGED <<commits, snapshots, deployments, request>>
  BY DEF ListHistory, Archive!GetCommitHistory, Archive!tables, Answer
<1>2. /\ step'[c] = "listed" /\ handler'[c] = "idle"
      /\ \A d \in Clients \ {c} :
            step'[d] = step[d] /\ draft'[d] = draft[d] /\ handler'[d] = handler[d]
  BY <1>1 DEF PInv, Types
<1>3. Types'
  BY <1>1 DEF PInv, Types
<1>4. HandlerInv'
  BY <1>1, <1>2 DEF PInv, HandlerInv, InsideArchive
<1> QED
  BY <1>1, <1>2, <1>3, <1>4, OutsideStep

(* The handler's own steps, which do not call the archive.                 *)
LEMMA WebStep ==
    ASSUME PInv, NEW c \in Clients,
           \/ ReceiveDeploy(c) \/ ReceiveHistory(c) \/ Reject(c) \/ Swap(c) \/ AnswerFailure(c)
    PROVE  PInv'
<1>1. /\ UNCHANGED <<commits, snapshots, deployments, step, draft>>
      /\ handler[c] # "archiving" \/ step[c] = "failed"
  BY DEF ReceiveDeploy, ReceiveHistory, Receive, Reject, Swap, AnswerFailure, archiveVars
<1>2. PICK place \in {"idle", "validating", "swapped", "listing"} :
         handler' = [handler EXCEPT ![c] = place]
  BY DEF ReceiveDeploy, ReceiveHistory, Receive, Reject, Swap, AnswerFailure, Answer
<1>3. handler'[c] = place /\ \A d \in Clients \ {c} : handler'[d] = handler[d]
  BY <1>2 DEF PInv, Types
<1>4. /\ request' \in [Clients -> Request \cup {NoRequest}]
      /\ \A d \in Clients \ {c} : request'[d] = request[d]
      /\ place = "validating" => request'[c] \in Request
      /\ place = "swapped" => request'[c] \in Request /\ request'[c].payload \in AcceptedPayloads
  <2>1. CASE ReceiveDeploy(c)
    BY <1>3, <2>1 DEF ReceiveDeploy, Receive, PInv, Types
  <2>2. CASE ReceiveHistory(c)
    BY <1>3, <2>2 DEF ReceiveHistory, Receive, PInv, Types
  <2>3. CASE Reject(c) \/ AnswerFailure(c)
    BY <1>3, <2>3 DEF Reject, AnswerFailure, Answer, PInv, Types
  <2>4. CASE Swap(c)
    BY <1>3, <2>4 DEF Swap, PInv, Types, HandlerInv
  <2> QED
    BY <2>1, <2>2, <2>3, <2>4
<1>5. Types'
  BY <1>1, <1>2, <1>4 DEF PInv, Types
<1>6. HandlerInv'
  BY <1>1, <1>3, <1>4 DEF PInv, HandlerInv, InsideArchive
<1> QED
  BY <1>1, <1>5, <1>6, OutsideStep

LEMMA CrashStep == ASSUME PInv, Crash PROVE PInv'
<1>1. /\ step' = [c \in Clients |-> "idle"] /\ draft' = [c \in Clients |-> NoCommit]
      /\ handler' = [c \in Clients |-> "idle"] /\ request' = [c \in Clients |-> NoRequest]
      /\ UNCHANGED <<commits, snapshots, deployments>>
  BY DEF Crash, Archive!Crash, Archive!tables
<1>2. Types'
  BY <1>1 DEF PInv, Types
<1>3. HandlerInv'
  BY <1>1 DEF HandlerInv, InsideArchive
<1> QED
  BY <1>1, <1>2, <1>3, OutsideStep

LEMMA StillStep ==
    ASSUME PInv, UNCHANGED <<commits, snapshots, deployments, step, draft, handler, request>>
    PROVE  PInv'
<1>1. Types' /\ HandlerInv'
  BY DEF PInv, Types, HandlerInv
<1> QED
  BY <1>1, OutsideStep

LEMMA NextPInv == PInv /\ [Next]_vars => PInv'
<1> SUFFICES ASSUME PInv, [Next]_vars PROVE PInv'
  OBVIOUS
<1>1. ASSUME NEW c \in Clients, ReceiveDeploy(c) \/ ReceiveHistory(c) \/ HandlerStep(c) PROVE PInv'
  <2>1. CASE ReceiveDeploy(c) \/ ReceiveHistory(c) \/ Reject(c) \/ Swap(c) \/ AnswerFailure(c)
    BY <2>1, WebStep
  <2>2. CASE Commit(c)
    BY <2>2, CommitStep
  <2>3. CASE Insert(c)
    <3>1. UNCHANGED <<handler, request>>
      BY <2>3 DEF Insert, webVars
    <3>2. CASE Archive!InsertCommit(c)
      BY <3>1, <3>2, InsertCommitStep
    <3>3. CASE Archive!InsertSnapshot(c)
      BY <3>1, <3>3, InsertSnapshotStep
    <3>4. CASE Archive!RejectCommit(c) \/ Archive!RejectSnapshot(c)
      BY <3>1, <3>4, FailStep DEF Archive!RejectCommit, Archive!RejectSnapshot
    <3> QED
      BY <2>3, <3>2, <3>3, <3>4 DEF Insert, Archive!InsertStep
  <2>4. CASE Record(c)
    BY <2>4, RecordStep
  <2>5. CASE RecordFails(c)
    BY <2>5, FailStep DEF RecordFails, Archive!RejectDeployment, webVars
  <2>6. CASE ListHistory(c)
    BY <2>6, ListStep
  <2> QED
    BY <1>1, <2>1, <2>2, <2>3, <2>4, <2>5, <2>6 DEF HandlerStep
<1>2. CASE MainReload \/ UNCHANGED vars
  BY <1>2, StillStep DEF MainReload, vars, archiveVars, webVars
<1>3. CASE Crash
  BY <1>3, CrashStep
<1> QED
  BY <1>1, <1>2, <1>3 DEF Next

LEMMA Invariance == Spec => []PInv
<1> QED
  BY InitPInv, NextPInv, PTL DEF Spec

-----------------------------------------------------------------------------

(* Every deployments row is of a commit that is stored with its snapshot   *)
(* and was accepted, and no commit is recorded twice -- whatever fails.    *)
THEOREM RowsLeadSomewhere == Spec => []DeploymentsBacked
<1>1. PInv => DeploymentsBacked
  <2> SUFFICES ASSUME PInv, NEW i \in DOMAIN deployments
               PROVE  /\ deployments[i] \in Archive!CommittedIds
                      /\ \E row \in snapshots : row.commit = deployments[i] /\ row.payload \in AcceptedPayloads
                      /\ \A j \in DOMAIN deployments : deployments[i] = deployments[j] => i = j
    BY DEF DeploymentsBacked
  <2> DEFINE row == [commit |-> deployments[i], payload |-> deployments[i].payload]
  <2>1. deployments[i] \in Recorded
    BY DEF Recorded
  <2>2. row \in snapshots /\ row.commit = deployments[i] /\ row.payload \in AcceptedPayloads
    BY <2>1 DEF PInv, BackedInv, Stored
  <2> QED
    BY <2>1, <2>2 DEF PInv, BackedInv
<1> QED
  BY <1>1, Invariance, PTL

(* The types of what only the web server and the runtime keep; what        *)
(* reload_from_json swaps in was accepted by from_json.                    *)
OwnTypes ==
    /\ status \in [Clients -> {0, 200, 400, 500}]
    /\ current \in AcceptedPayloads \cup {InitialProgram, ReloadProgram}
    /\ hotReloaded \in BOOLEAN
    /\ received \in 0 .. MaxRequests

LEMMA OwnTypesHold == Spec => []OwnTypes
<1>1. Init => OwnTypes
  <2>1. 0 \in 0 .. MaxRequests
    BY PipelineAssumption
  <2>2. ASSUME Init PROVE hotReloaded \in BOOLEAN
    BY <2>2 DEF Init
  <2>3. ASSUME Init PROVE status \in [Clients -> {0, 200, 400, 500}]
    BY <2>3 DEF Init
  <2> QED
    BY <2>1, <2>2, <2>3 DEF Init, OwnTypes
<1>2. OwnTypes /\ [Next]_vars => OwnTypes'
  <2> SUFFICES ASSUME OwnTypes, [Next]_vars PROVE OwnTypes'
    OBVIOUS
  <2> USE DEF OwnTypes
  <2>1. ASSUME NEW c \in Clients, ReceiveDeploy(c) \/ ReceiveHistory(c) PROVE OwnTypes'
    BY <2>1, PipelineAssumption DEF ReceiveDeploy, ReceiveHistory, Receive, runtimeVars
  <2>2. ASSUME NEW c \in Clients, Reject(c) \/ Record(c) \/ AnswerFailure(c) \/ ListHistory(c)
        PROVE  OwnTypes'
    <3>1. PICK code \in {200, 400, 500} : Answer(c, code)
      BY <2>2 DEF Reject, Record, AnswerFailure, ListHistory
    <3>2. UNCHANGED runtimeVars
      BY <2>2 DEF Reject, Record, AnswerFailure, ListHistory
    <3> QED  BY <3>1, <3>2 DEF Answer, runtimeVars
  <2>3. ASSUME NEW c \in Clients, Swap(c) PROVE OwnTypes'
    BY <2>3 DEF Swap
  <2>4. ASSUME NEW c \in Clients, Commit(c) \/ Insert(c) \/ RecordFails(c) PROVE OwnTypes'
    BY <2>4 DEF Commit, Insert, RecordFails, webVars, runtimeVars
  <2>5. CASE MainReload
    <3>1. hotReloaded' \in BOOLEAN
      BY <2>5 DEF MainReload
    <3>2. current' = ReloadProgram /\ UNCHANGED <<status, received>>
      BY <2>5 DEF MainReload, webVars
    <3> QED
      BY <3>1, <3>2
  <2>6. CASE Crash
    BY <2>6 DEF Crash
  <2>7. CASE UNCHANGED vars
    BY <2>7 DEF vars, webVars, runtimeVars
  <2> QED  BY <2>1, <2>2, <2>3, <2>4, <2>5, <2>6, <2>7 DEF Next, HandlerStep
<1> QED
  BY <1>1, <1>2, PTL DEF Spec

(* Whatever the requests, the program that runs is an accepted one or one  *)
(* of main's (the POST /api/deploy handler).                               *)
THEOREM TypeCorrect == Spec => []TypeOK
<1>1. PInv /\ OwnTypes => TypeOK
  BY DEF PInv, Types, OwnTypes, TypeOK
<1> QED
  BY Invariance, OwnTypesHold, <1>1, PTL

-----------------------------------------------------------------------------
(* What deploys are answered.                                              *)

CommitsAccepted == \A id \in Archive!CommittedIds : id.payload \in AcceptedPayloads

(* From the swap to the answer a handler carries an accepted request, and  *)
(* what it commits is that request's payload.                              *)
Carries(c) ==
    /\ handler[c] \in {"swapped", "archiving"} =>
          request[c] \in Request /\ request[c].payload \in AcceptedPayloads
    /\ step[c] \in InsideArchive => draft[c].id.payload = request[c].payload
    /\ handler[c] = "listing" => request[c] = NoRequest

Answered(c) ==
    handler[c] = "idle" /\ request[c] # NoRequest =>
        /\ request[c] \in Request
        /\ status[c] = 200 =>
              /\ draft[c].id \in Archive!CommittedIds /\ draft[c].id \in Recorded
              /\ Stored(draft[c].id) /\ draft[c].id.payload = request[c].payload
        /\ status[c] = 400 <=> request[c].payload \notin AcceptedPayloads \cup Undumpable

AnswerInv == CommitsAccepted /\ \A c \in Clients : Carries(c) /\ Answered(c)

(* A step of one thread: the tables only grow, the others stay where they  *)
(* are.                                                                    *)
LEMMA OneThreadStep ==
    ASSUME AnswerInv, NEW c \in Clients,
           CommitsAccepted', Carries(c)', Answered(c)',
           Archive!CommittedIds \subseteq Archive!CommittedIds',
           Recorded \subseteq Recorded', snapshots \subseteq snapshots',
           \A d \in Clients \ {c} :
               /\ handler'[d] = handler[d] /\ request'[d] = request[d] /\ status'[d] = status[d]
               /\ step'[d] = step[d] /\ draft'[d] = draft[d]
    PROVE  AnswerInv'
<1>1. ASSUME NEW d \in Clients \ {c} PROVE Carries(d)'
  BY DEF AnswerInv, Carries
<1>2. ASSUME NEW d \in Clients \ {c} PROVE Answered(d)'
  BY DEF AnswerInv, Answered, Stored
<1> QED
  BY <1>1, <1>2 DEF AnswerInv

(* One that leaves the tables as they are.                                 *)
LEMMA QuietStep ==
    ASSUME AnswerInv, NEW c \in Clients, Carries(c)', Answered(c)',
           UNCHANGED <<commits, snapshots, deployments>>,
           \A d \in Clients \ {c} :
               /\ handler'[d] = handler[d] /\ request'[d] = request[d] /\ status'[d] = status[d]
               /\ step'[d] = step[d] /\ draft'[d] = draft[d]
    PROVE  AnswerInv'
<1>1. Archive!CommittedIds' = Archive!CommittedIds /\ Recorded' = Recorded
  BY DEF Archive!CommittedIds, Recorded
<1>2. CommitsAccepted'
  BY <1>1 DEF AnswerInv, CommitsAccepted
<1> QED
  BY <1>1, <1>2, OneThreadStep

LEMMA WebAnswers ==
    ASSUME PInv, OwnTypes, AnswerInv, NEW c \in Clients,
           \/ ReceiveDeploy(c) \/ ReceiveHistory(c) \/ Reject(c) \/ Swap(c) \/ AnswerFailure(c)
    PROVE  AnswerInv'
<1> USE DEF PInv, Types, OwnTypes
<1>1. UNCHANGED <<commits, snapshots, deployments, step, draft>>
  BY DEF ReceiveDeploy, ReceiveHistory, Receive, Reject, Swap, AnswerFailure, archiveVars
<1>2. step[c] \notin InsideArchive
  BY DEF HandlerInv, ReceiveDeploy, ReceiveHistory, Receive, Reject, Swap, AnswerFailure, InsideArchive
<1>3. \A d \in Clients \ {c} :
         handler'[d] = handler[d] /\ request'[d] = request[d] /\ status'[d] = status[d]
  BY DEF ReceiveDeploy, ReceiveHistory, Receive, Reject, Swap, AnswerFailure, Answer
<1>4. Carries(c)' /\ Answered(c)'
  <2>1. CASE ReceiveDeploy(c)
    <3>1. handler'[c] = "validating"
      BY <2>1 DEF ReceiveDeploy, Receive
    <3> QED
      BY <1>1, <1>2, <3>1 DEF Carries, Answered
  <2>2. CASE ReceiveHistory(c)
    <3>1. handler'[c] = "listing" /\ request'[c] = NoRequest
      BY <2>2 DEF ReceiveHistory, Receive
    <3> QED
      BY <1>1, <1>2, <3>1 DEF Carries, Answered
  <2>3. CASE Reject(c)
    <3>1. /\ handler'[c] = "idle" /\ request'[c] = request[c] /\ request[c] \in Request
          /\ request[c].payload \notin AcceptedPayloads
          /\ status'[c] = IF request[c].payload \in Undumpable THEN 500 ELSE 400
      BY <2>3 DEF Reject, Answer, HandlerInv
    <3> QED
      BY <1>1, <1>2, <3>1 DEF Carries, Answered
  <2>4. CASE Swap(c)
    <3>1. /\ handler'[c] = "swapped" /\ request'[c] = request[c] /\ request[c] \in Request
          /\ request[c].payload \in AcceptedPayloads
      BY <2>4 DEF Swap, HandlerInv
    <3> QED
      BY <1>1, <1>2, <3>1 DEF Carries, Answered
  <2>5. CASE AnswerFailure(c)
    <3>1. /\ handler'[c] = "idle" /\ request'[c] = request[c] /\ status'[c] = 500
          /\ handler[c] = "archiving"
      BY <2>5 DEF AnswerFailure, Answer
    <3>2. request[c] \in Request /\ request[c].payload \in AcceptedPayloads
      BY <3>1 DEF AnswerInv, Carries
    <3> QED
      BY <1>1, <1>2, <3>1, <3>2 DEF Carries, Answered
  <2> QED
    BY <2>1, <2>2, <2>3, <2>4, <2>5
<1> QED
  BY <1>1, <1>3, <1>4, QuietStep

LEMMA CommitAnswers ==
    ASSUME PInv, AnswerInv, NEW c \in Clients, Commit(c) PROVE AnswerInv'
<1> USE DEF PInv, Types
<1>1. PICK parent \in {Archive!HeadCommit, NoCommit} :
         Archive!ReadHead(c, request[c].payload, request[c].author, parent)
  BY DEF Commit, Archive!CommitConfig, Archive!CommitConfigHeadless
<1>2. PICK at \in Archive!Time :
         draft' = [draft EXCEPT ![c] =
                      Archive!Drafted(request[c].payload, request[c].author, at, parent)]
  BY <1>1 DEF Archive!ReadHead
<1>3. /\ handler[c] = "swapped" /\ handler' = [handler EXCEPT ![c] = "archiving"]
      /\ step' = [step EXCEPT ![c] = "inserting"]
      /\ UNCHANGED <<request, status, commits, snapshots, deployments>>
  BY <1>1 DEF Commit, Archive!ReadHead, Archive!tables
<1>4. draft'[c].id.payload = request[c].payload
  BY <1>2 DEF Archive!Drafted
<1>5. Carries(c)' /\ Answered(c)'
  BY <1>3, <1>4 DEF AnswerInv, Carries, Answered
<1> QED
  BY <1>2, <1>3, <1>5, QuietStep

(* A statement of the archive fails: the handler is where it was.          *)
LEMMA FailAnswers ==
    ASSUME PInv, AnswerInv, NEW c \in Clients, Archive!Fail(c), handler[c] = "archiving",
           UNCHANGED webVars
    PROVE  AnswerInv'
<1>1. /\ step' = [step EXCEPT ![c] = "failed"]
      /\ UNCHANGED <<commits, snapshots, deployments, draft, handler, request, status>>
  BY DEF Archive!Fail, Archive!tables, webVars
<1>2. step'[c] = "failed" /\ \A d \in Clients \ {c} : step'[d] = step[d]
  BY <1>1 DEF PInv, Types
<1>3. Carries(c)' /\ Answered(c)'
  BY <1>1, <1>2 DEF AnswerInv, Carries, Answered, InsideArchive
<1> QED
  BY <1>1, <1>2, <1>3, QuietStep

LEMMA InsertAnswers ==
    ASSUME PInv, AnswerInv, NEW c \in Clients, Insert(c) PROVE AnswerInv'
<1> USE DEF PInv, Types
<1>1. /\ UNCHANGED <<handler, request, status>>
      /\ step[c] \in InsideArchive /\ handler[c] = "archiving"
  BY DEF Insert, webVars, Archive!InsertStep, Archive!InsertCommit, Archive!RejectCommit,
         Archive!InsertSnapshot, Archive!RejectSnapshot, InsideArchive, HandlerInv
<1>2. CASE Archive!InsertCommit(c)
  <2>1. /\ commits' = Append(commits, draft[c])
        /\ step' = [step EXCEPT ![c] = "snapshotting"]
        /\ UNCHANGED <<snapshots, deployments, draft>>
    BY <1>2 DEF Archive!InsertCommit
  <2>2. draft[c] \in Archive!Commit /\ draft[c].id.payload \in AcceptedPayloads
    BY <1>1 DEF HandlerInv
  <2>3. /\ DOMAIN commits = 1 .. Len(commits) /\ DOMAIN commits' = 1 .. Len(commits) + 1
        /\ Len(commits) \in Nat
        /\ \A i \in 1 .. Len(commits) : commits'[i] = commits[i]
        /\ commits'[Len(commits) + 1] = draft[c]
    BY <2>1, <2>2, AppendProperties, LenProperties
  <2>4. \A i \in 1 .. Len(commits) + 1 : i \in 1 .. Len(commits) \/ i = Len(commits) + 1
    BY <2>3
  <2>5. \A i \in 1 .. Len(commits) : i \in 1 .. Len(commits) + 1
    BY <2>3
  <2>6. /\ Archive!CommittedIds \subseteq Archive!CommittedIds'
        /\ \A id \in Archive!CommittedIds' : id \in Archive!CommittedIds \/ id = draft[c].id
    BY <2>3, <2>4, <2>5 DEF Archive!CommittedIds
  <2>7. CommitsAccepted' /\ Recorded' = Recorded
    BY <2>1, <2>2, <2>6 DEF AnswerInv, CommitsAccepted, Recorded
  <2>8. Carries(c)' /\ Answered(c)'
    BY <1>1, <2>1 DEF AnswerInv, Carries, Answered
  <2> QED
    BY <1>1, <2>1, <2>6, <2>7, <2>8, OneThreadStep
<1>3. CASE Archive!InsertSnapshot(c)
  <2>1. /\ snapshots \subseteq snapshots'
        /\ step' = [step EXCEPT ![c] = "committed"]
        /\ UNCHANGED <<commits, deployments, draft>>
    BY <1>3 DEF Archive!InsertSnapshot
  <2>2. Archive!CommittedIds' = Archive!CommittedIds /\ Recorded' = Recorded
    BY <2>1 DEF Archive!CommittedIds, Recorded
  <2>3. CommitsAccepted' /\ Carries(c)' /\ Answered(c)'
    BY <1>1, <2>1, <2>2 DEF AnswerInv, CommitsAccepted, Carries, Answered
  <2> QED
    BY <1>1, <2>1, <2>2, <2>3, OneThreadStep
<1>4. CASE Archive!RejectCommit(c) \/ Archive!RejectSnapshot(c)
  BY <1>1, <1>4, FailAnswers DEF Archive!RejectCommit, Archive!RejectSnapshot, Insert
<1> QED
  BY <1>2, <1>3, <1>4 DEF Insert, Archive!InsertStep

LEMMA RecordAnswers ==
    ASSUME PInv, OwnTypes, AnswerInv, NEW c \in Clients, Record(c) PROVE AnswerInv'
<1> USE DEF PInv, Types, OwnTypes
<1>1. /\ step[c] = "committed" /\ handler[c] = "archiving"
      /\ deployments' = Append(deployments, draft[c].id)
      /\ step' = [step EXCEPT ![c] = "recorded"]
      /\ handler' = [handler EXCEPT ![c] = "idle"]
      /\ UNCHANGED <<commits, snapshots, draft, request>>
  BY DEF Record, Archive!RecordDeployment, Answer
<1> DEFINE code == IF request[c].author \in Undumpable THEN 500 ELSE 200
<1>2. status' = [status EXCEPT ![c] = code] /\ code \in {200, 500}
  BY DEF Record, Answer
<1> HIDE DEF code
<1>3. /\ draft[c].id \in Archive!CommitId /\ draft[c].id \in Archive!CommittedIds
      /\ Stored(draft[c].id) /\ draft[c].id.payload = request[c].payload
      /\ request[c] \in Request /\ request[c].payload \in AcceptedPayloads
  <2>1. Carries(c) /\ step[c] \in InsideArchive
    BY <1>1 DEF AnswerInv, InsideArchive
  <2>2. draft[c].id.payload = request[c].payload /\ request[c] \in Request
        /\ request[c].payload \in AcceptedPayloads
    BY <1>1, <2>1 DEF Carries
  <2>3. draft[c] \in Archive!Commit
    BY <1>1 DEF HandlerInv, InsideArchive
  <2>4. draft[c].id \in Archive!CommitId
    BY <2>3 DEF Archive!Commit
  <2>5. draft[c].id \in Archive!CommittedIds /\ Stored(draft[c].id)
    BY <1>1 DEF InsertedInv
  <2> QED
    BY <2>2, <2>4, <2>5
<1>4. /\ DOMAIN deployments = 1 .. Len(deployments) /\ DOMAIN deployments' = 1 .. Len(deployments) + 1
      /\ Len(deployments) \in Nat
      /\ \A i \in 1 .. Len(deployments) : deployments'[i] = deployments[i]
      /\ deployments'[Len(deployments) + 1] = draft[c].id
  BY <1>1, <1>3, AppendProperties, LenProperties
<1>5. Recorded \subseteq Recorded' /\ draft[c].id \in Recorded'
  <2>1. \A i \in 1 .. Len(deployments) : i \in 1 .. Len(deployments) + 1
    BY <1>4
  <2>2. Len(deployments) + 1 \in 1 .. Len(deployments) + 1
    BY <1>4
  <2> QED
    BY <1>4, <2>1, <2>2 DEF Recorded
<1>6. Archive!CommittedIds' = Archive!CommittedIds
  BY <1>1 DEF Archive!CommittedIds
<1>7. CommitsAccepted' /\ Carries(c)'
  BY <1>1, <1>6 DEF AnswerInv, CommitsAccepted, Carries, InsideArchive
<1>8. status'[c] \in {200, 500} /\ handler'[c] = "idle"
  BY <1>1, <1>2
<1>9. Answered(c)'
  BY <1>1, <1>3, <1>5, <1>6, <1>8 DEF Answered, Stored
<1> QED
  BY <1>1, <1>2, <1>5, <1>6, <1>7, <1>9, OneThreadStep

LEMMA ListAnswers ==
    ASSUME PInv, AnswerInv, NEW c \in Clients, ListHistory(c) PROVE AnswerInv'
<1> USE DEF PInv, Types
<1>1. /\ step' = [step EXCEPT ![c] = "listed"]
      /\ draft' = [draft EXCEPT ![c] = NoCommit]
      /\ handler[c] = "listing" /\ handler' = [handler EXCEPT ![c] = "idle"]
      /\ UNCHANGED <<commits, snapshots, deployments, request>>
      /\ \A d \in Clients \ {c} : status'[d] = status[d]
  BY DEF ListHistory, Archive!GetCommitHistory, Archive!tables, Answer, OwnTypes
<1>2. request'[c] = NoRequest /\ step'[c] = "listed" /\ handler'[c] = "idle"
  BY <1>1 DEF AnswerInv, Carries
<1>3. Carries(c)' /\ Answered(c)'
  BY <1>2 DEF Carries, Answered, InsideArchive
<1> QED
  BY <1>1, <1>3, QuietStep

(* Nobody is answered what is not so, whichever handlers interleave and    *)
(* whatever fails (the POST /api/deploy handler).                          *)
THEOREM AnswersAreAccurate == Spec => []AnswersAccurate
<1>1. Init => AnswerInv
  <2> SUFFICES ASSUME Init PROVE AnswerInv
    OBVIOUS
  <2>1. CommitsAccepted
    BY DEF Init, Archive!Init, CommitsAccepted, Archive!CommittedIds
  <2>2. ASSUME NEW c \in Clients PROVE Carries(c) /\ Answered(c)
    BY DEF Init, Archive!Init, Carries, Answered, InsideArchive
  <2> QED
    BY <2>1, <2>2 DEF AnswerInv
<1>2. PInv /\ OwnTypes /\ AnswerInv /\ [Next]_vars => AnswerInv'
  <2> SUFFICES ASSUME PInv, OwnTypes, AnswerInv, [Next]_vars PROVE AnswerInv'
    OBVIOUS
  <2>1. ASSUME NEW c \in Clients, ReceiveDeploy(c) \/ ReceiveHistory(c) \/ HandlerStep(c)
        PROVE  AnswerInv'
    <3>1. CASE RecordFails(c)
      BY <3>1, FailAnswers DEF RecordFails, Archive!RejectDeployment
    <3> QED
      BY <2>1, <3>1, WebAnswers, CommitAnswers, InsertAnswers, RecordAnswers, ListAnswers
         DEF HandlerStep
  <2>2. CASE MainReload \/ UNCHANGED vars
    <3>1. UNCHANGED <<commits, snapshots, deployments, step, draft, handler, request, status>>
      BY <2>2 DEF MainReload, vars, archiveVars, webVars
    <3>2. Archive!CommittedIds' = Archive!CommittedIds /\ Recorded' = Recorded
      BY <3>1 DEF Archive!CommittedIds, Recorded
    <3> QED
      BY <3>1, <3>2 DEF AnswerInv, CommitsAccepted, Carries, Answered, Stored
  <2>3. CASE Crash
    <3>1. /\ \A c \in Clients : step'[c] = "idle" /\ handler'[c] = "idle" /\ request'[c] = NoRequest
          /\ commits' = commits
      BY <2>3 DEF Crash, Archive!Crash, Archive!tables
    <3>2. Archive!CommittedIds' = Archive!CommittedIds
      BY <3>1 DEF Archive!CommittedIds
    <3> QED
      BY <3>1, <3>2 DEF AnswerInv, CommitsAccepted, Carries, Answered, InsideArchive
  <2> QED
    BY <2>1, <2>2, <2>3 DEF Next
<1>3. AnswerInv => AnswersAccurate
  <2> SUFFICES ASSUME AnswerInv, NEW c \in Clients, handler[c] = "idle", request[c] # NoRequest
               PROVE  /\ status[c] = 200 =>
                             /\ draft[c].id \in Archive!CommittedIds \cap {deployments[i] : i \in DOMAIN deployments}
                             /\ [commit |-> draft[c].id, payload |-> request[c].payload] \in snapshots
                      /\ status[c] = 400 <=> request[c].payload \notin AcceptedPayloads \cup Undumpable
                      /\ request[c].payload \notin AcceptedPayloads =>
                             \A i \in DOMAIN commits : commits[i].id.payload # request[c].payload
    BY DEF AnswersAccurate
  <2>1. \A i \in DOMAIN commits : commits[i].id.payload \in AcceptedPayloads
    BY DEF AnswerInv, CommitsAccepted, Archive!CommittedIds
  <2>2. Answered(c)
    BY DEF AnswerInv
  <2> HIDE DEF Types, PInv
  <2>3. request[c] \in Request /\ (status[c] = 400 <=> request[c].payload \notin AcceptedPayloads \cup Undumpable)
    BY <2>2 DEF Answered
  <2>4. ASSUME status[c] = 200
        PROVE  /\ draft[c].id \in Archive!CommittedIds \cap Recorded
               /\ [commit |-> draft[c].id, payload |-> request[c].payload] \in snapshots
    BY <2>2, <2>4 DEF Answered, Stored
  <2> QED
    BY <2>1, <2>3, <2>4 DEF Recorded
<1> QED
  BY Invariance, OwnTypesHold, <1>1, <1>2, <1>3, PTL DEF Spec

(* A step of the pipeline is a call the archive allows, or none.           *)
LEMMA StepRefines == PInv /\ [Next]_vars => [Archive!Next]_(Archive!vars)
<1> SUFFICES ASSUME PInv, [Next]_vars PROVE Archive!Next \/ UNCHANGED Archive!vars
  OBVIOUS
<1> USE DEF Archive!Next, Archive!vars, Archive!tables
<1>1. ASSUME NEW c \in Clients, ReceiveDeploy(c) \/ ReceiveHistory(c) \/ Reject(c) \/ Swap(c) \/ AnswerFailure(c)
      PROVE  UNCHANGED Archive!vars
  BY <1>1 DEF ReceiveDeploy, ReceiveHistory, Receive, Reject, Swap, AnswerFailure, archiveVars
<1>2. ASSUME NEW c \in Clients, Commit(c) PROVE Archive!Call(c)
  <2>1. request[c].payload \in Payloads /\ request[c].author \in Authors
    BY <1>2 DEF Commit, PInv, HandlerInv, Request
  <2> QED
    BY <1>2, <2>1 DEF Commit, Archive!Call
<1>3. ASSUME NEW c \in Clients, Insert(c) PROVE Archive!InsertStep(c)
  BY <1>3 DEF Insert
<1>4. ASSUME NEW c \in Clients, Record(c) PROVE Archive!Call(c)
  <2>1. draft[c].id \in Archive!CommittedIds
    BY <1>4 DEF Record, PInv, InsertedInv
  <2> QED
    BY <1>4, <2>1 DEF Record, Archive!Call
<1>5. ASSUME NEW c \in Clients, RecordFails(c) PROVE Archive!Call(c)
  BY <1>5 DEF RecordFails, Archive!Call
<1>6. ASSUME NEW c \in Clients, ListHistory(c) PROVE Archive!Call(c)
  <2>1. PICK limit \in Limits : Archive!GetCommitHistory(c, limit)
    BY <1>6 DEF ListHistory
  <2> DEFINE same == IF limit \in 0 .. Len(commits) THEN limit ELSE Len(commits)
  <2>2. Len(commits) \in Nat
    BY LenProperties DEF PInv, Types
  <2>3. same \in 0 .. Len(commits)
    BY <2>2
  <2>4. Archive!History(same) = Archive!History(limit)
    BY <2>3 DEF Archive!History
  <2> HIDE DEF same
  <2>5. Archive!GetCommitHistory(c, same)
    BY <2>1, <2>4 DEF Archive!GetCommitHistory
  <2> QED
    BY <2>3, <2>5 DEF Archive!Call
<1>7. CASE MainReload \/ UNCHANGED vars
  BY <1>7 DEF MainReload, vars, archiveVars
<1>8. CASE Crash
  BY <1>8 DEF Crash
<1> QED
  BY <1>1, <1>2, <1>3, <1>4, <1>5, <1>6, <1>7, <1>8 DEF Next, HandlerStep

(* The pipeline implements the archive's specification: the handlers of    *)
(* the HTTP server never call it in a way ConfigArchive does not cover.    *)
THEOREM PipelineUsesArchive == Spec => UsesArchiveAsSpecified
<1>1. Init => Archive!Init
  BY DEF Init
<1> QED
  BY <1>1, Invariance, StepRefines, PTL DEF Spec, UsesArchiveAsSpecified, Archive!Spec

-----------------------------------------------------------------------------
(* The theorems of ConfigArchive, for the archive the handlers use.  Kept  *)
(* is that module with its proofs; it defines what Archive defines.        *)

Kept == INSTANCE ConfigArchiveProofs

LEMMA KeptAssumptions == Kept!ArchiveAssumption /\ Kept!NoCommitAssumption
  BY PipelineAssumption, NullCommitAssumption
  DEF PipelineAssumption, Kept!ArchiveAssumption, Kept!NoCommitAssumption, Archive!CommitId, Kept!CommitId, Archive!Time, Kept!Time

LEMMA SameSpec == Archive!Spec => Kept!Spec
<1>1. Archive!Init => Kept!Init
  BY DEF Archive!Init, Kept!Init
<1>2. [Archive!Next]_(Archive!vars) => [Kept!Next]_(Kept!vars)
  BY DEF Archive!Time, Kept!Time, Archive!CommitId, Kept!CommitId, Archive!Commit, Kept!Commit,
       Archive!HeadCommit, Kept!HeadCommit, Archive!CommittedIds, Kept!CommittedIds,
       Archive!SnapshotIds, Kept!SnapshotIds, Archive!History, Kept!History, Archive!CanCall,
       Kept!CanCall, Archive!Drafted, Kept!Drafted, Archive!ReadHead, Kept!ReadHead,
       Archive!CommitConfig, Kept!CommitConfig, Archive!CommitConfigHeadless,
       Kept!CommitConfigHeadless, Archive!Fail, Kept!Fail, Archive!InsertCommit, Kept!InsertCommit,
       Archive!RejectCommit, Kept!RejectCommit, Archive!InsertSnapshot, Kept!InsertSnapshot,
       Archive!RejectSnapshot, Kept!RejectSnapshot, Archive!RecordDeployment, Kept!RecordDeployment,
       Archive!RejectDeployment, Kept!RejectDeployment, Archive!GetCommitHistory,
       Kept!GetCommitHistory, Archive!GetSnapshot, Kept!GetSnapshot, Archive!MissSnapshot,
       Kept!MissSnapshot, Archive!Crash, Kept!Crash, Archive!InsertStep, Kept!InsertStep,
       Archive!Call, Kept!Call, Archive!Next, Kept!Next, Archive!vars, Kept!vars, Archive!tables,
       Kept!tables
<1> QED
  BY <1>1, <1>2, PTL DEF Archive!Spec, Kept!Spec

ArchiveKept ==
    /\ Archive!LinearHistory
    /\ Archive!ReturnedCommitStored
    /\ Archive!ListedLinked
    /\ Archive!NoneListedEarly

LEMMA SameProperties ==
    Kept!LinearHistory /\ Kept!ReturnedCommitStored /\ Kept!ListedLinked /\ Kept!NoneListedEarly => ArchiveKept
<1>1. Kept!LinearHistory => Archive!LinearHistory
  BY DEF Archive!LinearHistory, Kept!LinearHistory, Archive!ChainedTo, Kept!ChainedTo
<1>2. Kept!ReturnedCommitStored => Archive!ReturnedCommitStored
  BY DEF Archive!ReturnedCommitStored, Kept!ReturnedCommitStored, Archive!CommittedIds,
       Kept!CommittedIds
<1>3. Kept!ListedLinked => Archive!ListedLinked
  BY DEF Archive!ListedLinked, Kept!ListedLinked, Archive!ChainedTo, Kept!ChainedTo
<1>4. Kept!NoneListedEarly => Archive!NoneListedEarly
  BY DEF Archive!NoneListedEarly, Kept!NoneListedEarly
<1> QED
  BY <1>1, <1>2, <1>3, <1>4 DEF ArchiveKept

(* In the whole deploy pipeline, with requests that fail, collide or die   *)
(* at any point, the history stays one chain, what commit_config returned  *)
(* is stored, and GET /api/history lists linked commits, none too early.   *)
THEOREM PipelineKeepsHistory == Spec => []ArchiveKept
<1>1. Kept!Spec => []Kept!LinearHistory
  BY KeptAssumptions, Kept!HistoryIsLinear
<1>2. Kept!Spec => []Kept!ReturnedCommitStored
  BY KeptAssumptions, Kept!ReturnedIsStored
<1>3. Kept!Spec => []Kept!ListedLinked
  BY KeptAssumptions, Kept!ListingIsLinked
<1>4. Kept!Spec => []Kept!NoneListedEarly
  BY KeptAssumptions, Kept!NoListingIsEarly
<1> QED
  BY <1>1, <1>2, <1>3, <1>4, SameSpec, SameProperties, PipelineUsesArchive, PTL DEF UsesArchiveAsSpecified

=============================================================================
