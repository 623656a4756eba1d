------------------------- MODULE ConfigArchiveProofs -------------------------
(***************************************************************************)
(* Proofs about ConfigArchive, for any clients, payloads and bounds, any   *)
(* kinds of fault, crashes among them, and any readings of the wall clock. *)
(***************************************************************************)
EXTENDS ConfigArchive, SequenceTheorems, TLAPS

(* What a client that is inside commit_config, or back from it, knows: the *)
(* parent it read is still HEAD, because it has the mutex; its commit row  *)
(* is there once inserted, and its snapshot once commit_config returned.   *)
DraftInv ==
    \A c \in Clients :
        /\ step[c] = "inserting" => draft[c] # NoCommit /\ ChainedTo(draft[c], HeadCommit)
        /\ step[c] = "snapshotting" => draft[c] # NoCommit /\ draft[c].id \in CommittedIds
        /\ step[c] = "committed" =>
              /\ draft[c] # NoCommit
              /\ draft[c].id \in CommittedIds
              /\ [commit |-> draft[c].id, payload |-> draft[c].id.payload] \in snapshots

(* What was listed is there, and stays there.                              *)
ListedCommitted ==
    \A c \in Clients : \A i \in DOMAIN listed[c] : listed[c][i].id \in CommittedIds

ListedInv == ListedLinked /\ ListedCommitted /\ NoneListedEarly

IInv == TypeOK /\ LinearHistory /\ DraftInv /\ ListedInv

-----------------------------------------------------------------------------

LEMMA InitIInv == Init => IInv
<1> SUFFICES ASSUME Init PROVE IInv
  OBVIOUS
<1> USE ArchiveAssumption DEF Init
<1>1. TypeOK
  BY DEF TypeOK
<1>2. LinearHistory /\ DraftInv /\ ListedInv
  BY DEF LinearHistory, DraftInv, ListedInv, ListedLinked, ListedCommitted, NoneListedEarly
<1> QED
  BY <1>1, <1>2 DEF IInv

LEMMA HeadType == TypeOK => HeadCommit \in CommitId \cup {NoCommit}
<1> SUFFICES ASSUME TypeOK, commits # <<>> PROVE HeadCommit \in CommitId
  BY DEF HeadCommit
<1>1. commits \in Seq(Commit) /\ Len(commits) \in 1 .. Len(commits)
  BY EmptySeq, LenProperties DEF TypeOK
<1>2. commits[Len(commits)] \in Commit
  BY <1>1, ElementOfSeq
<1> QED
  BY <1>2 DEF Commit, HeadCommit

(* What History returns: a linked part of the commits, newest first.       *)
LEMMA HistoryLinked ==
    ASSUME IInv, NEW limit, NEW rows \in 0 .. Len(History(limit))
    PROVE  LET answer == SubSeq(History(limit), 1, rows)
           IN  /\ answer \in Seq(Commit)
               /\ \A i \in 1 .. Len(answer) - 1 : ChainedTo(answer[i], answer[i + 1].id)
               /\ \A i \in DOMAIN answer : answer[i].id \in CommittedIds
<1> DEFINE n == IF limit \in 0 .. Len(commits) THEN limit ELSE Len(commits)
<1> DEFINE answer == SubSeq(History(limit), 1, rows)
<1>1. commits \in Seq(Commit) /\ Len(commits) \in Nat
  BY LenProperties DEF IInv, TypeOK
<1>2. n \in 0 .. Len(commits)
  BY <1>1
<1>3. History(limit) = [i \in 1 .. n |-> commits[Len(commits) + 1 - i]]
  BY DEF History
<1> HIDE DEF n
<1>4. Len(History(limit)) = n
  BY <1>1, <1>2, <1>3
<1>5. \A i \in 1 .. n : History(limit)[i] \in Commit
  BY <1>1, <1>2, <1>3, ElementOfSeq
<1>6. rows \in 0 .. n
  BY <1>4
<1>7. /\ answer \in Seq(Commit)
      /\ Len(answer) = IF 1 <= rows THEN rows - 1 + 1 ELSE 0
      /\ \A i \in 1 .. rows - 1 + 1 : answer[i] = History(limit)[1 + i - 1]
  <2>1. \A i \in 1 .. rows : History(limit)[i] \in Commit
    BY <1>1, <1>2, <1>5, <1>6
  <2>2. rows \in Int
    BY <1>1, <1>2, <1>6
  <2> QED
    BY <2>1, <2>2, SubSeqProperties
<1>8. Len(answer) = rows /\ \A i \in 1 .. rows : answer[i] = History(limit)[i]
  BY <1>1, <1>2, <1>6, <1>7
<1>9. ASSUME NEW i \in 1 .. rows - 1
      PROVE  ChainedTo(answer[i], answer[i + 1].id)
  <2> DEFINE j == Len(commits) + 1 - i
  <2>1. i \in 1 .. n /\ i + 1 \in 1 .. n /\ i \in 1 .. rows /\ i + 1 \in 1 .. rows
    BY <1>1, <1>2, <1>6, <1>9
  <2>2. answer[i] = commits[j] /\ answer[i + 1] = commits[Len(commits) + 1 - (i + 1)]
    BY <1>3, <1>8, <2>1
  <2>3. j \in 1 .. Len(commits) /\ j # 1 /\ Len(commits) + 1 - (i + 1) = j - 1
    BY <1>1, <1>2, <2>1
  <2>4. j \in DOMAIN commits
    BY <1>1, <2>3, LenProperties
  <2>5. ChainedTo(commits[j], commits[j - 1].id)
    BY <2>3, <2>4 DEF IInv, LinearHistory
  <2> QED
    BY <2>2, <2>3, <2>5
<1>10. ASSUME NEW i \in DOMAIN answer PROVE answer[i].id \in CommittedIds
  <2>1. i \in 1 .. rows
    BY <1>7, <1>8, LenProperties
  <2>2. answer[i] = commits[Len(commits) + 1 - i]
    BY <1>1, <1>2, <1>3, <1>6, <1>8, <2>1
  <2>3. Len(commits) + 1 - i \in DOMAIN commits
    BY <1>1, <1>2, <1>6, <2>1, LenProperties
  <2> QED
    BY <2>2, <2>3 DEF CommittedIds
<1> QED
  BY <1>7, <1>8, <1>9, <1>10

-----------------------------------------------------------------------------
(* The steps.                                                              *)

(* Steps that leave the tables alone, and forget what c had listed without *)
(* letting it insert a snapshot.                                           *)
LEMMA ListedForgotten ==
    ASSUME IInv, NEW c \in Clients, NEW st,
           step' = [step EXCEPT ![c] = st], st # "snapshotting",
           listed' = [listed EXCEPT ![c] = <<>>],
           \A d \in Clients \ {c} : draft'[d] = draft[d],
           UNCHANGED commits
    PROVE  ListedInv'
<1> USE DEF IInv, TypeOK
<1>1. listed'[c] = <<>> /\ step'[c] = st
  OBVIOUS
<1>2. \A d \in Clients \ {c} : listed'[d] = listed[d] /\ step'[d] = step[d]
  OBVIOUS
<1>3. ListedLinked'
  BY <1>1, <1>2 DEF ListedInv, ListedLinked, ChainedTo
<1>4. ListedCommitted'
  BY <1>1, <1>2 DEF ListedInv, ListedCommitted, CommittedIds
<1>5. NoneListedEarly'
  BY <1>1, <1>2 DEF ListedInv, NoneListedEarly
<1> QED
  BY <1>3, <1>4, <1>5 DEF ListedInv

LEMMA ReadHeadStep ==
    ASSUME IInv, NEW c \in Clients, NEW payload \in Payloads, NEW author \in Authors,
           NEW parent \in CommitId \cup {NoCommit},
           parent = HeadCommit \/ ("head" \in Faults /\ parent = NoCommit),
           ReadHead(c, payload, author, parent)
    PROVE  IInv'
<1> USE DEF IInv
<1>0. PICK at \in Time : draft' = [draft EXCEPT ![c] = Drafted(payload, author, at, parent)]
  BY DEF ReadHead
<1> DEFINE new == Drafted(payload, author, at, parent)
<1>1. /\ holder = NoClient /\ holder' = c
      /\ step' = [step EXCEPT ![c] = "inserting"]
      /\ draft' = [draft EXCEPT ![c] = new]
      /\ listed' = [listed EXCEPT ![c] = <<>>]
      /\ UNCHANGED <<commits, snapshots, deployments>>
  BY <1>0 DEF ReadHead, tables
<1>2. new \in Commit /\ ChainedTo(new, HeadCommit)
  BY DEF Drafted, Commit, CommitId, ChainedTo
<1> HIDE DEF new
<1>3. TypeOK'
  <2>1. \A d \in Clients : (holder' = d <=> step'[d] \in {"inserting", "snapshotting"})
    BY <1>1, ArchiveAssumption DEF TypeOK
  <2>2. /\ step' \in [Clients -> {"idle", "inserting", "snapshotting", "committed", "recorded", "listed", "read", "failed"}]
        /\ draft' \in [Clients -> Commit \cup {NoCommit}]
        /\ listed' \in [Clients -> Seq(Commit)]
    BY <1>1, <1>2, EmptySeq DEF TypeOK
  <2> QED
    BY <1>1, <2>1, <2>2 DEF TypeOK
<1>4. LinearHistory'
  BY <1>1 DEF LinearHistory, ChainedTo
<1>5. DraftInv'
  <2>1. HeadCommit' = HeadCommit /\ CommittedIds' = CommittedIds
    BY <1>1 DEF HeadCommit, CommittedIds
  <2>2. /\ draft'[c] # NoCommit
        /\ ChainedTo(draft'[c], HeadCommit)
        /\ step'[c] = "inserting"
    BY <1>1, <1>2, NoCommitAssumption DEF TypeOK, Commit
  <2>3. \A d \in Clients \ {c} : draft'[d] = draft[d] /\ step'[d] = step[d]
    BY <1>1 DEF TypeOK
  <2> QED
    BY <1>1, <2>1, <2>2, <2>3 DEF DraftInv, ChainedTo
<1>6. ListedInv'
  BY <1>1, ListedForgotten DEF TypeOK
<1> QED
  BY <1>3, <1>4, <1>5, <1>6

LEMMA FailStep == ASSUME IInv, NEW c \in Clients, Fail(c), holder \in {c, NoClient} PROVE IInv'
<1> USE DEF IInv
<1>1. /\ holder' = NoClient
      /\ step' = [step EXCEPT ![c] = "failed"]
      /\ listed' = [listed EXCEPT ![c] = <<>>]
      /\ UNCHANGED <<commits, snapshots, deployments, draft>>
  BY DEF Fail, tables
<1>2. TypeOK'
  <2>1. \A d \in Clients : (holder' = d <=> step'[d] \in {"inserting", "snapshotting"})
    BY <1>1, ArchiveAssumption DEF TypeOK
  <2>2. listed' \in [Clients -> Seq(Commit)]
    BY <1>1, EmptySeq DEF TypeOK
  <2> QED
    BY <1>1, <2>1, <2>2 DEF TypeOK
<1>3. LinearHistory'
  BY <1>1 DEF LinearHistory, ChainedTo
<1>4. DraftInv'
  <2>1. HeadCommit' = HeadCommit /\ CommittedIds' = CommittedIds
    BY <1>1 DEF HeadCommit, CommittedIds
  <2>2. step'[c] = "failed" /\ \A d \in Clients \ {c} : step'[d] = step[d]
    BY <1>1 DEF TypeOK
  <2> QED
    BY <1>1, <2>1, <2>2 DEF DraftInv, ChainedTo
<1>5. ListedInv'
  BY <1>1, ListedForgotten DEF TypeOK
<1> QED
  BY <1>2, <1>3, <1>4, <1>5

LEMMA InsertCommitStep == ASSUME IInv, NEW c \in Clients, InsertCommit(c) PROVE IInv'
<1> USE DEF IInv
<1>1. /\ step[c] = "inserting" /\ draft[c].id \notin CommittedIds
      /\ commits' = Append(commits, draft[c])
      /\ step' = [step EXCEPT ![c] = "snapshotting"]
      /\ UNCHANGED <<snapshots, deployments, holder, draft, listed>>
  BY DEF InsertCommit
<1>2. draft[c] \in Commit /\ ChainedTo(draft[c], HeadCommit) /\ draft[c] # NoCommit
  BY <1>1 DEF DraftInv, TypeOK
<1>3. commits \in Seq(Commit) /\ Len(commits) \in Nat /\ DOMAIN commits = 1 .. Len(commits)
  BY LenProperties DEF TypeOK
<1>4. /\ commits' \in Seq(Commit)
      /\ Len(commits') = Len(commits) + 1
      /\ \A i \in 1 .. Len(commits) : commits'[i] = commits[i]
      /\ commits'[Len(commits) + 1] = draft[c]
  BY <1>1, <1>2, <1>3, AppendProperties
<1>5. DOMAIN commits' = 1 .. Len(commits) + 1
  BY <1>4, LenProperties
<1>6. TypeOK'
  BY <1>1, <1>4 DEF TypeOK
<1>7. LinearHistory'
  <2> SUFFICES ASSUME NEW i \in 1 .. Len(commits) + 1
               PROVE  ChainedTo(commits'[i], IF i = 1 THEN NoCommit ELSE commits'[i - 1].id)
    BY <1>5 DEF LinearHistory, ChainedTo
  <2>1. CASE i \in 1 .. Len(commits)
    <3>1. ChainedTo(commits[i], IF i = 1 THEN NoCommit ELSE commits[i - 1].id)
      BY <1>3, <2>1 DEF LinearHistory
    <3> QED
      BY <1>3, <1>4, <2>1, <3>1
  <2>2. CASE i = Len(commits) + 1
    <3>1. ChainedTo(commits'[i], HeadCommit)
      BY <1>2, <1>4, <2>2
    <3>2. CASE Len(commits) = 0
      BY <1>3, <2>2, <3>1, <3>2, EmptySeq DEF HeadCommit
    <3>3. CASE Len(commits) > 0
      <4>1. commits # <<>> /\ i # 1 /\ i - 1 = Len(commits) /\ Len(commits) \in 1 .. Len(commits)
        BY <1>3, <2>2, <3>3, EmptySeq
      <4> QED
        BY <1>4, <3>1, <4>1 DEF HeadCommit
    <3> QED
      BY <1>3, <3>2, <3>3
  <2> QED
    BY <1>3, <2>1, <2>2
<1>8. DraftInv'
  <2>1. CommittedIds \subseteq CommittedIds' /\ draft[c].id \in CommittedIds'
    BY <1>3, <1>4, <1>5 DEF CommittedIds
  <2>2. \A d \in Clients \ {c} : step'[d] = step[d] /\ step'[d] # "inserting"
    BY <1>1 DEF TypeOK
  <2>3. step'[c] = "snapshotting"
    BY <1>1 DEF TypeOK
  <2> QED
    BY <1>1, <1>2, <2>1, <2>2, <2>3 DEF DraftInv, ChainedTo
<1>9. ListedInv'
  <2>1. CommittedIds \subseteq CommittedIds'
    BY <1>3, <1>4, <1>5 DEF CommittedIds
  <2>2. \A d \in Clients \ {c} : step'[d] = step[d]
    BY <1>1 DEF TypeOK
  <2>3. ListedLinked' /\ ListedCommitted'
    BY <1>1, <2>1 DEF ListedInv, ListedLinked, ListedCommitted, ChainedTo
  <2>4. NoneListedEarly'
    BY <1>1, <2>2 DEF ListedInv, ListedCommitted, NoneListedEarly
  <2> QED
    BY <2>3, <2>4 DEF ListedInv
<1> QED
  BY <1>6, <1>7, <1>8, <1>9

LEMMA InsertSnapshotStep == ASSUME IInv, NEW c \in Clients, InsertSnapshot(c) PROVE IInv'
<1> USE DEF IInv
<1> DEFINE row == [commit |-> draft[c].id, payload |-> draft[c].id.payload]
<1>1. /\ step[c] = "snapshotting"
      /\ snapshots' = snapshots \cup {row}
      /\ holder' = NoClient
      /\ step' = [step EXCEPT ![c] = "committed"]
      /\ UNCHANGED <<commits, deployments, draft, listed>>
  BY DEF InsertSnapshot
<1>2. draft[c] \in Commit /\ draft[c] # NoCommit /\ draft[c].id \in CommittedIds /\ holder = c
  BY <1>1 DEF DraftInv, TypeOK
<1>3. row \in [commit : CommitId, payload : Payloads]
  BY <1>2 DEF Commit, CommitId
<1>4. TypeOK'
  <2>1. \A d \in Clients : (holder' = d <=> step'[d] \in {"inserting", "snapshotting"})
    BY <1>1, <1>2, ArchiveAssumption DEF TypeOK
  <2> QED
    BY <1>1, <1>3, <2>1 DEF TypeOK
<1>5. LinearHistory' /\ ListedInv'
  <2>1. step'[c] = "committed" /\ \A d \in Clients \ {c} : step'[d] = step[d]
    BY <1>1 DEF TypeOK
  <2> QED
    BY <1>1, <2>1 DEF LinearHistory, ListedInv, ListedLinked, ListedCommitted, NoneListedEarly,
                      CommittedIds, ChainedTo
<1>6. DraftInv'
  <2>1. HeadCommit' = HeadCommit /\ CommittedIds' = CommittedIds
    BY <1>1 DEF HeadCommit, CommittedIds
  <2>2. step'[c] = "committed" /\ \A d \in Clients \ {c} : step'[d] = step[d]
    BY <1>1 DEF TypeOK
  <2> QED
    BY <1>1, <1>2, <2>1, <2>2 DEF DraftInv, ChainedTo
<1> QED
  BY <1>4, <1>5, <1>6

LEMMA RecordStep ==
    ASSUME IInv, NEW c \in Clients, NEW id \in CommitId, RecordDeployment(c, id)
    PROVE  IInv'
<1> USE DEF IInv
<1>1. /\ CanCall(c)
      /\ deployments' = Append(deployments, id)
      /\ step' = [step EXCEPT ![c] = "recorded"]
      /\ listed' = [listed EXCEPT ![c] = <<>>]
      /\ UNCHANGED <<commits, snapshots, holder, draft>>
  BY DEF RecordDeployment
<1>2. TypeOK'
  <2>1. deployments' \in Seq(CommitId)
    BY <1>1, AppendProperties DEF TypeOK
  <2>2. listed' \in [Clients -> Seq(Commit)]
    BY <1>1, EmptySeq DEF TypeOK
  <2>3. \A d \in Clients : (holder' = d <=> step'[d] \in {"inserting", "snapshotting"})
    BY <1>1 DEF TypeOK, CanCall
  <2> QED
    BY <1>1, <2>1, <2>2, <2>3 DEF TypeOK
<1>3. LinearHistory'
  BY <1>1 DEF LinearHistory, ChainedTo
<1>4. DraftInv'
  <2>1. HeadCommit' = HeadCommit /\ CommittedIds' = CommittedIds
    BY <1>1 DEF HeadCommit, CommittedIds
  <2>2. step'[c] = "recorded" /\ \A d \in Clients \ {c} : step'[d] = step[d]
    BY <1>1 DEF TypeOK
  <2> QED
    BY <1>1, <2>1, <2>2 DEF DraftInv, ChainedTo
<1>5. ListedInv'
  BY <1>1, ListedForgotten DEF TypeOK
<1> QED
  BY <1>2, <1>3, <1>4, <1>5

LEMMA HistoryStep ==
    ASSUME IInv, NEW c \in Clients, NEW limit, GetCommitHistory(c, limit)
    PROVE  IInv'
<1> USE DEF IInv
<1>1. PICK rows \in 0 .. Len(History(limit)) :
         listed' = [listed EXCEPT ![c] = SubSeq(History(limit), 1, rows)]
  BY DEF GetCommitHistory
<1> DEFINE answer == SubSeq(History(limit), 1, rows)
<1>2. /\ CanCall(c) /\ holder = NoClient
      /\ step' = [step EXCEPT ![c] = "listed"]
      /\ draft' = [draft EXCEPT ![c] = NoCommit]
      /\ UNCHANGED <<commits, snapshots, deployments, holder>>
  BY DEF GetCommitHistory, tables
<1>3. /\ answer \in Seq(Commit)
      /\ \A i \in 1 .. Len(answer) - 1 : ChainedTo(answer[i], answer[i + 1].id)
      /\ \A i \in DOMAIN answer : answer[i].id \in CommittedIds
  BY HistoryLinked
<1>4. listed' = [listed EXCEPT ![c] = answer]
  BY <1>1
<1> HIDE DEF answer
<1>5. TypeOK'
  <2>1. \A d \in Clients : (holder' = d <=> step'[d] \in {"inserting", "snapshotting"})
    BY <1>2 DEF TypeOK, CanCall
  <2>2. listed' \in [Clients -> Seq(Commit)] /\ draft' \in [Clients -> Commit \cup {NoCommit}]
    BY <1>2, <1>3, <1>4 DEF TypeOK
  <2> QED
    BY <1>2, <2>1, <2>2 DEF TypeOK
<1>6. LinearHistory'
  BY <1>2 DEF LinearHistory, ChainedTo
<1>7. DraftInv'
  <2>1. HeadCommit' = HeadCommit /\ CommittedIds' = CommittedIds
    BY <1>2 DEF HeadCommit, CommittedIds
  <2>2. step'[c] = "listed" /\ \A d \in Clients \ {c} : step'[d] = step[d] /\ draft'[d] = draft[d]
    BY <1>2 DEF TypeOK
  <2> QED
    BY <1>2, <2>1, <2>2 DEF DraftInv, ChainedTo
<1>8. ListedInv'
  <2>1. listed'[c] = answer /\ \A d \in Clients \ {c} : listed'[d] = listed[d]
    BY <1>4 DEF TypeOK
  <2>2. \A d \in Clients : step'[d] # "snapshotting"
    BY <1>2, ArchiveAssumption DEF TypeOK
  <2>3. ListedLinked'
    BY <1>3, <2>1 DEF ListedInv, ListedLinked, ChainedTo
  <2>4. ListedCommitted'
    BY <1>2, <1>3, <2>1 DEF ListedInv, ListedCommitted, CommittedIds
  <2> QED
    BY <2>2, <2>3, <2>4 DEF ListedInv, NoneListedEarly
<1> QED
  BY <1>5, <1>6, <1>7, <1>8

LEMMA SnapshotStep ==
    ASSUME IInv, NEW c \in Clients, NEW id, GetSnapshot(c, id)
    PROVE  IInv'
<1> USE DEF IInv
<1>1. /\ CanCall(c)
      /\ step' = [step EXCEPT ![c] = "read"]
      /\ listed' = [listed EXCEPT ![c] = <<>>]
      /\ UNCHANGED <<commits, snapshots, deployments, holder, draft>>
  BY DEF GetSnapshot, tables
<1>2. TypeOK'
  <2>1. listed' \in [Clients -> Seq(Commit)]
    BY <1>1, EmptySeq DEF TypeOK
  <2>2. \A d \in Clients : (holder' = d <=> step'[d] \in {"inserting", "snapshotting"})
    BY <1>1 DEF TypeOK, CanCall
  <2> QED
    BY <1>1, <2>1, <2>2 DEF TypeOK
<1>3. LinearHistory'
  BY <1>1 DEF LinearHistory, ChainedTo
<1>4. DraftInv'
  <2>1. HeadCommit' = HeadCommit /\ CommittedIds' = CommittedIds
    BY <1>1 DEF HeadCommit, CommittedIds
  <2>2. step'[c] = "read" /\ \A d \in Clients \ {c} : step'[d] = step[d]
    BY <1>1 DEF TypeOK
  <2> QED
    BY <1>1, <2>1, <2>2 DEF DraftInv, ChainedTo
<1>5. ListedInv'
  BY <1>1, ListedForgotten DEF TypeOK
<1> QED
  BY <1>2, <1>3, <1>4, <1>5

LEMMA CrashStep == ASSUME IInv, Crash PROVE IInv'
<1> USE DEF IInv
<1>1. /\ holder' = NoClient
      /\ step' = [c \in Clients |-> "idle"]
      /\ draft' = [c \in Clients |-> NoCommit]
      /\ listed' = [c \in Clients |-> <<>>]
      /\ UNCHANGED <<commits, snapshots, deployments>>
  BY DEF Crash, tables
<1>2. TypeOK'
  <2>1. \A d \in Clients : (holder' = d <=> step'[d] \in {"inserting", "snapshotting"})
    BY <1>1, ArchiveAssumption
  <2>2. listed' \in [Clients -> Seq(Commit)]
    BY <1>1, EmptySeq
  <2> QED
    BY <1>1, <2>1, <2>2 DEF TypeOK
<1>3. LinearHistory' /\ DraftInv' /\ ListedInv'
  BY <1>1 DEF LinearHistory, DraftInv, ListedInv, ListedLinked, ListedCommitted, NoneListedEarly,
              ChainedTo
<1> QED
  BY <1>2, <1>3

LEMMA UnchangedStep ==
    ASSUME IInv, UNCHANGED <<commits, snapshots, deployments, holder, step, draft, listed>>
    PROVE  IInv'
<1> USE DEF IInv
<1>1. TypeOK'
  BY DEF TypeOK
<1>2. LinearHistory' /\ ListedInv'
  BY DEF LinearHistory, ListedInv, ListedLinked, ListedCommitted, NoneListedEarly, CommittedIds,
         ChainedTo
<1>3. DraftInv'
  BY DEF DraftInv, HeadCommit, CommittedIds, ChainedTo
<1> QED
  BY <1>1, <1>2, <1>3

LEMMA CommittedIdType == TypeOK => CommittedIds \subseteq CommitId
<1> SUFFICES ASSUME TypeOK, NEW i \in DOMAIN commits PROVE commits[i].id \in CommitId
  BY DEF CommittedIds
<1>1. i \in 1 .. Len(commits)
  BY LenProperties DEF TypeOK
<1>2. commits[i] \in Commit
  BY <1>1, ElementOfSeq DEF TypeOK
<1> QED
  BY <1>2 DEF Commit

LEMMA NextIInv == IInv /\ [Next]_vars => IInv'
<1> SUFFICES ASSUME IInv, [Next]_vars PROVE IInv'
  OBVIOUS
<1>0. TypeOK
  BY DEF IInv
<1>1. ASSUME NEW c \in Clients, Call(c) PROVE IInv'
  <2>1. ASSUME NEW payload \in Payloads, NEW author \in Authors,
               CommitConfig(c, payload, author) \/ CommitConfigHeadless(c, payload, author)
        PROVE  IInv'
    <3>1. PICK parent \in CommitId \cup {NoCommit} : parent = HeadCommit
      BY <1>0, HeadType
    <3>2. ASSUME ReadHead(c, payload, author, HeadCommit) PROVE IInv'
      <4>1. ReadHead(c, payload, author, parent)
        BY <3>1, <3>2
      <4>2. parent = HeadCommit \/ ("head" \in Faults /\ parent = NoCommit)
        BY <3>1
      <4> QED
        BY <4>1, <4>2, ReadHeadStep
    <3>3. ASSUME "head" \in Faults, ReadHead(c, payload, author, NoCommit) PROVE IInv'
      BY <3>3, ReadHeadStep
    <3> QED
      BY <2>1, <3>2, <3>3 DEF CommitConfig, CommitConfigHeadless
  <2>2. ASSUME NEW id \in CommittedIds, RecordDeployment(c, id) PROVE IInv'
    BY <1>0, <2>2, RecordStep, CommittedIdType
  <2>3. CASE RejectDeployment(c)
    BY <2>3, FailStep DEF RejectDeployment
  <2>4. ASSUME NEW limit, GetCommitHistory(c, limit) PROVE IInv'
    BY <2>4, HistoryStep
  <2>5. ASSUME NEW id, GetSnapshot(c, id) PROVE IInv'
    BY <2>5, SnapshotStep
  <2>6. ASSUME NEW id, MissSnapshot(c, id) PROVE IInv'
    BY <2>6, FailStep DEF MissSnapshot
  <2> QED
    BY <1>1, <2>1, <2>2, <2>3, <2>4, <2>5, <2>6 DEF Call
<1>2. ASSUME NEW c \in Clients, InsertStep(c) PROVE IInv'
  <2>1. CASE InsertCommit(c)
    BY <2>1, InsertCommitStep
  <2>2. CASE RejectCommit(c)
    BY <1>0, <2>2, FailStep DEF RejectCommit, TypeOK
  <2>3. CASE InsertSnapshot(c)
    BY <2>3, InsertSnapshotStep
  <2>4. CASE RejectSnapshot(c)
    BY <1>0, <2>4, FailStep DEF RejectSnapshot, TypeOK
  <2> QED
    BY <1>2, <2>1, <2>2, <2>3, <2>4 DEF InsertStep
<1>4. CASE Crash
  BY <1>4, CrashStep
<1>3. CASE UNCHANGED vars
  BY <1>3, UnchangedStep DEF vars, tables
<1> QED
  BY <1>1, <1>2, <1>3, <1>4 DEF Next

LEMMA Invariance == Spec => []IInv
<1>1. Init => IInv
  BY InitIInv
<1>2. IInv /\ [Next]_vars => IInv'
  BY NextIInv
<1> QED
  BY <1>1, <1>2, PTL DEF Spec

-----------------------------------------------------------------------------

(* Type correctness and the discipline of mutex_: whatever fails, it is    *)
(* held exactly by the client between its lock_guard and its return.       *)
THEOREM TypeCorrect == Spec => []TypeOK
<1>1. IInv => TypeOK
  BY DEF IInv
<1> QED
  BY <1>1, Invariance, PTL

(* commit_config keeps the history one chain, under any interleaving of    *)
(* its callers, failed inserts and crashes.                                *)
THEOREM HistoryIsLinear == Spec => []LinearHistory
<1>1. IInv => LinearHistory
  BY DEF IInv
<1> QED
  BY <1>1, Invariance, PTL

(* What commit_config returned is stored, with its snapshot.               *)
THEOREM ReturnedIsStored == Spec => []ReturnedCommitStored
<1>1. IInv => ReturnedCommitStored
  BY DEF IInv, DraftInv, ReturnedCommitStored
<1> QED
  BY <1>1, Invariance, PTL

(* get_commit_history answers with a linked part of the history, whatever  *)
(* its limit and wherever its reading stops.                               *)
THEOREM ListingIsLinked == Spec => []ListedLinked
<1>1. IInv => ListedLinked
  BY DEF IInv, ListedInv
<1> QED
  BY <1>1, Invariance, PTL

(* No listing shows a commit whose snapshot is still being written.        *)
THEOREM NoListingIsEarly == Spec => []NoneListedEarly
<1>1. IInv => NoneListedEarly
  BY DEF IInv, ListedInv
<1> QED
  BY <1>1, Invariance, PTL

=============================================================================
