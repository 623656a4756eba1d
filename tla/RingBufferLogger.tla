--------------------------- MODULE RingBufferLogger ---------------------------
(***************************************************************************)
(* The asynchronous logger: a ring of fixed slots that log() fills under a *)
(* mutex, and flush_pending(), which empties it under the same mutex and   *)
(* then, holding no lock, appends to the log file and rotates it.  Two     *)
(* threads call flush_pending(): the flush thread in its loop, and         *)
(* whoever calls stop(), once, after joining the flush thread.             *)
(*                                                                         *)
(* An entry is its number in the order of logging; its text and timestamp  *)
(* are left out.  The size of a file is its number of entries.             *)
(***************************************************************************)
EXTENDS Integers, Sequences

CONSTANTS
    Capacity,         \* kCapacity
    MaxFileEntries,   \* max_file_bytes_, in entries
    MaxBackups,       \* max_backups_
    MaxLogged         \* bound: log() calls in a behaviour

ASSUME LoggerAssumption ==
    /\ Capacity \in Nat \ {0}
    /\ MaxFileEntries \in Nat \ {0}
    /\ MaxBackups \in Nat \ {0}
    /\ MaxLogged \in Nat

VARIABLES
    buffer,           \* buffer_
    head,             \* head_: the next slot to write
    count,            \* count_: entries not yet flushed
    dropped,          \* dropped_
    isRunning,        \* is_running_
    stopRequested,    \* the stop token of flush_thread_
    pc,               \* where the flush thread and the stopping thread are
    drained,          \* for each of them, flush_pending's local vector
    files,            \* 0: the log file; i: backup .i; <<>> if there is none
    logged,           \* entries logged so far
    written,          \* every entry that reached the disk, in order
    lost,             \* entries drained that did not reach it
    faulted,          \* has an open, a write or a rename failed so far? (history)
    stoppedAt         \* `logged` when stop() was last called

ringVars == <<buffer, head, count, dropped, logged>>
diskVars == <<files, written, lost, faulted>>
vars == <<ringVars, isRunning, stopRequested, pc, drained, diskVars, stoppedAt>>

Threads == {"flusher", "stopper"}

Init ==
    /\ buffer = [slot \in 0 .. Capacity - 1 |-> 0]
    /\ head = 0
    /\ count = 0
    /\ dropped = 0
    /\ isRunning = FALSE
    /\ stopRequested = FALSE
    /\ pc = [t \in Threads |-> IF t = "flusher" THEN "none" ELSE "idle"]
    /\ drained = [t \in Threads |-> <<>>]
    /\ files = [i \in 0 .. MaxBackups |-> <<>>]
    /\ logged = 0
    /\ written = <<>>
    /\ lost = 0
    /\ faulted = FALSE
    /\ stoppedAt = 0

-----------------------------------------------------------------------------

LogUncounted ==
    /\ logged < MaxLogged
    /\ logged' = logged + 1
    /\ buffer' = [buffer EXCEPT ![head] = logged']
    /\ head' = (head + 1) % Capacity
    /\ count' = IF count < Capacity THEN count + 1 ELSE count
    /\ UNCHANGED <<dropped, isRunning, stopRequested, pc, drained, diskVars, stoppedAt>>

\* log(), by any thread, at any time, also before start() and after stop().
Log ==
    /\ logged < MaxLogged
    /\ logged' = logged + 1
    /\ buffer' = [buffer EXCEPT ![head] = logged']
    /\ head' = (head + 1) % Capacity
    /\ IF count < Capacity
       THEN count' = count + 1 /\ UNCHANGED dropped
       ELSE dropped' = dropped + 1 /\ UNCHANGED count
    /\ UNCHANGED <<isRunning, stopRequested, pc, drained, diskVars, stoppedAt>>

Start ==
    /\ pc["stopper"] = "idle"
    /\ ~ isRunning
    /\ isRunning' = TRUE
    /\ stopRequested' = FALSE
    /\ pc' = [pc EXCEPT !["flusher"] = "head"]
    /\ UNCHANGED <<ringVars, drained, diskVars, stoppedAt>>

\* stop(): the flag and the stop request (only the flush thread reads the
\* one, only this thread the other), then the join, then the final drain.
BeginStop ==
    /\ pc["stopper"] = "idle"
    /\ isRunning
    /\ isRunning' = FALSE
    /\ stopRequested' = TRUE
    /\ pc' = [pc EXCEPT !["stopper"] = "joining"]
    /\ stoppedAt' = logged
    /\ UNCHANGED <<ringVars, drained, diskVars>>

JoinWithoutWaiting ==
    /\ pc["stopper"] = "joining"
    /\ pc' = [pc EXCEPT !["stopper"] = "draining"]
    /\ UNCHANGED <<ringVars, isRunning, stopRequested, drained, diskVars, stoppedAt>>

JoinWithoutDrain ==
    /\ pc["stopper"] = "joining"
    /\ pc["flusher"] = "exited"
    /\ pc' = [pc EXCEPT !["flusher"] = "none", !["stopper"] = "idle"]
    /\ UNCHANGED <<ringVars, isRunning, stopRequested, drained, diskVars, stoppedAt>>

Join ==
    /\ pc["stopper"] = "joining"
    /\ pc["flusher"] = "exited"
    /\ pc' = [pc EXCEPT !["flusher"] = "none", !["stopper"] = "draining"]
    /\ UNCHANGED <<ringVars, isRunning, stopRequested, drained, diskVars, stoppedAt>>

CheckStopNever ==
    /\ pc["flusher"] = "head"
    /\ pc' = [pc EXCEPT !["flusher"] = "draining"]
    /\ UNCHANGED <<ringVars, isRunning, stopRequested, drained, diskVars, stoppedAt>>

\* flush_loop: the loop condition, and the wait, which ends on a
\* notification, on a stop request, or after 200 ms with nothing to flush.
CheckStop ==
    /\ pc["flusher"] = "head"
    /\ pc' = [pc EXCEPT !["flusher"] = IF stopRequested THEN "exited" ELSE "draining"]
    /\ UNCHANGED <<ringVars, isRunning, stopRequested, drained, diskVars, stoppedAt>>

Return(t) == IF t = "flusher" THEN "head" ELSE "idle"

OldestSlotAtHead == (head + Capacity) % Capacity

\* flush_pending, under the mutex.
OldestSlot == (head + Capacity - count) % Capacity

Pending == [i \in 1 .. count |-> buffer[(OldestSlot + i - 1) % Capacity]]

DrainWhenFull(t) ==
    /\ pc[t] = "draining"
    /\ IF count < Capacity
       THEN /\ pc' = [pc EXCEPT ![t] = Return(t)]
            /\ UNCHANGED <<drained, count>>
       ELSE /\ pc' = [pc EXCEPT ![t] = "writing"]
            /\ drained' = [drained EXCEPT ![t] = Pending]
            /\ count' = 0
    /\ UNCHANGED <<buffer, head, dropped, logged, isRunning, stopRequested, diskVars, stoppedAt>>

Drain(t) ==
    /\ pc[t] = "draining"
    /\ IF count = 0
       THEN /\ pc' = [pc EXCEPT ![t] = Return(t)]
            /\ UNCHANGED <<drained, count>>
       ELSE /\ pc' = [pc EXCEPT ![t] = "writing"]
            /\ drained' = [drained EXCEPT ![t] = Pending]
            /\ count' = 0
    /\ UNCHANGED <<buffer, head, dropped, logged, isRunning, stopRequested, diskVars, stoppedAt>>

\* write_entries: what was drained is appended to the log file.  Neither the
\* open nor the writes are checked: should they fail, only some of the lines
\* arrive, and the vector is gone all the same.
Write(t) ==
    /\ pc[t] = "writing"
    /\ \E arrived \in 0 .. Len(drained[t]) :
          LET lines == SubSeq(drained[t], 1, arrived)
          IN  /\ files' = [files EXCEPT ![0] = @ \o lines]
              /\ written' = written \o lines
              /\ lost' = lost + Len(drained[t]) - arrived
              /\ faulted' = (faulted \/ arrived < Len(drained[t]))
    /\ drained' = [drained EXCEPT ![t] = <<>>]
    /\ pc' = [pc EXCEPT ![t] = "rotating"]
    /\ UNCHANGED <<ringVars, isRunning, stopRequested, stoppedAt>>

\* rotate_if_needed, when the file is large enough.  Renames go from the
\* oldest to the newest; `failed` is the set of targets whose rename fails,
\* which the code ignores.
Moves(i, failed) == i \in 1 .. MaxBackups /\ i \notin failed /\ files[i - 1] # <<>>

RotatedFromThird(failed) ==
    [i \in 0 .. MaxBackups |->
        IF i # 2 /\ Moves(i, failed) THEN files[i - 1]
        ELSE IF i # 1 /\ Moves(i + 1, failed) THEN <<>> ELSE files[i]]

Rotated(failed) ==
    [i \in 0 .. MaxBackups |->
        IF Moves(i, failed) THEN files[i - 1]
        ELSE IF Moves(i + 1, failed) THEN <<>> ELSE files[i]]

Rotate(t) ==
    /\ pc[t] = "rotating"
    /\ IF Len(files[0]) >= MaxFileEntries
       THEN \E failed \in SUBSET {i \in 1 .. MaxBackups : Moves(i, {})} :
               /\ files' = Rotated(failed)
               /\ faulted' = (faulted \/ failed # {})
       ELSE UNCHANGED <<files, faulted>>
    /\ pc' = [pc EXCEPT ![t] = Return(t)]
    /\ UNCHANGED <<ringVars, isRunning, stopRequested, drained, written, lost, stoppedAt>>

FlushPending(t) == Drain(t) \/ Write(t) \/ Rotate(t)

FlushStep == CheckStop \/ FlushPending("flusher")
StopStep  == Join \/ FlushPending("stopper")

Next == Log \/ Start \/ BeginStop \/ FlushStep \/ StopStep

Spec == Init /\ [][Next]_vars

\* The flush thread and a thread inside stop() are run by the system; nobody
\* has to log, start or stop.
FairSpec == Spec /\ WF_vars(FlushStep) /\ WF_vars(StopStep)

-----------------------------------------------------------------------------
(* Properties.                                                             *)

\* Types; head_ and count_ never leave the ring (log, flush_pending).
TypeOK ==
    /\ buffer \in [0 .. Capacity - 1 -> Nat]
    /\ head \in 0 .. Capacity - 1
    /\ count \in 0 .. Capacity
    /\ dropped \in Nat
    /\ isRunning \in BOOLEAN
    /\ stopRequested \in BOOLEAN
    /\ pc["flusher"] \in {"none", "head", "draining", "writing", "rotating", "exited"}
    /\ pc["stopper"] \in {"idle", "joining", "draining", "writing", "rotating"}
    /\ DOMAIN pc = Threads
    /\ drained \in [Threads -> Seq(Nat)]
    /\ files \in [0 .. MaxBackups -> Seq(Nat)]
    /\ logged \in Nat
    /\ written \in Seq(Nat)
    /\ lost \in Nat
    /\ faulted \in BOOLEAN
    /\ stoppedAt \in 0 .. logged

\* Every entry is in exactly one place: on disk, in the hands of a thread
\* that drained it, in the ring, or counted as dropped; nothing is missing
\* unless the disk failed.  dropped_count() is exact, whichever thread
\* drained when (log, flush_pending, write_entries).
Accounting ==
    /\ logged = Len(written) + lost + Len(drained["flusher"]) + Len(drained["stopper"])
                + count + dropped
    /\ lost > 0 => faulted

\* The log files, oldest backup first.
Retained ==
    LET upTo[i \in 0 .. MaxBackups] == IF i = 0 THEN files[0] ELSE files[i] \o upTo[i - 1]
    IN  upTo[MaxBackups]

Increasing(s) == \A i, j \in DOMAIN s : i < j => s[i] < s[j]

\* Entries are never reordered or duplicated: reading the backups from the
\* oldest, then the log file, then what is being written, then the ring,
\* gives the order of the log() calls, with drains and drops interleaved in
\* any way, with two threads flushing, and with renames that fail.
OrderPreserved == Increasing(Retained \o drained["flusher"] \o drained["stopper"] \o Pending)

\* As long as the disk works, rotation discards from the old end only, and only
\* when MaxBackups full files are newer (rotate_if_needed).
RotationKeepsNewest ==
    LET kept == Len(Retained)
        all  == Len(written)
    IN  ~ faulted =>
          /\ kept <= all
          /\ Retained = SubSeq(written, all - kept + 1, all)
          /\ kept = all \/ kept >= MaxBackups * MaxFileEntries

InFile(t) == pc[t] \in {"writing", "rotating"}

\* write_entries and rotate_if_needed hold no lock; the join in stop() is
\* what keeps two threads from appending and renaming at once.
OneWriter == ~ (InFile("flusher") /\ InFile("stopper"))

\* After stop() has returned nothing is left that was logged before it was
\* called (ring_buffer_logger.cpp:70): the ring holds only later entries.
StopFlushes ==
    (pc["stopper"] = "idle" /\ ~ isRunning) =>
        /\ pc["flusher"] = "none"
        /\ drained["flusher"] = <<>>
        /\ \A i \in DOMAIN Pending : Pending[i] > stoppedAt

Bounded == INSTANCE DropOldestLog WITH queue <- Pending

\* The ring of slots is a bounded queue that drops its oldest entry: head_,
\* count_ and the wrap of the slots cannot be told from it (log and
\* flush_pending).
ImplementsDropOldestLog == Bounded!Spec

\* While the logger is running, an entry does not stay in memory: it leaves
\* the ring and the flush thread's hands, even if nothing is logged after it.
EntryFlushed ==
    \A n \in 1 .. MaxLogged :
        (isRunning /\ logged >= n)
            ~> \/ ~ isRunning
               \/ n <= logged - count /\ \A i \in DOMAIN drained["flusher"] :
                                           drained["flusher"][i] # n

\* stop() returns.
StopReturns == (pc["stopper"] # "idle") ~> (pc["stopper"] = "idle")

=============================================================================
