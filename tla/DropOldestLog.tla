----------------------------- MODULE DropOldestLog -----------------------------
(***************************************************************************)
(* What RingBufferLogger::log promises its callers: a bounded queue that   *)
(* never makes a caller wait.  When it is full the oldest unflushed entry  *)
(* gives way and is counted; a flush takes everything that is queued, in   *)
(* order, at once.  Entries are numbered in the order they are logged.     *)
(***************************************************************************)
EXTENDS Integers, Sequences

CONSTANT Capacity     \* entries the buffer holds

VARIABLES
    queue,            \* the unflushed entries, oldest first
    logged,           \* entries logged so far
    dropped           \* entries that gave way

vars == <<queue, logged, dropped>>

Init ==
    /\ queue = <<>>
    /\ logged = 0
    /\ dropped = 0

Log ==
    /\ logged' = logged + 1
    /\ IF Len(queue) < Capacity
       THEN queue' = Append(queue, logged') /\ UNCHANGED dropped
       ELSE queue' = Append(Tail(queue), logged') /\ dropped' = dropped + 1

Flush ==
    /\ queue # <<>>
    /\ queue' = <<>>
    /\ UNCHANGED <<logged, dropped>>

Next == Log \/ Flush

Spec == Init /\ [][Next]_vars

=============================================================================
