------------------------------ MODULE MemoryMap ------------------------------
(***************************************************************************)
(* MemoryMap: the bytes of %I, %Q and %M behind a reader-writer lock.  Any *)
(* thread calls any operation.  An operation checks its range before it    *)
(* takes the lock, and moves one byte at a time while it holds it; a bit   *)
(* is changed by loading its byte and storing it back.                     *)
(***************************************************************************)
EXTENDS Naturals, Sequences, FiniteSets

CONSTANTS
    Threads,
    Areas,       \* MemoryArea
    Size,        \* per area, INPUT_SIZE, OUTPUT_SIZE, MEMORY_SIZE
    Width,       \* bits of a byte (8)
    Blocks,      \* bound: the vectors that are written
    MaxOffset,   \* bound: offsets and counts that are asked for
    MaxBit,      \* bound: bit numbers that are asked for
    None

ASSUME MemoryAssumption ==
    /\ Size \in [Areas -> Nat \ {0}]
    /\ Width \in Nat \ {0}
    /\ Blocks \subseteq Seq(SUBSET (0 .. Width - 1))
    /\ MaxOffset \in Nat \ {0} /\ MaxBit \in Nat
    /\ None \notin Threads

VARIABLES
    memory,      \* input_area_, output_area_, memory_area_: the bits set in each byte
    readers,     \* rw_mutex_: the threads that share it
    owner,       \* rw_mutex_: the thread that has it to itself
    call         \* per thread, the operation it is in and how far it is

vars == <<memory, readers, owner, call>>

Bits == 0 .. Width - 1
Byte == SUBSET Bits
Offsets == 0 .. MaxOffset
BitIndexes == 0 .. MaxBit

\* What a call comes back with, but for what it read.
Void == [without |-> "value"]
Thrown == [by |-> "exception"]

Init ==
    /\ memory = [a \in Areas |-> [b \in 0 .. Size[a] - 1 |-> {}]]
    /\ readers = {}
    /\ owner = None
    /\ call = [t \in Threads |-> [at |-> "returned", result |-> Void]]

-----------------------------------------------------------------------------
(* The calls.                                                              *)

Call(t, request) ==
    /\ call[t].at = "returned"
    /\ call' = [call EXCEPT ![t] = [at |-> "called", req |-> request]]
    /\ UNCHANGED <<memory, readers, owner>>

ReadOf(a, offset, count) == [op |-> "read", area |-> a, from |-> offset, count |-> count]
WriteOf(a, offset, data) == [op |-> "write", area |-> a, from |-> offset, data |-> data]

ReadByte(t) == \E a \in Areas, offset \in Offsets : Call(t, ReadOf(a, offset, 1))

WriteByte(t) ==
    \E a \in Areas, offset \in Offsets, data \in Blocks :
        Len(data) = 1 /\ Call(t, WriteOf(a, offset, data))

ReadBit(t) ==
    \E a \in Areas, offset \in Offsets, bit \in BitIndexes :
        Call(t, [op |-> "read_bit", area |-> a, from |-> offset, bit |-> bit])

WriteBit(t) ==
    \E a \in Areas, offset \in Offsets, bit \in BitIndexes, value \in BOOLEAN :
        Call(t, [op |-> "write_bit", area |-> a, from |-> offset, bit |-> bit, value |-> value])

ReadBytes(t) ==
    \E a \in Areas, offset \in Offsets, count \in Offsets : Call(t, ReadOf(a, offset, count))

WriteBytes(t) ==
    \E a \in Areas, offset \in Offsets, data \in Blocks : Call(t, WriteOf(a, offset, data))

GetAreaSnapshot(t) ==
    \E a \in Areas : Size[a] \in Offsets /\ Call(t, ReadOf(a, 0, Size[a]))

CopySnapshotTo(t) == \E a \in Areas, data \in Blocks : Call(t, WriteOf(a, 0, data))

Calls(t) ==
    \/ ReadByte(t) \/ WriteByte(t) \/ ReadBit(t) \/ WriteBit(t)
    \/ ReadBytes(t) \/ WriteBytes(t) \/ GetAreaSnapshot(t) \/ CopySnapshotTo(t)

-----------------------------------------------------------------------------
(* What they do.                                                           *)

Count(r) == CASE r.op = "read"  -> r.count
              [] r.op = "write" -> Len(r.data)
              [] OTHER          -> 1

Writes(r) == r.op \in {"write", "write_bit"}

\* The bit number, then validate_bounds.
InBounds(r) ==
    /\ r.op \in {"read_bit", "write_bit"} => r.bit \in Bits
    /\ r.from + Count(r) <= Size[r.area]

Throw(t) ==
    /\ call[t].at = "called"
    /\ ~InBounds(call[t].req)
    /\ call' = [call EXCEPT ![t] = [at |-> "returned", result |-> Thrown]]
    /\ UNCHANGED <<memory, readers, owner>>

Hold(t) ==
    call' = [call EXCEPT ![t] =
                [at |-> "holding", req |-> call[t].req, done |-> 0, got |-> <<>>]]

LockShared(t) ==
    /\ call[t].at = "called"
    /\ InBounds(call[t].req) /\ ~Writes(call[t].req)
    /\ owner = None
    /\ readers' = readers \cup {t}
    /\ Hold(t)
    /\ UNCHANGED <<memory, owner>>

LockForWritingShared(t) ==
    /\ call[t].at = "called"
    /\ InBounds(call[t].req) /\ Writes(call[t].req)
    /\ owner = None
    /\ readers' = readers \cup {t}
    /\ Hold(t)
    /\ UNCHANGED <<memory, owner>>

LockUnique(t) ==
    /\ call[t].at = "called"
    /\ InBounds(call[t].req) /\ Writes(call[t].req)
    /\ owner = None /\ readers = {}
    /\ owner' = t
    /\ Hold(t)
    /\ UNCHANGED <<memory, readers>>

\* One byte is copied out, or loaded to have a bit tested or changed.
LoadByte(t) ==
    LET c == call[t] IN
    /\ c.at = "holding"
    /\ c.req.op # "write"
    /\ Len(c.got) < Count(c.req)
    /\ call' = [call EXCEPT ![t] =
                   [c EXCEPT !.got = Append(@, memory[c.req.area][c.req.from + Len(@)])]]
    /\ UNCHANGED <<memory, readers, owner>>

SetBit(byte, r) == IF r.value THEN byte \cup {r.bit} ELSE byte \ {r.bit}

\* One byte is stored.
StoreByte(t) ==
    LET c == call[t]
        r == c.req
    IN
    /\ c.at = "holding"
    /\ Writes(r)
    /\ c.done < Count(r)
    /\ r.op = "write_bit" => c.got # <<>>
    /\ memory' = [memory EXCEPT ![r.area][r.from + c.done] =
                     IF r.op = "write" THEN r.data[c.done + 1] ELSE SetBit(c.got[1], r)]
    /\ call' = [call EXCEPT ![t] = [c EXCEPT !.done = @ + 1]]
    /\ UNCHANGED <<readers, owner>>

Finished(c) == IF Writes(c.req) THEN c.done = Count(c.req) ELSE Len(c.got) = Count(c.req)

Answer(c) ==
    CASE c.req.op = "read"     -> [bytes |-> c.got]
      [] c.req.op = "read_bit" -> [bit |-> c.req.bit \in c.got[1]]
      [] OTHER                 -> Void

\* The lock is released and the operation returns.
Return(t) ==
    /\ call[t].at = "holding"
    /\ Finished(call[t])
    /\ call' = [call EXCEPT ![t] = [at |-> "returned", result |-> Answer(call[t])]]
    /\ readers' = readers \ {t}
    /\ owner' = IF owner = t THEN None ELSE owner
    /\ UNCHANGED memory

-----------------------------------------------------------------------------

Step(t) ==
    \/ Calls(t) \/ Throw(t) \/ LockShared(t) \/ LockUnique(t)
    \/ LoadByte(t) \/ StoreByte(t) \/ Return(t)

Next == \E t \in Threads : Step(t)

Spec == Init /\ [][Next]_vars

-----------------------------------------------------------------------------
(* Properties.                                                             *)

Request ==
    [op : {"read"}, area : Areas, from : Offsets, count : Offsets]
    \cup [op : {"read_bit"}, area : Areas, from : Offsets, bit : BitIndexes]
    \cup [op : {"write"}, area : Areas, from : Offsets, data : Blocks]
    \cup [op : {"write_bit"}, area : Areas, from : Offsets, bit : BitIndexes, value : BOOLEAN]

\* A byte as it is once a writer that has the lock is through.
ByteAfterwards(a, b) ==
    LET c == call[owner]
        r == c.req
    IN  IF owner = None \/ r.area # a \/ b \notin r.from + c.done .. r.from + Count(r) - 1
        THEN memory[a][b]
        ELSE IF r.op = "write" THEN r.data[b - r.from + 1] ELSE SetBit(memory[a][b], r)

MemoryAfterwards == [a \in Areas |-> [b \in 0 .. Size[a] - 1 |-> ByteAfterwards(a, b)]]

\* What the bytes read so far and the bytes still to be read will be together.
GotAfterwards(c) ==
    [i \in 1 .. Count(c.req) |->
        IF i <= Len(c.got) THEN c.got[i] ELSE memory[c.req.area][c.req.from + i - 1]]

OneCallAfterwards(c) ==
    IF c.at # "holding" THEN c
    ELSE [at |-> "done",
          result |-> CASE c.req.op = "read"     -> [bytes |-> GotAfterwards(c)]
                       [] c.req.op = "read_bit" -> [bit |-> c.req.bit \in GotAfterwards(c)[1]]
                       [] OTHER                 -> Void]

CallAfterwards == [t \in Threads |-> OneCallAfterwards(call[t])]

Atomically == INSTANCE AtomicMemory WITH memory <- MemoryAfterwards, call <- CallAfterwards

\* Every call takes effect at one moment, when it gets the lock: no snapshot
\* is of two moments, no bit of a byte is lost to a write of its neighbour,
\* and a call out of range throws (memory_map.hpp:43, "Snapshots for double
\* buffering/telemetry isolation").
ImplementsAtomicMemory == Atomically!Spec

=============================================================================
