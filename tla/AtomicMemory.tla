----------------------------- MODULE AtomicMemory -----------------------------
(***************************************************************************)
(* What MemoryMap promises the threads that share it: every call takes     *)
(* effect on the three areas in a single step between the call and its     *)
(* return, a call that is out of range changes nothing and throws.         *)
(***************************************************************************)
EXTENDS Naturals, Sequences

CONSTANTS
    Threads,
    Areas,       \* Input, Output, Memory
    Size,        \* per area, its number of bytes
    Bits,        \* the bits of a byte
    Blocks,      \* the byte strings that are written
    MaxOffset,   \* bound: offsets and lengths that are asked for
    MaxBit       \* bound: bit numbers that are asked for

VARIABLES
    memory,      \* per area and byte, the bits that are set
    call         \* per thread, its call: called, done or returned

vars == <<memory, call>>

Byte == SUBSET Bits

\* What a call comes back with, but for what it read.
Void == [without |-> "value"]
Thrown == [by |-> "exception"]

Positions(a) == 0 .. Size[a] - 1

ReadRequest == [op : {"read"}, area : Areas, from : 0 .. MaxOffset, count : 0 .. MaxOffset]
ReadBitRequest == [op : {"read_bit"}, area : Areas, from : 0 .. MaxOffset, bit : 0 .. MaxBit]
WriteRequest == [op : {"write"}, area : Areas, from : 0 .. MaxOffset, data : Blocks]
WriteBitRequest ==
    [op : {"write_bit"}, area : Areas, from : 0 .. MaxOffset, bit : 0 .. MaxBit, value : BOOLEAN]
Request == ReadRequest \cup ReadBitRequest \cup WriteRequest \cup WriteBitRequest

\* How many bytes a request is about.
Count(r) == CASE r.op = "read"  -> r.count
              [] r.op = "write" -> Len(r.data)
              [] OTHER          -> 1

InRange(r) ==
    /\ r.from + Count(r) <= Size[r.area]
    /\ r.op \in {"read_bit", "write_bit"} => r.bit \in Bits

With(byte, r) == IF r.value THEN byte \cup {r.bit} ELSE byte \ {r.bit}

\* What a request makes of a byte of its range, at position b.
Written(r, b, byte) == IF r.op = "write" THEN r.data[b - r.from + 1] ELSE With(byte, r)

Effect(r) ==
    IF r.op \in {"write", "write_bit"}
    THEN [memory EXCEPT ![r.area] =
             [b \in Positions(r.area) |->
                 IF b \in r.from .. r.from + Count(r) - 1 THEN Written(r, b, @[b]) ELSE @[b]]]
    ELSE memory

Result(r) ==
    CASE r.op = "read"     -> [bytes |-> [i \in 1 .. r.count |-> memory[r.area][r.from + i - 1]]]
      [] r.op = "read_bit" -> [bit |-> r.bit \in memory[r.area][r.from]]
      [] OTHER             -> Void

Init ==
    /\ memory = [a \in Areas |-> [b \in Positions(a) |-> {}]]
    /\ call = [t \in Threads |-> [at |-> "returned", result |-> Void]]

Call(t) ==
    /\ call[t].at = "returned"
    /\ \E r \in Request : call' = [call EXCEPT ![t] = [at |-> "called", req |-> r]]
    /\ UNCHANGED memory

Throw(t) ==
    /\ call[t].at = "called"
    /\ ~InRange(call[t].req)
    /\ call' = [call EXCEPT ![t] = [at |-> "returned", result |-> Thrown]]
    /\ UNCHANGED memory

TakeEffect(t) ==
    /\ call[t].at = "called"
    /\ InRange(call[t].req)
    /\ memory' = Effect(call[t].req)
    /\ call' = [call EXCEPT ![t] = [at |-> "done", result |-> Result(call[t].req)]]

Return(t) ==
    /\ call[t].at = "done"
    /\ call' = [call EXCEPT ![t] = [at |-> "returned", result |-> call[t].result]]
    /\ UNCHANGED memory

Next == \E t \in Threads : Call(t) \/ Throw(t) \/ TakeEffect(t) \/ Return(t)

Spec == Init /\ [][Next]_vars

=============================================================================
