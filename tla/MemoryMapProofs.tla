--------------------------- MODULE MemoryMapProofs ---------------------------
(***************************************************************************)
(* Proofs about MemoryMap: for any threads, areas and sizes, and any       *)
(* number of calls at a time; and about its users in TelemetryFrames.      *)
(***************************************************************************)
EXTENDS TelemetryFrames, SequenceTheorems, TLAPS

(* The memory, and how far each operation is.                              *)
Holding == [at : {"holding"}, req : Request, done : Nat, got : Seq(Byte)]

TypeInv ==
    /\ memory = [a \in Areas |-> [b \in 0 .. Size[a] - 1 |-> memory[a][b]]]
    /\ \A a \in Areas : \A b \in 0 .. Size[a] - 1 : memory[a][b] \in Byte
    /\ call = [t \in Threads |-> call[t]]
    /\ \A t \in Threads :
          /\ call[t].at \in {"returned", "called", "holding"}
          /\ call[t].at = "called" => call[t].req \in Request
          /\ call[t].at = "holding" => call[t] \in Holding

(* A writer's lock excludes every other holder, and whoever is inside an   *)
(* operation holds the lock it needs.                                      *)
LockInv ==
    /\ owner \in Threads \cup {None}
    /\ owner # None =>
          readers = {} /\ call[owner].at = "holding" /\ Writes(call[owner].req)
    /\ \A t \in Threads : call[t].at = "holding" =>
          IF Writes(call[t].req) THEN owner = t ELSE t \in readers

(* Whoever is inside an operation is within its range; a writer that has   *)
(* loaded a byte still finds it in the area.                               *)
ProgressInv ==
    \A t \in Threads : call[t].at = "holding" =>
        LET c == call[t] IN
        /\ InBounds(c.req)
        /\ c.done <= Count(c.req)
        /\ Len(c.got) <= Count(c.req)
        /\ c.req.op = "write_bit" /\ c.done = 0 /\ c.got # <<>> =>
              c.got[1] = memory[c.req.area][c.req.from]

IInv == TypeInv /\ LockInv /\ ProgressInv

-----------------------------------------------------------------------------

LEMMA RequestFacts ==
    ASSUME NEW r \in Request, InBounds(r)
    PROVE  /\ r.area \in Areas
           /\ r.from \in Nat /\ Count(r) \in Nat
           /\ Size[r.area] \in Nat
           /\ r.from + Count(r) <= Size[r.area]
           /\ r.op \in {"read", "read_bit", "write", "write_bit"}
           /\ r.op = "read" => Count(r) = r.count
           /\ r.op \in {"read_bit", "write_bit"} => Count(r) = 1 /\ r.bit \in Bits
           /\ r.op = "write" =>
                 /\ Count(r) = Len(r.data)
                 /\ \A i \in 1 .. Count(r) : r.data[i] \in Byte
<1>1. /\ r.area \in Areas /\ r.from \in Nat
      /\ r.op \in {"read", "read_bit", "write", "write_bit"}
      /\ r.op = "read" => r.count \in Nat
      /\ r.op = "write" => r.data \in Blocks
  BY MemoryAssumption DEF Request, Offsets
<1>2. r.op = "write" => r.data \in Seq(Byte)
  BY <1>1, MemoryAssumption DEF Byte, Bits
<1>3. r.op = "write" => Len(r.data) \in Nat /\ \A i \in 1 .. Len(r.data) : r.data[i] \in Byte
  BY <1>2, LenProperties, ElementOfSeq
<1> QED
  BY <1>1, <1>3, MemoryAssumption DEF InBounds, Count

LEMMA SetBitType ==
    ASSUME NEW r \in Request, InBounds(r), r.op = "write_bit", NEW byte \in Byte
    PROVE  SetBit(byte, r) \in Byte
<1>1. r.bit \in Bits
  BY RequestFacts
<1> QED
  BY <1>1 DEF SetBit, Byte

LEMMA InitIInv == Init => IInv
<1> SUFFICES ASSUME Init PROVE IInv
  OBVIOUS
<1> USE MemoryAssumption DEF Init
<1>1. TypeInv
  BY DEF TypeInv, Byte
<1>2. LockInv /\ ProgressInv
  BY DEF LockInv, ProgressInv
<1> QED
  BY <1>1, <1>2 DEF IInv

-----------------------------------------------------------------------------
(* The operations, one lemma each.                                         *)

LEMMA CallsStep ==
    ASSUME IInv, NEW t \in Threads, NEW r \in Request, Call(t, r)
    PROVE  IInv'
<1> USE DEF IInv, Call
<1>1. call' = [u \in Threads |-> IF u = t THEN [at |-> "called", req |-> r] ELSE call[u]]
  BY DEF TypeInv
<1>2. TypeInv'
  BY <1>1 DEF TypeInv
<1>3. LockInv'
  BY <1>1, MemoryAssumption DEF LockInv
<1>4. ProgressInv'
  BY <1>1 DEF ProgressInv
<1> QED
  BY <1>2, <1>3, <1>4

LEMMA CallsAreRequests ==
    ASSUME NEW t \in Threads, Calls(t)
    PROVE  \E r \in Request : Call(t, r)
<1>1. \A a \in Areas, offset \in Offsets, count \in Offsets : ReadOf(a, offset, count) \in Request
  BY DEF ReadOf, Request
<1>2. \A a \in Areas, offset \in Offsets, data \in Blocks : WriteOf(a, offset, data) \in Request
  BY DEF WriteOf, Request
<1>3. CASE ReadByte(t) \/ ReadBytes(t) \/ GetAreaSnapshot(t)
  <2>1. 0 \in Offsets
    BY MemoryAssumption DEF Offsets
  <2>2. CASE ReadBytes(t) \/ GetAreaSnapshot(t)
    BY <1>1, <2>1, <2>2 DEF ReadBytes, GetAreaSnapshot
  <2>3. CASE ReadByte(t)
    <3>1. 1 \in Offsets
      BY MemoryAssumption DEF Offsets
    <3> QED
      BY <1>1, <2>3, <3>1 DEF ReadByte
  <2> QED
    BY <1>3, <2>2, <2>3
<1>4. CASE WriteByte(t) \/ WriteBytes(t) \/ CopySnapshotTo(t)
  <2>1. 0 \in Offsets
    BY MemoryAssumption DEF Offsets
  <2> QED
    BY <1>2, <1>4, <2>1 DEF WriteByte, WriteBytes, CopySnapshotTo
<1>5. CASE ReadBit(t)
  BY <1>5 DEF ReadBit, Request
<1>6. CASE WriteBit(t)
  BY <1>6 DEF WriteBit, Request
<1> QED
  BY <1>3, <1>4, <1>5, <1>6 DEF Calls

LEMMA ThrowStep ==
    ASSUME IInv, NEW t \in Threads, Throw(t)
    PROVE  IInv'
<1> USE DEF IInv, Throw
<1>1. call' = [u \in Threads |->
                  IF u = t THEN [at |-> "returned", result |-> Thrown] ELSE call[u]]
  BY DEF TypeInv
<1>2. TypeInv'
  BY <1>1 DEF TypeInv
<1>3. LockInv'
  BY <1>1, MemoryAssumption DEF LockInv
<1>4. ProgressInv'
  BY <1>1 DEF ProgressInv
<1> QED
  BY <1>2, <1>3, <1>4

LEMMA LockStep ==
    ASSUME IInv, NEW t \in Threads, LockShared(t) \/ LockUnique(t)
    PROVE  IInv'
<1> DEFINE held == [at |-> "holding", req |-> call[t].req, done |-> 0, got |-> <<>>]
<1>1. /\ call[t].at = "called" /\ call[t].req \in Request /\ InBounds(call[t].req)
      /\ owner = None /\ memory' = memory
  BY DEF IInv, TypeInv, LockShared, LockUnique
<1>2. call' = [u \in Threads |-> IF u = t THEN held ELSE call[u]]
  BY DEF IInv, TypeInv, LockShared, LockUnique, Hold
<1>3. held \in Holding
  BY <1>1, EmptySeq DEF Holding
<1>4. TypeInv'
  BY <1>1, <1>2, <1>3 DEF IInv, TypeInv
<1>5. LockInv'
  <2>1. CASE LockShared(t)
    BY <1>1, <1>2, <2>1, MemoryAssumption DEF IInv, LockInv, LockShared
  <2>2. CASE LockUnique(t)
    <3>1. \A u \in Threads : u # t => call[u].at # "holding"
      BY <1>1, <2>2, MemoryAssumption DEF IInv, LockInv, LockUnique
    <3> QED
      BY <1>1, <1>2, <2>2, <3>1, MemoryAssumption DEF LockInv, LockUnique
  <2> QED
    BY <2>1, <2>2
<1>6. ProgressInv'
  <2>1. Count(call[t].req) \in Nat
    BY <1>1, RequestFacts
  <2>2. Len(held.got) = 0
    BY EmptySeq
  <2> QED
    BY <1>1, <1>2, <2>1, <2>2 DEF IInv, ProgressInv
<1> QED
  BY <1>4, <1>5, <1>6 DEF IInv

LEMMA LoadStep ==
    ASSUME IInv, NEW t \in Threads, LoadByte(t)
    PROVE  /\ IInv'
           /\ call' = [u \in Threads |->
                 IF u = t THEN [at |-> "holding", req |-> call[t].req, done |-> call[t].done,
                                got |-> Append(call[t].got,
                                   memory[call[t].req.area][call[t].req.from + Len(call[t].got)])]
                          ELSE call[u]]
<1> DEFINE c == call[t]
           byte == memory[c.req.area][c.req.from + Len(c.got)]
           next == [at |-> "holding", req |-> c.req, done |-> c.done, got |-> Append(c.got, byte)]
<1>1. c \in Holding /\ InBounds(c.req) /\ c.req \in Request /\ c.got \in Seq(Byte)
      /\ c.done \in Nat /\ c.at = "holding"
  BY DEF IInv, TypeInv, ProgressInv, LoadByte, Holding
<1>2. c = [at |-> "holding", req |-> c.req, done |-> c.done, got |-> c.got]
  BY <1>1 DEF Holding
<1>3. call' = [u \in Threads |-> IF u = t THEN next ELSE call[u]]
  <2>1. call = [u \in Threads |-> call[u]]
    BY DEF IInv, TypeInv
  <2>2. [c EXCEPT !.got = Append(@, memory[c.req.area][c.req.from + Len(@)])] = next
    BY <1>2
  <2>3. call' = [call EXCEPT ![t] = next]
    BY <2>2 DEF LoadByte
  <2> HIDE DEF next
  <2> QED
    BY <2>1, <2>3
<1>4. Len(c.got) \in Nat /\ Len(c.got) < Count(c.req) /\ Count(c.req) \in Nat
      /\ c.req.from \in Nat /\ c.req.area \in Areas /\ c.req.from + Count(c.req) <= Size[c.req.area]
      /\ Size[c.req.area] \in Nat
  BY <1>1, RequestFacts, LenProperties DEF LoadByte
<1>5. byte \in Byte
  <2>1. c.req.from + Len(c.got) \in 0 .. Size[c.req.area] - 1
    <3>1. \A from, got, count, size \in Nat :
             got < count /\ from + count <= size => from + got \in 0 .. size - 1
      OBVIOUS
    <3> HIDE DEF c
    <3> QED
      BY <1>4, <3>1
  <2>2. \A a \in Areas : \A b \in 0 .. Size[a] - 1 : memory[a][b] \in Byte
    BY DEF IInv, TypeInv
  <2> QED
    BY <1>4, <2>1, <2>2
<1>6. /\ Append(c.got, byte) \in Seq(Byte)
      /\ Len(Append(c.got, byte)) = Len(c.got) + 1
      /\ Len(c.got) = 0 => Append(c.got, byte)[1] = byte
  BY <1>1, <1>4, <1>5, AppendProperties
<1>7. TypeInv'
  <2>1. next \in Holding
    BY <1>1, <1>6 DEF Holding
  <2>2. memory' = memory
    BY DEF LoadByte
  <2> QED
    BY <1>3, <2>1, <2>2 DEF IInv, TypeInv
<1>8. LockInv'
  BY <1>1, <1>3, MemoryAssumption DEF IInv, LockInv, LoadByte
<1>9. ProgressInv'
  <2>1. c.req.op = "write_bit" => Len(c.got) = 0 /\ byte = memory[c.req.area][c.req.from]
    BY <1>1, <1>4, RequestFacts
  <2> QED
    BY <1>1, <1>3, <1>4, <1>6, <2>1 DEF IInv, ProgressInv, LoadByte
<1> QED
  BY <1>3, <1>7, <1>8, <1>9 DEF IInv

(* The byte a writer stores next, and what it stores.                      *)
Next1(c) == c.req.from + c.done
Stored(c) == IF c.req.op = "write" THEN c.req.data[c.done + 1] ELSE SetBit(c.got[1], c.req)

LEMMA StoreFacts ==
    ASSUME IInv, NEW t \in Threads, StoreByte(t)
    PROVE  LET c == call[t] IN
           /\ c \in Holding /\ c.req \in Request /\ InBounds(c.req) /\ Writes(c.req)
           /\ owner = t
           /\ c.done \in Nat /\ c.done < Count(c.req)
           /\ c.req.area \in Areas
           /\ Next1(c) \in 0 .. Size[c.req.area] - 1
           /\ Stored(c) \in Byte
           /\ c.req.op = "write_bit" => Stored(c) = SetBit(memory[c.req.area][c.req.from], c.req)
           /\ memory' = [a \in Areas |-> [b \in 0 .. Size[a] - 1 |->
                 IF a = c.req.area /\ b = Next1(c) THEN Stored(c) ELSE memory[a][b]]]
           /\ call' = [u \in Threads |->
                 IF u = t THEN [at |-> "holding", req |-> c.req, done |-> c.done + 1,
                                got |-> c.got]
                          ELSE call[u]]
<1> DEFINE c == call[t]
           next == [at |-> "holding", req |-> c.req, done |-> c.done + 1, got |-> c.got]
<1>1. /\ c \in Holding /\ c.req \in Request /\ InBounds(c.req) /\ Writes(c.req)
      /\ owner = t /\ c.got \in Seq(Byte)
      /\ c.done \in Nat /\ c.at = "holding" /\ c.done < Count(c.req)
  BY DEF IInv, TypeInv, LockInv, ProgressInv, StoreByte, Holding
<1>2. /\ c.req.area \in Areas /\ c.req.from \in Nat /\ Count(c.req) \in Nat
      /\ Size[c.req.area] \in Nat /\ c.req.from + Count(c.req) <= Size[c.req.area]
      /\ c.req.op \in {"write", "write_bit"}
      /\ c.req.op = "write_bit" => Count(c.req) = 1
      /\ c.req.op = "write" => \A i \in 1 .. Count(c.req) : c.req.data[i] \in Byte
  BY <1>1, RequestFacts DEF Writes
<1>3. Next1(c) \in 0 .. Size[c.req.area] - 1
  <2>1. \A from, done, count, size \in Nat :
           done < count /\ from + count <= size => from + done \in 0 .. size - 1
    OBVIOUS
  <2> HIDE DEF c
  <2> QED
    BY <1>1, <1>2, <2>1 DEF Next1
<1>4. c.req.op = "write_bit" =>
         /\ c.done = 0 /\ c.got[1] \in Byte
         /\ c.got[1] = memory[c.req.area][c.req.from]
  <2> SUFFICES ASSUME c.req.op = "write_bit"
               PROVE  /\ c.done = 0 /\ c.got[1] \in Byte
                      /\ c.got[1] = memory[c.req.area][c.req.from]
    OBVIOUS
  <2>1. c.done = 0 /\ c.got # <<>>
    BY <1>1, <1>2 DEF StoreByte
  <2>2. 1 \in 1 .. Len(c.got)
    BY <1>1, <2>1, EmptySeq, LenProperties
  <2>3. c.got[1] \in Byte
    BY <1>1, <2>2, ElementOfSeq
  <2> QED
    BY <1>1, <2>1, <2>3 DEF IInv, ProgressInv
<1>5. Stored(c) \in Byte
  <2>1. CASE c.req.op = "write"
    <3>1. c.done + 1 \in 1 .. Count(c.req)
      BY <1>1, <1>2
    <3> QED
      BY <1>2, <2>1, <3>1 DEF Stored
  <2>2. CASE c.req.op = "write_bit"
    BY <1>1, <1>4, <2>2, SetBitType DEF Stored
  <2> QED
    BY <1>2, <2>1, <2>2
<1>6. memory' = [memory EXCEPT ![c.req.area][Next1(c)] = Stored(c)]
  BY DEF StoreByte, Next1, Stored
<1>7. memory' = [a \in Areas |-> [b \in 0 .. Size[a] - 1 |->
                   IF a = c.req.area /\ b = Next1(c) THEN Stored(c) ELSE memory[a][b]]]
  <2> HIDE DEF c
  <2>1. memory = [a \in Areas |-> [b \in 0 .. Size[a] - 1 |-> memory[a][b]]]
    BY DEF IInv, TypeInv
  <2> QED
    BY <1>2, <1>3, <1>6, <2>1
<1>8. call' = [u \in Threads |-> IF u = t THEN next ELSE call[u]]
  <2>1. call = [u \in Threads |-> call[u]]
    BY DEF IInv, TypeInv
  <2>2. c = [at |-> "holding", req |-> c.req, done |-> c.done, got |-> c.got]
    BY <1>1 DEF Holding
  <2>3. [c EXCEPT !.done = @ + 1] = next
    BY <2>2
  <2>4. call' = [call EXCEPT ![t] = next]
    BY <2>3 DEF StoreByte
  <2> HIDE DEF next
  <2> QED
    BY <2>1, <2>4
<1>9. c.req.op = "write_bit" => Stored(c) = SetBit(memory[c.req.area][c.req.from], c.req)
  BY <1>4 DEF Stored
<1> QED
  BY <1>1, <1>2, <1>3, <1>5, <1>7, <1>8, <1>9

LEMMA StoreStep ==
    ASSUME IInv, NEW t \in Threads, StoreByte(t)
    PROVE  IInv'
<1> DEFINE c == call[t]
           next == [at |-> "holding", req |-> c.req, done |-> c.done + 1, got |-> c.got]
<1>1. /\ c \in Holding /\ c.req \in Request /\ InBounds(c.req) /\ Writes(c.req)
      /\ owner = t /\ owner' = owner /\ readers' = readers
      /\ c.done \in Nat /\ c.done < Count(c.req) /\ Count(c.req) \in Nat
      /\ c.req.area \in Areas /\ Stored(c) \in Byte
      /\ memory' = [a \in Areas |-> [b \in 0 .. Size[a] - 1 |->
            IF a = c.req.area /\ b = Next1(c) THEN Stored(c) ELSE memory[a][b]]]
      /\ call' = [u \in Threads |-> IF u = t THEN next ELSE call[u]]
  BY StoreFacts, RequestFacts DEF StoreByte
<1>2. next \in Holding
  BY <1>1 DEF Holding
<1>3. TypeInv'
  <2>1. \A a \in Areas : \A b \in 0 .. Size[a] - 1 : memory'[a][b] \in Byte
    BY <1>1 DEF IInv, TypeInv
  <2>2. memory' = [a \in Areas |-> [b \in 0 .. Size[a] - 1 |-> memory'[a][b]]]
    BY <1>1
  <2>3. \A u \in Threads :
           /\ call'[u].at \in {"returned", "called", "holding"}
           /\ call'[u].at = "called" => call'[u].req \in Request
           /\ call'[u].at = "holding" => call'[u] \in Holding
    BY <1>1, <1>2 DEF IInv, TypeInv
  <2>4. call' = [u \in Threads |-> call'[u]]
    BY <1>1
  <2> QED
    BY <2>1, <2>2, <2>3, <2>4 DEF TypeInv
<1>4. LockInv'
  BY <1>1, MemoryAssumption DEF IInv, LockInv
<1>5. ProgressInv'
  <2>1. \A u \in Threads : u # t => call[u].at # "holding"
    BY <1>1, MemoryAssumption DEF IInv, LockInv
  <2>2. next.done # 0 /\ next.done <= Count(next.req)
    BY <1>1
  <2>3. c.at = "holding"
    BY <1>1 DEF Holding
  <2>4. Len(next.got) <= Count(next.req)
    BY <2>3 DEF IInv, ProgressInv
  <2> QED
    BY <1>1, <2>1, <2>2, <2>4 DEF ProgressInv
<1> QED
  BY <1>3, <1>4, <1>5 DEF IInv

LEMMA ReturnStep ==
    ASSUME IInv, NEW t \in Threads, Return(t)
    PROVE  IInv'
<1> DEFINE back == [at |-> "returned", result |-> Answer(call[t])]
<1>1. call' = [u \in Threads |-> IF u = t THEN back ELSE call[u]] /\ memory' = memory
  BY DEF IInv, TypeInv, Return
<1>2. back.at = "returned"
  OBVIOUS
<1> HIDE DEF back
<1>3. TypeInv'
  BY <1>1, <1>2 DEF IInv, TypeInv
<1>4. LockInv'
  BY <1>1, <1>2, MemoryAssumption DEF IInv, LockInv, Return
<1>5. ProgressInv'
  BY <1>1, <1>2 DEF IInv, ProgressInv
<1> QED
  BY <1>3, <1>4, <1>5 DEF IInv

LEMMA StepIInv == IInv /\ [Next]_vars => IInv'
<1> SUFFICES ASSUME IInv, [Next]_vars PROVE IInv'
  OBVIOUS
<1>1. CASE UNCHANGED vars
  BY <1>1 DEF vars, IInv, TypeInv, LockInv, ProgressInv
<1>2. ASSUME NEW t \in Threads, Step(t) PROVE IInv'
  <2>1. CASE Calls(t)
    BY <2>1, CallsAreRequests, CallsStep
  <2>2. CASE Throw(t)
    BY <2>2, ThrowStep
  <2>3. CASE LockShared(t) \/ LockUnique(t)
    BY <2>3, LockStep
  <2>4. CASE LoadByte(t)
    BY <2>4, LoadStep
  <2>5. CASE StoreByte(t)
    BY <2>5, StoreStep
  <2>6. CASE Return(t)
    BY <2>6, ReturnStep
  <2> QED
    BY <1>2, <2>1, <2>2, <2>3, <2>4, <2>5, <2>6 DEF Step
<1> QED
  BY <1>1, <1>2 DEF Next

-----------------------------------------------------------------------------
(* The implementation.                                                     *)

LEMMA SameMemory ==
    ASSUME IInv, memory' = memory, owner' = owner,
           owner # None => call'[owner].req = call[owner].req /\ call'[owner].done = call[owner].done
    PROVE  MemoryAfterwards' = MemoryAfterwards
  BY DEF MemoryAfterwards, ByteAfterwards

LEMMA FreeMemory ==
    ASSUME IInv, owner = None
    PROVE  MemoryAfterwards = memory
<1>1. \A a \in Areas : \A b \in 0 .. Size[a] - 1 : ByteAfterwards(a, b) = memory[a][b]
  BY DEF ByteAfterwards
<1>2. memory = [a \in Areas |-> [b \in 0 .. Size[a] - 1 |-> memory[a][b]]]
  BY DEF IInv, TypeInv
<1> QED
  BY <1>1, <1>2 DEF MemoryAfterwards

LEMMA OtherCalls ==
    ASSUME IInv, NEW t \in Threads, NEW u \in Threads, u # t, call'[u] = call[u],
           memory' = memory \/ owner = t
    PROVE  OneCallAfterwards(call[u])' = OneCallAfterwards(call[u])
<1>1. CASE memory' = memory
  BY <1>1 DEF OneCallAfterwards, GotAfterwards
<1>2. CASE owner = t
  <2>1. call[u].at # "holding"
    BY <1>2, MemoryAssumption DEF IInv, LockInv
  <2> QED
    BY <2>1 DEF OneCallAfterwards
<1> QED
  BY <1>1, <1>2

LEMMA OneCallChanges ==
    ASSUME IInv, NEW t \in Threads, \A u \in Threads \ {t} : call'[u] = call[u],
           memory' = memory \/ owner = t
    PROVE  CallAfterwards' = [CallAfterwards EXCEPT ![t] = OneCallAfterwards(call[t])']
<1>1. \A u \in Threads \ {t} : OneCallAfterwards(call[u])' = OneCallAfterwards(call[u])
  BY OtherCalls
<1>2. CallAfterwards' = [u \in Threads |-> OneCallAfterwards(call[u])']
  BY DEF CallAfterwards
<1> QED
  BY <1>1, <1>2 DEF CallAfterwards

LEMMA AbstractInit == Init => Atomically!Init
<1> SUFFICES ASSUME Init PROVE Atomically!Init
  OBVIOUS
<1>1. MemoryAfterwards = [a \in Areas |-> [b \in 0 .. Size[a] - 1 |-> {}]]
  BY DEF Init, MemoryAfterwards, ByteAfterwards
<1>2. CallAfterwards = [t \in Threads |-> [at |-> "returned", result |-> Void]]
  BY DEF Init, CallAfterwards, OneCallAfterwards
<1> QED
  BY <1>1, <1>2 DEF Atomically!Init, Atomically!Positions, Atomically!Void, Void

LEMMA AbstractCall ==
    ASSUME IInv, NEW t \in Threads, NEW r \in Request, Call(t, r)
    PROVE  Atomically!Call(t)
<1> DEFINE new == [at |-> "called", req |-> r]
<1>1. call' = [call EXCEPT ![t] = new] /\ call[t].at = "returned" /\ memory' = memory /\ owner' = owner
  BY DEF Call
<1>2. call'[t] = new /\ \A u \in Threads \ {t} : call'[u] = call[u]
  BY <1>1 DEF IInv, TypeInv
<1>3. MemoryAfterwards' = MemoryAfterwards
  BY <1>1, <1>2, SameMemory, MemoryAssumption DEF IInv, LockInv
<1>4. CallAfterwards' = [CallAfterwards EXCEPT ![t] = new]
  BY <1>1, <1>2, OneCallChanges DEF OneCallAfterwards
<1>5. CallAfterwards[t].at = "returned"
  BY <1>1 DEF CallAfterwards, OneCallAfterwards
<1>6. r \in Atomically!Request
  BY DEF Request, Offsets, BitIndexes, Atomically!Request, Atomically!ReadRequest,
         Atomically!ReadBitRequest, Atomically!WriteRequest, Atomically!WriteBitRequest
<1> QED
  BY <1>3, <1>4, <1>5, <1>6 DEF Atomically!Call

LEMMA SameBounds ==
    ASSUME NEW r PROVE /\ InBounds(r) <=> Atomically!InRange(r)
                       /\ Count(r) = Atomically!Count(r)
  BY DEF InBounds, Count, Atomically!InRange, Atomically!Count

LEMMA AbstractThrow ==
    ASSUME IInv, NEW t \in Threads, Throw(t)
    PROVE  Atomically!Throw(t)
<1> DEFINE new == [at |-> "returned", result |-> Thrown]
<1>1. /\ call' = [call EXCEPT ![t] = new] /\ call[t].at = "called" /\ ~InBounds(call[t].req)
      /\ memory' = memory /\ owner' = owner
  BY DEF Throw
<1>2. call'[t] = new /\ \A u \in Threads \ {t} : call'[u] = call[u]
  BY <1>1 DEF IInv, TypeInv
<1>3. MemoryAfterwards' = MemoryAfterwards
  BY <1>1, <1>2, SameMemory, MemoryAssumption DEF IInv, LockInv
<1>4. CallAfterwards' = [CallAfterwards EXCEPT ![t] = new]
  BY <1>1, <1>2, OneCallChanges DEF OneCallAfterwards
<1>5. CallAfterwards[t] = call[t]
  BY <1>1 DEF CallAfterwards, OneCallAfterwards
<1> QED
  BY <1>1, <1>3, <1>4, <1>5, SameBounds DEF Atomically!Throw, Atomically!Thrown, Thrown

LEMMA AbstractLockShared ==
    ASSUME IInv, NEW t \in Threads, LockShared(t)
    PROVE  Atomically!TakeEffect(t)
<1> DEFINE r == call[t].req
           new == [at |-> "holding", req |-> r, done |-> 0, got |-> <<>>]
<1>1. /\ call' = [call EXCEPT ![t] = new] /\ call[t].at = "called" /\ r \in Request
      /\ InBounds(r) /\ ~Writes(r) /\ memory' = memory /\ owner = None /\ owner' = owner
  BY DEF IInv, TypeInv, LockShared, Hold
<1>2. call'[t] = new /\ \A u \in Threads \ {t} : call'[u] = call[u]
  BY <1>1 DEF IInv, TypeInv
<1>3. MemoryAfterwards' = MemoryAfterwards /\ MemoryAfterwards = memory
  BY <1>1, SameMemory, FreeMemory
<1>4. CallAfterwards' = [CallAfterwards EXCEPT ![t] = OneCallAfterwards(call[t])']
  BY <1>1, <1>2, OneCallChanges
<1>5. OneCallAfterwards(call[t])' = [at |-> "done", result |-> Atomically!Result(r)]
  <2> HIDE DEF r
  <2>1. Len(new.got) = 0
    BY EmptySeq
  <2>2. GotAfterwards(call[t])' = [i \in 1 .. Count(r) |-> memory[r.area][r.from + i - 1]]
    BY <1>1, <1>2, <2>1 DEF GotAfterwards
  <2>3. /\ r.op \in {"read", "read_bit"}
        /\ r.op = "read" => Count(r) = r.count
        /\ r.op = "read_bit" => Count(r) = 1
        /\ r.from \in Nat
    BY <1>1, RequestFacts DEF Writes
  <2>4. r.op = "read_bit" => (GotAfterwards(call[t])')[1] = memory[r.area][r.from]
    BY <2>2, <2>3
  <2>5. call'[t].req = r /\ call'[t].at = "holding"
    BY <1>2
  <2>6. CASE r.op = "read"
    <3>1. OneCallAfterwards(call[t])' = [at |-> "done", result |-> [bytes |-> GotAfterwards(call[t])']]
      BY <2>5, <2>6 DEF OneCallAfterwards
    <3>2. Atomically!Result(r) = [bytes |-> [i \in 1 .. Count(r) |-> memory[r.area][r.from + i - 1]]]
      BY <1>3, <2>3, <2>6 DEF Atomically!Result
    <3> QED
      BY <2>2, <3>1, <3>2
  <2>7. CASE r.op = "read_bit"
    <3>1. OneCallAfterwards(call[t])' =
             [at |-> "done", result |-> [bit |-> r.bit \in (GotAfterwards(call[t])')[1]]]
      BY <2>5, <2>7 DEF OneCallAfterwards
    <3>2. Atomically!Result(r) = [bit |-> r.bit \in memory[r.area][r.from]]
      BY <1>3, <2>7 DEF Atomically!Result
    <3> QED
      BY <2>4, <2>7, <3>1, <3>2
  <2> QED
    BY <2>3, <2>6, <2>7
<1>6. CallAfterwards[t] = call[t]
  BY <1>1 DEF CallAfterwards, OneCallAfterwards
<1>7. Atomically!Effect(r) = MemoryAfterwards
  BY <1>1 DEF Writes, Atomically!Effect
<1> QED
  BY <1>1, <1>3, <1>4, <1>5, <1>6, <1>7, SameBounds DEF Atomically!TakeEffect

LEMMA AbstractLockUnique ==
    ASSUME IInv, NEW t \in Threads, LockUnique(t)
    PROVE  Atomically!TakeEffect(t)
<1> DEFINE r == call[t].req
           new == [at |-> "holding", req |-> r, done |-> 0, got |-> <<>>]
<1>1. /\ call' = [call EXCEPT ![t] = new] /\ call[t].at = "called" /\ r \in Request
      /\ InBounds(r) /\ Writes(r) /\ memory' = memory /\ owner = None /\ owner' = t
  BY DEF IInv, TypeInv, LockUnique, Hold
<1>2. call'[t] = new /\ \A u \in Threads \ {t} : call'[u] = call[u]
  BY <1>1 DEF IInv, TypeInv
<1>3. MemoryAfterwards = memory
  BY <1>1, FreeMemory
<1>4. CallAfterwards' = [CallAfterwards EXCEPT ![t] = OneCallAfterwards(call[t])']
  BY <1>1, <1>2, OneCallChanges
<1>5. /\ r.area \in Areas /\ r.from \in Nat /\ Count(r) \in Nat
      /\ r.op \in {"write", "write_bit"}
  BY <1>1, RequestFacts DEF Writes
<1>6. OneCallAfterwards(call[t])' = [at |-> "done", result |-> Atomically!Result(r)]
  BY <1>2, <1>5 DEF OneCallAfterwards, Atomically!Result, Atomically!Void, Void
<1>7. CallAfterwards[t] = call[t]
  BY <1>1 DEF CallAfterwards, OneCallAfterwards
<1>8. MemoryAfterwards' = Atomically!Effect(r)
  <2> HIDE DEF r
  <2>1. owner' # None /\ call'[owner'].req = r /\ call'[owner'].done = 0
    BY <1>1, <1>2, MemoryAssumption
  <2>2. \A a \in Areas : \A b \in 0 .. Size[a] - 1 :
           ByteAfterwards(a, b)' =
              IF a = r.area /\ b \in r.from .. r.from + Count(r) - 1
              THEN Atomically!Written(r, b, memory[a][b]) ELSE memory[a][b]
    <3> TAKE a \in Areas
    <3> TAKE b \in 0 .. Size[a] - 1
    <3>1. ByteAfterwards(a, b)' =
             IF r.area # a \/ b \notin r.from + 0 .. r.from + Count(r) - 1
             THEN memory[a][b]
             ELSE IF r.op = "write" THEN r.data[b - r.from + 1] ELSE SetBit(memory[a][b], r)
      BY <1>1, <2>1 DEF ByteAfterwards
    <3>2. Atomically!Written(r, b, memory[a][b]) =
             IF r.op = "write" THEN r.data[b - r.from + 1] ELSE SetBit(memory[a][b], r)
      BY DEF Atomically!Written, Atomically!With, SetBit
    <3>3. r.from + 0 = r.from
      BY <1>5
    <3> QED
      BY <3>1, <3>2, <3>3
  <2>3. memory = [a \in Areas |-> [b \in 0 .. Size[a] - 1 |-> memory[a][b]]]
    BY DEF IInv, TypeInv
  <2>4. Atomically!Effect(r) =
           [memory EXCEPT ![r.area] = [b \in 0 .. Size[r.area] - 1 |->
               IF b \in r.from .. r.from + Count(r) - 1
               THEN Atomically!Written(r, b, memory[r.area][b]) ELSE memory[r.area][b]]]
    <3>1. Atomically!Count(r) = Count(r)
      BY SameBounds
    <3>2. Atomically!Effect(r) =
             [MemoryAfterwards EXCEPT ![r.area] = [b \in 0 .. Size[r.area] - 1 |->
                 IF b \in r.from .. r.from + Atomically!Count(r) - 1
                 THEN Atomically!Written(r, b, @[b]) ELSE @[b]]]
      BY <1>5 DEF Atomically!Effect, Atomically!Positions
    <3> QED
      BY <1>3, <3>1, <3>2
  <2>5. MemoryAfterwards' = [a \in Areas |-> [b \in 0 .. Size[a] - 1 |-> ByteAfterwards(a, b)']]
    BY DEF MemoryAfterwards
  <2>6. MemoryAfterwards' = [a \in Areas |-> [b \in 0 .. Size[a] - 1 |->
              IF a = r.area /\ b \in r.from .. r.from + Count(r) - 1
              THEN Atomically!Written(r, b, memory[a][b]) ELSE memory[a][b]]]
    BY <2>2, <2>5
  <2> DEFINE row(a) == [b \in 0 .. Size[a] - 1 |->
              IF a = r.area /\ b \in r.from .. r.from + Count(r) - 1
              THEN Atomically!Written(r, b, memory[a][b]) ELSE memory[a][b]]
  <2>7. row(r.area) = [b \in 0 .. Size[r.area] - 1 |->
               IF b \in r.from .. r.from + Count(r) - 1
               THEN Atomically!Written(r, b, memory[r.area][b]) ELSE memory[r.area][b]]
    OBVIOUS
  <2>8. ASSUME NEW a \in Areas, a # r.area PROVE row(a) = memory[a]
    <3>1. row(a) = [b \in 0 .. Size[a] - 1 |-> memory[a][b]]
      BY <2>8
    <3> QED
      BY <2>3, <3>1
  <2> HIDE DEF row
  <2>9. Atomically!Effect(r) = [memory EXCEPT ![r.area] = row(r.area)]
    BY <2>4, <2>7
  <2>10. MemoryAfterwards' = [a \in Areas |-> row(a)]
    BY <2>6 DEF row
  <2>11. [memory EXCEPT ![r.area] = row(r.area)] = [a \in Areas |-> row(a)]
    <3>1. DOMAIN memory = Areas /\ memory = [a \in Areas |-> memory[a]]
      BY <2>3
    <3> QED
      BY <1>5, <2>8, <3>1
  <2> QED
    BY <2>9, <2>10, <2>11
<1> QED
  BY <1>1, <1>4, <1>6, <1>7, <1>8, SameBounds DEF Atomically!TakeEffect

LEMMA AbstractLoad ==
    ASSUME IInv, NEW t \in Threads, LoadByte(t)
    PROVE  UNCHANGED Atomically!vars
<1> DEFINE c == call[t]
           byte == memory[c.req.area][c.req.from + Len(c.got)]
           new == [at |-> "holding", req |-> c.req, done |-> c.done, got |-> Append(c.got, byte)]
<1>1. /\ call' = [u \in Threads |-> IF u = t THEN new ELSE call[u]]
      /\ memory' = memory /\ owner' = owner
      /\ c.at = "holding" /\ c.got \in Seq(Byte) /\ byte \in Byte
  <2>1. c.at = "holding" /\ c.got \in Seq(Byte) /\ c.req \in Request /\ InBounds(c.req)
    BY DEF IInv, TypeInv, ProgressInv, LoadByte, Holding
  <2>2. IInv' /\ call' = [u \in Threads |-> IF u = t THEN new ELSE call[u]]
    BY LoadStep
  <2>3. new \in Holding
    BY <2>2 DEF IInv, TypeInv
  <2>4. Len(c.got) \in Nat
    BY <2>1, LenProperties
  <2>5. c.req.area \in Areas /\ c.req.from \in Nat /\ Count(c.req) \in Nat
        /\ Size[c.req.area] \in Nat /\ c.req.from + Count(c.req) <= Size[c.req.area]
        /\ Len(c.got) < Count(c.req)
    BY <2>1, RequestFacts DEF LoadByte
  <2>6. c.req.from + Len(c.got) \in 0 .. Size[c.req.area] - 1
    <3>1. \A from, got, count, size \in Nat :
             got < count /\ from + count <= size => from + got \in 0 .. size - 1
      OBVIOUS
    <3> HIDE DEF c
    <3> QED
      BY <2>4, <2>5, <3>1
  <2>7. \A a \in Areas : \A b \in 0 .. Size[a] - 1 : memory[a][b] \in Byte
    BY DEF IInv, TypeInv
  <2> QED
    BY <2>1, <2>2, <2>5, <2>6, <2>7 DEF LoadByte
<1>2. MemoryAfterwards' = MemoryAfterwards
  BY <1>1, SameMemory, MemoryAssumption DEF IInv, LockInv
<1>3. CallAfterwards' = [CallAfterwards EXCEPT ![t] = OneCallAfterwards(call[t])']
  BY <1>1, OneCallChanges
<1>4. GotAfterwards(call[t])' = GotAfterwards(call[t])
  <2>1. \A i \in 1 .. Len(c.got) : Append(c.got, byte)[i] = c.got[i]
    BY <1>1, AppendProperties
  <2>2. Len(c.got) \in Nat /\ Append(c.got, byte)[Len(c.got) + 1] = byte
        /\ Len(Append(c.got, byte)) = Len(c.got) + 1
    BY <1>1, AppendProperties, LenProperties
  <2>3. c.req \in Request /\ InBounds(c.req)
    BY <1>1 DEF IInv, TypeInv, ProgressInv, Holding
  <2>4. c.req.from \in Nat /\ Count(c.req) \in Nat
    BY <2>3, RequestFacts
  <2>5. call'[t].req = c.req /\ call'[t].got = Append(c.got, byte)
    BY <1>1
  <2>6. \A i \in 1 .. Count(c.req) :
           (IF i <= Len(Append(c.got, byte)) THEN Append(c.got, byte)[i]
            ELSE memory[c.req.area][c.req.from + i - 1])
         = (IF i <= Len(c.got) THEN c.got[i] ELSE memory[c.req.area][c.req.from + i - 1])
    <3> TAKE i \in 1 .. Count(c.req)
    <3>1. CASE i <= Len(c.got)
      <4>1. i <= Len(Append(c.got, byte)) /\ i \in 1 .. Len(c.got)
        BY <2>2, <2>4, <3>1
      <4> QED
        BY <2>1, <3>1, <4>1
    <3>2. CASE i = Len(c.got) + 1
      <4>1. i <= Len(Append(c.got, byte)) /\ ~(i <= Len(c.got))
            /\ c.req.from + i - 1 = c.req.from + Len(c.got)
        BY <2>2, <2>4, <3>2
      <4> QED
        BY <2>2, <3>2, <4>1
    <3>3. CASE ~(i <= Len(c.got) + 1)
      BY <2>2, <3>3
    <3> QED
      BY <2>2, <3>1, <3>2, <3>3
  <2> QED
    BY <1>1, <2>5, <2>6 DEF GotAfterwards
<1>5. OneCallAfterwards(call[t])' = OneCallAfterwards(call[t])
  BY <1>1, <1>4 DEF OneCallAfterwards
<1>6. CallAfterwards' = CallAfterwards
  BY <1>3, <1>5 DEF CallAfterwards
<1> QED
  BY <1>2, <1>6 DEF Atomically!vars

LEMMA AbstractStore ==
    ASSUME IInv, NEW t \in Threads, StoreByte(t)
    PROVE  UNCHANGED Atomically!vars
<1> DEFINE c == call[t]
           r == c.req
           new == [at |-> "holding", req |-> r, done |-> c.done + 1, got |-> c.got]
<1>1. /\ c \in Holding /\ r \in Request /\ InBounds(r) /\ Writes(r)
      /\ owner = t /\ owner' = t
      /\ c.done \in Nat /\ c.done < Count(r)
      /\ r.area \in Areas /\ Next1(c) \in 0 .. Size[r.area] - 1
      /\ r.op = "write_bit" => Stored(c) = SetBit(memory[r.area][r.from], r)
      /\ memory' = [a \in Areas |-> [b \in 0 .. Size[a] - 1 |->
            IF a = r.area /\ b = Next1(c) THEN Stored(c) ELSE memory[a][b]]]
      /\ call' = [u \in Threads |-> IF u = t THEN new ELSE call[u]]
  BY StoreFacts DEF StoreByte
<1>2. /\ r.from \in Nat /\ Count(r) \in Nat /\ r.op \in {"write", "write_bit"}
      /\ r.op = "write_bit" => Count(r) = 1
  BY <1>1, RequestFacts DEF Writes
<1>3. CallAfterwards' = [CallAfterwards EXCEPT ![t] = OneCallAfterwards(call[t])']
  BY <1>1, OneCallChanges
<1>4. OneCallAfterwards(call[t])' = OneCallAfterwards(call[t])
  <2>1. c.at = "holding" /\ call'[t].at = "holding" /\ call'[t].req = r
    BY <1>1 DEF Holding
  <2> QED
    BY <1>2, <2>1 DEF OneCallAfterwards
<1>5. CallAfterwards' = CallAfterwards
  BY <1>3, <1>4 DEF CallAfterwards
<1>6. \A a \in Areas : \A b \in 0 .. Size[a] - 1 : ByteAfterwards(a, b)' = ByteAfterwards(a, b)
  <2> TAKE a \in Areas
  <2> TAKE b \in 0 .. Size[a] - 1
  <2> DEFINE d == c.done
             Made(byte) == IF r.op = "write" THEN r.data[b - r.from + 1] ELSE SetBit(byte, r)
  <2>1. ByteAfterwards(a, b) =
           IF r.area # a \/ b \notin r.from + d .. r.from + Count(r) - 1
           THEN memory[a][b] ELSE Made(memory[a][b])
    BY <1>1, MemoryAssumption DEF ByteAfterwards
  <2>2. call'[t].req = r /\ call'[t].done = d + 1
    BY <1>1
  <2>3. ByteAfterwards(a, b)' =
           IF r.area # a \/ b \notin r.from + (d + 1) .. r.from + Count(r) - 1
           THEN memory'[a][b] ELSE Made(memory'[a][b])
    BY <1>1, <2>2, MemoryAssumption DEF ByteAfterwards
  <2>4. memory'[a][b] = IF a = r.area /\ b = Next1(c) THEN Stored(c) ELSE memory[a][b]
    BY <1>1
  <2>5. CASE a = r.area /\ b = Next1(c)
    <3>1. b = r.from + d /\ b \in r.from + d .. r.from + Count(r) - 1
          /\ b \notin r.from + (d + 1) .. r.from + Count(r) - 1
      BY <1>1, <1>2, <2>5 DEF Next1
    <3>2. ByteAfterwards(a, b)' = Stored(c)
      BY <2>3, <2>4, <2>5, <3>1
    <3>3. r.op = "write" => Stored(c) = r.data[b - r.from + 1]
      <4>1. b - r.from + 1 = d + 1
        BY <1>1, <1>2, <3>1
      <4> QED
        BY <4>1 DEF Stored
    <3>4. r.op = "write_bit" => Stored(c) = SetBit(memory[a][b], r)
      <4>1. r.op = "write_bit" => b = r.from
        BY <1>1, <1>2, <3>1
      <4> QED
        BY <1>1, <2>5, <4>1
    <3>5. ByteAfterwards(a, b) = Made(memory[a][b])
      BY <2>1, <2>5, <3>1
    <3> QED
      BY <1>2, <3>2, <3>3, <3>4, <3>5
  <2>6. CASE ~(a = r.area /\ b = Next1(c))
    <3>1. a = r.area =>
             (b \in r.from + (d + 1) .. r.from + Count(r) - 1
                <=> b \in r.from + d .. r.from + Count(r) - 1)
      BY <1>1, <1>2, <2>6 DEF Next1
    <3>2. memory'[a][b] = memory[a][b]
      BY <2>4, <2>6
    <3> HIDE DEF Made
    <3> QED
      BY <2>1, <2>3, <3>1, <3>2
  <2> QED
    BY <2>5, <2>6
<1>7. MemoryAfterwards' = MemoryAfterwards
  BY <1>6 DEF MemoryAfterwards
<1> QED
  BY <1>5, <1>7 DEF Atomically!vars

LEMMA AbstractReturn ==
    ASSUME IInv, NEW t \in Threads, Return(t)
    PROVE  Atomically!Return(t)
<1> DEFINE c == call[t]
           r == c.req
           back == [at |-> "returned", result |-> Answer(c)]
<1>1. /\ c \in Holding /\ r \in Request /\ InBounds(r) /\ c.at = "holding"
      /\ c.got \in Seq(Byte) /\ Finished(c) /\ memory' = memory
      /\ owner' = IF owner = t THEN None ELSE owner
      /\ call' = [u \in Threads |-> IF u = t THEN back ELSE call[u]]
  BY DEF IInv, TypeInv, ProgressInv, Return, Holding
<1>2. /\ Count(r) \in Nat /\ r.op \in {"read", "read_bit", "write", "write_bit"}
      /\ r.op = "read_bit" => Count(r) = 1
      /\ r.from \in Nat
  BY <1>1, RequestFacts
<1>3. CallAfterwards' = [CallAfterwards EXCEPT ![t] = back]
  <2>1. call'[t] = back /\ back.at = "returned" /\ \A u \in Threads \ {t} : call'[u] = call[u]
    BY <1>1
  <2>2. OneCallAfterwards(call[t])' = back
    BY <2>1 DEF OneCallAfterwards
  <2> QED
    BY <1>1, <2>1, <2>2, OneCallChanges
<1>4. CallAfterwards[t] = [at |-> "done", result |-> Answer(c)]
  <2>1. ~Writes(r) => GotAfterwards(c) = c.got
    <3> SUFFICES ASSUME ~Writes(r) PROVE GotAfterwards(c) = c.got
      OBVIOUS
    <3>1. Len(c.got) = Count(r)
      BY <1>1 DEF Finished
    <3>2. c.got = [i \in 1 .. Count(r) |-> c.got[i]]
      BY <1>1, <3>1, LenProperties
    <3>3. GotAfterwards(c) = [i \in 1 .. Count(r) |-> c.got[i]]
      BY <1>2, <3>1 DEF GotAfterwards
    <3> QED
      BY <3>2, <3>3
  <2>2. OneCallAfterwards(c) = [at |-> "done", result |-> Answer(c)]
    <3>1. CASE r.op = "read"
      BY <1>1, <2>1, <3>1 DEF OneCallAfterwards, Answer, Writes
    <3>2. CASE r.op = "read_bit"
      BY <1>1, <2>1, <3>2 DEF OneCallAfterwards, Answer, Writes
    <3>3. CASE r.op \in {"write", "write_bit"}
      BY <1>1, <3>3 DEF OneCallAfterwards, Answer
    <3> QED
      BY <1>2, <3>1, <3>2, <3>3
  <2> QED
    BY <2>2 DEF CallAfterwards
<1>5. MemoryAfterwards' = MemoryAfterwards
  <2>1. CASE owner # t
    <3>1. owner' = owner /\ (owner # None => call'[owner] = call[owner])
      BY <1>1, <2>1, MemoryAssumption DEF IInv, LockInv
    <3> QED
      BY <1>1, <3>1, SameMemory
  <2>2. CASE owner = t
    <3>1. owner # None /\ Writes(r) /\ owner' = None
      BY <1>1, <2>2, MemoryAssumption DEF IInv, LockInv
    <3>2. c.done = Count(r)
      BY <1>1, <3>1 DEF Finished
    <3>3. r.from + c.done .. r.from + Count(r) - 1 = {}
      BY <1>2, <3>2
    <3>4. \A a \in Areas : \A b \in 0 .. Size[a] - 1 : ByteAfterwards(a, b) = memory[a][b]
      BY <2>2, <3>3 DEF ByteAfterwards
    <3>5. \A a \in Areas : \A b \in 0 .. Size[a] - 1 : ByteAfterwards(a, b)' = memory[a][b]
      BY <1>1, <3>1 DEF ByteAfterwards
    <3> QED
      BY <3>4, <3>5 DEF MemoryAfterwards
  <2> QED
    BY <2>1, <2>2
<1>6. CallAfterwards[t].at = "done" /\ CallAfterwards[t].result = Answer(c)
  BY <1>4
<1> QED
  BY <1>3, <1>5, <1>6 DEF Atomically!Return

LEMMA AbstractStep == IInv /\ [Next]_vars => [Atomically!Next]_Atomically!vars
<1> SUFFICES ASSUME IInv, [Next]_vars PROVE Atomically!Next \/ UNCHANGED Atomically!vars
  OBVIOUS
<1>1. CASE UNCHANGED vars
  BY <1>1 DEF vars, Atomically!vars, MemoryAfterwards, ByteAfterwards, CallAfterwards,
              OneCallAfterwards, GotAfterwards
<1>2. ASSUME NEW t \in Threads, Step(t) PROVE Atomically!Next \/ UNCHANGED Atomically!vars
  <2>1. CASE Calls(t)
    BY <2>1, CallsAreRequests, AbstractCall DEF Atomically!Next
  <2>2. CASE Throw(t)
    BY <2>2, AbstractThrow DEF Atomically!Next
  <2>3. CASE LockShared(t)
    BY <2>3, AbstractLockShared DEF Atomically!Next
  <2>4. CASE LockUnique(t)
    BY <2>4, AbstractLockUnique DEF Atomically!Next
  <2>5. CASE LoadByte(t)
    BY <2>5, AbstractLoad
  <2>6. CASE StoreByte(t)
    BY <2>6, AbstractStore
  <2>7. CASE Return(t)
    BY <2>7, AbstractReturn DEF Atomically!Next
  <2> QED
    BY <1>2, <2>1, <2>2, <2>3, <2>4, <2>5, <2>6, <2>7 DEF Step
<1> QED
  BY <1>1, <1>2 DEF Next

\* Every call of MemoryMap takes effect at one moment, for any threads, areas,
\* sizes and blocks (std::shared_lock, std::unique_lock and validate_bounds in
\* every operation).
THEOREM MemoryIsAtomic == Spec => ImplementsAtomicMemory
  BY InitIInv, StepIInv, AbstractInit, AbstractStep, PTL
  DEF Spec, ImplementsAtomicMemory, Atomically!Spec

-----------------------------------------------------------------------------
(* The scan thread and the telemetry threads.                              *)

ScanInv ==
    /\ scan \in 0 .. MaxScans
    /\ rule \in 0 .. Rules
    /\ rule > 0 => scan > 0

LEMMA FramesScanInv == FramesInit => ScanInv
  BY FramesAssumption DEF FramesInit, ScanInv

LEMMA StepScanInv == ScanInv /\ [FramesNext]_allVars => ScanInv'
<1> SUFFICES ASSUME ScanInv, [FramesNext]_allVars PROVE ScanInv'
  OBVIOUS
<1>1. CASE ReadInputs
  BY <1>1, FramesAssumption DEF ScanInv, ReadInputs
<1>2. CASE ExecuteRule
  BY <1>2, FramesAssumption DEF ScanInv, ExecuteRule
<1>3. CASE UNCHANGED scanner
  BY <1>3 DEF ScanInv, scanner
<1>4. ASSUME NEW c \in Clients, BeginFrame(c) \/ TakeSecond(c) \/ Send(c) PROVE UNCHANGED scanner
  BY <1>4 DEF BeginFrame, TakeSecond, Send, Ask
<1> QED
  BY <1>1, <1>2, <1>3, <1>4 DEF FramesNext, allVars

\* A rule's write is one of those the bounds admit.
LEMMA ExecutionInBounds ==
  ASSUME ScanInv, rule > 0
  PROVE  Execution \in BitIndexes
<1>1. scan \in 1 .. MaxScans /\ rule \in 1 .. Rules /\ MaxScans \in Nat /\ Rules \in Nat
  BY FramesAssumption DEF ScanInv
<1>2. (scan - 1) * Rules <= (MaxScans - 1) * Rules
  BY <1>1
<1>3. (MaxScans - 1) * Rules + Rules = MaxScans * Rules /\ (scan - 1) * Rules \in Nat
  BY <1>1
<1>4. Execution \in Nat /\ Execution <= MaxScans * Rules
  BY <1>1, <1>2, <1>3 DEF Execution
<1> QED
  BY <1>1, <1>4, FramesAssumption, MemoryAssumption DEF BitIndexes

\* What they do to the memory map is what MemoryMap lets threads do.
LEMMA UsersStep == ScanInv /\ [FramesNext]_allVars => [Next]_vars
<1> SUFFICES ASSUME ScanInv, FramesNext PROVE Next \/ UNCHANGED vars
  BY DEF allVars, mapVars, vars
<1>1. CASE ReadInputs
  <2>1. scan + 1 \in 1 .. MaxScans
    BY <1>1, FramesAssumption DEF ReadInputs, ScanInv
  <2>2. <<{scan + 1}>> \in Blocks /\ I \in Areas /\ 0 \in Offsets /\ Scanner \in Threads
    BY <2>1, FramesAssumption, MemoryAssumption DEF Offsets
  <2>3. WriteBytes(Scanner)
    BY <1>1, <2>2 DEF ReadInputs, WriteBytes
  <2> QED
    BY <2>2, <2>3 DEF Next, Step, Calls
<1>2. CASE ExecuteRule
  <2>1. Execution \in BitIndexes
    BY <1>2, ExecutionInBounds DEF ExecuteRule
  <2>2. Coil[rule] \in Offsets /\ Q \in Areas /\ Scanner \in Threads
    BY <1>2, FramesAssumption, MemoryAssumption DEF ExecuteRule, ScanInv, Offsets
  <2>3. WriteBit(Scanner)
    BY <1>2, <2>1, <2>2 DEF ExecuteRule, WriteBit
  <2> QED
    BY <2>2, <2>3 DEF Next, Step, Calls
<1>3. ASSUME NEW c \in Clients, NEW n \in 1 .. 2, Ask(c, n) PROVE Next
  <2>1. Snapshots[n] \in {I, Q}
    BY DEF Snapshots
  <2>2. Snapshots[n] \in Areas /\ Size[Snapshots[n]] \in Offsets /\ c \in Threads
    BY <2>1, FramesAssumption
  <2>3. GetAreaSnapshot(c)
    BY <1>3, <2>2 DEF Ask, GetAreaSnapshot
  <2> QED
    BY <2>2, <2>3 DEF Next, Step, Calls
<1>4. ASSUME NEW c \in Clients, BeginFrame(c) \/ TakeSecond(c) PROVE Next
  BY <1>3, <1>4 DEF BeginFrame, TakeSecond
<1>5. ASSUME NEW c \in Clients, Send(c) PROVE UNCHANGED vars
  BY <1>5 DEF Send, mapVars, vars
<1>6. ASSUME NEW t \in Threads, Work(t) PROVE Next
  BY <1>6 DEF Work, Next, Step
<1> QED
  BY <1>1, <1>2, <1>4, <1>5, <1>6 DEF FramesNext

\* Seen from the memory map, whatever the scan thread and the telemetry threads
\* do together, every call of theirs takes effect at one moment: a snapshot of
\* client_loop() never shows a half-written scan of one byte and another of the
\* next (get_area_snapshot, write_bytes, write_bit).
THEOREM FramesReadAtomically == FramesSpec => ImplementsAtomicMemory
<1>1. FramesInit => Init
  BY DEF FramesInit
<1>2. FramesSpec => Spec
  BY <1>1, FramesScanInv, StepScanInv, UsersStep, PTL DEF FramesSpec, Spec
<1> QED
  BY <1>2, MemoryIsAtomic, PTL

-----------------------------------------------------------------------------
(* The invariant behind FrameOfOneMoment.  Issued is the last execution    *)
(* that was called, LastStored the last whose byte is in the output area.  *)

Issued == IF rule = 0 THEN scan * Rules ELSE Execution - 1

ExecutionOf(k) ==
    [op |-> "write_bit", area |-> Q, from |-> Coil[1 + ((k - 1) % Rules)],
     bit |-> k, value |-> TRUE]

\* Whether the last execution has yet to store its byte.
Pending ==
    LET c == call[Scanner] IN
    /\ c.at # "returned"
    /\ c.req.op = "write_bit"
    /\ c.at = "holding" => c.done = 0

LastStored == IF Pending THEN Issued - 1 ELSE Issued

\* These inputs are of a scan that had begun when execution k was stored.
LatchedBy(byte, k) == byte = {} \/ \E i \in 1 .. MaxScans : byte = {i} /\ (i - 1) * Rules <= k

(* The outputs are those of the last stored execution, and the inputs were *)
(* latched no later than it.                                               *)
ScannerInv ==
    /\ Issued \in Executions
    /\ call[Scanner].at # "returned" =>
          \/ scan > 0 /\ Issued = (scan - 1) * Rules /\ call[Scanner].req = WriteOf(I, 0, <<{scan}>>)
          \/ Issued > 0 /\ call[Scanner].req = ExecutionOf(Issued)
    /\ \A b \in 0 .. Size[Q] - 1 : memory[Q][b] = OutputsAfter(LastStored)[b + 1]
    /\ LatchedBy(memory[I][0], LastStored)

\* A client has asked for a snapshots: what the first of them tells is no later
\* than execution k, and so is the second, which is not before the first.
SnapshotsInv(a, got, c, k) ==
    /\ a = 1 /\ c.at = "returned" => LatchedBy(c.result.bytes[1], k)
    /\ a # 2 => got = <<>>
    /\ a = 2 =>
          \E x : /\ got = <<x>>
                 /\ LatchedBy(x[1], k)
                 /\ c.at = "returned" =>
                       \E n \in Before(x) .. k : c.result.bytes = OutputsAfter(n)

(* What a client has copied so far is still what the memory holds.         *)
ClientInv(c) ==
    /\ asked[c] \in 0 .. 2
    /\ call[c].at # "returned" =>
          asked[c] # 0 /\ call[c].req = ReadOf(Snapshots[asked[c]], 0, Size[Snapshots[asked[c]]])
    /\ call[c].at = "holding" =>
          \A i \in 1 .. Len(call[c].got) : call[c].got[i] = memory[Snapshots[asked[c]]][i - 1]
    /\ SnapshotsInv(asked[c], image[c], call[c], LastStored)

(* Together with: the variables are tables with an entry for each client.  *)
TablesInv ==
    /\ asked = [c \in Clients |-> asked[c]]
    /\ image = [c \in Clients |-> image[c]]
    /\ sent = [c \in Clients |-> sent[c]]

FramesInv ==
    /\ TablesInv
    /\ ScannerInv
    /\ \A c \in Clients : ClientInv(c)
    /\ FrameOfOneMoment

LEMMA Sizes ==
  /\ Rules \in Nat \ {0} /\ MaxScans \in Nat \ {0}
  /\ MaxScans * Rules \in Nat
  /\ Size[I] \in Nat \ {0} /\ Size[Q] \in Nat \ {0}
  /\ \A i \in 1 .. MaxScans : (i - 1) * Rules \in Nat /\ (i - 1) * Rules + Rules <= MaxScans * Rules
<1>1. /\ Rules \in Nat \ {0} /\ MaxScans \in Nat \ {0}
      /\ Size[I] \in Nat \ {0} /\ Size[Q] \in Nat \ {0}
  BY FramesAssumption, MemoryAssumption
<1>2. ASSUME NEW i \in 1 .. MaxScans
      PROVE  (i - 1) * Rules \in Nat /\ (i - 1) * Rules + Rules <= MaxScans * Rules
  <2>1. (i - 1) * Rules <= (MaxScans - 1) * Rules
    BY <1>1
  <2>2. (MaxScans - 1) * Rules + Rules = MaxScans * Rules /\ (i - 1) * Rules \in Nat
    BY <1>1
  <2> QED
    BY <2>1, <2>2, <1>1
<1> QED
  BY <1>1, <1>2

LEMMA Remainder ==
  ASSUME NEW s \in Nat, NEW r \in 0 .. Rules - 1
  PROVE  (s * Rules + r) % Rules = r
<1> DEFINE x == s * Rules + r
           d == x \div Rules
           m == x % Rules
<1>1. Rules \in Nat \ {0}
  BY Sizes
<1>2. x \in Nat /\ d \in Nat /\ m \in 0 .. Rules - 1 /\ x = Rules * d + m
  BY <1>1
<1> HIDE DEF d, m
<1>3. ~(s < d)
  <2> SUFFICES ASSUME s + 1 <= d PROVE FALSE
    BY <1>2
  <2>1. Rules * (s + 1) <= Rules * d
    BY <1>1, <1>2
  <2>2. Rules * (s + 1) = s * Rules + Rules
    BY <1>1
  <2> QED
    BY <1>1, <1>2, <2>1, <2>2
<1>4. ~(d < s)
  <2> SUFFICES ASSUME d + 1 <= s PROVE FALSE
    BY <1>2
  <2>1. Rules * (d + 1) <= Rules * s
    BY <1>1, <1>2
  <2>2. Rules * (d + 1) = Rules * d + Rules /\ Rules * s = s * Rules
    BY <1>1, <1>2
  <2> QED
    BY <1>1, <1>2, <2>1, <2>2
<1>5. d = s
  BY <1>2, <1>3, <1>4
<1>6. m = r
  BY <1>1, <1>2, <1>5
<1> QED
  BY <1>6 DEF m

\* An execution is within the output area, and adds its stamp to its coil.
LEMMA CoilFacts ==
  ASSUME NEW k \in 1 .. MaxScans * Rules
  PROVE  Coil[1 + ((k - 1) % Rules)] \in 0 .. Size[Q] - 1
<1>1. (k - 1) % Rules \in 0 .. Rules - 1
  BY Sizes
<1> QED
  BY <1>1, FramesAssumption, Sizes

LEMMA NextOutputs ==
  ASSUME NEW k \in 1 .. MaxScans * Rules, NEW b \in 0 .. Size[Q] - 1
  PROVE  OutputsAfter(k)[b + 1] = IF Coil[1 + ((k - 1) % Rules)] = b
                                  THEN OutputsAfter(k - 1)[b + 1] \cup {k}
                                  ELSE OutputsAfter(k - 1)[b + 1]
<1> DEFINE C(n) == Coil[1 + ((n - 1) % Rules)] = b + 1 - 1
           Set(j) == {n \in 1 .. j : C(n)}
<1>1. OutputsAfter(k)[b + 1] = Set(k) /\ OutputsAfter(k - 1)[b + 1] = Set(k - 1)
  BY Sizes DEF OutputsAfter
<1>2. 1 .. k = (1 .. k - 1) \cup {k} /\ k \notin 1 .. k - 1
  BY Sizes
<1>3. C(k) <=> Coil[1 + ((k - 1) % Rules)] = b
  BY CoilFacts, Sizes
<1> HIDE DEF C
<1>4. Set(k) = IF C(k) THEN Set(k - 1) \cup {k} ELSE Set(k - 1)
  BY <1>2
<1> QED
  BY <1>1, <1>3, <1>4

\* The inputs of a scan are older than what that scan has done since.
LEMMA BeforeLatched ==
  ASSUME NEW x, NEW k \in Nat, LatchedBy(x[1], k)
  PROVE  Before(x) \in 0 .. k
<1>1. CASE x[1] = {}
  BY <1>1 DEF Before
<1>2. CASE x[1] # {}
  <2>1. PICK i \in 1 .. MaxScans : x[1] = {i} /\ (i - 1) * Rules <= k
    BY <1>2 DEF LatchedBy
  <2>2. (CHOOSE j \in x[1] : TRUE) = i
    BY <2>1
  <2> QED
    BY <2>1, <2>2, <1>2, Sizes DEF Before
<1> QED
  BY <1>1, <1>2

LEMMA LatchedStill ==
  ASSUME NEW byte, NEW k \in Nat, NEW l \in Nat, k <= l, LatchedBy(byte, k)
  PROVE  LatchedBy(byte, l)
<1>1. \A i \in 1 .. MaxScans : (i - 1) * Rules \in Nat
  BY Sizes
<1> QED
  BY <1>1 DEF LatchedBy

-----------------------------------------------------------------------------

LEMMA InitFramesInv == FramesInit => FramesInv
<1> SUFFICES ASSUME FramesInit PROVE FramesInv
  OBVIOUS
<1>1. /\ scan = 0 /\ rule = 0 /\ I \in Areas /\ Q \in Areas /\ Scanner \in Threads
      /\ \A t \in Threads : call[t].at = "returned"
      /\ \A b \in 0 .. Size[I] - 1 : memory[I][b] = {}
      /\ \A b \in 0 .. Size[Q] - 1 : memory[Q][b] = {}
  BY FramesAssumption DEF FramesInit, Init
<1>2. Issued = 0 /\ LastStored = 0
  BY <1>1, Sizes DEF Issued, LastStored, Pending
<1>3. \A b \in 0 .. Size[Q] - 1 : OutputsAfter(0)[b + 1] = {}
  BY Sizes DEF OutputsAfter
<1>4. ScannerInv
  <2>1. 0 \in Executions
    BY Sizes DEF Executions
  <2>2. LatchedBy(memory[I][0], LastStored)
    BY <1>1, Sizes DEF LatchedBy
  <2> QED
    BY <1>1, <1>2, <1>3, <2>1, <2>2 DEF ScannerInv
<1>5. ASSUME NEW c \in Clients PROVE ClientInv(c)
  BY <1>1, FramesAssumption DEF FramesInit, ClientInv, SnapshotsInv
<1>6. FrameOfOneMoment
  <2> SUFFICES ASSUME NEW c \in Clients
               PROVE  0 >= Before(sent[c][I]) /\ sent[c][Q] = OutputsAfter(0)
    BY Sizes DEF FrameOfOneMoment, Executions
  <2>1. sent[c][I] = Blank(I) /\ sent[c][Q] = Blank(Q)
    BY FramesAssumption DEF FramesInit
  <2>2. Before(Blank(I)) = 0
    BY Sizes DEF Before, Blank
  <2>3. Blank(Q) = OutputsAfter(0)
    BY <1>3, Sizes DEF Blank, OutputsAfter
  <2> QED
    BY <2>1, <2>2, <2>3
<1>7. TablesInv
  BY DEF FramesInit, TablesInv
<1> QED
  BY <1>4, <1>5, <1>6, <1>7 DEF FramesInv

\* Executions are stored in the order in which they are called.
LEMMA StoredType ==
  ASSUME ScannerInv
  PROVE  LastStored \in Executions /\ LastStored \in Nat
<1>1. Pending => Issued > 0
  BY DEF ScannerInv, Pending, WriteOf
<1> QED
  BY <1>1, Sizes DEF ScannerInv, LastStored, Executions

LEMMA StoredNext == ScannerInv' => (LastStored \in Nat)'
<1>1. ScannerInv => LastStored \in Nat
  BY StoredType
<1> QED
  BY <1>1, PTL

\* What holds of a client still does when others take a step.
LEMMA ClientKept ==
  ASSUME NEW c \in Clients, ClientInv(c), LastStored \in Nat, LastStored' \in Nat, LastStored <= LastStored',
         call'[c] = call[c], asked'[c] = asked[c], image'[c] = image[c],
         call[c].at = "holding" => memory' = memory
  PROVE  ClientInv(c)'
<1>1. SnapshotsInv(asked[c], image[c], call[c], LastStored')
  <2>1. \A byte : LatchedBy(byte, LastStored) => LatchedBy(byte, LastStored')
    BY LatchedStill
  <2>2. \A x : LatchedBy(x[1], LastStored) => Before(x) .. LastStored \subseteq Before(x) .. LastStored'
    BY BeforeLatched
  <2> QED
    BY <2>1, <2>2 DEF ClientInv, SnapshotsInv
<1>2. SnapshotsInv(asked[c], image[c], call[c], LastStored)'
  BY <1>1
<1>3. /\ asked'[c] \in 0 .. 2
      /\ call'[c].at # "returned" =>
            asked'[c] # 0 /\ call'[c].req = ReadOf(Snapshots[asked[c]], 0, Size[Snapshots[asked[c]]])
      /\ call'[c].at = "holding" =>
            \A i \in 1 .. Len(call'[c].got) : call'[c].got[i] = memory'[Snapshots[asked[c]]][i - 1]
  BY DEF ClientInv
<1> QED
  BY <1>2, <1>3 DEF ClientInv, ReadOf, Snapshots

LEMMA SameFrames ==
  ASSUME FrameOfOneMoment, sent' = sent
  PROVE  FrameOfOneMoment'
  BY DEF FrameOfOneMoment, Before, OutputsAfter, Executions

\* What holds of the scan thread does until it calls or stores.
LEMMA ScannerKept ==
  ASSUME ScannerInv, UNCHANGED scanner, memory' = memory,
         \/ call'[Scanner] = call[Scanner]
         \/ /\ call[Scanner].at # "returned" /\ call'[Scanner].at # "returned"
            /\ call'[Scanner].req = call[Scanner].req
            /\ Pending' = Pending
         \/ call'[Scanner].at = "returned" /\ ~Pending
  PROVE  ScannerInv' /\ LastStored' = LastStored
<1>1. Issued' = Issued
  BY DEF Issued, Execution, scanner
<1>2. Pending' = Pending
  BY DEF Pending
<1>3. LastStored' = LastStored
  BY <1>1, <1>2 DEF LastStored
<1>4. OutputsAfter(LastStored)' = OutputsAfter(LastStored)
  BY <1>3 DEF OutputsAfter
<1>5. LatchedBy(memory[I][0], LastStored)' = LatchedBy(memory[I][0], LastStored)
  BY <1>3 DEF LatchedBy
<1>6. ExecutionOf(Issued)' = ExecutionOf(Issued)
  BY <1>1 DEF ExecutionOf
<1>7. /\ Issued' \in Executions
      /\ call'[Scanner].at # "returned" =>
            \/ scan > 0 /\ Issued = (scan - 1) * Rules /\ call'[Scanner].req = WriteOf(I, 0, <<{scan}>>)
            \/ Issued > 0 /\ call'[Scanner].req = ExecutionOf(Issued)
  BY <1>1 DEF ScannerInv
<1> QED
  BY <1>1, <1>3, <1>4, <1>5, <1>6, <1>7 DEF ScannerInv, scanner, WriteOf, Executions

\* So a step of the scan thread that stores nothing keeps everything.
LEMMA OthersKept ==
  ASSUME FramesInv, ScannerInv', LastStored <= LastStored', UNCHANGED clients,
         NEW t \in Threads, \A c \in Clients : c # t => call'[c] = call[c],
         t \in Clients => ClientInv(t)',
         memory' = memory \/ \A c \in Clients : call[c].at # "holding"
  PROVE  FramesInv'
<1>1. LastStored \in Nat /\ LastStored' \in Nat
  BY StoredType, StoredNext DEF FramesInv
<1>2. ASSUME NEW c \in Clients, c # t PROVE ClientInv(c)'
  BY <1>1, <1>2, ClientKept DEF FramesInv, clients
<1>3. FrameOfOneMoment'
  BY SameFrames DEF FramesInv, clients
<1>4. TablesInv'
  BY DEF FramesInv, TablesInv, clients
<1> QED
  BY <1>2, <1>3, <1>4 DEF FramesInv

LEMMA ThreadsOfFrames ==
  /\ Scanner \in Threads /\ Scanner \notin Clients /\ Clients \subseteq Threads
  /\ Threads = Clients \cup {Scanner}
  /\ I \in Areas /\ Q \in Areas /\ I # Q
  BY FramesAssumption

LEMMA ReadInputsStep ==
  ASSUME FramesInv, IInv, ScanInv, ReadInputs
  PROVE  FramesInv'
<1>1. /\ rule = 0 /\ rule' = 1 /\ scan' = scan + 1 /\ scan \in Nat /\ scan < MaxScans
      /\ memory' = memory /\ call[Scanner].at = "returned"
      /\ call' = [call EXCEPT ![Scanner] = [at |-> "called", req |-> WriteOf(I, 0, <<{scan + 1}>>)]]
  BY Sizes DEF ReadInputs, Call, ScanInv
<1>2. /\ call'[Scanner] = [at |-> "called", req |-> WriteOf(I, 0, <<{scan + 1}>>)]
      /\ \A c \in Clients : call'[c] = call[c]
  BY <1>1, ThreadsOfFrames DEF IInv, TypeInv
<1>3. Issued' = scan * Rules /\ Issued' = (scan' - 1) * Rules /\ Issued = scan * Rules
  BY <1>1, Sizes DEF Issued, Execution
<1>4. ~Pending /\ ~Pending'
  BY <1>1, <1>2 DEF Pending, WriteOf
<1>5. LastStored' = LastStored /\ LastStored = Issued /\ Issued' = Issued
  BY <1>3, <1>4 DEF LastStored
<1>6. /\ Issued' \in Executions
      /\ scan' > 0 /\ Issued' = (scan' - 1) * Rules /\ call'[Scanner].req = WriteOf(I, 0, <<{scan'}>>)
      /\ \A b \in 0 .. Size[Q] - 1 : memory'[Q][b] = OutputsAfter(LastStored')[b + 1]
      /\ LatchedBy(memory'[I][0], LastStored')
  BY <1>1, <1>2, <1>3, <1>5 DEF FramesInv, ScannerInv
<1>7. ScannerInv'
  BY <1>6 DEF ScannerInv, Executions, WriteOf
<1>8. LastStored <= LastStored'
  BY <1>5, StoredType DEF FramesInv
<1> QED
  BY <1>1, <1>2, <1>7, <1>8, OthersKept, ThreadsOfFrames DEF ReadInputs

LEMMA ExecuteRuleStep ==
  ASSUME FramesInv, IInv, ScanInv, ExecuteRule
  PROVE  FramesInv'
<1>1. /\ rule \in 1 .. Rules /\ scan \in 1 .. MaxScans /\ scan' = scan
      /\ rule' = IF rule = Rules THEN 0 ELSE rule + 1
      /\ memory' = memory /\ call[Scanner].at = "returned"
      /\ call' = [call EXCEPT ![Scanner] = [at |-> "called", req |->
                    [op |-> "write_bit", area |-> Q, from |-> Coil[rule],
                     bit |-> Execution, value |-> TRUE]]]
  BY Sizes DEF ExecuteRule, Call, ScanInv
<1>2. /\ call'[Scanner].at = "called"
      /\ call'[Scanner].req = [op |-> "write_bit", area |-> Q, from |-> Coil[rule],
                               bit |-> Execution, value |-> TRUE]
      /\ \A c \in Clients : call'[c] = call[c]
  BY <1>1, ThreadsOfFrames DEF IInv, TypeInv
<1>3. /\ Execution \in Nat /\ Execution > 0 /\ Execution <= MaxScans * Rules
      /\ Execution - 1 = (scan - 1) * Rules + (rule - 1)
      /\ rule = Rules => Execution = scan * Rules
      /\ Execution' = Execution + (rule' - rule)
  <2>1. (scan - 1) * Rules \in Nat /\ (scan - 1) * Rules + Rules <= MaxScans * Rules
    BY <1>1, Sizes
  <2>2. (scan - 1) * Rules + Rules = scan * Rules
    BY <1>1, Sizes
  <2> QED
    BY <1>1, <2>1, <2>2, Sizes DEF Execution
<1>4. Issued = Execution - 1 /\ Issued' = Execution
  BY <1>1, <1>3, Sizes DEF Issued
<1>5. ~Pending /\ Pending'
  BY <1>1, <1>2 DEF Pending
<1>6. LastStored' = LastStored
  BY <1>3, <1>4, <1>5 DEF LastStored
<1>7. call'[Scanner].req = ExecutionOf(Execution)
  <2>1. (Execution - 1) % Rules = rule - 1
    <3>1. rule - 1 \in 0 .. Rules - 1 /\ scan - 1 \in Nat
      BY <1>1, Sizes
    <3> QED
      BY <3>1, <1>3, Remainder
  <2>2. 1 + ((Execution - 1) % Rules) = rule
    BY <1>1, <2>1
  <2> QED
    BY <1>2, <2>2 DEF ExecutionOf
<1>8. /\ Issued' \in Executions
      /\ Issued' > 0 /\ call'[Scanner].req = ExecutionOf(Issued')
      /\ \A b \in 0 .. Size[Q] - 1 : memory'[Q][b] = OutputsAfter(LastStored')[b + 1]
      /\ LatchedBy(memory'[I][0], LastStored')
  BY <1>1, <1>3, <1>4, <1>6, <1>7, Sizes DEF FramesInv, ScannerInv, Executions
<1>9. ScannerInv'
  BY <1>8 DEF ScannerInv, Executions
<1>10. LastStored <= LastStored'
  BY <1>6, StoredType DEF FramesInv
<1> QED
  BY <1>1, <1>2, <1>9, <1>10, OthersKept, ThreadsOfFrames DEF ExecuteRule

-----------------------------------------------------------------------------

\* A client's own step touches no other client and nothing of the scan thread.
LEMMA ClientStep ==
  ASSUME FramesInv, TablesInv', NEW c \in Clients, UNCHANGED <<scanner, memory>>,
         \A t \in Threads : t # c => call'[t] = call[t],
         \A d \in Clients : d # c => asked'[d] = asked[d] /\ image'[d] = image[d],
         LastStored' = LastStored => ClientInv(c)',
         LastStored' = LastStored => FrameOfOneMoment'
  PROVE  FramesInv'
<1>1. ScannerInv' /\ LastStored' = LastStored
  BY ScannerKept, ThreadsOfFrames DEF FramesInv
<1>2. LastStored \in Nat /\ LastStored' \in Nat
  BY <1>1, StoredType DEF FramesInv
<1>3. ASSUME NEW d \in Clients, d # c PROVE ClientInv(d)'
  BY <1>1, <1>2, <1>3, ClientKept, ThreadsOfFrames DEF FramesInv
<1> QED
  BY <1>1, <1>3 DEF FramesInv

LEMMA AskStep ==
  ASSUME FramesInv, IInv, NEW c \in Clients, BeginFrame(c) \/ TakeSecond(c)
  PROVE  FramesInv'
<1>1. PICK n \in 1 .. 2 :
         /\ asked[c] = n - 1
         /\ call[c].at = "returned"
         /\ call' = [call EXCEPT ![c] = [at |-> "called",
                       req |-> ReadOf(Snapshots[n], 0, Size[Snapshots[n]])]]
         /\ asked' = [asked EXCEPT ![c] = n]
         /\ UNCHANGED <<memory, scanner, sent>>
         /\ n = 1 => image' = image
         /\ n = 2 => image' = [image EXCEPT ![c] = <<call[c].result.bytes>>]
  <2>1. CASE BeginFrame(c)
    BY <2>1 DEF BeginFrame, Ask, Call
  <2>2. CASE TakeSecond(c)
    BY <2>2 DEF TakeSecond, Ask, Call
  <2> QED
    BY <2>1, <2>2
<1>2. /\ call'[c] = [at |-> "called", req |-> ReadOf(Snapshots[n], 0, Size[Snapshots[n]])]
      /\ \A t \in Threads : t # c => call'[t] = call[t]
  BY <1>1, ThreadsOfFrames DEF IInv, TypeInv
<1>3. /\ asked'[c] = n
      /\ n = 1 => image'[c] = image[c]
      /\ n = 2 => image'[c] = <<call[c].result.bytes>>
      /\ \A d \in Clients : d # c => asked'[d] = asked[d] /\ image'[d] = image[d]
      /\ TablesInv'
  BY <1>1 DEF FramesInv, TablesInv
<1>4. ASSUME LastStored' = LastStored PROVE ClientInv(c)'
  <2>1. SnapshotsInv(n, image'[c], call'[c], LastStored)
    <3>1. CASE n = 1
      <4>1. image'[c] = <<>>
        BY <1>1, <1>3, <3>1 DEF FramesInv, ClientInv, SnapshotsInv
      <4> QED
        BY <1>2, <3>1, <4>1 DEF SnapshotsInv
    <3>2. CASE n = 2
      <4>1. LatchedBy(call[c].result.bytes[1], LastStored)
        BY <1>1, <3>2 DEF FramesInv, ClientInv, SnapshotsInv
      <4> QED
        BY <1>2, <1>3, <3>2, <4>1 DEF SnapshotsInv
    <3> QED
      BY <3>1, <3>2
  <2>2. SnapshotsInv(asked[c], image[c], call[c], LastStored)'
    BY <1>3, <1>4, <2>1
  <2>3. call'[c].at = "called" /\ call'[c].req = ReadOf(Snapshots[n], 0, Size[Snapshots[n]])
    BY <1>2
  <2> QED
    BY <1>3, <2>2, <2>3 DEF ClientInv, ReadOf, Snapshots
<1>5. FrameOfOneMoment'
  BY <1>1, SameFrames DEF FramesInv
<1> QED
  BY <1>1, <1>2, <1>3, <1>4, <1>5, ClientStep

LEMMA SendStep ==
  ASSUME FramesInv, NEW c \in Clients, Send(c)
  PROVE  FramesInv'
<1>1. PICK x : /\ image[c] = <<x>>
               /\ LatchedBy(x[1], LastStored)
               /\ \E k \in Before(x) .. LastStored : call[c].result.bytes = OutputsAfter(k)
  BY DEF FramesInv, ClientInv, SnapshotsInv, Send
<1>2. PICK k \in Before(x) .. LastStored : call[c].result.bytes = OutputsAfter(k)
  BY <1>1
<1>3. /\ asked'[c] = 0 /\ image'[c] = <<>> /\ call' = call /\ call[c].at = "returned"
      /\ sent'[c] = Frame(Append(image[c], call[c].result.bytes))
      /\ \A d \in Clients : d # c =>
            asked'[d] = asked[d] /\ image'[d] = image[d] /\ sent'[d] = sent[d]
      /\ TablesInv'
      /\ UNCHANGED <<scanner, memory>>
  BY DEF Send, FramesInv, TablesInv, mapVars
<1>4. sent'[c][I] = x /\ sent'[c][Q] = OutputsAfter(k)
  <2> DEFINE images == Append(image[c], call[c].result.bytes)
  <2>2. (CHOOSE n \in 1 .. 2 : Snapshots[n] = I) = 1 /\ (CHOOSE n \in 1 .. 2 : Snapshots[n] = Q) = 2
    BY ThreadsOfFrames DEF Snapshots
  <2>3. images[1] = x /\ images[2] = OutputsAfter(k)
    <3>1. <<x>> \in Seq({x, OutputsAfter(k)}) /\ Len(<<x>>) = 1 /\ <<x>>[1] = x
      OBVIOUS
    <3> QED
      BY <1>1, <1>2, <3>1, AppendProperties
  <2> HIDE DEF images
  <2>4. Frame(images)[I] = images[1] /\ Frame(images)[Q] = images[2]
    <3>1. /\ Frame(images)[I] = images[CHOOSE n \in 1 .. 2 : Snapshots[n] = I]
          /\ Frame(images)[Q] = images[CHOOSE n \in 1 .. 2 : Snapshots[n] = Q]
      BY Zenon DEF Frame
    <3> QED
      BY <2>2, <3>1
  <2> QED
    BY <1>3, <2>3, <2>4 DEF images
<1>5. k \in Executions /\ k >= Before(x)
  BY <1>1, StoredType, BeforeLatched, Sizes DEF FramesInv, Executions
<1>6. FrameOfOneMoment'
  <2>1. ASSUME NEW d \in Clients
        PROVE  \E j \in Executions : j >= Before(sent'[d][I]) /\ sent'[d][Q] = OutputsAfter(j)
    BY <1>3, <1>4, <1>5 DEF FramesInv, FrameOfOneMoment
  <2> QED
    BY <2>1 DEF FrameOfOneMoment, Before, OutputsAfter, Executions
<1>7. ASSUME LastStored' = LastStored PROVE ClientInv(c)'
  <2>1. SnapshotsInv(0, <<>>, call[c], LastStored)
    BY DEF SnapshotsInv
  <2>2. SnapshotsInv(asked[c], image[c], call[c], LastStored)'
    BY <1>3, <1>7, <2>1
  <2> QED
    BY <1>3, <2>2 DEF ClientInv
<1> QED
  BY <1>3, <1>6, <1>7, ClientStep

\* A client that is inside the lock, or waits for it, reads.
LEMMA ClientsRead ==
  ASSUME FramesInv, NEW c \in Clients, call[c].at # "returned"
  PROVE  /\ asked[c] \in 1 .. 2
         /\ call[c].req = ReadOf(Snapshots[asked[c]], 0, Size[Snapshots[asked[c]]])
         /\ ~Writes(call[c].req)
         /\ call[c].req.op = "read" /\ call[c].req.area = Snapshots[asked[c]]
         /\ call[c].req.from = 0 /\ Count(call[c].req) = Size[Snapshots[asked[c]]]
         /\ Snapshots[asked[c]] \in {I, Q}
<1>1. asked[c] \in 1 .. 2 /\ call[c].req = ReadOf(Snapshots[asked[c]], 0, Size[Snapshots[asked[c]]])
  BY DEF FramesInv, ClientInv
<1>2. Snapshots[asked[c]] \in {I, Q}
  BY <1>1 DEF Snapshots
<1> QED
  BY <1>1, <1>2 DEF ReadOf, Writes, Count

LEMMA ScannerWrites ==
  ASSUME FramesInv, call[Scanner].at # "returned"
  PROVE  /\ Writes(call[Scanner].req)
         /\ Count(call[Scanner].req) = 1
         /\ \/ /\ scan > 0 /\ Issued = (scan - 1) * Rules
               /\ call[Scanner].req.op = "write" /\ call[Scanner].req.area = I
               /\ call[Scanner].req.from = 0 /\ call[Scanner].req.data = <<{scan}>>
            \/ /\ Issued > 0
               /\ call[Scanner].req = ExecutionOf(Issued)
               /\ call[Scanner].req.op = "write_bit" /\ call[Scanner].req.area = Q
<1>1. CASE scan > 0 /\ Issued = (scan - 1) * Rules /\ call[Scanner].req = WriteOf(I, 0, <<{scan}>>)
  BY <1>1 DEF WriteOf, Writes, Count
<1>2. CASE Issued > 0 /\ call[Scanner].req = ExecutionOf(Issued)
  BY <1>2 DEF ExecutionOf, Writes, Count
<1> QED
  BY <1>1, <1>2 DEF FramesInv, ScannerInv

LEMMA ClientLock ==
  ASSUME FramesInv, IInv, UNCHANGED <<scanner, clients>>, NEW c \in Clients, LockShared(c)
  PROVE  FramesInv'
<1>1. /\ call[c].at = "called" /\ memory' = memory
      /\ call'[c] = [at |-> "holding", req |-> call[c].req, done |-> 0, got |-> <<>>]
      /\ \A t \in Threads : t # c => call'[t] = call[t]
  BY ThreadsOfFrames DEF LockShared, Hold, IInv, TypeInv
<1>2. ASSUME LastStored' = LastStored PROVE ClientInv(c)'
  <2>1. SnapshotsInv(asked[c], image[c], call'[c], LastStored)
    BY <1>1 DEF FramesInv, ClientInv, SnapshotsInv
  <2>2. SnapshotsInv(asked[c], image[c], call[c], LastStored)'
    BY <1>2, <2>1 DEF clients
  <2> QED
    BY <1>1, <2>2, ClientsRead DEF ClientInv, ReadOf, Snapshots, clients
<1> QED
  BY <1>1, <1>2, ClientStep, SameFrames DEF clients, TablesInv, FramesInv

LEMMA ClientLoad ==
  ASSUME FramesInv, IInv, UNCHANGED <<scanner, clients>>, NEW c \in Clients, LoadByte(c)
  PROVE  FramesInv'
<1> DEFINE a == Snapshots[asked[c]]
           byte == memory[a][Len(call[c].got)]
<1>1. /\ call[c] \in Holding /\ call[c].at = "holding" /\ memory' = memory
      /\ call' = [call EXCEPT ![c] = [call[c] EXCEPT !.got =
                    Append(@, memory[call[c].req.area][call[c].req.from + Len(@)])]]
  BY ThreadsOfFrames DEF LoadByte, IInv, TypeInv
<1>2. /\ Len(call[c].got) \in Nat /\ call[c].got \in Seq(Byte)
      /\ call[c].req.area = a /\ call[c].req.from = 0
  BY <1>1, ClientsRead DEF Holding
<1>3. byte \in Byte
  <2>1. a \in {I, Q} /\ Count(call[c].req) = Size[a]
    BY <1>1, ClientsRead
  <2>2. Len(call[c].got) < Count(call[c].req)
    BY DEF LoadByte
  <2> HIDE DEF a
  <2>3. a \in Areas /\ Len(call[c].got) \in 0 .. Size[a] - 1
    BY <1>2, <2>1, <2>2, ThreadsOfFrames, Sizes
  <2> QED
    BY <2>3 DEF IInv, TypeInv
<1> HIDE DEF byte
<1>4. /\ call'[c].at = "holding" /\ call'[c].req = call[c].req
      /\ call'[c].got = Append(call[c].got, byte)
      /\ \A t \in Threads : t # c => call'[t] = call[t]
  <2>1. /\ call'[c] = [call[c] EXCEPT !.got = Append(@, byte)]
        /\ \A t \in Threads : t # c => call'[t] = call[t]
    <3>1. memory[call[c].req.area][call[c].req.from + Len(call[c].got)] = byte
      BY <1>2 DEF byte
    <3>2. call' = [call EXCEPT ![c] = [call[c] EXCEPT !.got = Append(@, byte)]]
      BY <1>1, <3>1
    <3> QED
      BY <3>2, ThreadsOfFrames DEF IInv, TypeInv
  <2> QED
    BY <1>1, <2>1 DEF Holding
<1>5. \A i \in 1 .. Len(call'[c].got) : call'[c].got[i] = memory[a][i - 1]
  <2> SUFFICES ASSUME NEW i \in 1 .. Len(call[c].got) + 1
               PROVE  Append(call[c].got, byte)[i] = memory[a][i - 1]
    BY <1>2, <1>3, <1>4, AppendProperties
  <2>1. CASE i \in 1 .. Len(call[c].got)
    <3>1. Append(call[c].got, byte)[i] = call[c].got[i]
      BY <1>2, <1>3, <2>1, AppendProperties
    <3> QED
      BY <1>1, <2>1, <3>1 DEF FramesInv, ClientInv
  <2>2. CASE i = Len(call[c].got) + 1
    BY <1>2, <1>3, <2>2, AppendProperties DEF byte
  <2> QED
    BY <1>2, <2>1, <2>2
<1>6. ASSUME LastStored' = LastStored PROVE ClientInv(c)'
  <2>1. SnapshotsInv(asked[c], image[c], call'[c], LastStored)
    BY <1>1, <1>4 DEF FramesInv, ClientInv, SnapshotsInv
  <2>2. SnapshotsInv(asked[c], image[c], call[c], LastStored)'
    BY <1>6, <2>1 DEF clients
  <2>3. /\ asked'[c] \in 0 .. 2 /\ asked'[c] # 0
        /\ call'[c].req = ReadOf(Snapshots[asked'[c]], 0, Size[Snapshots[asked'[c]]])
        /\ \A i \in 1 .. Len(call'[c].got) : call'[c].got[i] = memory'[Snapshots[asked'[c]]][i - 1]
    BY <1>1, <1>4, <1>5, ClientsRead DEF clients
  <2> QED
    BY <2>2, <2>3 DEF ClientInv, ReadOf, Snapshots
<1> QED
  BY <1>1, <1>4, <1>6, ClientStep, SameFrames DEF clients, TablesInv, FramesInv

LEMMA ClientReturn ==
  ASSUME FramesInv, IInv, UNCHANGED <<scanner, clients>>, NEW c \in Clients, Return(c)
  PROVE  FramesInv'
<1> DEFINE a == Snapshots[asked[c]]
           got == call[c].got
<1>1. /\ call[c] \in Holding /\ call[c].at = "holding" /\ memory' = memory
      /\ call'[c] = [at |-> "returned", result |-> [bytes |-> got]]
      /\ \A t \in Threads : t # c => call'[t] = call[t]
  BY ClientsRead, ThreadsOfFrames DEF Return, Answer, IInv, TypeInv
<1>2. /\ got \in Seq(Byte) /\ Len(got) = Size[a] /\ Size[a] \in Nat \ {0}
      /\ \A i \in 1 .. Len(got) : got[i] = memory[a][i - 1]
  BY <1>1, ClientsRead, Sizes DEF Return, Finished, Holding, FramesInv, ClientInv
<1>3. asked[c] = 1 => LatchedBy(got[1], LastStored)
  BY <1>2 DEF Snapshots, FramesInv, ScannerInv
<1>4. asked[c] = 2 => got = OutputsAfter(LastStored)
  <2> SUFFICES ASSUME asked[c] = 2 PROVE got = OutputsAfter(LastStored)
    OBVIOUS
  <2>1. a = Q
    BY DEF Snapshots
  <2>2. \A i \in 1 .. Size[Q] : got[i] = OutputsAfter(LastStored)[i]
    <3> SUFFICES ASSUME NEW i \in 1 .. Size[Q] PROVE got[i] = OutputsAfter(LastStored)[i]
      OBVIOUS
    <3>1. got[i] = memory[Q][i - 1] /\ i - 1 \in 0 .. Size[Q] - 1 /\ (i - 1) + 1 = i
      BY <1>2, <2>1
    <3>2. memory[Q][i - 1] = OutputsAfter(LastStored)[(i - 1) + 1]
      BY <3>1 DEF FramesInv, ScannerInv
    <3> QED
      BY <3>1, <3>2
  <2>3. got = [i \in 1 .. Size[Q] |-> got[i]]
    BY <1>2, <2>1
  <2>4. OutputsAfter(LastStored) = [i \in 1 .. Size[Q] |-> OutputsAfter(LastStored)[i]]
    BY DEF OutputsAfter
  <2> HIDE DEF got
  <2> QED
    BY <2>2, <2>3, <2>4
<1>5. ASSUME LastStored' = LastStored PROVE ClientInv(c)'
  <2>1. SnapshotsInv(asked[c], image[c], call'[c], LastStored)
    <3>1. CASE asked[c] = 1
      BY <1>1, <1>3, <3>1 DEF FramesInv, ClientInv, SnapshotsInv
    <3>2. CASE asked[c] = 2
      <4>1. PICK x : image[c] = <<x>> /\ LatchedBy(x[1], LastStored)
        BY <3>2 DEF FramesInv, ClientInv, SnapshotsInv
      <4>2. LastStored \in Before(x) .. LastStored
        BY <4>1, StoredType, BeforeLatched DEF FramesInv
      <4> QED
        BY <1>1, <1>4, <3>2, <4>1, <4>2 DEF SnapshotsInv
    <3> QED
      BY <1>1, <3>1, <3>2, ClientsRead
  <2>2. SnapshotsInv(asked[c], image[c], call[c], LastStored)'
    BY <1>5, <2>1 DEF clients
  <2> QED
    BY <1>1, <2>2, ClientsRead DEF ClientInv, clients
<1> QED
  BY <1>1, <1>5, ClientStep, SameFrames DEF clients, TablesInv, FramesInv

LEMMA ScannerLock ==
  ASSUME FramesInv, IInv, UNCHANGED <<scanner, clients>>, LockUnique(Scanner)
  PROVE  FramesInv'
<1>1. /\ call[Scanner].at = "called" /\ memory' = memory
      /\ call'[Scanner] = [at |-> "holding", req |-> call[Scanner].req, done |-> 0, got |-> <<>>]
      /\ \A c \in Clients : call'[c] = call[c]
  BY ThreadsOfFrames DEF LockUnique, Hold, IInv, TypeInv
<1>2. Pending' = Pending
  BY <1>1 DEF Pending
<1>3. ScannerInv' /\ LastStored' = LastStored
  BY <1>1, <1>2, ScannerKept DEF FramesInv
<1>4. LastStored <= LastStored'
  BY <1>3, StoredType DEF FramesInv
<1> QED
  BY <1>1, <1>3, <1>4, OthersKept, ThreadsOfFrames

LEMMA ScannerLoad ==
  ASSUME FramesInv, IInv, UNCHANGED <<scanner, clients>>, LoadByte(Scanner)
  PROVE  FramesInv'
<1>1. /\ call[Scanner] \in Holding /\ call[Scanner].at = "holding" /\ memory' = memory
      /\ \A c \in Clients : call'[c] = call[c]
      /\ call'[Scanner] = [call[Scanner] EXCEPT !.got =
            Append(@, memory[call[Scanner].req.area][call[Scanner].req.from + Len(@)])]
  BY ThreadsOfFrames DEF LoadByte, IInv, TypeInv
<1>2. /\ call'[Scanner].at = "holding" /\ call'[Scanner].req = call[Scanner].req
      /\ call'[Scanner].done = call[Scanner].done
  BY <1>1 DEF Holding
<1>3. Pending' = Pending
  BY <1>1, <1>2 DEF Pending
<1>4. ScannerInv' /\ LastStored' = LastStored
  BY <1>1, <1>2, <1>3, ScannerKept DEF FramesInv
<1>5. LastStored <= LastStored'
  BY <1>4, StoredType DEF FramesInv
<1> QED
  BY <1>1, <1>4, <1>5, OthersKept, ThreadsOfFrames

LEMMA ScannerReturn ==
  ASSUME FramesInv, IInv, UNCHANGED <<scanner, clients>>, Return(Scanner)
  PROVE  FramesInv'
<1>1. /\ call[Scanner].at = "holding" /\ memory' = memory /\ call'[Scanner].at = "returned"
      /\ call[Scanner].done = 1
      /\ \A c \in Clients : call'[c] = call[c]
  BY ScannerWrites, ThreadsOfFrames DEF Return, Finished, IInv, TypeInv
<1>2. ~Pending
  BY <1>1 DEF Pending
<1>3. ScannerInv' /\ LastStored' = LastStored
  BY <1>1, <1>2, ScannerKept DEF FramesInv
<1>4. LastStored <= LastStored'
  BY <1>3, StoredType DEF FramesInv
<1> QED
  BY <1>1, <1>3, <1>4, OthersKept, ThreadsOfFrames

\* The one byte of a call is stored: the inputs of a scan, or an execution.
LEMMA ScannerStore ==
  ASSUME FramesInv, IInv, ScanInv, UNCHANGED <<scanner, clients>>, StoreByte(Scanner)
  PROVE  FramesInv'
<1> DEFINE r == call[Scanner].req
           value == IF r.op = "write" THEN r.data[1] ELSE SetBit(call[Scanner].got[1], r)
<1>1. /\ call[Scanner] \in Holding /\ call[Scanner].at = "holding" /\ call[Scanner].done = 0
      /\ Count(r) = 1 /\ r.area \in Areas /\ r.from \in 0 .. Size[r.area] - 1
      /\ InBounds(r)
  <2>1. /\ call[Scanner] \in Holding /\ call[Scanner].at = "holding" /\ Count(r) = 1
        /\ InBounds(r) /\ r \in Request
    BY ScannerWrites, ThreadsOfFrames DEF StoreByte, IInv, TypeInv, ProgressInv, Holding
  <2>2. call[Scanner].done = 0
    BY <2>1 DEF StoreByte, Holding
  <2> QED
    BY <2>1, <2>2, RequestFacts
<1>2. /\ memory' = [memory EXCEPT ![r.area][r.from] = value]
      /\ call'[Scanner] = [call[Scanner] EXCEPT !.done = 1]
      /\ \A c \in Clients : call'[c] = call[c]
  <2>1. r.from + call[Scanner].done = r.from /\ call[Scanner].done + 1 = 1
    BY <1>1, Sizes
  <2>2. memory' = [memory EXCEPT ![r.area][r.from] = value]
    BY <1>1, <2>1 DEF StoreByte
  <2>3. call' = [call EXCEPT ![Scanner] = [call[Scanner] EXCEPT !.done = 1]]
    BY <1>1, <2>1 DEF StoreByte, Holding
  <2> QED
    BY <2>2, <2>3, ThreadsOfFrames DEF IInv, TypeInv
<1>3. /\ call'[Scanner].at = "holding" /\ call'[Scanner].req = r /\ call'[Scanner].done = 1
  BY <1>1, <1>2 DEF Holding
<1>4. /\ \A b \in 0 .. Size[r.area] - 1 :
            memory'[r.area][b] = IF b = r.from THEN value ELSE memory[r.area][b]
      /\ \A x \in Areas : x # r.area => memory'[x] = memory[x]
  BY <1>1, <1>2 DEF IInv, TypeInv
<1>5. \A c \in Clients : call[c].at # "holding"
  <2>1. owner = Scanner /\ owner # None
    BY <1>1, ScannerWrites, ThreadsOfFrames, MemoryAssumption DEF IInv, LockInv
  <2> QED
    BY <2>1, ClientsRead, ThreadsOfFrames DEF IInv, LockInv
<1>6. Issued' = Issued /\ ~Pending'
  BY <1>3 DEF Issued, Execution, Pending, scanner
<1>7. Issued \in Executions /\ Issued \in Nat
  BY Sizes DEF FramesInv, ScannerInv, Executions
<1>8. CASE r.op = "write"
  <2>1. /\ scan > 0 /\ Issued = (scan - 1) * Rules
        /\ r.area = I /\ r.from = 0 /\ value = {scan}
    BY <1>1, <1>8, ScannerWrites DEF ExecutionOf
  <2>2. LastStored = Issued /\ LastStored' = Issued
    BY <1>6, <1>8 DEF LastStored, Pending
  <2>3. /\ memory'[I][0] = {scan}
        /\ memory'[Q] = memory[Q]
    BY <1>4, <2>1, Sizes, ThreadsOfFrames
  <2>4. LatchedBy({scan}, Issued)
    BY <2>1, <1>7, Sizes DEF LatchedBy, ScanInv
  <2>5. /\ Issued' \in Executions
        /\ scan' > 0 /\ Issued' = (scan' - 1) * Rules
        /\ call'[Scanner].req = WriteOf(I, 0, <<{scan'}>>)
        /\ \A b \in 0 .. Size[Q] - 1 : memory'[Q][b] = OutputsAfter(LastStored')[b + 1]
        /\ LatchedBy(memory'[I][0], LastStored')
    <3>1. r = WriteOf(I, 0, <<{scan}>>)
      BY <1>1, <1>8 DEF FramesInv, ScannerInv, ExecutionOf
    <3> QED
      BY <1>3, <1>6, <1>7, <2>1, <2>2, <2>3, <2>4, <3>1 DEF scanner, FramesInv, ScannerInv
  <2>6. ScannerInv'
    BY <2>5 DEF ScannerInv, Executions, WriteOf
  <2>7. LastStored <= LastStored'
    BY <1>7, <2>2
  <2> QED
    BY <1>2, <1>5, <2>6, <2>7, OthersKept, ThreadsOfFrames
<1>9. CASE r.op = "write_bit"
  <2>1. Issued > 0 /\ r = ExecutionOf(Issued)
    BY <1>1, <1>9, ScannerWrites
  <2>2. /\ r.area = Q /\ r.bit = Issued /\ r.value = TRUE
        /\ r.from = Coil[1 + ((Issued - 1) % Rules)]
    BY <2>1 DEF ExecutionOf
  <2>3. LastStored = Issued - 1 /\ LastStored' = Issued
    BY <1>1, <1>6, <1>9 DEF LastStored, Pending
  <2>4. value = memory[Q][r.from] \cup {Issued}
    <3>1. call[Scanner].got[1] = memory[Q][r.from]
      BY <1>1, <1>9, <2>2, ThreadsOfFrames DEF StoreByte, IInv, ProgressInv
    <3> QED
      BY <1>9, <2>2, <3>1 DEF SetBit
  <2>5. \A b \in 0 .. Size[Q] - 1 : memory'[Q][b] = OutputsAfter(Issued)[b + 1]
    <3> SUFFICES ASSUME NEW b \in 0 .. Size[Q] - 1
                 PROVE  memory'[Q][b] = OutputsAfter(Issued)[b + 1]
      OBVIOUS
    <3>1. memory[Q][b] = OutputsAfter(Issued - 1)[b + 1]
      BY <2>3 DEF FramesInv, ScannerInv
    <3>2. OutputsAfter(Issued)[b + 1] = IF Coil[1 + ((Issued - 1) % Rules)] = b
                                        THEN OutputsAfter(Issued - 1)[b + 1] \cup {Issued}
                                        ELSE OutputsAfter(Issued - 1)[b + 1]
      <4>1. Issued \in 1 .. MaxScans * Rules
        BY <1>7, <2>1, Sizes DEF Executions
      <4> HIDE DEF r, value
      <4> QED
        BY <4>1, NextOutputs
    <3>3. memory'[Q][b] = IF b = r.from THEN value ELSE memory[Q][b]
      BY <1>4, <2>2
    <3>4. b = r.from <=> Coil[1 + ((Issued - 1) % Rules)] = b
      BY <2>2
    <3> HIDE DEF r, value
    <3>5. CASE b = r.from
      BY <2>4, <3>1, <3>2, <3>3, <3>4, <3>5
    <3>6. CASE b # r.from
      BY <3>1, <3>2, <3>3, <3>4, <3>6
    <3> QED
      BY <3>5, <3>6
  <2>6. memory'[I] = memory[I]
    BY <1>4, <2>2, ThreadsOfFrames
  <2>7. LatchedBy(memory[I][0], Issued)
    <3>1. LatchedBy(memory[I][0], Issued - 1) /\ Issued - 1 \in Nat /\ Issued - 1 <= Issued
      BY <1>7, <2>1, <2>3 DEF FramesInv, ScannerInv
    <3> QED
      BY <1>7, <3>1, LatchedStill
  <2>8. /\ Issued' \in Executions
        /\ Issued' > 0 /\ call'[Scanner].req = ExecutionOf(Issued')
        /\ \A b \in 0 .. Size[Q] - 1 : memory'[Q][b] = OutputsAfter(LastStored')[b + 1]
        /\ LatchedBy(memory'[I][0], LastStored')
    BY <1>3, <1>6, <1>7, <2>1, <2>3, <2>5, <2>6, <2>7
  <2>9. ScannerInv'
    BY <2>8 DEF ScannerInv, Executions
  <2>10. LastStored <= LastStored'
    BY <1>7, <2>3
  <2> QED
    BY <1>2, <1>5, <2>9, <2>10, OthersKept, ThreadsOfFrames
<1> QED
  BY <1>1, <1>8, <1>9, ScannerWrites

LEMMA StepFramesInv ==
  ASSUME FramesInv, IInv, ScanInv, [FramesNext]_allVars
  PROVE  FramesInv'
<1>1. CASE ReadInputs
  BY <1>1, ReadInputsStep
<1>2. CASE ExecuteRule
  BY <1>2, ExecuteRuleStep
<1>3. ASSUME NEW c \in Clients, BeginFrame(c) \/ TakeSecond(c) PROVE FramesInv'
  BY <1>3, AskStep
<1>4. ASSUME NEW c \in Clients, Send(c) PROVE FramesInv'
  BY <1>4, SendStep
<1>5. ASSUME NEW t \in Threads, Work(t), UNCHANGED <<scanner, clients>> PROVE FramesInv'
  <2>1. CASE t = Scanner
    <3>1. ~LockShared(Scanner)
      BY ScannerWrites DEF LockShared
    <3> QED
      BY <1>5, <2>1, <3>1, ScannerLock, ScannerLoad, ScannerStore, ScannerReturn DEF Work
  <2>2. CASE t \in Clients
    <3>1. ~LockUnique(t) /\ ~StoreByte(t)
      BY <2>2, ClientsRead DEF LockUnique, StoreByte
    <3> QED
      BY <1>5, <2>2, <3>1, ClientLock, ClientLoad, ClientReturn DEF Work
  <2> QED
    BY <2>1, <2>2, ThreadsOfFrames
<1>6. CASE UNCHANGED allVars
  <2>1. ScannerInv' /\ LastStored' = LastStored
    BY <1>6, ScannerKept DEF FramesInv, allVars, mapVars
  <2>2. LastStored <= LastStored'
    BY <2>1, StoredType DEF FramesInv
  <2>3. /\ memory' = memory /\ UNCHANGED clients
        /\ \A c \in Clients : call'[c] = call[c]
    BY <1>6 DEF allVars, mapVars
  <2> QED
    BY <2>1, <2>2, <2>3, OthersKept, ThreadsOfFrames
<1> QED
  BY <1>1, <1>2, <1>3, <1>4, <1>5, <1>6 DEF FramesNext

\* A frame that client_loop() sends shows the outputs as they were at one
\* moment, not before the one at which its inputs were latched: for any number
\* of browsers, of rules and of bytes (telemetry_server.cpp:456).
THEOREM FramesAreOfOneMoment == FramesSpec => []FrameOfOneMoment
<1>1. FramesInit => IInv /\ ScanInv /\ FramesInv
  BY InitIInv, FramesScanInv, InitFramesInv DEF FramesInit
<1>2. IInv /\ ScanInv /\ FramesInv /\ [FramesNext]_allVars => (IInv /\ ScanInv /\ FramesInv)'
  BY StepIInv, StepScanInv, UsersStep, StepFramesInv
<1>3. FramesInv => FrameOfOneMoment
  BY DEF FramesInv
<1> QED
  BY <1>1, <1>2, <1>3, PTL DEF FramesSpec

=============================================================================
