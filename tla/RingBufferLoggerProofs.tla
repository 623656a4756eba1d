------------------------- MODULE RingBufferLoggerProofs -------------------------
(***************************************************************************)
(* Proofs about RingBufferLogger, for every capacity, number of backups,   *)
(* file size and disk, and any number of log() calls.                      *)
(***************************************************************************)
EXTENDS RingBufferLogger, SequenceTheorems, WellFoundedInduction, TLAPS

(* Slot arithmetic: x % Capacity for the sums log() and flush_pending()    *)
(* compute, which are below 2 * Capacity.                                  *)
LEMMA Wrap ==
    ASSUME NEW x \in 0 .. 2 * Capacity - 1
    PROVE  /\ x < Capacity => x % Capacity = x
           /\ x >= Capacity => x % Capacity = x - Capacity
           /\ x % Capacity \in 0 .. Capacity - 1
<1>1. ASSUME NEW C \in Nat \ {0}, NEW y \in 0 .. C - 1 PROVE y % C = y
  BY <1>1
<1>2. ASSUME NEW C \in Nat \ {0}, NEW y \in C .. 2 * C - 1 PROVE y % C = y - C
  BY <1>2
<1>3. Capacity \in Nat \ {0}
  BY LoggerAssumption
<1>4. x < Capacity => x % Capacity = x
  BY <1>1, <1>3
<1>5. x >= Capacity => x % Capacity = x - Capacity
  BY <1>2, <1>3
<1> QED
  BY <1>3, <1>4, <1>5

(* The slot of the i-th pending entry.                                     *)
Slot(i) == (OldestSlot + i - 1) % Capacity

(* The ring: the pending entries are the last `count` that were logged.    *)
RingInv == \A i \in 1 .. count : Pending[i] = logged - count + i

(* Who may be flushing.  The flush thread and the stopping thread never    *)
(* are at once, and while nobody runs nothing is drained but not written.  *)
ThreadInv ==
    /\ isRunning => pc["stopper"] = "idle" /\ pc["flusher"] # "none"
    /\ pc["stopper"] = "joining" => pc["flusher"] # "none" /\ ~ isRunning
    /\ pc["stopper"] \in {"draining", "writing", "rotating"}
          => pc["flusher"] = "none" /\ ~ isRunning
    /\ pc["stopper"] = "idle" /\ ~ isRunning => pc["flusher"] = "none"
    /\ \A t \in Threads : pc[t] # "writing" => drained[t] = <<>>

(* After the final drain, only entries logged since stop() was called.     *)
DrainedInv ==
    (pc["stopper"] \in {"writing", "rotating"} \/ (pc["stopper"] = "idle" /\ ~ isRunning))
        => logged - count >= stoppedAt

IInv == TypeOK /\ RingInv /\ Accounting /\ ThreadInv /\ DrainedInv

-----------------------------------------------------------------------------

(* Where the i-th pending entry is, without the modulus.                   *)
At(h, n, i) == IF h - n + i - 1 >= 0 THEN h - n + i - 1 ELSE h - n + i - 1 + Capacity

LEMMA SlotAt ==
    ASSUME TypeOK, NEW i \in 1 .. count
    PROVE  Slot(i) = At(head, count, i)
<1>1. Capacity \in Nat \ {0} /\ head \in 0 .. Capacity - 1 /\ count \in 0 .. Capacity
  BY LoggerAssumption DEF TypeOK
<1>2. OldestSlot = (IF head - count >= 0 THEN head - count ELSE head - count + Capacity)
  <2>1. head + Capacity - count \in 0 .. 2 * Capacity - 1
    BY <1>1
  <2> QED
    BY <1>1, <2>1, Wrap DEF OldestSlot
<1>3. CASE head - count >= 0
  <2>1. OldestSlot + i - 1 \in 0 .. Capacity - 1 /\ OldestSlot + i - 1 = head - count + i - 1
    BY <1>1, <1>2, <1>3
  <2>2. Slot(i) = head - count + i - 1
    BY <1>1, <2>1, Wrap DEF Slot
  <2> QED
    BY <1>1, <1>3, <2>2 DEF At
<1>4. CASE head - count < 0
  <2>1. /\ OldestSlot + i - 1 \in 0 .. 2 * Capacity - 1
        /\ OldestSlot + i - 1 = head - count + i - 1 + Capacity
    BY <1>1, <1>2, <1>4
  <2> QED
    BY <1>1, <1>4, <2>1, Wrap DEF Slot, At
<1> QED
  BY <1>1, <1>3, <1>4

(* RingInv in terms of the slots themselves, in this state and the next.   *)
RingAt(b, h, n, l) == \A i \in 1 .. n : b[At(h, n, i)] = l - n + i

LEMMA RingInvAt == TypeOK => (RingInv <=> RingAt(buffer, head, count, logged))
<1> SUFFICES ASSUME TypeOK PROVE RingInv <=> RingAt(buffer, head, count, logged)
  OBVIOUS
<1>1. \A i \in 1 .. count : Pending[i] = buffer[At(head, count, i)]
  BY SlotAt DEF Pending, Slot
<1> QED
  BY <1>1 DEF RingInv, RingAt

LEMMA RingInvAtNext == TypeOK' => (RingInv' <=> RingAt(buffer', head', count', logged'))
<1>1. (TypeOK => (RingInv <=> RingAt(buffer, head, count, logged)))'
  BY RingInvAt, PTL
<1> QED
  BY <1>1

(* log() turns one ring into the next.                                     *)
LEMMA LogRing ==
    ASSUME TypeOK, RingInv, Log
    PROVE  RingAt(buffer', head', count', logged')
<1>1. /\ Capacity \in Nat \ {0} /\ head \in 0 .. Capacity - 1 /\ count \in 0 .. Capacity
      /\ logged \in Nat
      /\ buffer \in [0 .. Capacity - 1 -> Nat]
  BY LoggerAssumption DEF TypeOK
<1>2. /\ logged' = logged + 1
      /\ buffer' = [buffer EXCEPT ![head] = logged + 1]
      /\ count' = IF count < Capacity THEN count + 1 ELSE count
  BY DEF Log
<1>3. head' = IF head + 1 < Capacity THEN head + 1 ELSE 0
  <2> DEFINE x == head + 1
  <2>1. x \in 0 .. 2 * Capacity - 1 /\ (x >= Capacity => x = Capacity)
    BY <1>1
  <2>2. head' = x % Capacity
    BY DEF Log
  <2> HIDE DEF x
  <2>3. /\ x < Capacity => x % Capacity = x
        /\ x >= Capacity => x % Capacity = x - Capacity
    BY <2>1, Wrap
  <2>4. x % Capacity = IF x < Capacity THEN x ELSE 0
    <3>1. CASE x < Capacity
      BY <2>3, <3>1
    <3>2. CASE x >= Capacity
      <4>1. x % Capacity = x - Capacity /\ x = Capacity
        BY <2>1, <2>3, <3>2
      <4>2. ~ (x < Capacity) /\ x - Capacity = 0
        BY <1>1, <4>1
      <4> QED
        BY <4>1, <4>2
    <3> QED
      BY <1>1, <2>1, <3>1, <3>2
  <2> QED
    BY <2>2, <2>4 DEF x
<1>4. RingAt(buffer, head, count, logged)
  BY RingInvAt
<1> SUFFICES ASSUME NEW i \in 1 .. count'
             PROVE  buffer'[At(head', count', i)] = logged' - count' + i
  BY DEF RingAt
<1>5. CASE i = count'
  <2>1. At(head', count', i) = head
    BY <1>1, <1>2, <1>3, <1>5 DEF At
  <2> QED
    BY <1>1, <1>2, <1>5, <2>1
<1>6. CASE i < count' /\ count < Capacity
  <2>1. At(head', count', i) = At(head, count, i) /\ i \in 1 .. count
    BY <1>1, <1>2, <1>3, <1>6 DEF At
  <2>2. At(head, count, i) \in 0 .. Capacity - 1 /\ At(head, count, i) # head
    BY <1>1, <1>2, <1>6, <2>1 DEF At
  <2>3. buffer[At(head, count, i)] = logged - count + i
    BY <1>4, <2>1 DEF RingAt
  <2> QED
    BY <1>1, <1>2, <1>6, <2>1, <2>2, <2>3
<1>7. CASE i < count' /\ count = Capacity
  <2>1. At(head', count', i) = At(head, count, i + 1) /\ i + 1 \in 1 .. count
    BY <1>1, <1>2, <1>3, <1>7 DEF At
  <2>2. At(head, count, i + 1) \in 0 .. Capacity - 1 /\ At(head, count, i + 1) # head
    BY <1>1, <1>2, <1>7, <2>1 DEF At
  <2>3. buffer[At(head, count, i + 1)] = logged - count + i + 1
    BY <1>1, <1>4, <2>1 DEF RingAt
  <2> QED
    BY <1>1, <1>2, <1>7, <2>1, <2>2, <2>3
<1> QED
  BY <1>1, <1>2, <1>5, <1>6, <1>7

-----------------------------------------------------------------------------

LEMMA InitIInv == Init => IInv
<1> SUFFICES ASSUME Init PROVE IInv
  OBVIOUS
<1>1. /\ Capacity \in Nat \ {0}
      /\ head = 0 /\ count = 0 /\ logged = 0 /\ dropped = 0 /\ lost = 0 /\ stoppedAt = 0
      /\ written = <<>>
      /\ \A t \in Threads : drained[t] = <<>>
  BY LoggerAssumption DEF Init
<1>2. TypeOK
  <2>1. /\ buffer \in [0 .. Capacity - 1 -> Nat]
        /\ files \in [0 .. MaxBackups -> Seq(Nat)]
        /\ drained \in [Threads -> Seq(Nat)]
        /\ written \in Seq(Nat)
    BY <1>1 DEF Init
  <2>2. /\ DOMAIN pc = Threads
        /\ pc["flusher"] = "none"
        /\ pc["stopper"] = "idle"
    BY DEF Init, Threads
  <2>3. /\ head \in 0 .. Capacity - 1 /\ count \in 0 .. Capacity /\ stoppedAt \in 0 .. logged
        /\ dropped \in Nat /\ logged \in Nat /\ lost \in Nat
    BY <1>1
  <2>4. isRunning \in BOOLEAN /\ stopRequested \in BOOLEAN /\ faulted \in BOOLEAN
    BY DEF Init
  <2> QED
    BY <2>1, <2>2, <2>3, <2>4 DEF TypeOK
<1>3. RingInv
  BY <1>1 DEF RingInv
<1>4. Accounting
  <2>1. Len(written) = 0 /\ Len(drained["flusher"]) = 0 /\ Len(drained["stopper"]) = 0
    BY <1>1 DEF Threads
  <2> QED
    BY <1>1, <2>1 DEF Accounting
<1>5. ThreadInv /\ DrainedInv
  BY <1>1 DEF Init, ThreadInv, DrainedInv, Threads
<1> QED
  BY <1>2, <1>3, <1>4, <1>5 DEF IInv

(* The pending entries are a sequence of `count` numbers, the newest being *)
(* the last that was logged.                                               *)
LEMMA PendingSeq ==
    ASSUME TypeOK, RingInv
    PROVE  /\ Pending \in Seq(Nat)
           /\ Len(Pending) = count
           /\ Pending = [i \in 1 .. count |-> logged - count + i]
<1>1. count \in Nat /\ logged \in Nat /\ Capacity \in Nat \ {0} /\ head \in 0 .. Capacity - 1
  BY LoggerAssumption DEF TypeOK
<1>2. \A i \in 1 .. count : Pending[i] \in Nat
  <2>1. \A i \in 1 .. count : At(head, count, i) \in 0 .. Capacity - 1
    BY <1>1 DEF At, TypeOK
  <2>2. \A i \in 1 .. count : Pending[i] = buffer[At(head, count, i)]
    BY SlotAt DEF Pending, Slot
  <2> QED
    BY <2>1, <2>2 DEF TypeOK
<1>3. Pending = [i \in 1 .. count |-> Pending[i]]
  BY DEF Pending
<1>4. Pending \in [1 .. count -> Nat]
  BY <1>2, <1>3
<1> QED
  BY <1>1, <1>3, <1>4 DEF RingInv

LEMMA LogStep == IInv /\ Log => IInv'
<1> SUFFICES ASSUME IInv, Log PROVE IInv'
  OBVIOUS
<1> USE DEF IInv
<1>1. /\ Capacity \in Nat \ {0} /\ head \in 0 .. Capacity - 1 /\ count \in 0 .. Capacity
      /\ logged \in Nat /\ dropped \in Nat
  BY LoggerAssumption DEF TypeOK
<1>2. head' \in 0 .. Capacity - 1
  BY <1>1, Wrap DEF Log
<1>3. /\ count' \in 0 .. Capacity /\ dropped' \in Nat /\ logged' = logged + 1
      /\ count' + dropped' = count + dropped + 1
      /\ count' = count \/ count' = count + 1
  BY <1>1 DEF Log
<1>4. buffer' \in [0 .. Capacity - 1 -> Nat]
  BY <1>1 DEF Log, TypeOK
<1>5. TypeOK'
  BY <1>1, <1>2, <1>3, <1>4 DEF Log, TypeOK, diskVars
<1>6. RingInv'
  BY <1>5, LogRing, RingInvAtNext
<1>7. Accounting'
  <2>1. /\ UNCHANGED <<written, lost, drained, faulted>>
        /\ lost \in Nat /\ Len(written) \in Nat
        /\ Len(drained["flusher"]) \in Nat /\ Len(drained["stopper"]) \in Nat
    BY DEF Log, diskVars, TypeOK, Threads
  <2>2. PICK w \in Nat, x \in Nat, f \in Nat, g \in Nat, c \in Nat, d \in Nat, l \in Nat,
             c1 \in Nat, d1 \in Nat :
          /\ w = Len(written) /\ x = lost /\ f = Len(drained["flusher"])
          /\ g = Len(drained["stopper"]) /\ c = count /\ d = dropped /\ l = logged
          /\ c1 = count' /\ d1 = dropped'
    <3> count \in Nat /\ count' \in Nat /\ dropped' \in Nat
      BY <1>1, <1>3
    <3> USE <1>1, <2>1
    <3> WITNESS Len(written) \in Nat, lost \in Nat, Len(drained["flusher"]) \in Nat,
                Len(drained["stopper"]) \in Nat, count \in Nat, dropped \in Nat,
                logged \in Nat, count' \in Nat, dropped' \in Nat
    <3> QED
      OBVIOUS
  <2>3. l = w + x + f + g + c + d
    BY <2>2 DEF Accounting
  <2>4. c1 + d1 = c + d + 1
    BY <1>3, <2>2
  <2>5. l + 1 = w + x + f + g + c1 + d1
    BY <2>3, <2>4
  <2> QED
    BY <1>3, <2>1, <2>2, <2>5 DEF Accounting
<1>8. ThreadInv'
  BY DEF Log, ThreadInv
<1>9. DrainedInv'
  <2>1. /\ count \in Nat /\ count' \in Nat /\ stoppedAt \in Nat
        /\ logged' = logged + 1
        /\ count' = count \/ count' = count + 1
    BY <1>1, <1>3 DEF TypeOK
  <2>2. logged - count >= stoppedAt => logged' - count' >= stoppedAt
    <3>1. CASE count' = count
      BY <1>1, <2>1, <3>1
    <3>2. CASE count' = count + 1
      BY <1>1, <2>1, <3>2
    <3> QED
      BY <2>1, <3>1, <3>2
  <2>3. UNCHANGED <<pc, isRunning, stoppedAt>>
    BY DEF Log
  <2> QED
    BY <2>2, <2>3 DEF DrainedInv
<1> QED
  BY <1>5, <1>6, <1>7, <1>8, <1>9

LEMMA ControlStep ==
    IInv /\ (Start \/ BeginStop \/ Join \/ CheckStop) => IInv'
<1> SUFFICES ASSUME IInv, Start \/ BeginStop \/ Join \/ CheckStop PROVE IInv'
  OBVIOUS
<1> USE DEF IInv
<1>1. CASE Start
  <2>1. TypeOK'
    BY <1>1 DEF Start, TypeOK, Threads, ringVars, diskVars
  <2>2. RingInv' /\ Accounting'
    BY <1>1 DEF Start, RingInv, Accounting, Pending, OldestSlot, ringVars, diskVars
  <2>3. ThreadInv' /\ DrainedInv'
    BY <1>1 DEF Start, TypeOK, Threads, ThreadInv, DrainedInv, ringVars, diskVars
  <2> QED
    BY <2>1, <2>2, <2>3
<1>2. CASE BeginStop
  <2>1. TypeOK'
    <3>1. stoppedAt' \in 0 .. logged'
      BY <1>2 DEF BeginStop, TypeOK, ringVars
    <3> QED
      BY <1>2, <3>1 DEF BeginStop, TypeOK, Threads, ringVars, diskVars
  <2>2. RingInv' /\ Accounting'
    BY <1>2 DEF BeginStop, RingInv, Accounting, Pending, OldestSlot, ringVars, diskVars
  <2>3. ThreadInv' /\ DrainedInv'
    BY <1>2 DEF BeginStop, TypeOK, Threads, ThreadInv, DrainedInv, ringVars, diskVars
  <2> QED
    BY <2>1, <2>2, <2>3
<1>3. CASE Join
  <2>1. TypeOK'
    BY <1>3 DEF Join, TypeOK, Threads, ringVars, diskVars
  <2>2. RingInv' /\ Accounting'
    BY <1>3 DEF Join, RingInv, Accounting, Pending, OldestSlot, ringVars, diskVars
  <2>3. ThreadInv' /\ DrainedInv'
    BY <1>3 DEF Join, TypeOK, Threads, ThreadInv, DrainedInv, ringVars, diskVars
  <2> QED
    BY <2>1, <2>2, <2>3
<1>4. CASE CheckStop
  <2>1. TypeOK'
    BY <1>4 DEF CheckStop, TypeOK, Threads, ringVars, diskVars
  <2>2. RingInv' /\ Accounting'
    BY <1>4 DEF CheckStop, RingInv, Accounting, Pending, OldestSlot, ringVars, diskVars
  <2>3. ThreadInv' /\ DrainedInv'
    BY <1>4 DEF CheckStop, TypeOK, Threads, ThreadInv, DrainedInv, ringVars, diskVars
  <2> QED
    BY <2>1, <2>2, <2>3
<1> QED
  BY <1>1, <1>2, <1>3, <1>4

LEMMA DrainStep ==
    ASSUME IInv, NEW t \in Threads, Drain(t)
    PROVE  IInv'
<1> USE DEF IInv
<1>1. CASE count = 0
  <2>1. TypeOK'
    BY <1>1 DEF Drain, TypeOK, Threads, Return, diskVars
  <2>2. RingInv' /\ Accounting'
    BY <1>1 DEF Drain, RingInv, Accounting, diskVars
  <2>3. ThreadInv' /\ DrainedInv'
    BY <1>1 DEF Drain, TypeOK, Threads, ThreadInv, DrainedInv, Return, diskVars
  <2> QED
    BY <2>1, <2>2, <2>3
<1>2. CASE count # 0
  <2>1. Pending \in Seq(Nat) /\ Len(Pending) = count
    BY PendingSeq
  <2>2. /\ drained' = [drained EXCEPT ![t] = Pending]
        /\ drained[t] = <<>>
        /\ count' = 0
        /\ UNCHANGED <<buffer, head, dropped, logged, isRunning, stopRequested, diskVars, stoppedAt>>
        /\ pc' = [pc EXCEPT ![t] = "writing"]
        /\ pc[t] = "draining"
    BY <1>2 DEF Drain, ThreadInv
  <2>3. drained' \in [Threads -> Seq(Nat)]
    BY <2>1, <2>2 DEF TypeOK
  <2>4. count' \in 0 .. Capacity
    BY <2>2, LoggerAssumption
  <2>5. TypeOK'
    BY <2>2, <2>3, <2>4 DEF TypeOK, Threads, diskVars
  <2>6. RingInv'
    BY <2>2 DEF RingInv
  <2>7. Accounting'
    <3>1. /\ Len(drained'[t]) = count /\ Len(drained[t]) = 0
          /\ \A u \in Threads : u # t => drained'[u] = drained[u]
      BY <2>1, <2>2 DEF TypeOK
    <3>2. PICK w \in Nat, x \in Nat, f \in Nat, g \in Nat, c \in Nat, d \in Nat, l \in Nat,
               f1 \in Nat, g1 \in Nat :
            /\ w = Len(written) /\ x = lost /\ c = count /\ d = dropped /\ l = logged
            /\ f = Len(drained["flusher"]) /\ g = Len(drained["stopper"])
            /\ f1 = Len(drained'["flusher"]) /\ g1 = Len(drained'["stopper"])
      <4> /\ Len(written) \in Nat /\ lost \in Nat /\ count \in Nat /\ dropped \in Nat
          /\ logged \in Nat
        BY DEF TypeOK
      <4> /\ Len(drained["flusher"]) \in Nat /\ Len(drained["stopper"]) \in Nat
          /\ Len(drained'["flusher"]) \in Nat /\ Len(drained'["stopper"]) \in Nat
        BY <2>3 DEF TypeOK, Threads
      <4> WITNESS Len(written) \in Nat, lost \in Nat, Len(drained["flusher"]) \in Nat,
                  Len(drained["stopper"]) \in Nat, count \in Nat, dropped \in Nat,
                  logged \in Nat, Len(drained'["flusher"]) \in Nat,
                  Len(drained'["stopper"]) \in Nat
      <4> QED
        OBVIOUS
    <3>3. f1 + g1 = f + g + c
      <4>1. CASE t = "flusher"
        <5>1. f1 = c /\ f = 0 /\ g1 = g
          BY <3>1, <3>2, <4>1 DEF Threads
        <5> QED
          BY <5>1
      <4>2. CASE t = "stopper"
        <5>1. g1 = c /\ g = 0 /\ f1 = f
          BY <3>1, <3>2, <4>2 DEF Threads
        <5> QED
          BY <5>1
      <4> QED
        BY <4>1, <4>2 DEF Threads
    <3>4. l = w + x + f + g + c + d
      BY <3>2 DEF Accounting
    <3>5. l = w + x + f1 + g1 + 0 + d
      BY <3>3, <3>4
    <3> QED
      BY <2>2, <3>2, <3>5 DEF Accounting, diskVars
  <2>8. ThreadInv'
    BY <2>2 DEF TypeOK, Threads, ThreadInv
  <2>9. DrainedInv'
    BY <2>2 DEF TypeOK, DrainedInv
  <2> QED
    BY <2>5, <2>6, <2>7, <2>8, <2>9
<1> QED
  BY <1>1, <1>2

LEMMA WriteStep ==
    ASSUME IInv, NEW t \in Threads, Write(t)
    PROVE  IInv'
<1> USE DEF IInv
<1>1. PICK arrived \in 0 .. Len(drained[t]) :
        LET lines == SubSeq(drained[t], 1, arrived)
        IN  /\ files' = [files EXCEPT ![0] = @ \o lines]
            /\ written' = written \o lines
            /\ lost' = lost + Len(drained[t]) - arrived
            /\ faulted' = (faulted \/ arrived < Len(drained[t]))
  BY DEF Write
<1> DEFINE lines == SubSeq(drained[t], 1, arrived)
<1>2. drained[t] \in Seq(Nat) /\ Len(drained[t]) \in Nat
  BY DEF TypeOK
<1>3. arrived \in Nat /\ arrived <= Len(drained[t])
  BY <1>1, <1>2
<1>4. lines \in Seq(Nat) /\ Len(lines) = arrived
  BY <1>2, <1>3
<1>5. /\ written' \in Seq(Nat)
      /\ Len(written') = Len(written) + arrived
      /\ lost' = lost + Len(drained[t]) - arrived
      /\ lost' \in Nat
      /\ faulted' \in BOOLEAN
  BY <1>1, <1>2, <1>3, <1>4 DEF TypeOK
<1>6. files' \in [0 .. MaxBackups -> Seq(Nat)]
  <2>1. MaxBackups \in Nat
    BY LoggerAssumption
  <2>2. files \in [0 .. MaxBackups -> Seq(Nat)] /\ 0 \in 0 .. MaxBackups
    BY <2>1 DEF TypeOK
  <2>3. files[0] \o lines \in Seq(Nat)
    <3>1. files[0] \in Seq(Nat)
      BY <2>2
    <3> QED
      BY <1>4, <3>1
  <2> HIDE DEF lines
  <2>4. files' = [files EXCEPT ![0] = files[0] \o lines]
    BY <1>1 DEF lines
  <2> QED
    BY <2>2, <2>3, <2>4
<1>7. /\ drained' = [drained EXCEPT ![t] = <<>>]
      /\ pc' = [pc EXCEPT ![t] = "rotating"]
      /\ pc[t] = "writing"
      /\ UNCHANGED <<buffer, head, count, dropped, logged, isRunning, stopRequested, stoppedAt>>
  BY DEF Write, ringVars
<1>8. drained' \in [Threads -> Seq(Nat)]
  BY <1>7 DEF TypeOK
<1>9. TypeOK'
  BY <1>5, <1>6, <1>7, <1>8 DEF TypeOK, Threads
<1>10. RingInv'
  BY <1>7 DEF RingInv, Pending, OldestSlot
<1>11. Accounting'
  <2>1. /\ Len(drained'[t]) = 0
        /\ \A u \in Threads : u # t => drained'[u] = drained[u]
    BY <1>7 DEF TypeOK
  <2>2. PICK w \in Nat, x \in Nat, f \in Nat, g \in Nat, c \in Nat, d \in Nat, l \in Nat,
             w1 \in Nat, x1 \in Nat, f1 \in Nat, g1 \in Nat, n \in Nat, a \in Nat :
          /\ w = Len(written) /\ x = lost /\ c = count /\ d = dropped /\ l = logged
          /\ f = Len(drained["flusher"]) /\ g = Len(drained["stopper"])
          /\ w1 = Len(written') /\ x1 = lost'
          /\ f1 = Len(drained'["flusher"]) /\ g1 = Len(drained'["stopper"])
          /\ n = Len(drained[t]) /\ a = arrived
    <3> /\ Len(written) \in Nat /\ lost \in Nat /\ count \in Nat /\ dropped \in Nat
        /\ logged \in Nat /\ Len(written') \in Nat
      BY <1>5 DEF TypeOK
    <3> /\ Len(drained["flusher"]) \in Nat /\ Len(drained["stopper"]) \in Nat
        /\ Len(drained'["flusher"]) \in Nat /\ Len(drained'["stopper"]) \in Nat
      BY <1>8 DEF TypeOK, Threads
    <3> USE <1>2, <1>3, <1>5
    <3> WITNESS Len(written) \in Nat, lost \in Nat, Len(drained["flusher"]) \in Nat,
                Len(drained["stopper"]) \in Nat, count \in Nat, dropped \in Nat,
                logged \in Nat, Len(written') \in Nat, lost' \in Nat,
                Len(drained'["flusher"]) \in Nat, Len(drained'["stopper"]) \in Nat,
                Len(drained[t]) \in Nat, arrived \in Nat
    <3> QED
      OBVIOUS
  <2>3. w1 = w + a /\ x1 = x + n - a
    BY <1>5, <2>2
  <2>4. f1 + g1 + n = f + g
    <3>1. CASE t = "flusher"
      <4>1. f1 = 0 /\ n = f /\ g1 = g
        BY <2>1, <2>2, <3>1 DEF Threads
      <4> QED
        BY <4>1
    <3>2. CASE t = "stopper"
      <4>1. g1 = 0 /\ n = g /\ f1 = f
        BY <2>1, <2>2, <3>2 DEF Threads
      <4> QED
        BY <4>1
    <3> QED
      BY <3>1, <3>2 DEF Threads
  <2>5. l = w + x + f + g + c + d
    BY <2>2 DEF Accounting
  <2>6. l = w1 + x1 + f1 + g1 + c + d
    BY <2>3, <2>4, <2>5
  <2>7. lost' > 0 => faulted'
    <3>1. CASE a < n
      BY <1>1, <2>2, <3>1
    <3>2. CASE a = n
      <4>1. lost' = lost
        BY <2>2, <2>3, <3>2
      <4>2. faulted => faulted'
        BY <1>1
      <4> QED
        BY <4>1, <4>2 DEF Accounting
    <3> QED
      BY <1>3, <2>2, <3>1, <3>2
  <2> QED
    BY <1>7, <2>2, <2>6, <2>7 DEF Accounting
<1>12. ThreadInv'
  BY <1>7 DEF TypeOK, Threads, ThreadInv
<1>13. DrainedInv'
  BY <1>7 DEF TypeOK, Threads, DrainedInv
<1> QED
  BY <1>9, <1>10, <1>11, <1>12, <1>13

LEMMA RotateStep ==
    ASSUME IInv, NEW t \in Threads, Rotate(t)
    PROVE  IInv'
<1> USE DEF IInv
<1>1. files' \in [0 .. MaxBackups -> Seq(Nat)]
  <2>1. ASSUME NEW failed PROVE Rotated(failed) \in [0 .. MaxBackups -> Seq(Nat)]
    <3>1. \A i \in 0 .. MaxBackups : Moves(i, failed) => files[i - 1] \in Seq(Nat)
      BY LoggerAssumption DEF Moves, TypeOK
    <3> QED
      BY <3>1 DEF Rotated, TypeOK
  <2> QED
    BY <2>1 DEF Rotate, TypeOK
<1> faulted' \in BOOLEAN /\ (faulted => faulted')
  BY DEF Rotate, TypeOK
<1>2. /\ pc[t] = "rotating"
      /\ pc' = [pc EXCEPT ![t] = Return(t)]
      /\ UNCHANGED <<buffer, head, count, dropped, logged, isRunning, stopRequested, drained,
                     written, lost, stoppedAt>>
  BY DEF Rotate, ringVars
<1>3. TypeOK'
  BY <1>1, <1>2 DEF TypeOK, Threads, Return
<1>4. RingInv' /\ Accounting'
  BY <1>2 DEF RingInv, Accounting, Pending, OldestSlot
<1>5. ThreadInv' /\ DrainedInv'
  BY <1>2 DEF TypeOK, Threads, ThreadInv, DrainedInv, Return
<1> QED
  BY <1>3, <1>4, <1>5

LEMMA NextIInv == IInv /\ [Next]_vars => IInv'
<1> SUFFICES ASSUME IInv, [Next]_vars PROVE IInv'
  OBVIOUS
<1>1. CASE UNCHANGED vars
  BY <1>1 DEF vars, ringVars, diskVars, IInv, TypeOK, RingInv, Pending, OldestSlot,
              Accounting, ThreadInv, DrainedInv
<1>2. ASSUME NEW t \in Threads, FlushPending(t) PROVE IInv'
  BY <1>2, DrainStep, WriteStep, RotateStep DEF FlushPending
<1> QED
  BY <1>1, <1>2, LogStep, ControlStep DEF Next, FlushStep, StopStep, Threads

LEMMA Invariance == Spec => []IInv
BY InitIInv, NextIInv, PTL DEF Spec

-----------------------------------------------------------------------------

(* Type correctness: slots, counters and the two threads' positions.       *)
THEOREM TypeCorrect == Spec => []TypeOK
BY Invariance, PTL DEF IInv

(* dropped_count() is exact: every entry is written, lost by the disk,     *)
(* drained, in the ring or dropped, and in one of these only (log,         *)
(* flush_pending, write_entries).                                          *)
THEOREM EveryEntryAccounted == Spec => []Accounting
BY Invariance, PTL DEF IInv

(* Never two threads in the log file: stop() flushes only after the join.  *)
THEOREM FilesHaveOneWriter == Spec => []OneWriter
<1>1. IInv => OneWriter
  BY DEF IInv, ThreadInv, OneWriter, InFile
<1> QED
  BY <1>1, Invariance, PTL

(* What was logged before stop() was called has left memory when it        *)
(* returns (stop's final drain).                                           *)
THEOREM NothingLeftAtStop == Spec => []StopFlushes
<1>1. IInv => StopFlushes
  <2> SUFFICES ASSUME IInv, pc["stopper"] = "idle", ~ isRunning
               PROVE  /\ pc["flusher"] = "none"
                      /\ drained["flusher"] = <<>>
                      /\ \A i \in DOMAIN Pending : Pending[i] > stoppedAt
    BY DEF StopFlushes
  <2>1. pc["flusher"] = "none" /\ drained["flusher"] = <<>>
    BY DEF IInv, ThreadInv, Threads
  <2>2. ASSUME NEW i \in DOMAIN Pending PROVE Pending[i] > stoppedAt
    <3>1. i \in 1 .. count /\ Pending[i] = logged - count + i
      BY <2>2 DEF Pending, RingInv, IInv
    <3>2. logged - count >= stoppedAt
      BY DEF IInv, DrainedInv
    <3>3. logged \in Nat /\ count \in Nat /\ stoppedAt \in Nat
      BY DEF IInv, TypeOK
    <3> QED
      BY <3>1, <3>2, <3>3
  <2> QED
    BY <2>1, <2>2
<1> QED
  BY <1>1, Invariance, PTL

-----------------------------------------------------------------------------
(* The ring implements the bounded queue of DropOldestLog.                 *)

Numbers(n, last) == [i \in 1 .. n |-> last - n + i]

LEMMA PendingNumbers ==
    IInv => /\ Pending = Numbers(count, logged)
            /\ count \in 0 .. Capacity /\ count \in Nat /\ logged \in Nat
BY PendingSeq, LoggerAssumption DEF IInv, TypeOK, Numbers

LEMMA PendingNumbersNext ==
    IInv' => /\ Pending' = Numbers(count', logged')
             /\ count' \in Nat /\ logged' \in Nat
<1>1. (IInv => /\ Pending = Numbers(count, logged)
               /\ count \in 0 .. Capacity /\ count \in Nat /\ logged \in Nat)'
  BY PendingNumbers, PTL
<1> QED
  BY <1>1

LEMMA NumbersSeq ==
    ASSUME NEW n \in Nat, NEW last \in Nat, n <= last
    PROVE  Numbers(n, last) \in Seq(Nat) /\ Len(Numbers(n, last)) = n
<1>1. Numbers(n, last) \in [1 .. n -> Nat]
  BY DEF Numbers
<1> QED
  BY <1>1 DEF Numbers

LEMMA NumbersAppend ==
    ASSUME NEW n \in Nat, NEW last \in Nat, n <= last
    PROVE  /\ Append(Numbers(n, last), last + 1) = Numbers(n + 1, last + 1)
           /\ n > 0 => Append(Tail(Numbers(n, last)), last + 1) = Numbers(n, last + 1)
<1> DEFINE s == Numbers(n, last)
<1>1. s \in Seq(Nat) /\ Len(s) = n /\ \A i \in 1 .. n : s[i] = last - n + i
  BY NumbersSeq DEF Numbers
<1>2. Append(s, last + 1) = Numbers(n + 1, last + 1)
  <2> DEFINE a == Append(s, last + 1)
  <2>1. a = [i \in 1 .. n + 1 |-> IF i <= n THEN s[i] ELSE last + 1]
    BY <1>1
  <2>2. \A i \in 1 .. n + 1 : a[i] = (last + 1) - (n + 1) + i
    BY <1>1, <2>1
  <2>3. Numbers(n + 1, last + 1) = [i \in 1 .. n + 1 |-> (last + 1) - (n + 1) + i]
    BY DEF Numbers
  <2> HIDE DEF a, s
  <2> QED
    BY <2>1, <2>2, <2>3 DEF a
<1>3. ASSUME n > 0 PROVE Append(Tail(s), last + 1) = Numbers(n, last + 1)
  <2> DEFINE t == Tail(s)
             a == Append(t, last + 1)
  <2>1. t \in Seq(Nat) /\ Len(t) = n - 1 /\ \A i \in 1 .. n - 1 : t[i] = s[i + 1]
    BY <1>1, <1>3
  <2> HIDE DEF s, t
  <2>2. a = [i \in 1 .. n |-> IF i <= n - 1 THEN t[i] ELSE last + 1]
    <3>1. a = [i \in 1 .. Len(t) + 1 |-> IF i <= Len(t) THEN t[i] ELSE last + 1]
      BY <2>1
    <3>2. Len(t) = n - 1 /\ Len(t) + 1 = n
      BY <2>1
    <3> QED
      BY <3>1, <3>2
  <2>3. ASSUME NEW i \in 1 .. n PROVE a[i] = (last + 1) - n + i
    <3>1. CASE i <= n - 1
      <4>1. i + 1 \in 1 .. n /\ i \in 1 .. n - 1
        BY <3>1
      <4>2. a[i] = s[i + 1]
        BY <2>1, <2>2, <3>1, <4>1
      <4>3. s[i + 1] = last - n + (i + 1)
        BY <1>1, <4>1
      <4>4. last - n + (i + 1) = (last + 1) - n + i
        OBVIOUS
      <4> QED
        BY <4>2, <4>3, <4>4
    <3>2. CASE i = n
      <4>1. a[i] = last + 1
        BY <2>2, <3>2
      <4>2. last + 1 = (last + 1) - n + i
        BY <3>2
      <4> QED
        BY <4>1, <4>2
    <3>3. i <= n - 1 \/ i = n
      OBVIOUS
    <3> QED
      BY <3>1, <3>2, <3>3
  <2>4. Numbers(n, last + 1) = [i \in 1 .. n |-> (last + 1) - n + i]
    BY DEF Numbers
  <2> HIDE DEF a
  <2>5. a = Numbers(n, last + 1)
    BY <2>2, <2>3, <2>4
  <2> QED
    BY <2>5 DEF a, t
<1> QED
  BY <1>2, <1>3 DEF s

(* No more can be pending than was logged.                                 *)
LEMMA CountLogged == IInv => count <= logged
<1> SUFFICES ASSUME IInv PROVE count <= logged
  OBVIOUS
<1>1. PICK w \in Nat, x \in Nat, f \in Nat, g \in Nat, c \in Nat, d \in Nat :
        /\ w = Len(written) /\ x = lost /\ c = count /\ d = dropped
        /\ f = Len(drained["flusher"]) /\ g = Len(drained["stopper"])
  <2> /\ Len(written) \in Nat /\ lost \in Nat /\ count \in Nat /\ dropped \in Nat
      /\ Len(drained["flusher"]) \in Nat /\ Len(drained["stopper"]) \in Nat
    BY DEF IInv, TypeOK, Threads
  <2> WITNESS Len(written) \in Nat, lost \in Nat, Len(drained["flusher"]) \in Nat,
              Len(drained["stopper"]) \in Nat, count \in Nat, dropped \in Nat
  <2> QED
    OBVIOUS
<1>2. logged = w + x + f + g + c + d
  BY <1>1 DEF IInv, Accounting
<1>3. c <= w + x + f + g + c + d
  OBVIOUS
<1> QED
  BY <1>1, <1>2, <1>3

LEMMA RingRefines == IInv /\ IInv' /\ [Next]_vars => [Bounded!Next]_(Bounded!vars)
<1> SUFFICES ASSUME IInv, IInv', [Next]_vars
             PROVE  Bounded!Next \/ UNCHANGED Bounded!vars
  OBVIOUS
<1>1. /\ Pending = Numbers(count, logged)
      /\ count \in 0 .. Capacity /\ count \in Nat /\ logged \in Nat /\ count <= logged
      /\ Len(Pending) = count
  BY PendingNumbers, CountLogged, PendingSeq DEF IInv
<1>2. Pending' = Numbers(count', logged')
  BY PendingNumbersNext
<1>3. CASE Log
  <2>1. CASE count < Capacity
    <3>1. count' = count + 1 /\ logged' = logged + 1 /\ dropped' = dropped
      BY <1>3, <2>1 DEF Log
    <3>2. Pending' = Append(Pending, logged')
      BY <1>1, <1>2, <3>1, NumbersAppend
    <3> QED
      BY <1>1, <2>1, <3>1, <3>2 DEF Bounded!Next, Bounded!Log
  <2>2. CASE ~ (count < Capacity)
    <3>1. count' = count /\ logged' = logged + 1 /\ dropped' = dropped + 1
      BY <1>3, <2>2 DEF Log
    <3>2. count > 0
      BY <1>1, <2>2, LoggerAssumption
    <3>3. Pending' = Append(Tail(Pending), logged')
      BY <1>1, <1>2, <3>1, <3>2, NumbersAppend
    <3> QED
      BY <1>1, <2>2, <3>1, <3>3 DEF Bounded!Next, Bounded!Log
  <2> QED
    BY <2>1, <2>2
<1>4. ASSUME NEW t \in Threads, Drain(t)
      PROVE  Bounded!Next \/ UNCHANGED Bounded!vars
  <2>1. CASE count = 0
    BY <1>4, <2>1 DEF Drain, Bounded!vars, Pending, OldestSlot
  <2>2. CASE count # 0
    <3>1. count' = 0 /\ UNCHANGED <<logged, dropped>>
      BY <1>4, <2>2 DEF Drain
    <3>2. Pending' = <<>>
      BY <1>2, <3>1 DEF Numbers
    <3>3. Len(<<>>) = 0
      OBVIOUS
    <3>4. Pending # <<>>
      BY <1>1, <2>2, <3>3
    <3> QED
      BY <3>1, <3>2, <3>4 DEF Bounded!Next, Bounded!Flush
  <2> QED
    BY <2>1, <2>2
<1>5. ASSUME UNCHANGED ringVars PROVE UNCHANGED Bounded!vars
  BY <1>5 DEF ringVars, Bounded!vars, Pending, OldestSlot
<1>6. CASE ~ Log /\ (\A t \in Threads : ~ Drain(t))
  <2>1. UNCHANGED ringVars
    BY <1>6 DEF Next, FlushStep, StopStep, FlushPending, Threads, Start, BeginStop, Join,
                CheckStop, Write, Rotate, vars
  <2> QED
    BY <1>5, <2>1
<1> QED
  BY <1>3, <1>4, <1>6

(* The ring buffer is a bounded queue that drops its oldest entry, for     *)
(* every capacity (log, flush_pending).                                    *)
THEOREM RingIsBoundedQueue == Spec => ImplementsDropOldestLog
<1>1. Init => Bounded!Init
  BY DEF Init, Bounded!Init, Pending
<1> QED
  BY <1>1, Invariance, RingRefines, PTL
     DEF Spec, Bounded!Spec, ImplementsDropOldestLog

-----------------------------------------------------------------------------
(***************************************************************************)
(* What is in the files, and in which order.                               *)
(***************************************************************************)

Below(s, t) == \A x \in DOMAIN s : \A y \in DOMAIN t : s[x] < t[y]

AtMost(s, n) == \A x \in DOMAIN s : s[x] <= n

(* The last entry that has left the ring.                                  *)
Last == logged - count

(* Every file is in order, older backups are below newer ones and the log  *)
(* file, those below what a thread has drained, and that below the ring.   *)
OrderInv ==
    /\ \A i \in 0 .. MaxBackups : Increasing(files[i]) /\ AtMost(files[i], Last)
    /\ \A i, j \in 0 .. MaxBackups : i < j => Below(files[j], files[i])
    /\ \A t \in Threads :
          /\ Increasing(drained[t]) /\ AtMost(drained[t], Last)
          /\ \A i \in 0 .. MaxBackups : Below(files[i], drained[t])

(* s is the end of t.                                                      *)
EndOf(s, t) ==
    /\ Len(s) <= Len(t)
    /\ \A i \in 1 .. Len(s) : s[i] = t[Len(t) - Len(s) + i]

(* While the disk works: every backup is full, there is none without those *)
(* newer than it, and together with the log file they hold the end of what *)
(* was written.                                                            *)
KeptInv ==
    ~ faulted =>
        /\ \A i \in 1 .. MaxBackups :
              files[i] # <<>> => /\ Len(files[i]) >= MaxFileEntries
                                 /\ \A j \in 1 .. i : files[j] # <<>>
        /\ EndOf(Retained, written)
        /\ Len(Retained) = Len(written) \/ Len(Retained) >= MaxBackups * MaxFileEntries

-----------------------------------------------------------------------------

(* Where the elements of s \o t come from.                                 *)
LEMMA JoinedElements ==
    ASSUME NEW s \in Seq(Nat), NEW t \in Seq(Nat)
    PROVE  /\ s \o t \in Seq(Nat)
           /\ Len(s \o t) = Len(s) + Len(t)
           /\ \A x \in DOMAIN (s \o t) :
                 \/ x \in DOMAIN s /\ (s \o t)[x] = s[x]
                 \/ /\ x > Len(s)
                    /\ x - Len(s) \in DOMAIN t
                    /\ (s \o t)[x] = t[x - Len(s)]
<1>1. s \o t \in Seq(Nat) /\ Len(s \o t) = Len(s) + Len(t)
  OBVIOUS
<1>2. Len(s) \in Nat /\ Len(t) \in Nat /\ DOMAIN s = 1 .. Len(s) /\ DOMAIN t = 1 .. Len(t)
  OBVIOUS
<1>3. DOMAIN (s \o t) = 1 .. Len(s) + Len(t)
  BY <1>1
<1>4. \A x \in 1 .. Len(s) + Len(t) :
         (s \o t)[x] = IF x <= Len(s) THEN s[x] ELSE t[x - Len(s)]
  OBVIOUS
<1>5. ASSUME NEW x \in 1 .. Len(s) + Len(t)
      PROVE  \/ x \in DOMAIN s /\ (s \o t)[x] = s[x]
             \/ /\ x > Len(s)
                /\ x - Len(s) \in DOMAIN t
                /\ (s \o t)[x] = t[x - Len(s)]
  <2>1. CASE x <= Len(s)
    BY <1>2, <1>4, <2>1
  <2>2. CASE x > Len(s)
    <3>1. x - Len(s) \in 1 .. Len(t) /\ ~ (x <= Len(s))
      BY <1>2, <2>2
    <3> QED
      BY <1>2, <1>4, <2>2, <3>1
  <2> QED
    BY <1>2, <2>1, <2>2
<1> QED
  BY <1>1, <1>3, <1>5

LEMMA NatElements == ASSUME NEW s \in Seq(Nat), NEW x \in DOMAIN s PROVE s[x] \in Nat
  OBVIOUS

LEMMA JoinIncreasing ==
    ASSUME NEW s \in Seq(Nat), NEW t \in Seq(Nat), Increasing(s), Increasing(t), Below(s, t)
    PROVE  Increasing(s \o t)
<1> DEFINE u == s \o t
<1>1. /\ u \in Seq(Nat)
      /\ \A x \in DOMAIN u : \/ x \in DOMAIN s /\ u[x] = s[x]
                             \/ x > Len(s) /\ x - Len(s) \in DOMAIN t /\ u[x] = t[x - Len(s)]
  BY JoinedElements
<1>2. Len(s) \in Nat /\ DOMAIN s = 1 .. Len(s) /\ DOMAIN u \subseteq Nat /\ DOMAIN t \subseteq Nat
  BY <1>1
<1> HIDE DEF u
<1> SUFFICES ASSUME NEW i \in DOMAIN u, NEW j \in DOMAIN u, i < j PROVE u[i] < u[j]
  BY DEF Increasing, u
<1>3. CASE i \in DOMAIN s /\ j \in DOMAIN s /\ u[i] = s[i] /\ u[j] = s[j]
  BY <1>3 DEF Increasing
<1>4. CASE /\ i \in DOMAIN s /\ u[i] = s[i]
           /\ j - Len(s) \in DOMAIN t /\ u[j] = t[j - Len(s)]
  BY <1>4 DEF Below
<1>5. CASE /\ i > Len(s) /\ i - Len(s) \in DOMAIN t /\ u[i] = t[i - Len(s)]
           /\ j - Len(s) \in DOMAIN t /\ u[j] = t[j - Len(s)]
  <2>1. i - Len(s) < j - Len(s)
    BY <1>2
  <2> QED
    BY <1>5, <2>1 DEF Increasing
<1>6. ~ (i > Len(s) /\ j \in DOMAIN s)
  BY <1>2
<1> QED
  BY <1>1, <1>3, <1>4, <1>5, <1>6

LEMMA JoinBelow ==
    ASSUME NEW s \in Seq(Nat), NEW t \in Seq(Nat)
    PROVE  /\ \A r : Below(s, r) /\ Below(t, r) => Below(s \o t, r)
           /\ \A r : Below(r, s) /\ Below(r, t) => Below(r, s \o t)
           /\ \A n : AtMost(s, n) /\ AtMost(t, n) => AtMost(s \o t, n)
<1> DEFINE u == s \o t
<1>1. \A x \in DOMAIN u : \/ x \in DOMAIN s /\ u[x] = s[x]
                          \/ x - Len(s) \in DOMAIN t /\ u[x] = t[x - Len(s)]
  BY JoinedElements
<1> HIDE DEF u
<1>2. ASSUME NEW r, Below(s, r), Below(t, r) PROVE Below(u, r)
  BY <1>1, <1>2 DEF Below
<1>3. ASSUME NEW r, Below(r, s), Below(r, t) PROVE Below(r, u)
  BY <1>1, <1>3 DEF Below
<1>4. ASSUME NEW n, AtMost(s, n), AtMost(t, n) PROVE AtMost(u, n)
  BY <1>1, <1>4 DEF AtMost
<1> QED
  BY <1>2, <1>3, <1>4 DEF u

(* A prefix, and the empty sequence, inherit what a sequence satisfies.    *)
LEMMA PrefixOrder ==
    ASSUME NEW s \in Seq(Nat), NEW n \in 0 .. Len(s)
    PROVE  LET p == SubSeq(s, 1, n)
           IN  /\ p \in Seq(Nat) /\ Len(p) = n
               /\ Increasing(s) => Increasing(p)
               /\ \A r : Below(r, s) => Below(r, p)
               /\ \A m : AtMost(s, m) => AtMost(p, m)
<1> DEFINE p == SubSeq(s, 1, n)
<1>1. p \in Seq(Nat) /\ Len(p) = n /\ n \in Nat /\ n <= Len(s)
  OBVIOUS
<1>2. DOMAIN p = 1 .. n /\ DOMAIN s = 1 .. Len(s) /\ \A x \in 1 .. n : p[x] = s[x]
  OBVIOUS
<1>3. \A x \in DOMAIN p : x \in DOMAIN s /\ p[x] = s[x]
  BY <1>1, <1>2
<1> HIDE DEF p
<1>4. Increasing(s) => Increasing(p)
  BY <1>3 DEF Increasing
<1>5. ASSUME NEW r, Below(r, s) PROVE Below(r, p)
  BY <1>3, <1>5 DEF Below
<1>6. ASSUME NEW m, AtMost(s, m) PROVE AtMost(p, m)
  BY <1>3, <1>6 DEF AtMost
<1> QED
  BY <1>1, <1>4, <1>5, <1>6 DEF p

LEMMA EmptyOrder ==
    /\ <<>> \in Seq(Nat) /\ DOMAIN <<>> = {}
    /\ Increasing(<<>>)
    /\ \A r : Below(r, <<>>) /\ Below(<<>>, r)
    /\ \A n : AtMost(<<>>, n)
<1>1. DOMAIN <<>> = {}
  OBVIOUS
<1> QED
  BY <1>1 DEF Increasing, Below, AtMost

-----------------------------------------------------------------------------

LEMMA InitOrder == Init => OrderInv
<1> SUFFICES ASSUME Init PROVE OrderInv
  OBVIOUS
<1>1. /\ \A i \in 0 .. MaxBackups : files[i] = <<>>
      /\ \A t \in Threads : drained[t] = <<>>
  BY DEF Init
<1> QED
  BY <1>1, EmptyOrder DEF OrderInv

(* What is on its way only moves further from the ring.                    *)
LEMMA OrderKept ==
    ASSUME TypeOK, OrderInv, Last' \in Int, Last <= Last', UNCHANGED <<files, drained>>
    PROVE  OrderInv'
<1>1. Last \in Int
  BY DEF TypeOK, Last
<1>2. ASSUME NEW s \in Seq(Nat), AtMost(s, Last)
      PROVE  AtMost(s, Last')
  <2>1. \A x \in DOMAIN s : s[x] \in Nat /\ s[x] <= Last
    BY <1>2, NatElements DEF AtMost
  <2> QED
    BY <1>1, <2>1 DEF AtMost
<1>3. /\ \A i \in 0 .. MaxBackups : files[i] \in Seq(Nat)
      /\ \A t \in Threads : drained[t] \in Seq(Nat)
  BY DEF TypeOK
<1> QED
  BY <1>2, <1>3 DEF OrderInv

LEMMA DrainOrder ==
    ASSUME IInv, OrderInv, NEW t \in Threads, Drain(t)
    PROVE  OrderInv'
<1>1. logged \in Nat /\ count \in Nat /\ TypeOK /\ RingInv
  BY DEF IInv, TypeOK
<1>2. CASE count = 0
  <2>1. UNCHANGED <<logged, count, files, drained>>
    BY <1>2 DEF Drain, diskVars
  <2> QED
    BY <1>1, <2>1, OrderKept DEF Last
<1>3. CASE count # 0
  <2>1. /\ drained' = [drained EXCEPT ![t] = Pending]
        /\ count' = 0 /\ logged' = logged /\ files' = files
    BY <1>3 DEF Drain, diskVars
  <2>2. /\ drained'[t] = Pending
        /\ \A u \in Threads : u # t => drained'[u] = drained[u]
    BY <1>1, <2>1 DEF TypeOK
  <2>3. /\ Pending \in Seq(Nat) /\ DOMAIN Pending = 1 .. count
        /\ \A x \in 1 .. count : Pending[x] = logged - count + x
    BY <1>1, PendingSeq
  <2>4. Increasing(Pending)
    BY <1>1, <2>3 DEF Increasing
  <2>5. AtMost(Pending, Last')
    BY <1>1, <2>1, <2>3 DEF AtMost, Last
  <2>6. ASSUME NEW s \in Seq(Nat), AtMost(s, Last)
        PROVE  AtMost(s, Last') /\ Below(s, Pending)
    <3>1. \A x \in DOMAIN s : s[x] \in Nat /\ s[x] <= Last
      BY <2>6, NatElements DEF AtMost
    <3> QED
      BY <1>1, <2>1, <2>3, <3>1 DEF AtMost, Below, Last
  <2>7. /\ \A i \in 0 .. MaxBackups : files[i] \in Seq(Nat)
        /\ \A u \in Threads : drained[u] \in Seq(Nat)
    BY <1>1 DEF TypeOK
  <2> QED
    BY <2>1, <2>2, <2>4, <2>5, <2>6, <2>7 DEF OrderInv
<1> QED
  BY <1>2, <1>3

LEMMA WriteOrder ==
    ASSUME IInv, OrderInv, NEW t \in Threads, Write(t)
    PROVE  OrderInv'
<1>1. TypeOK /\ MaxBackups \in Nat /\ 0 \in 0 .. MaxBackups /\ pc[t] = "writing"
  BY LoggerAssumption DEF IInv, Write
<1>2. PICK arrived \in 0 .. Len(drained[t]) :
         files' = [files EXCEPT ![0] = @ \o SubSeq(drained[t], 1, arrived)]
  BY DEF Write
<1> DEFINE lines == SubSeq(drained[t], 1, arrived)
<1>3. /\ drained' = [drained EXCEPT ![t] = <<>>]
      /\ Last' = Last
  BY DEF Write, ringVars, Last
<1>4. /\ \A i \in 0 .. MaxBackups : files[i] \in Seq(Nat)
      /\ \A u \in Threads : drained[u] \in Seq(Nat)
  BY <1>1 DEF TypeOK
<1>5. /\ files'[0] = files[0] \o lines
      /\ \A i \in 1 .. MaxBackups : files'[i] = files[i]
  <2>1. files \in [0 .. MaxBackups -> Seq(Nat)]
    BY <1>1 DEF TypeOK
  <2> HIDE DEF lines
  <2>2. files' = [files EXCEPT ![0] = files[0] \o lines]
    BY <1>2 DEF lines
  <2> QED
    BY <1>1, <2>1, <2>2
<1>6. /\ drained'[t] = <<>>
      /\ \A u \in Threads : u # t => drained'[u] = drained[u]
  BY <1>1, <1>3 DEF TypeOK
<1>7. /\ lines \in Seq(Nat)
      /\ Increasing(lines) /\ AtMost(lines, Last)
      /\ \A i \in 0 .. MaxBackups : Below(files[i], lines)
  BY <1>4, PrefixOrder DEF OrderInv
<1>8. \A u \in Threads : u # t => drained[u] = <<>>
  BY <1>1 DEF IInv, ThreadInv, Threads
<1> HIDE DEF lines
<1>9. /\ Increasing(files'[0]) /\ AtMost(files'[0], Last)
      /\ \A i \in 1 .. MaxBackups : Below(files[i], files'[0])
  <2>1. files[0] \in Seq(Nat) /\ Increasing(files[0]) /\ AtMost(files[0], Last)
    BY <1>1, <1>4 DEF OrderInv
  <2>2. Increasing(files'[0])
    BY <1>1, <1>5, <1>7, <2>1, JoinIncreasing
  <2>3. AtMost(files'[0], Last)
    BY <1>5, <1>7, <2>1, JoinBelow
  <2>4. ASSUME NEW i \in 1 .. MaxBackups PROVE Below(files[i], files'[0])
    <3>1. Below(files[i], files[0]) /\ Below(files[i], lines)
      BY <1>1, <1>7 DEF OrderInv
    <3> QED
      BY <1>5, <1>7, <2>1, <3>1, JoinBelow
  <2> QED
    BY <2>2, <2>3, <2>4
<1>10. \A i \in 0 .. MaxBackups : Increasing(files'[i]) /\ AtMost(files'[i], Last')
  <2> SUFFICES ASSUME NEW i \in 0 .. MaxBackups
               PROVE  Increasing(files'[i]) /\ AtMost(files'[i], Last)
    BY <1>3
  <2>1. CASE i = 0
    BY <1>9, <2>1
  <2>2. CASE i \in 1 .. MaxBackups
    BY <1>5, <2>2 DEF OrderInv
  <2> QED
    BY <1>1, <2>1, <2>2
<1>11. \A i, j \in 0 .. MaxBackups : i < j => Below(files'[j], files'[i])
  <2> SUFFICES ASSUME NEW i \in 0 .. MaxBackups, NEW j \in 0 .. MaxBackups, i < j
               PROVE  Below(files'[j], files'[i])
    OBVIOUS
  <2>1. j \in 1 .. MaxBackups /\ files'[j] = files[j]
    BY <1>1, <1>5
  <2>2. CASE i = 0
    BY <1>9, <2>1, <2>2
  <2>3. CASE i \in 1 .. MaxBackups
    BY <1>5, <2>1, <2>3 DEF OrderInv
  <2> QED
    BY <1>1, <2>2, <2>3
<1>12. \A u \in Threads : drained'[u] = <<>>
  BY <1>6, <1>8
<1> QED
  BY <1>10, <1>11, <1>12, EmptyOrder DEF OrderInv

(* Where the contents of a file come from when the files are rotated.      *)
LEMMA RotateOrigin ==
    ASSUME TypeOK, NEW failed, files' = Rotated(failed), NEW i \in 0 .. MaxBackups
    PROVE  \/ files'[i] = <<>>
           \/ files'[i] = files[i] /\ ~ Moves(i + 1, failed)
           \/ i \in 1 .. MaxBackups /\ files'[i] = files[i - 1] /\ Moves(i, failed)
BY DEF Rotated, Moves

LEMMA RotateOrder ==
    ASSUME IInv, OrderInv, NEW t \in Threads, Rotate(t)
    PROVE  OrderInv'
<1>1. TypeOK /\ UNCHANGED drained /\ Last' = Last /\ Last \in Int
  BY DEF IInv, TypeOK, Rotate, ringVars, Last
<1>2. CASE files' = files
  BY <1>1, <1>2, OrderKept
<1>3. ASSUME NEW failed, files' = Rotated(failed) PROVE OrderInv'
  <2>1. ASSUME NEW i \in 0 .. MaxBackups
        PROVE  \/ files'[i] = <<>>
               \/ files'[i] = files[i] /\ ~ Moves(i + 1, failed)
               \/ i \in 1 .. MaxBackups /\ files'[i] = files[i - 1] /\ Moves(i, failed)
    BY <1>1, <1>3, RotateOrigin
  <2>2. \A i \in 1 .. MaxBackups : i - 1 \in 0 .. MaxBackups
    BY LoggerAssumption
  <2>3. ASSUME NEW i \in 0 .. MaxBackups
        PROVE  files'[i] = <<>> \/ \E j \in 0 .. MaxBackups : files'[i] = files[j]
    BY <2>1, <2>2
  <2>4. ASSUME NEW i \in 0 .. MaxBackups, NEW j \in 0 .. MaxBackups, i < j
        PROVE  Below(files'[j], files'[i])
    <3>1. CASE files'[i] = <<>> \/ files'[j] = <<>>
      BY <3>1, EmptyOrder
    <3>2. CASE files'[i] # <<>> /\ files'[j] # <<>>
      <4>1. \/ files'[i] = files[i] /\ ~ Moves(i + 1, failed)
            \/ i - 1 \in 0 .. MaxBackups /\ files'[i] = files[i - 1]
        BY <2>1, <2>2, <3>2
      <4>2. \/ files'[j] = files[j]
            \/ j - 1 \in 0 .. MaxBackups /\ files'[j] = files[j - 1] /\ Moves(j, failed)
        BY <2>1, <2>2, <3>2
      <4>3. \A k, l \in 0 .. MaxBackups : k < l => Below(files[l], files[k])
        BY DEF OrderInv
      <4>4. CASE files'[j] = files[j]
        BY <2>4, <4>1, <4>3, <4>4
      <4>5. CASE j - 1 \in 0 .. MaxBackups /\ files'[j] = files[j - 1] /\ Moves(j, failed)
        <5>1. CASE files'[i] = files[i] /\ ~ Moves(i + 1, failed)
          <6>1. i + 1 # j
            BY <4>5, <5>1
          <6>2. i < j - 1
            BY <2>4, <6>1
          <6> QED
            BY <4>3, <4>5, <5>1, <6>2
        <5>2. CASE i - 1 \in 0 .. MaxBackups /\ files'[i] = files[i - 1]
          <6>1. i - 1 < j - 1
            BY <2>4
          <6> QED
            BY <4>3, <4>5, <5>2, <6>1
        <5> QED
          BY <4>1, <5>1, <5>2
      <4> QED
        BY <4>2, <4>4, <4>5
    <3> QED
      BY <3>1, <3>2
  <2>5. ASSUME NEW i \in 0 .. MaxBackups
        PROVE  /\ Increasing(files'[i]) /\ AtMost(files'[i], Last)
               /\ \A u \in Threads : Below(files'[i], drained[u])
    BY <2>3, EmptyOrder DEF OrderInv
  <2> QED
    BY <1>1, <2>4, <2>5 DEF OrderInv
<1> QED
  BY <1>2, <1>3 DEF Rotate

LEMMA NextOrder == IInv /\ IInv' /\ OrderInv /\ [Next]_vars => OrderInv'
<1> SUFFICES ASSUME IInv, IInv', OrderInv, [Next]_vars PROVE OrderInv'
  OBVIOUS
<1>1. TypeOK /\ logged \in Nat /\ count \in Nat /\ logged' \in Nat /\ count' \in Nat
  <2>1. TypeOK /\ TypeOK'
    BY DEF IInv
  <2>2. logged \in Nat /\ count \in Nat /\ logged' \in Nat /\ count' \in Nat
    BY <2>1 DEF TypeOK
  <2> QED
    BY <2>1, <2>2
<1> Last \in Int /\ Last' \in Int
  BY <1>1 DEF Last
<1>2. CASE Log
  <2>1. UNCHANGED <<files, drained>> /\ logged' = logged + 1
    BY <1>2 DEF Log, diskVars
  <2>2. count' = count + 1 \/ count' = count
    BY <1>2 DEF Log
  <2>3. Last' = Last \/ Last' = Last + 1
    <3>1. CASE count' = count + 1
      BY <1>1, <2>1, <3>1 DEF Last
    <3>2. CASE count' = count
      BY <1>1, <2>1, <3>2 DEF Last
    <3> QED
      BY <2>2, <3>1, <3>2
  <2> QED
    BY <1>1, <2>1, <2>3, OrderKept
<1>3. CASE Start \/ BeginStop \/ Join \/ CheckStop \/ UNCHANGED vars
  <2>1. UNCHANGED <<files, drained>> /\ Last' = Last
    BY <1>3 DEF Start, BeginStop, Join, CheckStop, vars, ringVars, diskVars, Last
  <2> QED
    BY <1>1, <2>1, OrderKept
<1>4. ASSUME NEW t \in Threads, FlushPending(t) PROVE OrderInv'
  BY <1>4, DrainOrder, WriteOrder, RotateOrder DEF FlushPending
<1> QED
  BY <1>2, <1>3, <1>4 DEF Next, FlushStep, StopStep, Threads

-----------------------------------------------------------------------------

(* The files from the log file up to backup .i, older backups first.       *)
Chain(fs) ==
    LET upTo[i \in 0 .. MaxBackups] == IF i = 0 THEN fs[0] ELSE fs[i] \o upTo[i - 1]
    IN  upTo

LEMMA RetainedChain ==
    /\ Retained = Chain(files)[MaxBackups]
    /\ Retained' = Chain(files')[MaxBackups]
BY DEF Retained, Chain

LEMMA LessIsWellFounded == IsWellFoundedOn({p \in Nat \X Nat : p[1] < p[2]}, Nat)
BY NatLessThanWellFounded DEF OpToRel

(* A set of numbers that has 0 and every successor has them all.           *)
LEMMA SetInduction ==
    ASSUME NEW T \in SUBSET Nat, 0 \in T, \A n \in T : n + 1 \in T
    PROVE  T = Nat
<1> SUFFICES ASSUME Nat \ T # {} PROVE FALSE
  OBVIOUS
<1>1. PICK x \in Nat \ T :
         \A y \in Nat \ T : ~ (<<y, x>> \in {p \in Nat \X Nat : p[1] < p[2]})
  BY LessIsWellFounded, WFMin
<1>2. x # 0 /\ x - 1 \in Nat /\ x - 1 < x
  BY <1>1
<1>3. x - 1 \notin T
  BY <1>2
<1> QED
  BY <1>1, <1>2, <1>3

(* The recursion has a solution, so that Chain is one.                     *)
LEMMA ChainDef ==
    ASSUME NEW fs \in [0 .. MaxBackups -> Seq(Nat)]
    PROVE  /\ Chain(fs) \in [0 .. MaxBackups -> Seq(Nat)]
           /\ Chain(fs)[0] = fs[0]
           /\ \A i \in 1 .. MaxBackups : Chain(fs)[i] = fs[i] \o Chain(fs)[i - 1]
<1> DEFINE Link(f, i) == IF i = 0 THEN fs[0] ELSE fs[i] \o f[i - 1]
           Solves(f, n) == f = [i \in 0 .. n |-> Link(f, i)]
           Solved(n) == \E f \in [0 .. n -> Seq(Nat)] : Solves(f, n)
           T == {n \in Nat : n <= MaxBackups => Solved(n)}
<1>1. MaxBackups \in Nat
  BY LoggerAssumption
<1>2. 0 \in T
  <2> DEFINE f == [i \in 0 .. 0 |-> fs[0]]
  <2>1. 0 .. 0 = {0} /\ 0 \in 0 .. MaxBackups
    BY <1>1
  <2>2. f \in [0 .. 0 -> Seq(Nat)] /\ \A i \in 0 .. 0 : f[i] = Link(f, i)
    BY <2>1
  <2>3. Solves(f, 0)
    BY <2>2
  <2> QED
    BY <2>2, <2>3
<1>3. ASSUME NEW n \in T PROVE n + 1 \in T
  <2> SUFFICES ASSUME n + 1 <= MaxBackups PROVE Solved(n + 1)
    <3> HIDE DEF Solved
    <3> QED
      BY <1>3
  <2>1. n \in Nat /\ n <= MaxBackups
    BY <1>1, <1>3
  <2>2. PICK f \in [0 .. n -> Seq(Nat)] : Solves(f, n)
    BY <1>3, <2>1
  <2> DEFINE g == [i \in 0 .. n + 1 |-> Link(f, i)]
  <2>3. \A i \in 0 .. n : f[i] = Link(f, i)
    BY <2>2
  <2>4. \A i \in 0 .. n : i \in 0 .. n + 1 /\ g[i] = f[i]
    <3>1. \A i \in 0 .. n : i \in 0 .. n + 1
      BY <2>1
    <3> HIDE DEF Link
    <3> QED
      BY <2>3, <3>1
  <2>5. \A i \in 0 .. n + 1 : i = 0 \/ i - 1 \in 0 .. n
    BY <2>1
  <2>6. \A i \in 0 .. n + 1 : g[i] = Link(g, i)
    BY <2>4, <2>5
  <2>7. ASSUME NEW i \in 0 .. n + 1 PROVE Link(f, i) \in Seq(Nat)
    <3>1. i \in 0 .. MaxBackups /\ fs[i] \in Seq(Nat) /\ fs[0] \in Seq(Nat)
      BY <1>1, <2>1, <2>7
    <3>2. i = 0 \/ f[i - 1] \in Seq(Nat)
      BY <2>5, <2>7
    <3> QED
      BY <3>1, <3>2
  <2>8. g \in [0 .. n + 1 -> Seq(Nat)]
    <3> HIDE DEF Link
    <3> QED
      BY <2>7
  <2>9. Solves(g, n + 1)
    <3>1. g = [i \in 0 .. n + 1 |-> g[i]]
      OBVIOUS
    <3> HIDE DEF g, Link
    <3> QED
      BY <2>6, <3>1
  <2> HIDE DEF g, Solves
  <2> QED
    BY <2>8, <2>9
<1>4. \E f \in [0 .. MaxBackups -> Seq(Nat)] : Solves(f, MaxBackups)
  <2>1. T \subseteq Nat
    OBVIOUS
  <2> HIDE DEF T
  <2>2. T = Nat
    BY <1>2, <1>3, <2>1, SetInduction
  <2>3. \A n \in Nat : n <= MaxBackups => Solved(n)
    <3> HIDE DEF Solved
    <3> QED
      BY <2>2 DEF T
  <2>4. Solved(MaxBackups)
    <3> HIDE DEF Solved
    <3> QED
      BY <1>1, <2>3
  <2> QED
    BY <2>4
<1>5. Chain(fs) = CHOOSE f : Solves(f, MaxBackups)
  BY DEF Chain
<1>6. Solves(Chain(fs), MaxBackups)
  <2> HIDE DEF Solves
  <2> QED
    BY <1>4, <1>5
<1> DEFINE up == Chain(fs)
<1>7. \A i \in 0 .. MaxBackups : up[i] = Link(up, i)
  <2> HIDE DEF Link
  <2> QED
    BY <1>6
<1> HIDE DEF T
<1>8. DOMAIN up = 0 .. MaxBackups
  <2> HIDE DEF Link
  <2> QED
    BY <1>6
<1>9. up[0] = fs[0] /\ \A i \in 1 .. MaxBackups : up[i] = fs[i] \o up[i - 1]
  <2>1. 0 \in 0 .. MaxBackups /\ \A i \in 1 .. MaxBackups : i \in 0 .. MaxBackups /\ i # 0
    BY <1>1
  <2> HIDE DEF up
  <2> QED
    BY <1>7, <2>1
<1> DEFINE U == {n \in Nat : n <= MaxBackups => up[n] \in Seq(Nat)}
<1> HIDE DEF up, Solves
<1>10. 0 \in U
  BY <1>1, <1>9
<1>11. ASSUME NEW n \in U PROVE n + 1 \in U
  <2> SUFFICES ASSUME n + 1 <= MaxBackups PROVE up[n + 1] \in Seq(Nat)
    BY <1>11
  <2>1. n + 1 \in 1 .. MaxBackups /\ (n + 1) - 1 = n /\ n + 1 \in 0 .. MaxBackups /\ up[n] \in Seq(Nat)
    BY <1>1, <1>11
  <2>2. up[n + 1] = fs[n + 1] \o up[n] /\ fs[n + 1] \in Seq(Nat)
    BY <1>9, <2>1
  <2> QED
    BY <2>1, <2>2
<1>12. U = Nat
  <2>1. U \subseteq Nat
    OBVIOUS
  <2> HIDE DEF U
  <2> QED
    BY <1>10, <1>11, <2>1, SetInduction
<1>13. \A i \in 0 .. MaxBackups : up[i] \in Seq(Nat)
  <2>1. \A n \in Nat : n <= MaxBackups => up[n] \in Seq(Nat)
    BY <1>12
  <2> QED
    BY <1>1, <2>1
<1>14. up = [i \in 0 .. MaxBackups |-> up[i]]
  BY <1>6 DEF Solves, up
<1>15. up \in [0 .. MaxBackups -> Seq(Nat)]
  BY <1>13, <1>14
<1> QED
  BY <1>9, <1>15 DEF up

LEMMA ChainOrder ==
    ASSUME TypeOK, OrderInv
    PROVE  /\ Retained \in Seq(Nat)
           /\ Increasing(Retained) /\ AtMost(Retained, Last)
           /\ \A t \in Threads : Below(Retained, drained[t])
<1> DEFINE up == Chain(files)
           Ordered(m) == /\ Increasing(up[m]) /\ AtMost(up[m], Last)
                         /\ \A j \in m + 1 .. MaxBackups : Below(files[j], up[m])
                         /\ \A t \in Threads : Below(up[m], drained[t])
           U == {m \in Nat : m <= MaxBackups => Ordered(m)}
<1>1. MaxBackups \in Nat \ {0} /\ 0 \in 0 .. MaxBackups
  BY LoggerAssumption
<1>2. /\ files \in [0 .. MaxBackups -> Seq(Nat)]
      /\ \A t \in Threads : drained[t] \in Seq(Nat)
  BY DEF TypeOK
<1>3. /\ up \in [0 .. MaxBackups -> Seq(Nat)]
      /\ up[0] = files[0]
      /\ \A i \in 1 .. MaxBackups : up[i] = files[i] \o up[i - 1]
  BY <1>2, ChainDef
<1> HIDE DEF up
<1>4. 0 \in U
  BY <1>1, <1>3 DEF OrderInv
<1>5. ASSUME NEW m \in U PROVE m + 1 \in U
  <2> SUFFICES ASSUME m + 1 <= MaxBackups PROVE Ordered(m + 1)
    <3> HIDE DEF Ordered
    <3> QED
      BY <1>5
  <2>1. m \in Nat /\ m \in 0 .. MaxBackups /\ m + 1 \in 1 .. MaxBackups
        /\ m + 1 \in m + 1 .. MaxBackups /\ (m + 1) - 1 = m
    BY <1>1, <1>5
  <2>2. Ordered(m)
    <3> HIDE DEF Ordered
    <3> QED
      BY <1>1, <1>5, <2>1
  <2>3. up[m + 1] = files[m + 1] \o up[m]
    BY <1>3, <2>1
  <2>4. files[m + 1] \in Seq(Nat) /\ up[m] \in Seq(Nat)
    BY <1>1, <1>2, <1>3, <2>1
  <2>5. /\ Increasing(files[m + 1]) /\ AtMost(files[m + 1], Last)
        /\ \A t \in Threads : Below(files[m + 1], drained[t])
    BY <1>1, <2>1 DEF OrderInv
  <2>6. Increasing(up[m + 1])
    BY <2>1, <2>2, <2>3, <2>4, <2>5, JoinIncreasing
  <2>7. AtMost(up[m + 1], Last)
    BY <2>2, <2>3, <2>4, <2>5, JoinBelow
  <2>8. \A t \in Threads : Below(up[m + 1], drained[t])
    BY <2>2, <2>3, <2>4, <2>5, JoinBelow
  <2>9. ASSUME NEW j \in (m + 1) + 1 .. MaxBackups PROVE Below(files[j], up[m + 1])
    <3>1. j \in m + 1 .. MaxBackups /\ j \in 0 .. MaxBackups /\ m + 1 < j
      BY <1>1, <2>1
    <3>2. Below(files[j], up[m])
      BY <2>2, <3>1
    <3>3. Below(files[j], files[m + 1])
      BY <1>1, <2>1, <3>1 DEF OrderInv
    <3> QED
      BY <2>3, <2>4, <3>2, <3>3, JoinBelow
  <2> QED
    BY <2>6, <2>7, <2>8, <2>9
<1>6. \A m \in Nat : m <= MaxBackups => Ordered(m)
  <2> HIDE DEF Ordered
  <2>1. U \subseteq Nat
    OBVIOUS
  <2>2. U = Nat
    <3> HIDE DEF U
    <3> QED
      BY <1>4, <1>5, <2>1, SetInduction
  <2> QED
    BY <2>2
<1>7. Ordered(MaxBackups)
  <2> HIDE DEF Ordered
  <2> QED
    BY <1>1, <1>6
<1>8. Retained = up[MaxBackups] /\ up[MaxBackups] \in Seq(Nat)
  BY <1>1, <1>3, RetainedChain DEF up
<1> QED
  BY <1>7, <1>8

LEMMA OrderHolds == IInv /\ OrderInv => OrderPreserved
<1> SUFFICES ASSUME IInv, OrderInv
             PROVE  Increasing(Retained \o drained["flusher"] \o drained["stopper"] \o Pending)
  BY DEF OrderPreserved
<1> DEFINE df == drained["flusher"]
           ds == drained["stopper"]
           s1 == Retained \o df
           s2 == s1 \o ds
<1>1. TypeOK /\ RingInv /\ df \in Seq(Nat) /\ ds \in Seq(Nat)
  BY DEF IInv, TypeOK, Threads
<1>2. /\ Retained \in Seq(Nat)
      /\ Increasing(Retained) /\ AtMost(Retained, Last)
      /\ Below(Retained, df) /\ Below(Retained, ds)
  BY <1>1, ChainOrder DEF Threads
<1>3. Increasing(df) /\ AtMost(df, Last) /\ Increasing(ds) /\ AtMost(ds, Last)
  BY DEF OrderInv, Threads
<1>4. Below(df, ds)
  <2>1. df = <<>> \/ ds = <<>>
    BY DEF IInv, ThreadInv, Threads
  <2> QED
    BY <2>1, EmptyOrder
<1> HIDE DEF df, ds
<1>5. s1 \in Seq(Nat) /\ Increasing(s1) /\ AtMost(s1, Last) /\ Below(s1, ds)
  BY <1>1, <1>2, <1>3, <1>4, JoinIncreasing, JoinBelow
<1> HIDE DEF s1
<1>6. s2 \in Seq(Nat) /\ Increasing(s2) /\ AtMost(s2, Last)
  BY <1>1, <1>3, <1>5, JoinIncreasing, JoinBelow
<1> HIDE DEF s2
<1>7. /\ Pending \in Seq(Nat) /\ DOMAIN Pending = 1 .. count
      /\ \A x \in 1 .. count : Pending[x] = Last + x
      /\ count \in Nat /\ Last \in Int
  BY <1>1, PendingSeq DEF Last, TypeOK
<1>8. Increasing(Pending)
  BY <1>7 DEF Increasing
<1>9. Below(s2, Pending)
  <2>1. \A x \in DOMAIN s2 : s2[x] \in Nat /\ s2[x] <= Last
    BY <1>6, NatElements DEF AtMost
  <2> QED
    BY <1>7, <2>1 DEF Below
<1>10. Increasing(s2 \o Pending)
  BY <1>6, <1>7, <1>8, <1>9, JoinIncreasing
<1> QED
  BY <1>10 DEF s2, s1, df, ds

(* Nothing is reordered or duplicated on its way from the ring to the      *)
(* oldest backup, whatever is drained, dropped or fails to be renamed      *)
(* meanwhile (flush_pending, write_entries, rotate_if_needed).             *)
THEOREM OrderIsKept == Spec => []OrderPreserved
<1>1. Spec => [](IInv /\ OrderInv)
  BY Invariance, InitOrder, NextOrder, PTL DEF Spec
<1> QED
  BY <1>1, OrderHolds, PTL

-----------------------------------------------------------------------------

LEMMA JoinAssociative ==
    ASSUME NEW s \in Seq(Nat), NEW t \in Seq(Nat), NEW u \in Seq(Nat)
    PROVE  (s \o t) \o u = s \o (t \o u)
BY SMTT(20)

(* Appending to the log file appends to the chain of files.                *)
LEMMA AppendChain ==
    ASSUME NEW fs \in [0 .. MaxBackups -> Seq(Nat)], NEW gs \in [0 .. MaxBackups -> Seq(Nat)],
           NEW lines \in Seq(Nat),
           gs[0] = fs[0] \o lines, \A i \in 1 .. MaxBackups : gs[i] = fs[i]
    PROVE  Chain(gs)[MaxBackups] = Chain(fs)[MaxBackups] \o lines
<1> DEFINE up == Chain(fs)
           to == Chain(gs)
           U == {m \in Nat : m <= MaxBackups => to[m] = up[m] \o lines}
<1>1. MaxBackups \in Nat
  BY LoggerAssumption
<1>2. /\ up \in [0 .. MaxBackups -> Seq(Nat)] /\ up[0] = fs[0]
      /\ \A i \in 1 .. MaxBackups : up[i] = fs[i] \o up[i - 1]
  BY ChainDef
<1>3. /\ to[0] = gs[0]
      /\ \A i \in 1 .. MaxBackups : to[i] = gs[i] \o to[i - 1]
  BY ChainDef
<1> HIDE DEF up, to
<1>4. 0 \in U
  BY <1>2, <1>3
<1>5. ASSUME NEW m \in U PROVE m + 1 \in U
  <2> SUFFICES ASSUME m + 1 <= MaxBackups PROVE to[m + 1] = up[m + 1] \o lines
    BY <1>5
  <2>1. /\ m + 1 \in 1 .. MaxBackups /\ (m + 1) - 1 = m
        /\ m \in 0 .. MaxBackups /\ m + 1 \in 0 .. MaxBackups
        /\ to[m] = up[m] \o lines
    BY <1>1, <1>5
  <2>2. to[m + 1] = gs[m + 1] \o to[m] /\ up[m + 1] = fs[m + 1] \o up[m]
    BY <1>2, <1>3, <2>1
  <2>3. gs[m + 1] = fs[m + 1] /\ fs[m + 1] \in Seq(Nat) /\ up[m] \in Seq(Nat)
    BY <1>2, <2>1
  <2>4. (fs[m + 1] \o up[m]) \o lines = fs[m + 1] \o (up[m] \o lines)
    BY <2>3, JoinAssociative
  <2> QED
    BY <2>1, <2>2, <2>3, <2>4, Zenon
<1>6. U = Nat
  <2>1. U \subseteq Nat
    OBVIOUS
  <2> HIDE DEF U
  <2> QED
    BY <1>4, <1>5, <2>1, SetInduction
<1>7. \A m \in Nat : m <= MaxBackups => to[m] = up[m] \o lines
  BY <1>6
<1>8. to[MaxBackups] = up[MaxBackups] \o lines
  BY <1>1, <1>7
<1> QED
  BY <1>8, SMTT(20) DEF up, to

(* Moving every file to the next name drops the oldest.                    *)
LEMMA ShiftChain ==
    ASSUME NEW fs \in [0 .. MaxBackups -> Seq(Nat)], NEW gs \in [0 .. MaxBackups -> Seq(Nat)],
           gs[0] = <<>>, \A i \in 1 .. MaxBackups : gs[i] = fs[i - 1]
    PROVE  Chain(fs)[MaxBackups] = fs[MaxBackups] \o Chain(gs)[MaxBackups]
<1> DEFINE up == Chain(fs)
           to == Chain(gs)
           U == {m \in Nat : m + 1 <= MaxBackups => to[m + 1] = up[m]}
<1>1. MaxBackups \in Nat \ {0}
  BY LoggerAssumption
<1>2. /\ up \in [0 .. MaxBackups -> Seq(Nat)] /\ up[0] = fs[0]
      /\ \A i \in 1 .. MaxBackups : up[i] = fs[i] \o up[i - 1]
  BY ChainDef
<1>3. /\ to[0] = gs[0]
      /\ \A i \in 1 .. MaxBackups : to[i] = gs[i] \o to[i - 1]
  BY ChainDef
<1> HIDE DEF up, to
<1>4. 0 \in U
  <2>1. 1 \in 1 .. MaxBackups /\ 0 \in 0 .. MaxBackups /\ 1 - 1 = 0
    BY <1>1
  <2>2. to[1] = fs[0] \o <<>> /\ fs[0] \in Seq(Nat)
    BY <1>3, <2>1
  <2>3. to[0 + 1] = up[0]
    BY <1>2, <2>2, ConcatEmptySeq
  <2> QED
    BY <2>3
<1>5. ASSUME NEW m \in U PROVE m + 1 \in U
  <2> SUFFICES ASSUME (m + 1) + 1 <= MaxBackups PROVE to[(m + 1) + 1] = up[m + 1]
    BY <1>5
  <2>1. /\ (m + 1) + 1 \in 1 .. MaxBackups /\ ((m + 1) + 1) - 1 = m + 1
        /\ m + 1 \in 1 .. MaxBackups /\ (m + 1) - 1 = m
        /\ to[m + 1] = up[m]
    BY <1>1, <1>5
  <2>2. to[(m + 1) + 1] = gs[(m + 1) + 1] \o to[m + 1]
    BY <1>3, <2>1
  <2>3. gs[(m + 1) + 1] = fs[m + 1]
    BY <2>1
  <2>4. up[m + 1] = fs[m + 1] \o up[m]
    BY <1>2, <2>1
  <2> QED
    BY <2>1, <2>2, <2>3, <2>4
<1>6. U = Nat
  <2>1. U \subseteq Nat
    OBVIOUS
  <2> HIDE DEF U
  <2> QED
    BY <1>4, <1>5, <2>1, SetInduction
<1>7. \A m \in Nat : m + 1 <= MaxBackups => to[m + 1] = up[m]
  BY <1>6
<1>8. /\ MaxBackups - 1 \in Nat /\ (MaxBackups - 1) + 1 = MaxBackups
      /\ MaxBackups \in 1 .. MaxBackups
  BY <1>1
<1>9. to[MaxBackups] = up[MaxBackups - 1]
  <2>1. (MaxBackups - 1) + 1 <= MaxBackups
    BY <1>1
  <2>2. to[(MaxBackups - 1) + 1] = up[MaxBackups - 1]
    BY <1>7, <1>8, <2>1
  <2> QED
    BY <1>8, <2>2
<1> QED
  BY <1>2, <1>8, <1>9 DEF up, to

LEMMA Product == ASSUME NEW m \in Nat, NEW e \in Nat
                 PROVE  m * e \in Nat /\ (m + 1) * e = m * e + e /\ 0 * e = 0
  OBVIOUS

(* Full files make a long chain.                                           *)
LEMMA FullChain ==
    ASSUME NEW fs \in [0 .. MaxBackups -> Seq(Nat)],
           \A i \in 0 .. MaxBackups : Len(fs[i]) >= MaxFileEntries
    PROVE  Len(Chain(fs)[MaxBackups]) >= Len(fs[MaxBackups]) + MaxBackups * MaxFileEntries
<1> DEFINE up == Chain(fs)
           Long(m) == Len(up[m]) >= Len(fs[m]) + m * MaxFileEntries
           U == {m \in Nat : m <= MaxBackups => Long(m)}
<1>1. MaxBackups \in Nat /\ MaxFileEntries \in Nat
  BY LoggerAssumption
<1>2. /\ up \in [0 .. MaxBackups -> Seq(Nat)] /\ up[0] = fs[0]
      /\ \A i \in 1 .. MaxBackups : up[i] = fs[i] \o up[i - 1]
  BY ChainDef
<1> HIDE DEF up
<1>3. 0 \in U
  <2>1. 0 \in 0 .. MaxBackups /\ Len(fs[0]) \in Nat
    BY <1>1
  <2> QED
    BY <1>1, <1>2, <2>1, Product
<1>4. ASSUME NEW m \in U PROVE m + 1 \in U
  <2> SUFFICES ASSUME m + 1 <= MaxBackups PROVE Long(m + 1)
    <3> HIDE DEF Long
    <3> QED
      BY <1>4
  <2>1. /\ m \in Nat /\ m + 1 \in 1 .. MaxBackups /\ (m + 1) - 1 = m
        /\ m \in 0 .. MaxBackups /\ m + 1 \in 0 .. MaxBackups
    BY <1>1, <1>4
  <2>2. Long(m)
    <3> HIDE DEF Long
    <3> QED
      BY <1>1, <1>4, <2>1
  <2>3. up[m + 1] = fs[m + 1] \o up[m]
    BY <1>2, <2>1
  <2>4. up[m] \in Seq(Nat) /\ fs[m] \in Seq(Nat) /\ fs[m + 1] \in Seq(Nat)
    BY <1>2, <2>1
  <2>5. Len(up[m + 1]) = Len(fs[m + 1]) + Len(up[m])
    BY <2>3, <2>4
  <2>6. Len(up[m]) \in Nat /\ Len(fs[m]) \in Nat /\ Len(fs[m + 1]) \in Nat
    BY <2>4
  <2>7. Len(fs[m]) >= MaxFileEntries
    BY <2>1
  <2>8. m * MaxFileEntries \in Nat /\ (m + 1) * MaxFileEntries = m * MaxFileEntries + MaxFileEntries
    BY <1>1, <2>1, Product
  <2> DEFINE l1 == Len(up[m + 1])
             l  == Len(up[m])
             f1 == Len(fs[m + 1])
             f  == Len(fs[m])
             p  == m * MaxFileEntries
             q  == (m + 1) * MaxFileEntries
  <2>9. /\ l1 = f1 + l /\ f >= MaxFileEntries /\ q = p + MaxFileEntries
        /\ l \in Nat /\ f \in Nat /\ f1 \in Nat /\ p \in Nat
    BY <2>5, <2>6, <2>7, <2>8
  <2>10. l >= f + p
    BY <2>2
  <2> HIDE DEF l1, l, f1, f, p, q
  <2>11. l1 >= f1 + q
    BY <1>1, <2>9, <2>10
  <2> QED
    BY <2>11 DEF l1, f1, q
<1>5. \A m \in Nat : m <= MaxBackups => Long(m)
  <2>1. U \subseteq Nat
    OBVIOUS
  <2>2. U = Nat
    <3> HIDE DEF U
    <3> QED
      BY <1>3, <1>4, <2>1, SetInduction
  <2> HIDE DEF Long
  <2> QED
    BY <2>2
<1> QED
  BY <1>1, <1>5 DEF up

-----------------------------------------------------------------------------

LEMMA EndAppend ==
    ASSUME NEW s \in Seq(Nat), NEW t \in Seq(Nat), NEW u \in Seq(Nat), EndOf(s, t)
    PROVE  EndOf(s \o u, t \o u)
<1> DEFINE n == Len(s)
           k == Len(t)
           l == Len(u)
<1>1. n \in Nat /\ k \in Nat /\ l \in Nat /\ n <= k /\ \A i \in 1 .. n : s[i] = t[k - n + i]
  BY DEF EndOf
<1>2. /\ Len(s \o u) = n + l /\ Len(t \o u) = k + l
      /\ \A i \in 1 .. n + l : (s \o u)[i] = IF i <= n THEN s[i] ELSE u[i - n]
      /\ \A i \in 1 .. k + l : (t \o u)[i] = IF i <= k THEN t[i] ELSE u[i - k]
  OBVIOUS
<1> DEFINE a == s \o u
           b == t \o u
<1> HIDE DEF n, k, l, a, b
<1>3. ASSUME NEW i \in 1 .. n + l PROVE a[i] = b[((k + l) - (n + l)) + i]
  <2>1. ((k + l) - (n + l)) + i = (k - n) + i /\ (k - n) + i \in 1 .. k + l
    BY <1>1
  <2>2. CASE i <= n
    <3>1. (k - n) + i <= k /\ i \in 1 .. n
      BY <1>1, <2>2
    <3>2. b[(k - n) + i] = t[(k - n) + i]
      BY <1>2, <2>1, <3>1 DEF b
    <3>3. a[i] = s[i]
      BY <1>2, <2>2 DEF a
    <3> QED
      BY <1>1, <2>1, <3>1, <3>2, <3>3
  <2>3. CASE ~ (i <= n)
    <3>1. ~ ((k - n) + i <= k) /\ ((k - n) + i) - k = i - n
      BY <1>1, <2>3
    <3>2. b[(k - n) + i] = u[((k - n) + i) - k]
      BY <1>2, <2>1, <3>1 DEF b
    <3>3. a[i] = u[i - n]
      BY <1>2, <2>3 DEF a
    <3> QED
      BY <2>1, <3>1, <3>2, <3>3
  <2> QED
    BY <2>2, <2>3
<1>4. n + l <= k + l /\ Len(a) = n + l /\ Len(b) = k + l
  BY <1>1, <1>2 DEF a, b
<1>5. EndOf(a, b)
  BY <1>3, <1>4 DEF EndOf
<1> QED
  BY <1>5 DEF a, b

LEMMA EndOfEnd ==
    ASSUME NEW s \in Seq(Nat), NEW t \in Seq(Nat), NEW u \in Seq(Nat), EndOf(s \o t, u)
    PROVE  EndOf(t, u)
<1> DEFINE n == Len(s)
           k == Len(t)
           l == Len(u)
           a == s \o t
<1>1. n \in Nat /\ k \in Nat /\ l \in Nat /\ Len(a) = n + k
  OBVIOUS
<1>2. \A i \in 1 .. n + k : a[i] = IF i <= n THEN s[i] ELSE t[i - n]
  OBVIOUS
<1>3. n + k <= l /\ \A i \in 1 .. n + k : a[i] = u[(l - (n + k)) + i]
  <2>1. Len(a) <= l /\ \A i \in 1 .. Len(a) : a[i] = u[(l - Len(a)) + i]
    BY DEF EndOf
  <2> HIDE DEF n, k, l, a
  <2> QED
    BY <1>1, <2>1
<1> HIDE DEF n, k, l, a
<1>4. ASSUME NEW i \in 1 .. k PROVE t[i] = u[(l - k) + i]
  <2>1. /\ n + i \in 1 .. n + k /\ ~ (n + i <= n) /\ (n + i) - n = i
        /\ (l - (n + k)) + (n + i) = (l - k) + i
    BY <1>1
  <2>2. a[n + i] = t[i]
    BY <1>2, <2>1
  <2> QED
    BY <1>3, <2>1, <2>2
<1>5. k <= l
  BY <1>1, <1>3
<1> QED
  BY <1>4, <1>5 DEF EndOf, k, l

LEMMA EndIsSubSeq ==
    ASSUME NEW s \in Seq(Nat), NEW t \in Seq(Nat), EndOf(s, t)
    PROVE  s = SubSeq(t, Len(t) - Len(s) + 1, Len(t))
<1> DEFINE n == Len(s)
           k == Len(t)
           first == (k - n) + 1
           e == SubSeq(t, first, k)
<1>1. n \in Nat /\ k \in Nat /\ n <= k /\ \A i \in 1 .. n : s[i] = t[(k - n) + i]
  BY DEF EndOf
<1>2. first \in 1 .. k + 1 /\ (k - first) + 1 = n
  BY <1>1
<1>3. /\ e \in Seq(Nat) /\ Len(e) = n
      /\ \A i \in 1 .. n : e[i] = t[(first + i) - 1]
  <2>1. \A i \in first .. k : t[i] \in Nat
    BY <1>2
  <2>2. e = [i \in 1 .. (k - first) + 1 |-> t[(first + i) - 1]]
    OBVIOUS
  <2> HIDE DEF first, e, k, n
  <2>3. e = [i \in 1 .. n |-> t[(first + i) - 1]]
    BY <1>2, <2>2
  <2>4. \A i \in 1 .. n : (first + i) - 1 \in first .. k
    BY <1>1, <1>2
  <2>5. e \in [1 .. n -> Nat]
    BY <2>1, <2>3, <2>4
  <2> QED
    BY <1>1, <2>3, <2>5
<1>4. \A i \in 1 .. n : e[i] = s[i]
  <2>1. \A i \in 1 .. n : (first + i) - 1 = (k - n) + i
    BY <1>1
  <2> HIDE DEF first, e, k, n
  <2> QED
    BY <1>1, <1>3, <2>1
<1> HIDE DEF e, first
<1>5. s = e
  BY <1>3, <1>4, SeqEqual
<1> QED
  BY <1>5 DEF e, first

LEMMA InitKept == Init => KeptInv
<1> SUFFICES ASSUME Init PROVE KeptInv
  OBVIOUS
<1>1. MaxBackups \in Nat /\ MaxBackups \in 0 .. MaxBackups
  BY LoggerAssumption
<1>2. /\ \A i \in 0 .. MaxBackups : files[i] = <<>>
      /\ files \in [0 .. MaxBackups -> Seq(Nat)]
      /\ written = <<>>
  BY DEF Init
<1>3. Retained = <<>>
  <2> DEFINE up == Chain(files)
             U == {m \in Nat : m <= MaxBackups => up[m] = <<>>}
  <2>1. /\ up[0] = files[0]
        /\ \A i \in 1 .. MaxBackups : up[i] = files[i] \o up[i - 1]
    BY <1>2, ChainDef
  <2> HIDE DEF up
  <2>2. 0 \in U
    BY <1>1, <1>2, <2>1
  <2>3. ASSUME NEW m \in U PROVE m + 1 \in U
    <3> SUFFICES ASSUME m + 1 <= MaxBackups PROVE up[m + 1] = <<>>
      BY <2>3
    <3>1. m + 1 \in 1 .. MaxBackups /\ m + 1 \in 0 .. MaxBackups /\ (m + 1) - 1 = m /\ up[m] = <<>>
      BY <1>1, <2>3
    <3>2. up[m + 1] = <<>> \o <<>>
      BY <1>2, <2>1, <3>1
    <3> QED
      BY <3>2
  <2>4. U = Nat
    <3>1. U \subseteq Nat
      OBVIOUS
    <3> HIDE DEF U
    <3> QED
      BY <2>2, <2>3, <3>1, SetInduction
  <2>5. \A m \in Nat : m <= MaxBackups => up[m] = <<>>
    BY <2>4
  <2> QED
    BY <1>1, <2>5, RetainedChain DEF up
<1>4. EndOf(Retained, written) /\ Len(Retained) = Len(written)
  BY <1>2, <1>3 DEF EndOf
<1> QED
  BY <1>2, <1>4 DEF KeptInv

LEMMA RetainedSeq == TypeOK => Retained \in Seq(Nat)
<1> SUFFICES ASSUME TypeOK PROVE Retained \in Seq(Nat)
  OBVIOUS
<1>1. files \in [0 .. MaxBackups -> Seq(Nat)] /\ MaxBackups \in 0 .. MaxBackups
  BY LoggerAssumption DEF TypeOK
<1> QED
  BY <1>1, ChainDef, RetainedChain

LEMMA KeptSame == KeptInv /\ UNCHANGED <<files, written, faulted>> => KeptInv'
<1> SUFFICES ASSUME KeptInv, UNCHANGED <<files, written, faulted>> PROVE KeptInv'
  OBVIOUS
<1>1. Retained' = Retained
  BY RetainedChain
<1> QED
  BY <1>1 DEF KeptInv, EndOf

LEMMA WriteKept ==
    ASSUME IInv, IInv', KeptInv, NEW t \in Threads, Write(t)
    PROVE  KeptInv'
<1> SUFFICES ASSUME ~ faulted' PROVE KeptInv'
  BY DEF KeptInv
<1>1. PICK arrived \in 0 .. Len(drained[t]) :
         /\ files' = [files EXCEPT ![0] = @ \o SubSeq(drained[t], 1, arrived)]
         /\ written' = written \o SubSeq(drained[t], 1, arrived)
         /\ faulted' = (faulted \/ arrived < Len(drained[t]))
  BY DEF Write
<1> DEFINE lines == SubSeq(drained[t], 1, arrived)
<1>2. /\ files \in [0 .. MaxBackups -> Seq(Nat)] /\ files' \in [0 .. MaxBackups -> Seq(Nat)]
      /\ written \in Seq(Nat) /\ drained[t] \in Seq(Nat)
  BY DEF IInv, TypeOK
<1>3. lines \in Seq(Nat)
  <2>1. drained[t] \in Seq(Nat)
    BY <1>2
  <2> QED
    BY <2>1, PrefixOrder
<1>4. MaxBackups \in Nat /\ 0 \in 0 .. MaxBackups
  BY LoggerAssumption
<1>5. /\ files'[0] = files[0] \o lines
      /\ \A i \in 1 .. MaxBackups : files'[i] = files[i]
  <2> HIDE DEF lines
  <2>1. files' = [files EXCEPT ![0] = files[0] \o lines]
    BY <1>1 DEF lines
  <2>2. files \in [0 .. MaxBackups -> Seq(Nat)]
    BY <1>2
  <2> QED
    BY <1>4, <2>1, <2>2
<1>6. ~ faulted /\ written' = written \o lines
  BY <1>1
<1> HIDE DEF lines
<1>7. Retained' = Retained \o lines
  BY <1>2, <1>3, <1>5, AppendChain, RetainedChain
<1>8. Retained \in Seq(Nat)
  BY RetainedSeq DEF IInv
<1>9. EndOf(Retained', written')
  BY <1>2, <1>3, <1>6, <1>7, <1>8, EndAppend DEF KeptInv
<1>10. /\ Len(Retained') = Len(Retained) + Len(lines)
       /\ Len(written') = Len(written) + Len(lines)
       /\ Len(Retained) \in Nat /\ Len(lines) \in Nat /\ Len(written) \in Nat
  BY <1>2, <1>3, <1>6, <1>7, <1>8
<1>11. MaxBackups * MaxFileEntries \in Nat
  BY LoggerAssumption, Product
<1>12. Len(Retained') = Len(written') \/ Len(Retained') >= MaxBackups * MaxFileEntries
  <2>1. CASE Len(Retained) = Len(written)
    BY <1>10, <2>1
  <2>2. CASE Len(Retained) >= MaxBackups * MaxFileEntries
    BY <1>10, <1>11, <2>2
  <2> QED
    BY <1>6, <2>1, <2>2 DEF KeptInv
<1>13. ASSUME NEW i \in 1 .. MaxBackups, files'[i] # <<>>
       PROVE  Len(files'[i]) >= MaxFileEntries /\ \A j \in 1 .. i : files'[j] # <<>>
  <2>1. \A j \in 1 .. i : j \in 1 .. MaxBackups
    BY <1>4
  <2> QED
    BY <1>5, <1>6, <1>13, <2>1 DEF KeptInv
<1> QED
  BY <1>9, <1>12, <1>13 DEF KeptInv

LEMMA RotateKept ==
    ASSUME IInv, IInv', KeptInv, NEW t \in Threads, Rotate(t)
    PROVE  KeptInv'
<1>1. written' = written
  BY DEF Rotate
<1>2. CASE UNCHANGED <<files, faulted>>
  BY <1>1, <1>2, KeptSame
<1>3. ASSUME Len(files[0]) >= MaxFileEntries, files' = Rotated({}), ~ faulted
      PROVE  KeptInv'
  <2>1. /\ files \in [0 .. MaxBackups -> Seq(Nat)] /\ files' \in [0 .. MaxBackups -> Seq(Nat)]
        /\ written \in Seq(Nat)
    BY DEF IInv, TypeOK
  <2>2. MaxBackups \in Nat \ {0} /\ MaxFileEntries \in Nat \ {0} /\ 0 \in 0 .. MaxBackups
    BY LoggerAssumption
  <2>3. files[0] # <<>> /\ files[0] \in Seq(Nat)
    BY <1>3, <2>1, <2>2
  <2>4. /\ \A i \in 1 .. MaxBackups :
              files[i] # <<>> => /\ Len(files[i]) >= MaxFileEntries
                                 /\ \A j \in 1 .. i : files[j] # <<>>
        /\ EndOf(Retained, written)
        /\ Len(Retained) = Len(written) \/ Len(Retained) >= MaxBackups * MaxFileEntries
    BY <1>3 DEF KeptInv
  <2>5. files'[0] = <<>>
    <3>1. ~ Moves(0, {}) /\ Moves(0 + 1, {})
      BY <2>2, <2>3 DEF Moves
    <3> QED
      BY <1>3, <2>2, <3>1 DEF Rotated
  <2>6. ASSUME NEW i \in 1 .. MaxBackups PROVE files'[i] = files[i - 1]
    <3>1. i \in 0 .. MaxBackups /\ i - 1 \in 0 .. MaxBackups
      BY <2>2
    <3>2. CASE Moves(i, {})
      BY <1>3, <3>1, <3>2 DEF Rotated
    <3>3. CASE ~ Moves(i, {})
      <4>1. files[i - 1] = <<>>
        BY <3>3 DEF Moves
      <4>2. i - 1 \in 1 .. i /\ i \in 1 .. i
        BY <2>3, <3>1, <4>1
      <4>3. files[i] = <<>>
        BY <2>4, <4>1, <4>2
      <4> QED
        BY <1>3, <3>1, <3>3, <4>1, <4>3 DEF Rotated
    <3> QED
      BY <3>2, <3>3
  <2>7. ASSUME NEW i \in 1 .. MaxBackups, files'[i] # <<>>
        PROVE  Len(files'[i]) >= MaxFileEntries /\ \A j \in 1 .. i : files'[j] # <<>>
    <3>1. CASE i = 1
      <4>1. files'[1] = files[0]
        BY <2>6, <3>1
      <4>2. \A j \in 1 .. 1 : j = 1
        OBVIOUS
      <4> QED
        BY <1>3, <2>3, <3>1, <4>1, <4>2
    <3>2. CASE i # 1
      <4>1. i - 1 \in 1 .. MaxBackups /\ files'[i] = files[i - 1]
        BY <2>2, <2>6, <3>2
      <4>2. Len(files'[i]) >= MaxFileEntries /\ \A j \in 1 .. i - 1 : files[j] # <<>>
        BY <2>4, <2>7, <4>1
      <4>3. ASSUME NEW j \in 1 .. i PROVE files'[j] # <<>>
        <5>1. j \in 1 .. MaxBackups /\ (j = 1 \/ j - 1 \in 1 .. i - 1)
          BY <2>2
        <5>2. files'[j] = files[j - 1]
          BY <2>6, <5>1
        <5>3. CASE j = 1
          BY <2>3, <5>2, <5>3
        <5>4. CASE j - 1 \in 1 .. i - 1
          BY <4>2, <5>2, <5>4
        <5> QED
          BY <5>1, <5>3, <5>4
      <4> QED
        BY <4>2, <4>3
    <3> QED
      BY <3>1, <3>2
  <2>8. Retained = files[MaxBackups] \o Retained'
    BY <2>1, <2>5, <2>6, ShiftChain, RetainedChain
  <2>9. /\ Retained \in Seq(Nat) /\ Retained' \in Seq(Nat)
        /\ files[MaxBackups] \in Seq(Nat) /\ MaxBackups \in 1 .. MaxBackups
    <3>1. (TypeOK => Retained \in Seq(Nat))'
      BY RetainedSeq, PTL
    <3> QED
      BY <2>1, <2>2, <3>1, RetainedSeq DEF IInv
  <2>10. EndOf(Retained', written')
    BY <1>1, <2>1, <2>4, <2>8, <2>9, EndOfEnd
  <2>11. /\ Len(Retained) = Len(files[MaxBackups]) + Len(Retained')
         /\ Len(files[MaxBackups]) \in Nat /\ Len(Retained') \in Nat
    BY <2>8, <2>9
  <2>12. Len(Retained') = Len(written') \/ Len(Retained') >= MaxBackups * MaxFileEntries
    <3>1. CASE files[MaxBackups] = <<>>
      <4>1. Len(Retained') = Len(Retained)
        BY <2>11, <3>1
      <4> QED
        BY <1>1, <2>4, <4>1
    <3>2. CASE files[MaxBackups] # <<>>
      <4>1. \A i \in 1 .. MaxBackups : Len(files[i]) >= MaxFileEntries
        BY <2>4, <2>9, <3>2
      <4>2. \A i \in 0 .. MaxBackups : i = 0 \/ i \in 1 .. MaxBackups
        OBVIOUS
      <4>3. \A i \in 0 .. MaxBackups : Len(files[i]) >= MaxFileEntries
        BY <1>3, <4>1, <4>2
      <4>4. Len(Retained) >= Len(files[MaxBackups]) + MaxBackups * MaxFileEntries
        BY <2>1, <4>3, FullChain, RetainedChain
      <4> DEFINE p == MaxBackups * MaxFileEntries
      <4>5. p \in Nat /\ Len(Retained) >= Len(files[MaxBackups]) + p
        BY <2>2, <4>4, Product
      <4> HIDE DEF p
      <4>6. Len(Retained') >= p
        BY <2>11, <4>5
      <4> QED
        BY <4>6 DEF p
    <3> QED
      BY <3>1, <3>2
  <2> QED
    BY <2>7, <2>10, <2>12 DEF KeptInv
<1>4. CASE Len(files[0]) >= MaxFileEntries
  <2>1. PICK failed : files' = Rotated(failed) /\ faulted' = (faulted \/ failed # {})
    BY <1>4 DEF Rotate
  <2>2. CASE faulted'
    BY <2>2 DEF KeptInv
  <2>3. CASE ~ faulted'
    <3>1. failed = {} /\ ~ faulted
      BY <2>1, <2>3
    <3> QED
      BY <1>3, <1>4, <2>1, <3>1
  <2> QED
    BY <2>2, <2>3
<1> QED
  BY <1>2, <1>4 DEF Rotate

LEMMA NextKept == IInv /\ IInv' /\ KeptInv /\ [Next]_vars => KeptInv'
<1> SUFFICES ASSUME IInv, IInv', KeptInv, [Next]_vars PROVE KeptInv'
  OBVIOUS
<1>1. CASE Log \/ Start \/ BeginStop \/ Join \/ CheckStop \/ UNCHANGED vars
  <2>1. UNCHANGED <<files, written, faulted>>
    BY <1>1 DEF Log, Start, BeginStop, Join, CheckStop, vars, diskVars
  <2> QED
    BY <2>1, KeptSame
<1>2. ASSUME NEW t \in Threads, Drain(t) PROVE KeptInv'
  <2>1. UNCHANGED <<files, written, faulted>>
    BY <1>2 DEF Drain, diskVars
  <2> QED
    BY <2>1, KeptSame
<1>3. ASSUME NEW t \in Threads, FlushPending(t) PROVE KeptInv'
  BY <1>2, <1>3, WriteKept, RotateKept DEF FlushPending
<1> QED
  BY <1>1, <1>3 DEF Next, FlushStep, StopStep, Threads

(* While the disk works, the log file and its backups are the end of what  *)
(* was written, and what has been discarded is older than MaxBackups full  *)
(* files (write_entries, rotate_if_needed).                                *)
THEOREM NewestAreKept == Spec => []RotationKeepsNewest
<1>1. Spec => [](IInv /\ KeptInv)
  BY Invariance, InitKept, NextKept, PTL DEF Spec
<1>2. IInv /\ KeptInv => RotationKeepsNewest
  <2> SUFFICES ASSUME IInv, KeptInv, ~ faulted
               PROVE  /\ Len(Retained) <= Len(written)
                      /\ Retained = SubSeq(written, Len(written) - Len(Retained) + 1,
                                           Len(written))
                      /\ \/ Len(Retained) = Len(written)
                         \/ Len(Retained) >= MaxBackups * MaxFileEntries
    BY DEF RotationKeepsNewest
  <2>1. Retained \in Seq(Nat) /\ written \in Seq(Nat)
    BY RetainedSeq DEF IInv, TypeOK
  <2>2. EndOf(Retained, written)
    BY DEF KeptInv
  <2>3. Retained = SubSeq(written, Len(written) - Len(Retained) + 1, Len(written))
    BY <2>1, <2>2, EndIsSubSeq
  <2> QED
    BY <2>2, <2>3 DEF KeptInv, EndOf
<1> QED
  BY <1>1, <1>2, PTL

=============================================================================
