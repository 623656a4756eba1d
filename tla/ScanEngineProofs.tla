---------------------------- MODULE ScanEngineProofs ----------------------------
(***************************************************************************)
(* Proofs about ScanEngine, for every size of the memory map, every period *)
(* and every set of documents; and about InputPath, the driver it scans.   *)
(***************************************************************************)
EXTENDS ScanEngineRefinement, ProgramScan, ScanTiming, InputPath, SequenceTheorems, WellFoundedInduction, TLAPS

(* Sequences: an element, the domain, and how to build one.               *)
LEMMA SeqElement ==
    ASSUME NEW S, NEW s \in Seq(S), NEW i \in DOMAIN s
    PROVE  s[i] \in S
OBVIOUS

LEMMA SeqDomain ==
    ASSUME NEW S, NEW s \in Seq(S)
    PROVE  DOMAIN s = 1 .. Len(s) /\ Len(s) \in Nat
OBVIOUS

LEMMA SeqIntro ==
    ASSUME NEW S, NEW n \in Nat, NEW f \in [1 .. n -> S]
    PROVE  f \in Seq(S)
OBVIOUS

(* What the parser guarantees about a signal: it names a bit of the memory *)
(* map, and an output never names one of %I (parse_signal_ref).            *)
LEMMA AcceptedSignal ==
    ASSUME NEW s \in Signal, NEW allow \in BOOLEAN, SignalAccepted(s, allow)
    PROVE  /\ BitOf(s) \in Bits
           /\ ~ allow => BitOf(s) \notin BitsOf("I")
<1>1. AreaSize(s.area) \in Nat
  BY SizesAssumption DEF SignalAccepted, AreaSize, Areas
<1>2. /\ s.byte \in 0 .. AreaSize(s.area) - 1
      /\ s.bit \in 0 .. BitsPerByte - 1
      /\ s.area \in Areas
  BY <1>1, SizesAssumption DEF SignalAccepted, Signal
<1>3. BitOf(s) \in BitsOf(s.area)
  BY <1>2 DEF BitOf, BitsOf
<1>4. BitOf(s) \in Bits
  BY <1>2, <1>3 DEF Bits
<1>5. ~ allow => BitOf(s) \notin BitsOf("I")
  BY DEF SignalAccepted, BitOf, BitsOf
<1> QED
  BY <1>4, <1>5

(* A program in which no rule can leave the memory map or write to %I.     *)
InRange(p) ==
    \A r \in DOMAIN p.rules :
        /\ BitOf(p.rules[r].output) \in Bits \ BitsOf("I")
        /\ p.rules[r].condition # <<>>
        /\ \A i \in DOMAIN p.rules[r].condition :
              LET n == p.rules[r].condition[i]
              IN  /\ n.type = "INPUT" => BitOf(n.ref) \in Bits
                  /\ n.type # "INPUT" => n.inputs # <<>>

(* The rules of a program, one by one.                                     *)
LEMMA RuleParts ==
    ASSUME NEW rules \in Rules, NEW r \in DOMAIN rules
    PROVE  /\ rules[r].output \in Signal
           /\ rules[r].condition \in Seq(Node)
           /\ \A i \in DOMAIN rules[r].condition : rules[r].condition[i] \in Node
<1>1. rules[r] \in Rule
  BY SeqElement DEF Rules
<1>2. rules[r].output \in Signal /\ rules[r].condition \in Seq(Node)
  BY <1>1 DEF Rule, Condition
<1> QED
  BY <1>2, SeqElement

(* What from_json builds is a program, with a counter for every node, and  *)
(* one that keeps within the memory map.                                   *)
LEMMA ParsedProgram ==
    ASSUME NEW doc \in Document, Accepted(doc)
    PROVE  NewProgram(doc) \in Program /\ InRange(NewProgram(doc))
<1> DEFINE p == NewProgram(doc)
           Zeros(r) == [i \in DOMAIN doc.rules[r].condition |-> 0]
<1>1. /\ p = [rules |-> doc.rules, elapsed |-> [r \in DOMAIN doc.rules |-> Zeros(r)]]
      /\ doc.rules \in Rules
  BY DEF NewProgram, Document
<1>2. ASSUME NEW r \in DOMAIN doc.rules
      PROVE  Zeros(r) \in Seq(Nat)
  <2>1. DOMAIN doc.rules[r].condition = 1 .. Len(doc.rules[r].condition)
        /\ Len(doc.rules[r].condition) \in Nat
    BY <1>1, <1>2, RuleParts, SeqDomain
  <2>2. Zeros(r) \in [1 .. Len(doc.rules[r].condition) -> Nat]
    BY <2>1
  <2> QED
    BY <2>1, <2>2, SeqIntro
<1>3. p.elapsed \in Seq(Seq(Nat))
  <2> DEFINE e == [r \in DOMAIN doc.rules |-> Zeros(r)]
  <2>1. DOMAIN doc.rules = 1 .. Len(doc.rules) /\ Len(doc.rules) \in Nat
    BY <1>1, SeqDomain DEF Rules
  <2> HIDE DEF Zeros
  <2>2. e \in [1 .. Len(doc.rules) -> Seq(Nat)]
    BY <1>2, <2>1
  <2>3. e \in Seq(Seq(Nat))
    BY <2>1, <2>2, SeqIntro
  <2> QED
    BY <1>1, <2>3
<1>4. p \in Program
  <2>1. p \in [rules : Rules, elapsed : Seq(Seq(Nat))]
    BY <1>1, <1>3
  <2>2. /\ DOMAIN p.elapsed = DOMAIN p.rules
        /\ \A r \in DOMAIN p.rules : DOMAIN p.elapsed[r] = DOMAIN p.rules[r].condition
    BY <1>1
  <2> QED
    BY <2>1, <2>2 DEF Program
<1>5. ASSUME NEW r \in DOMAIN doc.rules
      PROVE  /\ BitOf(doc.rules[r].output) \in Bits \ BitsOf("I")
             /\ doc.rules[r].condition # <<>>
             /\ \A i \in DOMAIN doc.rules[r].condition :
                   NodeAccepted(doc.rules[r].condition[i])
  <2>1. RuleAccepted(doc.rules[r])
    BY <1>5 DEF Accepted
  <2>2. doc.rules[r].output \in Signal
    BY <1>1, <1>5, RuleParts
  <2>3. SignalAccepted(doc.rules[r].output, FALSE)
    BY <2>1 DEF RuleAccepted
  <2>4. BitOf(doc.rules[r].output) \in Bits \ BitsOf("I")
    BY <2>2, <2>3, AcceptedSignal
  <2> QED
    BY <2>1, <2>4 DEF RuleAccepted
<1>6. ASSUME NEW n \in Node, NodeAccepted(n)
      PROVE  /\ n.type = "INPUT" => BitOf(n.ref) \in Bits
             /\ n.type # "INPUT" => n.inputs # <<>>
  <2>1. n.ref \in Signal /\ n.inputs \in Seq(Nat)
    BY DEF Node
  <2>2. ASSUME n.type = "INPUT" PROVE BitOf(n.ref) \in Bits
    <3>1. SignalAccepted(n.ref, TRUE)
      BY <1>6, <2>2 DEF NodeAccepted
    <3> QED
      BY <2>1, <3>1, AcceptedSignal
  <2>3. ASSUME n.type # "INPUT" PROVE n.inputs # <<>>
    <3>1. n.inputs # <<>> \/ Len(n.inputs) = 1
      BY <1>6, <2>3 DEF NodeAccepted
    <3>2. n.inputs = <<>> => Len(n.inputs) = 0
      OBVIOUS
    <3> QED
      BY <3>1, <3>2
  <2> QED
    BY <2>2, <2>3
<1>7. InRange(p)
  <2>1. \A r \in DOMAIN doc.rules : \A i \in DOMAIN doc.rules[r].condition :
            doc.rules[r].condition[i] \in Node
    BY <1>1, RuleParts
  <2>2. p.rules = doc.rules
    BY <1>1
  <2> HIDE DEF p
  <2> QED
    BY <1>5, <1>6, <2>1, <2>2 DEF InRange
<1> QED
  BY <1>4, <1>7

(* A rule leaves a program's rules and the shape of its timers alone...     *)
LEMMA TimersStep ==
    ASSUME NEW p \in Program, NEW r \in DOMAIN p.rules, NEW m
    PROVE  /\ ProgramAfterRule(p, r, m) \in Program
           /\ ProgramAfterRule(p, r, m).rules = p.rules
<1> DEFINE condition == p.rules[r].condition
           counts == p.elapsed[r]
           q == ProgramAfterRule(p, r, m)
<1>1. /\ p.rules \in Rules
      /\ p.elapsed \in Seq(Seq(Nat))
      /\ DOMAIN p.elapsed = DOMAIN p.rules
      /\ \A k \in DOMAIN p.rules : DOMAIN p.elapsed[k] = DOMAIN p.rules[k].condition
      /\ p = [rules |-> p.rules, elapsed |-> p.elapsed]
  BY DEF Program
<1>2. /\ condition \in Seq(Node)
      /\ counts \in Seq(Nat)
      /\ DOMAIN counts = DOMAIN condition
  BY <1>1, RuleParts, SeqElement
<1>3. /\ Ticked(condition, counts, m) \in Seq(Nat)
      /\ DOMAIN Ticked(condition, counts, m) = DOMAIN condition
  <2> DEFINE v == Values(condition, counts, m)
             New(i) == IF condition[i].type = "TON_TIMER" /\ v[condition[i].inputs[1]]
                       THEN IF Expired(condition[i], counts[i])
                            THEN counts[i] ELSE counts[i] + 1
                       ELSE 0
  <2>1. Ticked(condition, counts, m) = [i \in DOMAIN condition |-> New(i)]
    BY DEF Ticked
  <2>2. ASSUME NEW i \in DOMAIN condition PROVE New(i) \in Nat
    <3>1. counts[i] \in Nat
      BY <1>2, <2>2, SeqElement
    <3> QED
      BY <3>1
  <2>3. DOMAIN condition = 1 .. Len(condition) /\ Len(condition) \in Nat
    BY <1>2, SeqDomain
  <2> HIDE DEF New
  <2>4. [i \in DOMAIN condition |-> New(i)] \in [1 .. Len(condition) -> Nat]
    BY <2>2, <2>3
  <2> QED
    BY <2>1, <2>3, <2>4, SeqIntro
<1>4. /\ q.rules = p.rules
      /\ q.elapsed = [p.elapsed EXCEPT ![r] = Ticked(condition, counts, m)]
      /\ q \in [rules : {q.rules}, elapsed : {q.elapsed}]
  BY <1>1 DEF ProgramAfterRule
<1>5. q.elapsed \in Seq(Seq(Nat)) /\ DOMAIN q.elapsed = DOMAIN p.elapsed
  BY <1>1, <1>3, <1>4, SMTT(30)
<1>6. \A k \in DOMAIN q.rules : DOMAIN q.elapsed[k] = DOMAIN q.rules[k].condition
  BY <1>1, <1>3, <1>4
<1>7. q \in Program
  BY <1>1, <1>4, <1>5, <1>6 DEF Program
<1> QED
  BY <1>4, <1>7

(* ... and writes no bit but its output.                                   *)
LEMMA RuleStep ==
    ASSUME NEW p \in Program, InRange(p), NEW r \in DOMAIN p.rules,
           NEW m \in SUBSET Bits
    PROVE  /\ ProgramAfterRule(p, r, m) \in Program
           /\ ProgramAfterRule(p, r, m).rules = p.rules
           /\ MemoryAfterRule(p, r, m) \subseteq Bits
           /\ MemoryAfterRule(p, r, m) \cap BitsOf("I") = m \cap BitsOf("I")
<1>1. BitOf(p.rules[r].output) \in Bits \ BitsOf("I")
  BY DEF InRange
<1>2. /\ MemoryAfterRule(p, r, m) \subseteq Bits
      /\ MemoryAfterRule(p, r, m) \cap BitsOf("I") = m \cap BitsOf("I")
  BY <1>1 DEF MemoryAfterRule, WriteBit
<1> QED
  BY <1>2, TimersStep

-----------------------------------------------------------------------------

(* The inductive invariant.  ReferencesInRange is what makes the rules of  *)
(* a program that was accepted long ago safe to run now; ThreadInv ties    *)
(* the control thread's progress through stop() to the scan thread's life. *)
ThreadInv ==
    /\ OneScanThread
    /\ control # "idle" => (~ isRunning /\ ThreadExists)
    /\ scan = "executing" => local # NoProgram

IInv == TypeOK /\ ReferencesInRange /\ ThreadInv

LEMMA InitIInv == Init => IInv
<1> SUFFICES ASSUME Init PROVE IInv
  OBVIOUS
<1>1. current # NoProgram => current \in Program /\ InRange(current)
  BY ParsedProgram, DocumentsAssumption DEF Init
<1>2. TypeOK
  <2>1. current \in Program \cup {NoProgram} /\ local \in Program \cup {NoProgram}
    BY <1>1 DEF Init
  <2>2. copied \in 0 .. InputSize
    BY SizesAssumption DEF Init
  <2>3. rule \in Nat \ {0}
    BY DEF Init
  <2> QED
    BY <2>1, <2>2, <2>3, Zenon DEF Init, TypeOK
<1>3. ReferencesInRange
  BY <1>1 DEF Init, ReferencesInRange, LivePrograms, InRange
<1>4. ThreadInv
  BY DEF Init, ThreadInv, OneScanThread, ThreadExists
<1> QED
  BY <1>2, <1>3, <1>4 DEF IInv

(* Every live program is in range, in the form the steps use.              *)
LEMMA LiveInRange ==
    ReferencesInRange <=> /\ current # NoProgram => InRange(current)
                          /\ local # NoProgram => InRange(local)
BY DEF ReferencesInRange, LivePrograms, InRange

LEMMA LiveInRangeNext ==
    ReferencesInRange' <=> /\ current' # NoProgram => InRange(current')
                           /\ local' # NoProgram => InRange(local')
BY DEF ReferencesInRange, LivePrograms, InRange

(* Each step keeps the three parts of the invariant.  Only three steps     *)
(* touch what ReferencesInRange is about: a rule, the fetch and a reload.   *)
LEMMA NextIInv == IInv /\ [Next]_vars => IInv'
<1> SUFFICES ASSUME IInv, [Next]_vars PROVE IInv'
  OBVIOUS
<1> USE DEF IInv
<1>1. CASE Start
  <2>1. TypeOK'
    BY <1>1 DEF Start, TypeOK, runtimeVars
  <2>2. ReferencesInRange'
    BY <1>1, LiveInRange, LiveInRangeNext DEF Start, runtimeVars
  <2>3. ThreadInv'
    BY <1>1 DEF Start, ThreadInv, OneScanThread, ThreadExists, runtimeVars
  <2> QED
    BY <2>1, <2>2, <2>3
<1>2. CASE StopRunning
  <2>1. TypeOK'
    BY <1>2 DEF StopRunning, TypeOK, runtimeVars
  <2>2. ReferencesInRange'
    BY <1>2, LiveInRange, LiveInRangeNext DEF StopRunning, runtimeVars
  <2>3. ThreadInv'
    BY <1>2 DEF StopRunning, ThreadInv, OneScanThread, ThreadExists, runtimeVars
  <2> QED
    BY <2>1, <2>2, <2>3
<1>3. CASE RequestStop
  <2>1. TypeOK'
    BY <1>3 DEF RequestStop, TypeOK, runtimeVars
  <2>2. ReferencesInRange'
    BY <1>3, LiveInRange, LiveInRangeNext DEF RequestStop, runtimeVars
  <2>3. ThreadInv'
    BY <1>3 DEF RequestStop, ThreadInv, OneScanThread, ThreadExists, runtimeVars
  <2> QED
    BY <2>1, <2>2, <2>3
<1>4. CASE Join
  <2>1. TypeOK'
    BY <1>4 DEF Join, TypeOK, runtimeVars
  <2>2. ReferencesInRange'
    BY <1>4, LiveInRange, LiveInRangeNext DEF Join, runtimeVars
  <2>3. ThreadInv'
    BY <1>4 DEF Join, ThreadInv, OneScanThread, ThreadExists, runtimeVars
  <2> QED
    BY <2>1, <2>2, <2>3
<1>5. CASE CheckStop
  <2>1. TypeOK'
    BY <1>5, SizesAssumption DEF CheckStop, TypeOK, controlVars, runtimeVars
  <2>2. ReferencesInRange'
    BY <1>5, LiveInRange, LiveInRangeNext DEF CheckStop, runtimeVars
  <2>3. ThreadInv'
    BY <1>5 DEF CheckStop, ThreadInv, OneScanThread, ThreadExists, controlVars, runtimeVars
  <2> QED
    BY <2>1, <2>2, <2>3
<1>6. CASE ReadInputByte
  <2>1. ByteOf("I", copied) \subseteq Bits
    <3>1. copied \in 0 .. AreaSize("I") - 1
      BY <1>6, SizesAssumption DEF ReadInputByte, TypeOK, AreaSize
    <3> QED
      BY <3>1 DEF ByteOf, Bits, BitsOf, Areas
  <2>2. memory' \subseteq Bits /\ copied' \in 0 .. InputSize
    BY <1>6, <2>1, SizesAssumption DEF ReadInputByte, TypeOK
  <2>3. TypeOK'
    BY <1>6, <2>2 DEF ReadInputByte, TypeOK, controlVars, runtimeVars
  <2>4. ReferencesInRange'
    BY <1>6, LiveInRange, LiveInRangeNext DEF ReadInputByte, runtimeVars
  <2>5. ThreadInv'
    BY <1>6 DEF ReadInputByte, ThreadInv, OneScanThread, ThreadExists, controlVars, runtimeVars
  <2> QED
    BY <2>3, <2>4, <2>5
<1>7. CASE FetchProgram
  <2>1. TypeOK'
    BY <1>7 DEF FetchProgram, TypeOK, controlVars
  <2>2. ReferencesInRange'
    BY <1>7, LiveInRange, LiveInRangeNext DEF FetchProgram
  <2>3. ThreadInv'
    BY <1>7 DEF FetchProgram, ThreadInv, OneScanThread, ThreadExists, controlVars
  <2> QED
    BY <2>1, <2>2, <2>3
<1>8. CASE ExecuteRule
  <2>1. /\ local \in Program
        /\ InRange(local)
        /\ rule \in DOMAIN local.rules
        /\ memory \in SUBSET Bits
    <3>1. local \in Program /\ InRange(local)
      BY <1>8, LiveInRange DEF ExecuteRule, TypeOK, ThreadInv
    <3>2. DOMAIN local.rules = 1 .. Len(local.rules) /\ Len(local.rules) \in Nat
      BY <3>1, SeqDomain DEF Program, Rules
    <3> QED
      BY <1>8, <3>1, <3>2 DEF ExecuteRule, TypeOK
  <2>2. /\ local' \in Program
        /\ local'.rules = local.rules
        /\ memory' \subseteq Bits
    BY <1>8, <2>1, RuleStep DEF ExecuteRule
  <2>3. InRange(local')
    BY <2>1, <2>2 DEF InRange
  <2>4. current' = local' \/ current' = current
    BY <1>8 DEF ExecuteRule
  <2>5. rule' \in Nat \ {0}
    BY <1>8 DEF ExecuteRule, TypeOK
  <2>6. TypeOK'
    BY <1>8, <2>2, <2>4, <2>5 DEF ExecuteRule, TypeOK, controlVars
  <2>7. ReferencesInRange'
    BY <2>3, <2>4, LiveInRange, LiveInRangeNext
  <2>8. ThreadInv'
    BY <1>8, <2>2, DocumentsAssumption
       DEF ExecuteRule, ThreadInv, OneScanThread, ThreadExists, controlVars
  <2> QED
    BY <2>6, <2>7, <2>8
<1>9. CASE FinishProgram
  <2>1. TypeOK'
    BY <1>9 DEF FinishProgram, TypeOK, controlVars
  <2>2. ReferencesInRange'
    BY <1>9, LiveInRange, LiveInRangeNext DEF FinishProgram
  <2>3. ThreadInv'
    BY <1>9 DEF FinishProgram, ThreadInv, OneScanThread, ThreadExists, controlVars
  <2> QED
    BY <2>1, <2>2, <2>3
<1>10. CASE WriteOutputs
  <2>1. TypeOK'
    BY <1>10 DEF WriteOutputs, TypeOK, controlVars, runtimeVars
  <2>2. ReferencesInRange'
    BY <1>10, LiveInRange, LiveInRangeNext DEF WriteOutputs, runtimeVars
  <2>3. ThreadInv'
    BY <1>10 DEF WriteOutputs, ThreadInv, OneScanThread, ThreadExists, controlVars, runtimeVars
  <2> QED
    BY <2>1, <2>2, <2>3
<1>11. CASE Reload
  <2>1. PICK doc \in Documents :
          /\ IF Accepted(doc)
             THEN current' = NewProgram(doc) /\ aliased' = FALSE
             ELSE UNCHANGED <<current, aliased>>
          /\ UNCHANGED <<controlVars, scan, copied, rule, memory, mockInputs, published, local>>
    BY <1>11 DEF Reload
  <2>2. current' = current \/ (current' \in Program /\ InRange(current'))
    BY <2>1, ParsedProgram, DocumentsAssumption
  <2>3. aliased' \in BOOLEAN
    BY <2>1 DEF TypeOK
  <2>4. TypeOK'
    BY <2>1, <2>2, <2>3 DEF TypeOK, controlVars
  <2>5. ReferencesInRange'
    BY <2>1, <2>2, LiveInRange, LiveInRangeNext
  <2>6. ThreadInv'
    BY <2>1 DEF ThreadInv, OneScanThread, ThreadExists, controlVars
  <2> QED
    BY <2>4, <2>5, <2>6
<1>12. CASE SetInput
  <2>1. PICK byte \in 0 .. InputSize - 1 : \E value \in SUBSET ByteOf("I", byte) :
          /\ mockInputs' = (mockInputs \ ByteOf("I", byte)) \cup value
          /\ UNCHANGED <<controlVars, scan, copied, rule, memory, published, runtimeVars>>
    BY <1>12 DEF SetInput
  <2>2. ByteOf("I", byte) \subseteq BitsOf("I")
    BY DEF ByteOf, BitsOf, AreaSize
  <2>3. mockInputs' \subseteq BitsOf("I")
    BY <2>1, <2>2 DEF TypeOK
  <2>4. TypeOK'
    BY <2>1, <2>3 DEF TypeOK, controlVars, runtimeVars
  <2>5. ReferencesInRange'
    BY <2>1, LiveInRange, LiveInRangeNext DEF runtimeVars
  <2>6. ThreadInv'
    BY <2>1 DEF ThreadInv, OneScanThread, ThreadExists, controlVars, runtimeVars
  <2> QED
    BY <2>4, <2>5, <2>6
<1>13. CASE UNCHANGED vars
  <2>1. ReferencesInRange'
    BY <1>13, LiveInRange, LiveInRangeNext DEF vars, runtimeVars
  <2> QED
    BY <1>13, <2>1
       DEF vars, TypeOK, ThreadInv, OneScanThread, ThreadExists, controlVars, runtimeVars
<1> QED
  BY <1>1, <1>2, <1>3, <1>4, <1>5, <1>6, <1>7, <1>8, <1>9, <1>10, <1>11, <1>12, <1>13
     DEF Next, ScanStep, StopStep

-----------------------------------------------------------------------------

(* The strengthening: what is proved inductive holds in every state.       *)
LEMMA Invariance == Spec => []IInv
BY InitIInv, NextIInv, PTL DEF Spec

(* Type correctness: the scan thread's bit arithmetic, the driver's copy   *)
(* and the timers' counters stay within their types (all of ScanEngine).   *)
THEOREM TypeCorrect == Spec => []TypeOK
BY Invariance, PTL DEF IInv

(* Whatever is deployed, and whenever: no reference that MemoryMap would   *)
(* refuse ever reaches the scan thread (parse_signal_ref, validate_bounds). *)
THEOREM NoAccessOutOfRange == Spec => []ReferencesInRange
BY Invariance, PTL DEF IInv

(* start() and stop() never leave or find a second scan thread             *)
(* (AslcEngine::start, AslcEngine::stop).                                  *)
THEOREM ThreadLifecycle == Spec => []OneScanThread
BY Invariance, PTL DEF IInv, ThreadInv

(* The inputs are frozen for the whole of a scan: only read_inputs writes  *)
(* to %I, because no accepted rule can name it as its output.              *)
THEOREM InputsFrozenDuringScan == Spec => InputsFrozen
<1>1. IInv /\ [Next]_vars => [scan # "reading" => InputImage' = InputImage]_vars
  <2> SUFFICES ASSUME IInv, Next, scan # "reading" PROVE InputImage' = InputImage
    BY DEF vars, InputImage
  <2>1. CASE ExecuteRule
    <3>1. local \in Program /\ InRange(local)
      BY <2>1, LiveInRange DEF ExecuteRule, TypeOK, ThreadInv, IInv
    <3>2. DOMAIN local.rules = 1 .. Len(local.rules) /\ Len(local.rules) \in Nat
      BY <3>1, SeqDomain DEF Program, Rules
    <3>3. rule \in DOMAIN local.rules /\ memory \in SUBSET Bits
      BY <2>1, <3>2 DEF ExecuteRule, TypeOK, IInv
    <3>4. memory' \cap BitsOf("I") = memory \cap BitsOf("I")
      BY <2>1, <3>1, <3>3, RuleStep DEF ExecuteRule
    <3> QED
      BY <3>4 DEF InputImage
  <2>2. CASE ~ ExecuteRule
    <3>1. memory' = memory
      BY <2>2 DEF Next, ScanStep, StopStep, Start, StopRunning, RequestStop, Join, CheckStop,
                  ReadInputByte, FetchProgram, FinishProgram, WriteOutputs, Reload, SetInput
    <3> QED
      BY <3>1 DEF InputImage
  <2> QED
    BY <2>1, <2>2
<1> QED
  BY <1>1, Invariance, PTL DEF Spec, InputsFrozen

-----------------------------------------------------------------------------
(* Induction over the rules of a program.                                  *)

LEMMA LessIsWellFounded == IsWellFoundedOn({p \in Nat \X Nat : p[1] < p[2]}, Nat)
BY NatLessThanWellFounded DEF OpToRel

(* A set of numbers that has 0 and every successor has them all.           *)
LEMMA SetInduction ==
    ASSUME NEW T \in SUBSET Nat, 0 \in T, \A n \in T : n + 1 \in T
    PROVE  T = Nat
<1> SUFFICES ASSUME Nat \ T # {} PROVE FALSE
  OBVIOUS
<1>1. PICK x \in Nat \ T :
         \A y \in Nat \ T : ~ (<<y, x>> \in {p \in Nat \X Nat : p[1] < p[2]})
  BY LessIsWellFounded, WFMin
<1>2. x # 0 /\ x - 1 \in Nat /\ x - 1 < x
  BY <1>1
<1>3. x - 1 \notin T
  BY <1>2
<1> QED
  BY <1>1, <1>2, <1>3

(* The recursion of AfterRules has a solution, so that AfterRules is one.  *)
LEMMA AfterRulesDef ==
    ASSUME NEW prog, NEW mem, NEW first \in Nat, Len(prog.rules) \in Nat,
           first <= Len(prog.rules) + 1
    PROVE  AfterRules(prog, mem, first) =
             [r \in first - 1 .. Len(prog.rules) |->
                 IF r = first - 1 THEN [program |-> prog, memory |-> mem]
                 ELSE RunRule(AfterRules(prog, mem, first)[r - 1], r)]
<1> DEFINE a == first - 1
           last == Len(prog.rules)
           start == [program |-> prog, memory |-> mem]
           Solves(f, n) == f = [r \in a .. n |-> IF r = a THEN start ELSE RunRule(f[r - 1], r)]
           T == {k \in Nat : \E f : Solves(f, a + k)}
<1>1. a \in Int /\ last \in Nat /\ last - a \in Nat
  OBVIOUS
<1> HIDE DEF a, last, start
<1>2. 0 \in T
  <2> DEFINE f == [r \in a .. a |-> start]
  <2>1. f = [r \in a .. a |-> IF r = a THEN start ELSE RunRule(f[r - 1], r)]
    BY <1>1
  <2>2. Solves(f, a + 0)
    BY <1>1, <2>1
  <2> QED
    BY <2>2
<1>3. ASSUME NEW k \in T PROVE k + 1 \in T
  <2>1. PICK f : Solves(f, a + k)
    OBVIOUS
  <2> DEFINE n == a + k
             Next1(r) == IF r = a THEN start ELSE RunRule(f[r - 1], r)
             g == [r \in a .. n + 1 |-> Next1(r)]
  <2>2. n \in Int /\ a <= n /\ k \in Nat
    BY <1>1, <1>3
  <2>3. \A r \in a .. n : g[r] = f[r]
    <3>1. \A r \in a .. n : f[r] = Next1(r)
      BY <2>1
    <3>2. \A r \in a .. n : r \in a .. n + 1
      BY <1>1, <2>2
    <3> HIDE DEF Next1, n
    <3> QED
      BY <3>1, <3>2
  <2>4. \A r \in a .. n + 1 : Next1(r) = IF r = a THEN start ELSE RunRule(g[r - 1], r)
    <3> SUFFICES ASSUME NEW r \in a .. n + 1, r # a
                 PROVE  RunRule(f[r - 1], r) = RunRule(g[r - 1], r)
      OBVIOUS
    <3>1. r - 1 \in a .. n
      BY <1>1, <2>2
    <3>2. g[r - 1] = f[r - 1]
      BY <2>3, <3>1
    <3> QED
      BY <3>2
  <2>5. Solves(g, n + 1)
    <3> HIDE DEF Next1, n
    <3>1. g = [r \in a .. n + 1 |-> IF r = a THEN start ELSE RunRule(g[r - 1], r)]
      BY <2>4
    <3> QED
      BY <3>1
  <2>6. n + 1 = a + (k + 1) /\ k + 1 \in Nat
    BY <1>1, <2>2
  <2> QED
    BY <2>5, <2>6
<1>4. T = Nat
  <2>1. T \in SUBSET Nat
    OBVIOUS
  <2> HIDE DEF T
  <2> QED
    BY <1>2, <1>3, <2>1, SetInduction
<1>5. a + (last - a) = last
  BY <1>1
<1>6. \E f : Solves(f, last)
  BY <1>1, <1>4, <1>5
<1>7. AfterRules(prog, mem, first) = CHOOSE f : Solves(f, last)
  BY DEF AfterRules, a, last, start
<1>8. Solves(AfterRules(prog, mem, first), last)
  BY <1>6, <1>7
<1> QED
  BY <1>8 DEF a, last, start

(* After the last rule there is nothing left to run.                       *)
LEMMA NothingLeft ==
    ASSUME NEW prog, NEW mem, Len(prog.rules) \in Nat
    PROVE  Executed(prog, mem, Len(prog.rules) + 1) = [program |-> prog, memory |-> mem]
<1> DEFINE last == Len(prog.rules)
           upTo == AfterRules(prog, mem, last + 1)
           Step(r) == IF r = last + 1 - 1 THEN [program |-> prog, memory |-> mem]
                      ELSE RunRule(upTo[r - 1], r)
<1>1. upTo = [r \in last + 1 - 1 .. last |-> Step(r)]
  BY AfterRulesDef
<1>2. last \in last + 1 - 1 .. last /\ last + 1 - 1 = last
  OBVIOUS
<1> HIDE DEF upTo, last
<1>3. upTo[last] = [program |-> prog, memory |-> mem]
  BY <1>1, <1>2
<1> QED
  BY <1>3 DEF Executed, upTo, last

(* Running the rules from r on is running rule r and then the others.      *)
LEMMA RunFirst ==
    ASSUME NEW prog, NEW mem, Len(prog.rules) \in Nat, NEW r \in 1 .. Len(prog.rules)
    PROVE  Executed(prog, mem, r) =
             Executed(ProgramAfterRule(prog, r, mem), MemoryAfterRule(prog, r, mem), r + 1)
<1> DEFINE last == Len(prog.rules)
           prog2 == ProgramAfterRule(prog, r, mem)
           mem2 == MemoryAfterRule(prog, r, mem)
           f == AfterRules(prog, mem, r)
           g == AfterRules(prog2, mem2, r + 1)
           F(k) == IF k = r - 1 THEN [program |-> prog, memory |-> mem]
                   ELSE RunRule(f[k - 1], k)
           G(k) == IF k = r + 1 - 1 THEN [program |-> prog2, memory |-> mem2]
                   ELSE RunRule(g[k - 1], k)
<1>1. prog2.rules = prog.rules
  BY DEF ProgramAfterRule
<1>2. f = [k \in r - 1 .. last |-> F(k)]
  BY AfterRulesDef
<1>3. Len(prog2.rules) = last
  BY <1>1
<1>4. g = [k \in r + 1 - 1 .. last |-> G(k)]
  <2>1. r + 1 \in Nat /\ r + 1 <= last + 1 /\ last \in Nat
    OBVIOUS
  <2> HIDE DEF prog2, mem2, last
  <2>2. g = [k \in r + 1 - 1 .. Len(prog2.rules) |-> G(k)]
    BY <1>3, <2>1, AfterRulesDef, SMTT(20)
  <2> QED
    BY <1>3, <2>2
<1>5. last \in Nat /\ r \in 1 .. last
  OBVIOUS
<1> HIDE DEF f, g, last
<1>6. f[r - 1] = [program |-> prog, memory |-> mem]
  BY <1>2, <1>5
<1>7. f[r] = [program |-> prog2, memory |-> mem2]
  <2>1. f[r] = RunRule(f[r - 1], r)
    BY <1>2, <1>5
  <2> QED
    BY <1>6, <2>1 DEF RunRule
<1>8. g[r] = [program |-> prog2, memory |-> mem2]
  BY <1>4, <1>5
<1> HIDE DEF prog2, mem2
<1> DEFINE T == {n \in Nat : r + n \in r .. last => f[r + n] = g[r + n]}
<1>9. 0 \in T
  BY <1>5, <1>7, <1>8
<1>10. ASSUME NEW n \in T PROVE n + 1 \in T
  <2> SUFFICES ASSUME r + (n + 1) \in r .. last PROVE f[r + (n + 1)] = g[r + (n + 1)]
    OBVIOUS
  <2> DEFINE k == r + (n + 1)
  <2>1. n \in Nat /\ r + n \in r .. last /\ k - 1 = r + n /\ k \in r + 1 .. last
    BY <1>5
  <2>2. f[k - 1] = g[k - 1]
    BY <2>1
  <2> HIDE DEF k
  <2>3. f[k] = RunRule(f[k - 1], k)
    BY <1>2, <1>5, <2>1
  <2>4. g[k] = RunRule(g[k - 1], k)
    BY <1>4, <1>5, <2>1
  <2>5. f[k] = g[k]
    BY <2>2, <2>3, <2>4
  <2> QED
    BY <2>5 DEF k
<1>11. T = Nat
  <2>1. T \in SUBSET Nat
    OBVIOUS
  <2> HIDE DEF T
  <2> QED
    BY <1>9, <1>10, <2>1, SetInduction
<1>12. f[last] = g[last]
  <2>1. last - r \in Nat /\ r + (last - r) = last /\ last \in r .. last
    BY <1>5
  <2>2. last - r \in T
    BY <1>11, <2>1
  <2> QED
    BY <2>1, <2>2
<1>13. Executed(prog, mem, r) = f[last]
  BY DEF Executed, f, last
<1>14. Executed(prog2, mem2, r + 1) = g[last]
  <2>1. Executed(prog2, mem2, r + 1) = g[Len(prog2.rules)]
    BY DEF Executed, g
  <2> QED
    BY <1>3, <2>1
<1> QED
  BY <1>12, <1>13, <1>14 DEF prog2, mem2

(* AtomicScan runs the same rules: its copies of the operators of          *)
(* LogicInterpreter are those operators.                                   *)
LEMMA SameOperators ==
    /\ \A area : Atomic!BitsOf(area) = BitsOf(area)
    /\ \A doc : Atomic!Accepted(doc) <=> Accepted(doc)
    /\ \A doc : Atomic!NewProgram(doc) = NewProgram(doc)
    /\ \A prog, mem, first : Atomic!Executed(prog, mem, first) = Executed(prog, mem, first)
<1>1. \A area : Atomic!BitsOf(area) = BitsOf(area)
  BY DEF Atomic!BitsOf, BitsOf, Atomic!AreaSize, AreaSize
<1>2. \A doc : Atomic!Accepted(doc) <=> Accepted(doc)
  BY DEF Atomic!Accepted, Accepted, Atomic!RuleAccepted, RuleAccepted, Atomic!NodeAccepted,
         NodeAccepted, Atomic!SignalAccepted, SignalAccepted, Atomic!AreaSize, AreaSize,
         Atomic!Areas, Areas
<1>3. \A doc : Atomic!NewProgram(doc) = NewProgram(doc)
  BY DEF Atomic!NewProgram, NewProgram
<1>4. \A c, n, m : Atomic!Values(c, n, m) = Values(c, n, m)
  <2>1. \A c, n, m, val, i : Atomic!NodeValue(c, n, m, val, i) = NodeValue(c, n, m, val, i)
    BY DEF Atomic!NodeValue, NodeValue, Atomic!BitOf, BitOf, Atomic!Expired, Expired
  <2> QED
    BY <2>1 DEF Atomic!Values, Values
<1>5. \A c, n, m : Atomic!Ticked(c, n, m) = Ticked(c, n, m)
  BY <1>4 DEF Atomic!Ticked, Ticked, Atomic!Expired, Expired
<1>6. \A s, r : Atomic!RunRule(s, r) = RunRule(s, r)
  BY <1>4, <1>5
     DEF Atomic!RunRule, RunRule, Atomic!ProgramAfterRule, ProgramAfterRule,
         Atomic!MemoryAfterRule, MemoryAfterRule, Atomic!WriteBit, WriteBit, Atomic!BitOf, BitOf
<1>7. \A p, m, first : Atomic!AfterRules(p, m, first) = AfterRules(p, m, first)
  BY <1>6 DEF Atomic!AfterRules, AfterRules
<1>8. \A p, m, first : Atomic!Executed(p, m, first) = Executed(p, m, first)
  BY <1>7 DEF Atomic!Executed, Executed
<1> QED
  BY <1>1, <1>2, <1>3, <1>8

-----------------------------------------------------------------------------
(* The refinement of AtomicScan.                                            *)

(* While a program runs: the rules still to come, and, as long as nothing  *)
(* has replaced it, the program in force is the one that runs.             *)
RunInv ==
    /\ scan = "executing" => rule <= Len(local.rules) + 1
    /\ aliased => current = local

LEMMA InitRunInv == Init => RunInv
BY DEF Init, RunInv

LEMMA LocalRules ==
    ASSUME IInv, scan = "executing"
    PROVE  /\ local \in Program
           /\ local # NoProgram
           /\ Len(local.rules) \in Nat
           /\ DOMAIN local.rules = 1 .. Len(local.rules)
<1>1. local \in Program /\ local # NoProgram
  BY DEF IInv, TypeOK, ThreadInv
<1> QED
  BY <1>1, SeqDomain DEF Program, Rules

LEMMA FetchedRules ==
    ASSUME IInv, current # NoProgram
    PROVE  current \in Program /\ Len(current.rules) \in Nat
<1>1. current \in Program
  BY DEF IInv, TypeOK
<1> QED
  BY <1>1, SeqDomain DEF Program, Rules

LEMMA NextRunInv == IInv /\ RunInv /\ [Next]_vars => RunInv'
<1> SUFFICES ASSUME IInv, RunInv, [Next]_vars PROVE RunInv'
  OBVIOUS
<1>1. CASE ExecuteRule
  <2>1. Len(local.rules) \in Nat /\ rule \in Nat
    BY <1>1, LocalRules DEF ExecuteRule, IInv, TypeOK
  <2>2. local'.rules = local.rules
    BY <1>1 DEF ExecuteRule, ProgramAfterRule
  <2>3. rule' <= Len(local'.rules) + 1
    BY <1>1, <2>1, <2>2 DEF ExecuteRule
  <2>4. aliased' => current' = local'
    BY <1>1 DEF ExecuteRule
  <2> QED
    BY <2>3, <2>4 DEF RunInv
<1>2. CASE FetchProgram
  <2>1. current # NoProgram => 1 <= Len(current.rules) + 1
    BY FetchedRules
  <2> QED
    BY <1>2, <2>1 DEF FetchProgram, RunInv
<1>3. CASE FinishProgram
  BY <1>3 DEF FinishProgram, RunInv
<1>4. CASE Reload
  BY <1>4 DEF Reload, RunInv, controlVars
<1>5. CASE Start
  BY <1>5 DEF Start, RunInv, runtimeVars
<1>6. CASE StopRunning \/ RequestStop \/ Join
  BY <1>6 DEF StopRunning, RequestStop, Join, RunInv, runtimeVars
<1>7. CASE CheckStop \/ ReadInputByte \/ WriteOutputs
  BY <1>7 DEF CheckStop, ReadInputByte, WriteOutputs, RunInv, runtimeVars
<1>8. CASE SetInput
  BY <1>8 DEF SetInput, RunInv, runtimeVars
<1>9. CASE UNCHANGED vars
  BY <1>9 DEF vars, RunInv, runtimeVars
<1> QED
  BY <1>1, <1>2, <1>3, <1>4, <1>5, <1>6, <1>7, <1>8, <1>9 DEF Next, ScanStep, StopStep

(* What the abstract memory and program are, step by step.                 *)
LEMMA AbstractIdle ==
    scan # "executing" => /\ AbstractMemory = memory
                          /\ AbstractProgram = current
BY DEF AbstractMemory, AbstractProgram

LEMMA AbstractIdleNext ==
    scan' # "executing" => /\ AbstractMemory' = memory'
                           /\ AbstractProgram' = current'
BY DEF AbstractMemory, AbstractProgram

LEMMA AbstractRunning ==
    scan = "executing" =>
        /\ AbstractMemory = Executed(local, memory, rule).memory
        /\ AbstractProgram = IF aliased THEN Executed(local, memory, rule).program ELSE current
BY DEF AbstractMemory, AbstractProgram, Remaining

LEMMA AbstractRunningNext ==
    scan' = "executing" =>
        /\ AbstractMemory' = Executed(local', memory', rule').memory
        /\ AbstractProgram' = IF aliased' THEN Executed(local', memory', rule').program
                              ELSE current'
BY DEF AbstractMemory, AbstractProgram, Remaining

abstractVars == <<AbstractMemory, published, AbstractProgram, AbstractStage>>

(* A rule, and the end of a program, change nothing that can be seen.      *)
LEMMA RuleStutters ==
    ASSUME IInv, RunInv, ExecuteRule
    PROVE  UNCHANGED abstractVars
<1>1. scan = "executing" /\ scan' = "executing"
  BY DEF ExecuteRule
<1>2. Len(local.rules) \in Nat /\ rule \in 1 .. Len(local.rules)
  BY <1>1, LocalRules DEF ExecuteRule, IInv, TypeOK
<1>3. Executed(local', memory', rule') = Executed(local, memory, rule)
  BY <1>2, RunFirst DEF ExecuteRule
<1>4. AbstractMemory' = AbstractMemory
  BY <1>1, <1>3, AbstractRunning, AbstractRunningNext
<1>5. AbstractProgram' = AbstractProgram
  BY <1>1, <1>3, AbstractRunning, AbstractRunningNext DEF ExecuteRule
<1>6. published' = published /\ AbstractStage' = AbstractStage
  BY <1>1 DEF ExecuteRule, AbstractStage
<1> QED
  BY <1>4, <1>5, <1>6 DEF abstractVars

LEMMA FinishStutters ==
    ASSUME IInv, RunInv, FinishProgram
    PROVE  UNCHANGED abstractVars
<1>1. scan = "executing" /\ scan' = "writing"
  BY DEF FinishProgram
<1>2. Len(local.rules) \in Nat /\ rule = Len(local.rules) + 1
  BY <1>1, LocalRules DEF FinishProgram, IInv, TypeOK, RunInv
<1>3. Executed(local, memory, rule) = [program |-> local, memory |-> memory]
  BY <1>2, NothingLeft
<1>4. AbstractMemory' = AbstractMemory
  BY <1>1, <1>3, AbstractRunning, AbstractIdleNext DEF FinishProgram
<1>5. AbstractProgram' = AbstractProgram
  <2>1. AbstractProgram = current
    BY <1>1, <1>3, AbstractRunning DEF RunInv
  <2> QED
    BY <1>1, <2>1, AbstractIdleNext DEF FinishProgram
<1>6. published' = published /\ AbstractStage' = AbstractStage
  BY <1>1 DEF FinishProgram, AbstractStage
<1> QED
  BY <1>4, <1>5, <1>6 DEF abstractVars

(* The fetch is where the abstract scan happens.                           *)
LEMMA FetchExecutes ==
    ASSUME IInv, RunInv, FetchProgram
    PROVE  Atomic!Execute
<1>1. scan = "reading" /\ AbstractStage = "reading" /\ AbstractStage' = "executed"
  BY DEF FetchProgram, AbstractStage
<1>2. AbstractMemory = memory /\ AbstractProgram = current
  BY <1>1, AbstractIdle
<1>3. published' = published
  BY DEF FetchProgram
<1>4. CASE current = NoProgram
  <2>1. scan' = "writing"
    BY <1>4 DEF FetchProgram
  <2>2. AbstractMemory' = memory /\ AbstractProgram' = current
    BY <2>1, AbstractIdleNext DEF FetchProgram
  <2> QED
    BY <1>1, <1>2, <1>3, <1>4, <2>2 DEF Atomic!Execute
<1>5. CASE current # NoProgram
  <2>1. scan' = "executing" /\ aliased' /\ local' = current /\ rule' = 1 /\ memory' = memory
    BY <1>5 DEF FetchProgram
  <2>2. /\ AbstractMemory' = Executed(current, memory, 1).memory
        /\ AbstractProgram' = Executed(current, memory, 1).program
    BY <2>1, AbstractRunningNext
  <2> QED
    BY <1>1, <1>2, <1>3, <1>5, <2>2, SameOperators DEF Atomic!Execute
<1> QED
  BY <1>4, <1>5

LEMMA ReadByteReads ==
    ASSUME IInv, ReadInputByte
    PROVE  Atomic!ReadInputs
<1>1. /\ scan = "reading" /\ scan' = "reading"
      /\ AbstractStage = "reading" /\ AbstractStage' = "reading"
  BY DEF ReadInputByte, AbstractStage
<1>2. /\ AbstractMemory = memory /\ AbstractProgram = current
      /\ AbstractMemory' = memory' /\ AbstractProgram' = current'
  BY <1>1, AbstractIdle, AbstractIdleNext
<1>3. current' = current /\ published' = published
  BY DEF ReadInputByte, runtimeVars
<1>4. ByteOf("I", copied) \subseteq BitsOf("I")
  <2>1. copied \in 0 .. AreaSize("I") - 1
    BY SizesAssumption DEF ReadInputByte, IInv, TypeOK, AreaSize
  <2> QED
    BY <2>1 DEF ByteOf, BitsOf
<1> DEFINE frozen == memory' \cap BitsOf("I")
<1>5. memory' = (memory \ BitsOf("I")) \cup frozen
  BY <1>4 DEF ReadInputByte
<1>6. frozen \in SUBSET BitsOf("I")
  OBVIOUS
<1>7. \E i \in SUBSET BitsOf("I") : memory' = (memory \ BitsOf("I")) \cup i
  BY <1>5, <1>6
<1> QED
  BY <1>1, <1>2, <1>3, <1>7, SameOperators DEF Atomic!ReadInputs

LEMMA ReloadDeploys ==
    ASSUME IInv, RunInv, Reload
    PROVE  Atomic!Deploy \/ UNCHANGED abstractVars
<1>1. PICK doc \in Documents :
        /\ IF Accepted(doc)
           THEN current' = NewProgram(doc) /\ aliased' = FALSE
           ELSE UNCHANGED <<current, aliased>>
        /\ UNCHANGED <<controlVars, scan, copied, rule, memory, mockInputs, published, local>>
  BY DEF Reload
<1>2. AbstractMemory' = AbstractMemory /\ AbstractStage' = AbstractStage /\ published' = published
  BY <1>1 DEF AbstractMemory, AbstractStage, Remaining
<1>3. CASE Accepted(doc)
  <2>1. AbstractProgram' = NewProgram(doc)
    BY <1>1, <1>3 DEF AbstractProgram
  <2>2. \E d \in {d \in Documents : Atomic!Accepted(d)} : AbstractProgram' = Atomic!NewProgram(d)
    BY <1>3, <2>1, SameOperators
  <2> QED
    BY <1>2, <2>2 DEF Atomic!Deploy
<1>4. CASE ~ Accepted(doc)
  <2>1. AbstractProgram' = AbstractProgram
    BY <1>1, <1>4 DEF AbstractProgram, Remaining
  <2> QED
    BY <1>2, <2>1 DEF abstractVars
<1> QED
  BY <1>3, <1>4

LEMMA WritePublishes ==
    ASSUME WriteOutputs
    PROVE  Atomic!Publish
<1>1. /\ scan = "writing" /\ scan' = "head"
      /\ AbstractStage = "executed" /\ AbstractStage' = "reading"
  BY DEF WriteOutputs, AbstractStage
<1>2. /\ AbstractMemory = memory /\ AbstractProgram = current
      /\ AbstractMemory' = memory' /\ AbstractProgram' = current'
  BY <1>1, AbstractIdle, AbstractIdleNext
<1> QED
  BY <1>1, <1>2, SameOperators DEF WriteOutputs, Atomic!Publish, runtimeVars

LEMMA StartInitialises ==
    ASSUME IInv, Start
    PROVE  Atomic!Initialise
<1>1. /\ scan = "none" /\ scan' = "head"
      /\ AbstractStage = "reading" /\ AbstractStage' = "reading"
  BY DEF Start, AbstractStage, IInv, ThreadInv, OneScanThread, ThreadExists
<1>2. /\ AbstractMemory = memory /\ AbstractProgram = current
      /\ AbstractMemory' = memory' /\ AbstractProgram' = current'
  BY <1>1, AbstractIdle, AbstractIdleNext
<1> QED
  BY <1>1, <1>2 DEF Start, Atomic!Initialise, runtimeVars

(* The other steps do not touch what the abstract state is made of.        *)
LEMMA OthersStutter ==
    ASSUME StopRunning \/ RequestStop \/ Join \/ CheckStop \/ SetInput \/ UNCHANGED vars
    PROVE  UNCHANGED abstractVars
<1>1. /\ UNCHANGED <<memory, published, current, local, aliased, rule>>
      /\ \/ scan' = scan
         \/ /\ scan \notin {"executing", "writing"}
            /\ scan' \notin {"executing", "writing"}
  BY DEF StopRunning, RequestStop, Join, CheckStop, SetInput, vars, runtimeVars
<1> QED
  BY <1>1 DEF abstractVars, AbstractMemory, AbstractProgram, AbstractStage, Remaining

LEMMA InitAtomic == Init => Atomic!Init
<1> SUFFICES ASSUME Init PROVE Atomic!Init
  OBVIOUS
<1>1. scan = "none" /\ AbstractStage = "reading"
  BY DEF Init, AbstractStage
<1>2. AbstractMemory = {} /\ published = {} /\ AbstractProgram = current
  BY <1>1, AbstractIdle DEF Init
<1>3. current \in {NoProgram} \cup {NewProgram(d) : d \in {d \in Documents : Accepted(d)}}
  BY DEF Init
<1>4. current \in {NoProgram} \cup
                  {Atomic!NewProgram(d) : d \in {d \in Documents : Atomic!Accepted(d)}}
  BY <1>3, SameOperators
<1> QED
  BY <1>1, <1>2, <1>4 DEF Atomic!Init

LEMMA NextAtomic == IInv /\ RunInv /\ [Next]_vars => [Atomic!Next]_abstractVars
<1> SUFFICES ASSUME IInv, RunInv, [Next]_vars PROVE Atomic!Next \/ UNCHANGED abstractVars
  OBVIOUS
<1>1. CASE Start
  BY <1>1, StartInitialises DEF Atomic!Next
<1>2. CASE ReadInputByte
  BY <1>2, ReadByteReads DEF Atomic!Next
<1>3. CASE FetchProgram
  BY <1>3, FetchExecutes DEF Atomic!Next
<1>4. CASE ExecuteRule
  BY <1>4, RuleStutters
<1>5. CASE FinishProgram
  BY <1>5, FinishStutters
<1>6. CASE WriteOutputs
  BY <1>6, WritePublishes DEF Atomic!Next
<1>7. CASE Reload
  BY <1>7, ReloadDeploys DEF Atomic!Next
<1>8. CASE StopRunning \/ RequestStop \/ Join \/ CheckStop \/ SetInput \/ UNCHANGED vars
  BY <1>8, OthersStutter
<1> QED
  BY <1>1, <1>2, <1>3, <1>4, <1>5, <1>6, <1>7, <1>8 DEF Next, ScanStep, StopStep

(* Every scan is atomic: one program on the inputs it latched, whatever    *)
(* reloads, stops and input changes come while its rules run               *)
(* (LogicRuntime::execute_cycle, AslcEngine::run).                         *)
THEOREM ScansAreAtomic == Spec => ImplementsAtomicScan
<1>1. Spec => [](IInv /\ RunInv)
  BY InitIInv, NextIInv, InitRunInv, NextRunInv, PTL DEF Spec
<1>2. IInv /\ RunInv /\ [Next]_vars => [Atomic!Next]_(Atomic!vars)
  BY NextAtomic DEF abstractVars, Atomic!vars
<1> QED
  BY <1>1, <1>2, InitAtomic, PTL DEF Spec, ImplementsAtomicScan, Atomic!Spec

-----------------------------------------------------------------------------
(***************************************************************************)
(* When the cycles begin.                                                  *)
(***************************************************************************)
TimingTyped ==
    /\ now \in Nat
    /\ now <= Horizon
    /\ phase \in {"stopped", "ready", "scanning", "sleeping"}
    /\ deadline \in Nat
    /\ elapsed \in Nat
    /\ lit \in BOOLEAN
    /\ began \in 0 .. now
    /\ cycles \in Nat
    /\ cycles <= Len(dues)
    /\ dues \in Seq(Int)

\* The deadline is where the cycles of this run have brought it.
DeadlineCounts == deadline = began + cycles * CyclePeriod

\* It is past unless the thread is in a cycle, and then at most one period
\* ahead.
DeadlineNear ==
    IF phase \in {"ready", "stopped"} THEN deadline <= now
                                      ELSE deadline <= now + CyclePeriod

\* Whatever the thread did since, the deadline has moved on by at least one
\* period per cycle.
DueApart ==
    \A k \in 1 .. Len(dues) :
        deadline - dues[k] >= (Len(dues) + 1 - k) * CyclePeriod

\* Every cycle was due in the past.
DuesPast == \A k \in 1 .. Len(dues) : dues[k] \in 0 .. now

\* What the timer has counted are cycles that were begun.
TimerCounts ==
    /\ elapsed <= Len(dues)
    /\ phase = "scanning" => elapsed + 1 <= Len(dues)
    /\ lit => elapsed > 0 /\ elapsed * CyclePeriod >= Preset

TimingInv ==
    /\ TimingTyped
    /\ DeadlineCounts
    /\ DeadlineNear
    /\ DueApart
    /\ DuesPast
    /\ TimerCounts

-----------------------------------------------------------------------------

LEMMA OneMore == ASSUME NEW n \in Int, NEW p \in Int
                 PROVE  /\ (n + 1) * p = n * p + p
                        /\ (n - 1) * p = n * p - p
  OBVIOUS

LEMMA InitTiming == TimingInit => TimingInv
<1> SUFFICES ASSUME TimingInit PROVE TimingInv
  OBVIOUS
<1> USE TimingAssumption DEF TimingAssumption, TimingInit
<1>1. dues \in Seq(Int) /\ Len(dues) = 0
  <2>1. dues = <<>>
    OBVIOUS
  <2> QED  BY <2>1, EmptySeq
<1>2. 0 * CyclePeriod = 0
  OBVIOUS
<1>3. TimingTyped /\ TimerCounts
  <2>1. TimingTyped
    <3>1. dues \in Seq(Int) /\ cycles <= Len(dues)
      BY <1>1
    <3>2. lit \in BOOLEAN
      OBVIOUS
    <3> QED  BY <3>1, <3>2 DEF TimingTyped
  <2>2. ~lit /\ elapsed = 0 /\ phase = "stopped"
    OBVIOUS
  <2> QED  BY <1>1, <2>1, <2>2 DEF TimerCounts
<1>4. DeadlineCounts /\ DeadlineNear
  BY <1>2 DEF DeadlineCounts, DeadlineNear
<1>5. DueApart /\ DuesPast
  BY <1>1 DEF DueApart, DuesPast
<1> QED  BY <1>3, <1>4, <1>5 DEF TimingInv

\* The invariant is inductive.
LEMMA TimingStep == TimingInv /\ [TimingNext]_(timingVars) => TimingInv'
<1> SUFFICES ASSUME TimingInv, [TimingNext]_(timingVars) PROVE TimingInv'
  OBVIOUS
<1> USE TimingAssumption DEF TimingAssumption, TimingInv, TimingTyped, DeadlineCounts, DeadlineNear, TimerCounts
<1>1. CASE Enter
  <2> USE <1>1 DEF Enter, EnterFrom
  <2>1. TimingTyped' /\ DeadlineCounts' /\ DeadlineNear' /\ TimerCounts'
    OBVIOUS
  <2>2. DueApart'
    <3> SUFFICES ASSUME NEW k \in 1 .. Len(dues)
                 PROVE  now - dues[k] >= (Len(dues) + 1 - k) * CyclePeriod
      BY DEF DueApart
    <3>1. dues[k] \in Int
      BY ElementOfSeq
    <3>2. (Len(dues) + 1 - k) * CyclePeriod \in Int
      <4>1. Len(dues) + 1 - k \in Int
        BY LenProperties
      <4> QED  BY <4>1
    <3>3. deadline - dues[k] >= (Len(dues) + 1 - k) * CyclePeriod
      BY DEF DueApart
    <3>4. deadline \in Int /\ now \in Int /\ deadline <= now
      OBVIOUS
    <3> QED  BY <3>1, <3>2, <3>3, <3>4
  <2>3. DuesPast'
    BY DEF DuesPast
  <2> QED  BY <2>1, <2>2, <2>3
<1>2. CASE BeginCycle
  <2> USE <1>2 DEF BeginCycle
  <2>1. deadline \in Int /\ dues' = Append(dues, deadline)
    OBVIOUS
  <2>2. /\ dues' \in Seq(Int)
        /\ Len(dues') = Len(dues) + 1
        /\ dues'[Len(dues) + 1] = deadline
        /\ \A k \in 1 .. Len(dues) : dues'[k] = dues[k]
    BY <2>1, AppendProperties
  <2>3. Len(dues) \in Nat
    BY LenProperties
  <2>4. TimingTyped'
    BY <2>2, <2>3
  <2>5. DeadlineCounts'
    BY OneMore
  <2>6. DeadlineNear' /\ TimerCounts'
    BY <2>2, <2>3
  <2>7. DueApart'
    <3> SUFFICES ASSUME NEW k \in 1 .. Len(dues')
                 PROVE  deadline' - dues'[k] >= (Len(dues') + 1 - k) * CyclePeriod
      BY DEF DueApart
    <3>1. CASE k \in 1 .. Len(dues)
      <4>1. dues[k] \in Int
        BY <3>1, ElementOfSeq
      <4>2. deadline - dues[k] >= (Len(dues) + 1 - k) * CyclePeriod
        BY <3>1 DEF DueApart
      <4>3. (Len(dues') + 1 - k) * CyclePeriod = (Len(dues) + 1 - k) * CyclePeriod + CyclePeriod
        BY <2>2, <2>3, OneMore
      <4>4. (Len(dues) + 1 - k) * CyclePeriod \in Int
        BY <2>3
      <4> QED  BY <2>2, <3>1, <4>1, <4>2, <4>3, <4>4
    <3>2. CASE k = Len(dues) + 1
      <4>1. (Len(dues') + 1 - k) * CyclePeriod = CyclePeriod
        BY <2>2, <2>3, <3>2
      <4> QED  BY <2>2, <3>2, <4>1
    <3> QED  BY <2>2, <2>3, <3>1, <3>2
  <2>8. DuesPast'
    BY <2>2, <2>3 DEF DuesPast
  <2> QED  BY <2>4, <2>5, <2>6, <2>7, <2>8
<1>3. CASE Leave
  BY <1>3 DEF Leave, DueApart, DuesPast
<1>4. CASE EndCycle
  <2> USE <1>4 DEF EndCycle, EndCycleTo, Count
  <2>1. TimingTyped' /\ DeadlineCounts' /\ DeadlineNear'
    OBVIOUS
  <2>2. TimerCounts'
    <3>1. elapsed' \in {0, elapsed + 1}
      OBVIOUS
    <3> QED  BY <3>1, LenProperties
  <2> QED  BY <2>1, <2>2 DEF DueApart, DuesPast
<1>5. CASE Wake
  BY <1>5 DEF Wake, DueApart, DuesPast
<1>6. CASE Elapse
  BY <1>6 DEF Elapse, DueApart, DuesPast
<1>7. CASE UNCHANGED timingVars
  BY <1>7 DEF timingVars, DueApart, DuesPast
<1> QED  BY <1>1, <1>2, <1>3, <1>4, <1>5, <1>6, <1>7 DEF TimingNext

THEOREM TimingInvariant ==
    TimingSpec => []TimingInv
  BY InitTiming, TimingStep, PTL DEF TimingSpec

-----------------------------------------------------------------------------

\* Types, and the engine never sleeps for more than one period
\* (AslcEngine::run).
THEOREM TimingTypeCorrect ==
    TimingSpec => []TimingTypeOK
<1>1. TimingInv => TimingTypeOK
  <2> SUFFICES ASSUME TimingInv PROVE TimingTypeOK
    OBVIOUS
  <2> USE TimingAssumption DEF TimingAssumption, TimingInv, TimingTyped
  <2>1. Len(dues) \in Nat /\ DOMAIN dues = 1 .. Len(dues)
    BY LenProperties
  <2>2. \A k \in DOMAIN dues : dues[k] \in 0 .. now
    BY <2>1 DEF DuesPast
  <2>3. deadline \in 0 .. now + CyclePeriod /\ elapsed \in 0 .. Len(dues) /\ cycles \in 0 .. Len(dues)
    BY <2>1 DEF DeadlineNear, TimerCounts
  <2> QED  BY <2>2, <2>3 DEF TimingTypeOK
<1> QED  BY <1>1, TimingInvariant, PTL

\* The cycles of a run never stand for more time than it has lasted
\* (AslcEngine::run).
THEOREM CyclesWithinTime ==
    TimingSpec => []NoMoreCyclesThanTime
<1>1. TimingInv => NoMoreCyclesThanTime
  <2> SUFFICES ASSUME TimingInv PROVE NoMoreCyclesThanTime
    OBVIOUS
  <2> USE TimingAssumption DEF TimingAssumption, TimingInv, TimingTyped
  <2> QED  BY OneMore DEF NoMoreCyclesThanTime, DeadlineCounts, DeadlineNear
<1> QED  BY <1>1, TimingInvariant, PTL

\* A timer that is on has waited its preset but for one period
\* (TonTimerNode::evaluate under AslcEngine::run).
THEOREM TimersWait ==
    TimingSpec => []TimerWaits
<1>1. TimingInv => TimerWaits
  <2> SUFFICES ASSUME TimingInv, lit, phase # "scanning"
               PROVE  now - dues[Len(dues) - elapsed + 1] >= Preset - CyclePeriod
    BY DEF TimerWaits
  <2> USE TimingAssumption DEF TimingAssumption, TimingInv, TimingTyped
  <2> DEFINE i == Len(dues) - elapsed + 1
  <2>1. Len(dues) \in Nat
    BY LenProperties
  <2>2. i \in 1 .. Len(dues) /\ Len(dues) + 1 - i = elapsed
    BY <2>1 DEF TimerCounts
  <2>3. dues[i] \in Int
    BY <2>2, ElementOfSeq
  <2>4. deadline - dues[i] >= elapsed * CyclePeriod
    BY <2>2 DEF DueApart
  <2>5. elapsed * CyclePeriod >= Preset /\ elapsed * CyclePeriod \in Int
    BY DEF TimerCounts
  <2>6. deadline <= now + CyclePeriod
    BY DEF DeadlineNear
  <2> QED  BY <2>3, <2>4, <2>5, <2>6
<1> QED  BY <1>1, TimingInvariant, PTL

-----------------------------------------------------------------------------
(* Programs over many scans (ProgramScan): what a condition evaluates to,   *)
(* what a scan leaves behind, rule by rule, and what timers count.          *)

(* What the parser guarantees about a condition.                           *)
WellFormed(condition) ==
    /\ condition \in Condition
    /\ condition # <<>>
    /\ \A i \in DOMAIN condition : NodeAccepted(condition[i])

LEMMA ConditionParts ==
    ASSUME NEW condition, WellFormed(condition)
    PROVE  /\ Len(condition) \in Nat /\ Len(condition) >= 1
           /\ DOMAIN condition = 1 .. Len(condition)
           /\ \A i \in DOMAIN condition :
                 /\ condition[i].type \in {"INPUT", "AND", "OR", "NOT", "TON_TIMER"}
                 /\ condition[i].preset \in Int
                 /\ condition[i].type = "TON_TIMER" => condition[i].preset \in Nat
                 /\ condition[i].type \in {"NOT", "TON_TIMER"} => 1 \in DOMAIN condition[i].inputs
                 /\ \A k \in DOMAIN condition[i].inputs : condition[i].inputs[k] \in 1 .. i - 1
<1>1. condition \in Seq(Node)
  BY DEF WellFormed, Condition
<1>2. Len(condition) \in Nat /\ DOMAIN condition = 1 .. Len(condition) /\ Len(condition) # 0
  BY <1>1, SeqDomain, EmptySeq DEF WellFormed
<1>3. ASSUME NEW i \in DOMAIN condition
      PROVE  /\ condition[i].type \in {"INPUT", "AND", "OR", "NOT", "TON_TIMER"}
             /\ condition[i].preset \in Int
             /\ condition[i].type = "TON_TIMER" => condition[i].preset \in Nat
             /\ condition[i].type \in {"NOT", "TON_TIMER"} => 1 \in DOMAIN condition[i].inputs
             /\ \A k \in DOMAIN condition[i].inputs : condition[i].inputs[k] \in 1 .. i - 1
  <2>1. condition[i] \in Node /\ NodeAccepted(condition[i])
    BY <1>1, <1>3, SeqElement DEF WellFormed
  <2>2. condition[i].preset \in Int /\ condition[i].inputs \in Seq(Nat)
    BY <2>1 DEF Node
  <2>3. DOMAIN condition[i].inputs = 1 .. Len(condition[i].inputs)
    BY <2>2, SeqDomain
  <2>4. \A k \in DOMAIN condition[i].inputs : condition[i].inputs[k] \in 1 .. i - 1
    BY <1>3 DEF WellFormed, Condition
  <2>5. condition[i].type \in {"NOT", "TON_TIMER"} => Len(condition[i].inputs) = 1
    BY <2>1 DEF NodeAccepted
  <2>6. condition[i].type \in {"NOT", "TON_TIMER"} => 1 \in DOMAIN condition[i].inputs
    <3>1. 1 \in 1 .. 1
      OBVIOUS
    <3> QED
      BY <2>3, <2>5, <3>1
  <2>7. condition[i].type = "TON_TIMER" => condition[i].preset >= 0
    BY <2>1 DEF NodeAccepted
  <2>8. condition[i].type \in {"INPUT", "AND", "OR", "NOT", "TON_TIMER"}
    BY <2>1 DEF NodeAccepted
  <2> QED
    BY <2>2, <2>4, <2>6, <2>7, <2>8
<1> QED
  BY <1>2, <1>3

(* A node's value depends on the nodes before it only.                     *)
LEMMA NodeValueLocal ==
    ASSUME NEW condition, WellFormed(condition), NEW counts, NEW mem, NEW f, NEW g,
           NEW i \in DOMAIN condition, \A j \in 1 .. i - 1 : f[j] = g[j]
    PROVE  NodeValue(condition, counts, mem, f, i) = NodeValue(condition, counts, mem, g, i)
<1> DEFINE n == condition[i]
<1>1. /\ n.type \in {"INPUT", "AND", "OR", "NOT", "TON_TIMER"}
      /\ n.type \in {"NOT", "TON_TIMER"} => 1 \in DOMAIN n.inputs
      /\ \A k \in DOMAIN n.inputs : n.inputs[k] \in 1 .. i - 1
  BY ConditionParts
<1>2. \A k \in DOMAIN n.inputs : f[n.inputs[k]] = g[n.inputs[k]]
  BY <1>1
<1> HIDE DEF n
<1>3. n.type \in {"NOT", "TON_TIMER"} => f[n.inputs[1]] = g[n.inputs[1]]
  BY <1>1, <1>2
<1> QED
  BY <1>1, <1>2, <1>3 DEF NodeValue, n

(* The recursion of Values has a solution, so that Values is one.          *)
LEMMA ValuesDef ==
    ASSUME NEW condition, WellFormed(condition), NEW counts, NEW mem
    PROVE  Values(condition, counts, mem) =
             [i \in DOMAIN condition |->
                 NodeValue(condition, counts, mem, Values(condition, counts, mem), i)]
<1> DEFINE last == Len(condition)
           V(f, i) == NodeValue(condition, counts, mem, f, i)
           Solves(f, n) == f = [i \in 1 .. n |-> V(f, i)]
           T == {k \in Nat : k <= last => \E f : Solves(f, k)}
<1>1. last \in Nat /\ DOMAIN condition = 1 .. last
  BY ConditionParts
<1> HIDE DEF last
<1>2. 0 \in T
  <2> DEFINE f == [i \in 1 .. 0 |-> 0]
  <2>1. f = [i \in 1 .. 0 |-> V(f, i)]
    OBVIOUS
  <2> QED
    BY <2>1
<1>3. ASSUME NEW k \in T PROVE k + 1 \in T
  <2> SUFFICES ASSUME k + 1 <= last PROVE \E g : Solves(g, k + 1)
    OBVIOUS
  <2>1. PICK f : Solves(f, k)
    BY <1>1
  <2> DEFINE g == [i \in 1 .. k + 1 |-> V(f, i)]
  <2>2. k \in Nat /\ 1 .. k + 1 \subseteq DOMAIN condition
    BY <1>1
  <2>3. \A i \in 1 .. k : g[i] = f[i]
    <3>1. \A i \in 1 .. k : f[i] = V(f, i) /\ i \in 1 .. k + 1
      BY <2>1, <2>2
    <3> HIDE DEF V
    <3> QED
      BY <3>1
  <2>4. \A i \in 1 .. k + 1 : V(f, i) = V(g, i)
    <3> SUFFICES ASSUME NEW i \in 1 .. k + 1 PROVE V(f, i) = V(g, i)
      OBVIOUS
    <3>1. \A j \in 1 .. i - 1 : j \in 1 .. k
      BY <2>2
    <3>2. \A j \in 1 .. i - 1 : f[j] = g[j]
      BY <2>3, <3>1
    <3> HIDE DEF g
    <3> QED
      BY <2>2, <3>2, NodeValueLocal
  <2>5. g = [i \in 1 .. k + 1 |-> V(g, i)]
    <3> HIDE DEF V
    <3> QED
      BY <2>4
  <2> QED
    BY <2>5
<1>4. T = Nat
  <2>1. T \in SUBSET Nat
    OBVIOUS
  <2> HIDE DEF T
  <2> QED
    BY <1>2, <1>3, <2>1, SetInduction
<1> DEFINE Solution(f) == f = [i \in DOMAIN condition |-> V(f, i)]
<1>5. \E f : Solution(f)
  BY <1>1, <1>4
<1>6. Values(condition, counts, mem) = CHOOSE f : Solution(f)
  BY DEF Values
<1>7. Solution(Values(condition, counts, mem))
  BY <1>5, <1>6
<1> QED
  BY <1>7

(* Of the nodes the properties speak of: inputs and timers.                *)
LEMMA NodeMeaning ==
    ASSUME NEW condition, WellFormed(condition), NEW counts, NEW mem, NEW i \in DOMAIN condition
    PROVE  LET n   == condition[i]
               val == Values(condition, counts, mem)
           IN  /\ n.type = "INPUT" => (val[i] <=> BitOf(n.ref) \in mem)
               /\ n.type = "TON_TIMER" =>
                     (val[i] <=> val[n.inputs[1]] /\ Expired(n, counts[i]))
<1> DEFINE val == Values(condition, counts, mem)
<1>1. val[i] = NodeValue(condition, counts, mem, val, i)
  BY ValuesDef
<1> HIDE DEF val
<1> QED
  BY <1>1 DEF NodeValue, val

(* Program and memory after the first q rules of a scan, and what rule q   *)
(* evaluates to.                                                           *)
After(p, mem, q) == AfterRules(p, mem, 1)[q]

RootOf(p, mem, q) ==
    Values(p.rules[q].condition, p.elapsed[q], After(p, mem, q - 1).memory)
        [Len(p.rules[q].condition)]

LEMMA RuleStates ==
    ASSUME NEW p \in Program, NEW mem
    PROVE  /\ Len(p.rules) \in Nat /\ DOMAIN p.rules = 1 .. Len(p.rules)
           /\ After(p, mem, 0) = [program |-> p, memory |-> mem]
           /\ \A q \in 0 .. Len(p.rules) :
                 /\ After(p, mem, q).program \in Program
                 /\ After(p, mem, q).program.rules = p.rules
                 /\ DOMAIN After(p, mem, q).program.elapsed = DOMAIN p.elapsed
                 /\ \A r \in 1 .. Len(p.rules) :
                       After(p, mem, q).program.elapsed[r] =
                          IF r <= q
                          THEN Ticked(p.rules[r].condition, p.elapsed[r],
                                      After(p, mem, r - 1).memory)
                          ELSE p.elapsed[r]
           /\ \A q \in 1 .. Len(p.rules) :
                 After(p, mem, q).memory =
                    WriteBit(After(p, mem, q - 1).memory, BitOf(p.rules[q].output),
                             RootOf(p, mem, q))
<1> DEFINE S == AfterRules(p, mem, 1)
           last == Len(p.rules)
           Root(q) == Values(p.rules[q].condition, p.elapsed[q], S[q - 1].memory)
                         [Len(p.rules[q].condition)]
           Tick(r) == Ticked(p.rules[r].condition, p.elapsed[r], S[r - 1].memory)
           Fits(q) == /\ S[q].program \in Program
                      /\ S[q].program.rules = p.rules
                      /\ DOMAIN S[q].program.elapsed = DOMAIN p.elapsed
                      /\ \A r \in 1 .. last :
                            S[q].program.elapsed[r] = IF r <= q THEN Tick(r) ELSE p.elapsed[r]
<1>1. /\ last \in Nat
      /\ DOMAIN p.rules = 1 .. last
      /\ DOMAIN p.elapsed = 1 .. last
  BY SeqDomain DEF Program, Rules
<1>2. /\ S[0] = [program |-> p, memory |-> mem]
      /\ \A q \in 1 .. last : S[q] = RunRule(S[q - 1], q)
  <2> DEFINE F(r) == IF r = 1 - 1 THEN [program |-> p, memory |-> mem] ELSE RunRule(S[r - 1], r)
  <2>1. S = [r \in 1 - 1 .. last |-> F(r)]
    BY <1>1, AfterRulesDef
  <2> HIDE DEF S, last
  <2> QED
    BY <1>1, <2>1
<1> HIDE DEF S, last
<1>3. ASSUME NEW q \in 1 .. last, Fits(q - 1)
      PROVE  /\ Fits(q)
             /\ S[q].memory = WriteBit(S[q - 1].memory, BitOf(p.rules[q].output), Root(q))
  <2>1. S[q] = [program |-> ProgramAfterRule(S[q - 1].program, q, S[q - 1].memory),
                memory  |-> MemoryAfterRule(S[q - 1].program, q, S[q - 1].memory)]
    BY <1>2 DEF RunRule
  <2>2. /\ S[q - 1].program.rules = p.rules
        /\ S[q - 1].program.elapsed[q] = p.elapsed[q]
        /\ DOMAIN S[q - 1].program.elapsed = 1 .. last
    BY <1>1, <1>3
  <2>3. S[q].memory = WriteBit(S[q - 1].memory, BitOf(p.rules[q].output), Root(q))
    BY <2>1, <2>2 DEF MemoryAfterRule
  <2>4. /\ S[q].program.rules = p.rules
        /\ S[q].program.elapsed = [S[q - 1].program.elapsed EXCEPT ![q] = Tick(q)]
    BY <2>1, <2>2 DEF ProgramAfterRule
  <2>7. S[q].program \in Program
    <3>1. S[q - 1].program \in Program /\ q \in DOMAIN S[q - 1].program.rules
      BY <1>1, <1>3, <2>2
    <3>2. S[q].program = ProgramAfterRule(S[q - 1].program, q, S[q - 1].memory)
      BY <2>1
    <3> QED
      BY <3>1, <3>2, TimersStep
  <2> HIDE DEF Root, Tick
  <2>5. ASSUME NEW r \in 1 .. last
        PROVE  S[q].program.elapsed[r] = IF r <= q THEN Tick(r) ELSE p.elapsed[r]
    <3>1. CASE r = q
      BY <1>1, <2>2, <2>4, <3>1
    <3>2. CASE r # q
      <4>1. S[q].program.elapsed[r] = S[q - 1].program.elapsed[r]
        BY <2>2, <2>4, <3>2
      <4>2. S[q - 1].program.elapsed[r] = IF r <= q - 1 THEN Tick(r) ELSE p.elapsed[r]
        BY <1>3
      <4>3. r <= q - 1 <=> r <= q
        BY <1>1, <3>2
      <4> QED
        BY <4>1, <4>2, <4>3
    <3> QED
      BY <3>1, <3>2
  <2>6. DOMAIN S[q].program.elapsed = DOMAIN p.elapsed
    BY <1>1, <2>2, <2>4
  <2> QED
    BY <2>3, <2>4, <2>5, <2>6, <2>7
<1>4. Fits(0)
  <2>1. S[0].program = p
    BY <1>2
  <2>2. \A r \in 1 .. last : ~ (r <= 0)
    BY <1>1
  <2> HIDE DEF Tick
  <2> QED
    BY <2>1, <2>2
<1> DEFINE T == {n \in Nat : n \in 0 .. last => Fits(n)}
<1> HIDE DEF Root
<1>5. T = Nat
  <2>1. 0 \in T
    BY <1>4
  <2>2. ASSUME NEW n \in T PROVE n + 1 \in T
    <3> SUFFICES ASSUME n + 1 \in 0 .. last PROVE Fits(n + 1)
      OBVIOUS
    <3>1. n \in 0 .. last /\ n + 1 \in 1 .. last /\ (n + 1) - 1 = n
      BY <1>1
    <3>2. Fits((n + 1) - 1)
      BY <3>1
    <3> HIDE DEF Fits
    <3> QED
      BY <1>3, <3>1, <3>2
  <2>3. T \in SUBSET Nat
    OBVIOUS
  <2> HIDE DEF T
  <2> QED
    BY <2>1, <2>2, <2>3, SetInduction
<1>6. \A q \in 0 .. last : Fits(q)
  <2> HIDE DEF Fits
  <2> QED
    BY <1>1, <1>5
<1>7. \A q \in 1 .. last :
         S[q].memory = WriteBit(S[q - 1].memory, BitOf(p.rules[q].output), Root(q))
  <2>1. \A q \in 1 .. last : q - 1 \in 0 .. last
    BY <1>1
  <2> HIDE DEF Fits
  <2> QED
    BY <1>3, <1>6, <2>1
<1> QED
  BY <1>1, <1>2, <1>6, <1>7 DEF S, last, Root, After, RootOf

(* The last rule to drive a bit decides it.                                *)
LEMMA LastWriter ==
    ASSUME NEW p \in Program, NEW mem,
           NEW k \in 0 .. Len(p.rules), NEW w \in 1 .. k,
           \A x \in w + 1 .. k : BitOf(p.rules[x].output) # BitOf(p.rules[w].output)
    PROVE  BitOf(p.rules[w].output) \in After(p, mem, k).memory <=> RootOf(p, mem, w)
<1> DEFINE last == Len(p.rules)
           M(q) == After(p, mem, q).memory
           Out(q) == BitOf(p.rules[q].output)
           Root(q) == RootOf(p, mem, q)
           Decided(n) == \A q \in 1 .. n :
                            (\A x \in q + 1 .. n : Out(x) # Out(q))
                               => (Out(q) \in M(n) <=> Root(q))
           T == {n \in Nat : n \in 0 .. last => Decided(n)}
<1>1. /\ last \in Nat
      /\ \A q \in 1 .. last : M(q) = WriteBit(M(q - 1), Out(q), Root(q))
  BY RuleStates
<1> HIDE DEF M, last, Out, Root
<1>2. 0 \in T
  OBVIOUS
<1>3. ASSUME NEW n \in T PROVE n + 1 \in T
  <2> SUFFICES ASSUME n + 1 \in 0 .. last, NEW q \in 1 .. n + 1,
                      \A x \in q + 1 .. n + 1 : Out(x) # Out(q)
               PROVE  Out(q) \in M(n + 1) <=> Root(q)
    OBVIOUS
  <2>1. /\ n \in Nat /\ n \in 0 .. last /\ n + 1 \in 1 .. last /\ (n + 1) - 1 = n
    BY <1>1
  <2>2. M(n + 1) = WriteBit(M(n), Out(n + 1), Root(n + 1))
    BY <1>1, <2>1
  <2>3. CASE q = n + 1
    BY <2>2, <2>3 DEF WriteBit
  <2>4. CASE q # n + 1
    <3>1. q \in 1 .. n /\ n + 1 \in q + 1 .. n + 1
      BY <2>1, <2>4
    <3>2. \A x \in q + 1 .. n : Out(x) # Out(q)
      BY <2>1, <3>1
    <3>3. Out(q) \in M(n) <=> Root(q)
      BY <2>1, <3>1, <3>2
    <3>4. Out(n + 1) # Out(q)
      BY <3>1
    <3> QED
      BY <2>2, <3>3, <3>4 DEF WriteBit
  <2> QED
    BY <2>3, <2>4
<1>4. T = Nat
  <2>1. T \in SUBSET Nat
    OBVIOUS
  <2> HIDE DEF T
  <2> QED
    BY <1>2, <1>3, <2>1, SetInduction
<1>5. \A n \in 0 .. last : Decided(n)
  <2> HIDE DEF Decided
  <2> QED
    BY <1>1, <1>4
<1> QED
  BY <1>5 DEF M, last, Out, Root

(* A bounded set of numbers has a greatest one.                            *)
LEMMA Greatest ==
    ASSUME NEW m \in Nat, NEW E \in SUBSET (1 .. m), E # {}
    PROVE  \E g \in E : \A e \in E : e <= g
<1> DEFINE T == {n \in Nat : \A D \in SUBSET (1 .. n) :
                                D # {} => \E g \in D : \A e \in D : e <= g}
<1>1. 0 \in T
  <2>1. 1 .. 0 = {}
    OBVIOUS
  <2> QED
    BY <2>1
<1>2. ASSUME NEW n \in T PROVE n + 1 \in T
  <2> SUFFICES ASSUME NEW D \in SUBSET (1 .. n + 1), D # {}
               PROVE  \E g \in D : \A e \in D : e <= g
    OBVIOUS
  <2>1. n \in Nat
    OBVIOUS
  <2>2. CASE n + 1 \in D
    BY <2>1, <2>2
  <2>3. CASE n + 1 \notin D
    <3>1. D \in SUBSET (1 .. n)
      BY <2>1, <2>3
    <3> QED
      BY <3>1
  <2> QED
    BY <2>2, <2>3
<1>3. T = Nat
  <2>1. T \in SUBSET Nat
    OBVIOUS
  <2> HIDE DEF T
  <2> QED
    BY <1>1, <1>2, <2>1, SetInduction
<1> QED
  BY <1>3

(* How many periods cover a preset.                                        *)
LEMMA Periods ==
    ASSUME NEW p \in Nat, NEW d \in Nat \ {0}, NEW x \in Nat \ {0}
    PROVE  /\ (IF p = 0 THEN 1 ELSE (p + d - 1) \div d) \in Nat \ {0}
           /\ x * d >= p <=> x >= (IF p = 0 THEN 1 ELSE (p + d - 1) \div d)
<1>1. CASE p = 0
  <2>1. x * d \in Nat
    OBVIOUS
  <2> QED
    BY <1>1, <2>1
<1>2. CASE p # 0
  <2> DEFINE q == (p + d - 1) \div d
  <2>1. q \in Int /\ q * d <= p + d - 1 /\ p + d - 1 < q * d + d
    <3>1. p + d - 1 \in Nat
      OBVIOUS
    <3> QED
      BY <3>1
  <2> HIDE DEF q
  <2>2. q >= 1
    <3> SUFFICES ASSUME q <= 0 PROVE FALSE
      BY <2>1
    <3>1. q * d <= 0
      BY <2>1
    <3> QED
      BY <1>2, <2>1, <3>1
  <2>3. ASSUME x >= q PROVE x * d >= p
    <3>1. x * d >= q * d
      BY <2>1, <2>3
    <3>2. x * d \in Int /\ q * d \in Int
      BY <2>1
    <3> QED
      BY <2>1, <3>1, <3>2
  <2>4. ASSUME ~ (x >= q) PROVE ~ (x * d >= p)
    <3>1. x + 1 <= q
      BY <2>1, <2>4
    <3>2. (x + 1) * d <= q * d
      BY <2>1, <3>1
    <3>3. (x + 1) * d = x * d + d
      OBVIOUS
    <3>4. x * d \in Int /\ q * d \in Int
      BY <2>1
    <3> QED
      BY <2>1, <3>2, <3>3, <3>4
  <2>5. q \in Nat \ {0}
    BY <2>1, <2>2
  <2> QED
    BY <1>2, <2>3, <2>4, <2>5 DEF q
<1> QED
  BY <1>1, <1>2

(* One program over a history of scans.                                    *)

(* A program the parser accepted.                                          *)
Sane(p) ==
    /\ p \in Program
    /\ \A r \in DOMAIN p.rules : WellFormed(p.rules[r].condition)

LEMMA ParsedSane ==
    ASSUME NEW doc \in Document, Accepted(doc)
    PROVE  Sane(NewProgram(doc))
<1>1. NewProgram(doc) \in Program /\ NewProgram(doc).rules = doc.rules /\ doc.rules \in Rules
  BY ParsedProgram DEF NewProgram, Document
<1>2. ASSUME NEW r \in DOMAIN doc.rules PROVE WellFormed(doc.rules[r].condition)
  <2>1. doc.rules[r] \in Rule
    BY <1>1, SeqElement DEF Rules
  <2>2. RuleAccepted(doc.rules[r])
    BY DEF Accepted
  <2> QED
    BY <2>1, <2>2 DEF WellFormed, RuleAccepted, Rule
<1> QED
  BY <1>1, <1>2 DEF Sane

(* The values of all nodes in a scan of program p that starts from mem.    *)
ScanValues(p, mem) ==
    [r \in DOMAIN p.rules |->
        Values(p.rules[r].condition, p.elapsed[r], After(p, mem, r - 1).memory)]

LEMMA ScanEffect ==
    ASSUME Scan
    PROVE  \E mem : /\ bits' = After(program, mem, Len(program.rules)).memory
                    /\ program' = After(program, mem, Len(program.rules)).program
                    /\ history' = Append(history, ScanValues(program, mem))
<1>1. PICK frozen : LET mem == (bits \ BitsOf("I")) \cup frozen
                        after == Executed(program, mem, 1)
                    IN  /\ bits' = after.memory
                        /\ program' = after.program
                        /\ history' = Append(history, NodeValues(frozen))
  BY DEF Scan
<1> DEFINE mem == (bits \ BitsOf("I")) \cup frozen
<1>2. Executed(program, mem, 1) = After(program, mem, Len(program.rules))
  BY DEF Executed, After
<1>3. NodeValues(frozen) = ScanValues(program, mem)
  <2>1. \A r : Before(r, frozen) = [memory |-> After(program, mem, r - 1).memory,
                                         counts |-> program.elapsed[r]]
    BY DEF Before, After
  <2> HIDE DEF mem
  <2> QED
    BY <2>1 DEF NodeValues, ScanValues
<1> HIDE DEF mem
<1> QED
  BY <1>1, <1>2, <1>3 DEF mem

LEMMA SaneAfter ==
    ASSUME NEW p, Sane(p), NEW mem
    PROVE  /\ Sane(After(p, mem, Len(p.rules)).program)
           /\ After(p, mem, Len(p.rules)).program.rules = p.rules
           /\ \A r \in DOMAIN p.rules :
                 After(p, mem, Len(p.rules)).program.elapsed[r] =
                    Ticked(p.rules[r].condition, p.elapsed[r], After(p, mem, r - 1).memory)
<1>1. p \in Program
  BY DEF Sane
<1>2. /\ Len(p.rules) \in Nat /\ Len(p.rules) \in 0 .. Len(p.rules)
      /\ DOMAIN p.rules = 1 .. Len(p.rules)
  BY <1>1, RuleStates
<1>3. /\ After(p, mem, Len(p.rules)).program \in Program
      /\ After(p, mem, Len(p.rules)).program.rules = p.rules
  BY <1>1, <1>2, RuleStates
<1>4. ASSUME NEW r \in DOMAIN p.rules
      PROVE  After(p, mem, Len(p.rules)).program.elapsed[r] =
                Ticked(p.rules[r].condition, p.elapsed[r], After(p, mem, r - 1).memory)
  <2>1. r \in 1 .. Len(p.rules) /\ r <= Len(p.rules)
    BY <1>2
  <2> QED
    BY <1>1, <1>2, <2>1, RuleStates
<1> QED
  BY <1>3, <1>4 DEF Sane

(* What a timer's counter says about the scans its input was true in, `on`:*)
(* the last c, and no more unless the count has reached its end.           *)
Counted(k, s, c, on) ==
    /\ c \in Nat /\ c <= k - 1 /\ c <= s
    /\ \A t \in s - c + 1 .. s : t \in on
    /\ c < k - 1 /\ c < s => s - c \notin on

LEMMA CountTicks ==
    ASSUME NEW k \in Nat \ {0}, NEW s \in Nat, NEW c, NEW on, NEW on2, Counted(k, s, c, on),
           \A t \in 1 .. s : t \in on2 <=> t \in on
    PROVE  /\ Counted(k, s + 1,
                      IF s + 1 \in on2 THEN IF c + 1 >= k THEN c ELSE c + 1 ELSE 0, on2)
           /\ (s + 1 \in on2 /\ c + 1 >= k)
                 <=> (s + 1 >= k /\ \A t \in (s + 1) - k + 1 .. s + 1 : t \in on2)
<1>1. /\ c \in Nat /\ c <= k - 1 /\ c <= s
      /\ \A t \in s - c + 1 .. s : t \in on
      /\ c < k - 1 /\ c < s => s - c \notin on
  BY DEF Counted
<1>2. \A t \in s - c + 1 .. s : t \in 1 .. s /\ t \in on2
  BY <1>1
<1>3. CASE s + 1 \notin on2
  <2>1. Counted(k, s + 1, 0, on2)
    BY <1>3 DEF Counted
  <2>2. s + 1 >= k => s + 1 \in (s + 1) - k + 1 .. s + 1
    OBVIOUS
  <2> QED
    BY <1>3, <2>1, <2>2
<1>4. CASE s + 1 \in on2 /\ c + 1 >= k
  <2>1. c = k - 1
    BY <1>1, <1>4
  <2>2. \A t \in (s + 1) - c + 1 .. s + 1 : t \in on2
    BY <1>1, <1>2, <1>4
  <2>3. Counted(k, s + 1, c, on2)
    BY <1>1, <2>1, <2>2 DEF Counted
  <2>4. \A t \in (s + 1) - k + 1 .. s + 1 : t \in on2
    BY <1>1, <1>2, <1>4, <2>1
  <2>5. s + 1 >= k
    BY <1>1, <2>1
  <2> QED
    BY <1>4, <2>3, <2>4, <2>5
<1>5. CASE s + 1 \in on2 /\ ~ (c + 1 >= k)
  <2>1. c < k - 1
    BY <1>1, <1>5
  <2>2. \A t \in (s + 1) - (c + 1) + 1 .. s + 1 : t \in on2
    BY <1>1, <1>2, <1>5
  <2>3. c < s => (s - c \in 1 .. s /\ s - c \notin on2)
    BY <1>1, <2>1
  <2>4. (s + 1) - (c + 1) = s - c
    BY <1>1
  <2>5. Counted(k, s + 1, c + 1, on2)
    BY <1>1, <2>1, <2>2, <2>3, <2>4 DEF Counted
  <2>6. ASSUME s + 1 >= k, \A t \in (s + 1) - k + 1 .. s + 1 : t \in on2 PROVE FALSE
    <3>1. c < s
      BY <1>1, <2>1, <2>6
    <3>2. s - c \in (s + 1) - k + 1 .. s + 1
      BY <1>1, <2>1
    <3> QED
      BY <2>3, <2>6, <3>1, <3>2
  <2> QED
    BY <1>5, <2>5, <2>6
<1> QED
  BY <1>3, <1>4, <1>5

(* The invariant of ProgramScan: every timer's counter is the number of    *)
(* scans in a row its input has been true, up to the number that matters.  *)
OnScans(r, i) ==
    {t \in 1 .. Len(history) : history[t][r][program.rules[r].condition[i].inputs[1]]}

TimersCount ==
    \A r \in DOMAIN program.rules : \A i \in DOMAIN program.rules[r].condition :
        program.rules[r].condition[i].type = "TON_TIMER" =>
            Counted(ScansNeeded(program.rules[r].condition[i].preset), Len(history),
                    program.elapsed[r][i], OnScans(r, i))

ScanInv ==
    /\ Sane(program)
    /\ \E S : history \in Seq(S)
    /\ TimersCount
    /\ OnDelay

(* Adding a scan to the history.                                           *)
LEMMA Appended ==
    ASSUME NEW S, NEW h \in Seq(S), NEW x
    PROVE  /\ Append(h, x) \in Seq(S \cup {x})
           /\ Len(Append(h, x)) = Len(h) + 1
           /\ Len(h) \in Nat
           /\ Append(h, x)[Len(h) + 1] = x
           /\ \A t \in 1 .. Len(h) : Append(h, x)[t] = h[t]
           /\ DOMAIN Append(h, x) = 1 .. Len(h) + 1
           /\ DOMAIN h = 1 .. Len(h)
<1>1. h \in Seq(S \cup {x})
  BY SeqDomain
<1> QED
  BY <1>1, AppendProperties

(* The timers of a rule after a scan, and what they said in it.            *)
LEMMA TimerStep ==
    ASSUME NEW p, Sane(p), NEW mem, NEW r \in DOMAIN p.rules,
           NEW i \in DOMAIN p.rules[r].condition,
           p.rules[r].condition[i].type = "TON_TIMER"
    PROVE  LET n == p.rules[r].condition[i]
               c == p.elapsed[r][i]
               v == ScanValues(p, mem)[r]
           IN  /\ p.elapsed[r][i] \in Nat
               /\ ScansNeeded(n.preset) \in Nat \ {0}
               /\ v[i] <=> v[n.inputs[1]] /\ c + 1 >= ScansNeeded(n.preset)
               /\ After(p, mem, Len(p.rules)).program.elapsed[r][i] =
                     IF v[n.inputs[1]]
                     THEN IF c + 1 >= ScansNeeded(n.preset) THEN c ELSE c + 1
                     ELSE 0
<1> DEFINE condition == p.rules[r].condition
           n == condition[i]
           counts == p.elapsed[r]
           before == After(p, mem, r - 1).memory
           v == Values(condition, counts, before)
           k == ScansNeeded(n.preset)
<1>1. p \in Program /\ WellFormed(condition)
  BY DEF Sane
<1>2. n.preset \in Nat /\ n.type = "TON_TIMER"
  BY <1>1, ConditionParts
<1>3. counts[i] \in Nat
  <2>1. p.elapsed \in Seq(Seq(Nat)) /\ r \in DOMAIN p.elapsed /\ i \in DOMAIN counts
    BY <1>1 DEF Program
  <2>2. counts \in Seq(Nat)
    BY <2>1, SeqElement
  <2> QED
    BY <2>1, <2>2, SeqElement
<1>4. ScanValues(p, mem)[r] = v
  BY DEF ScanValues
<1>5. /\ k \in Nat \ {0}
      /\ Expired(n, counts[i]) <=> counts[i] + 1 >= k
  <2>1. counts[i] + 1 \in Nat \ {0} /\ Period \in Nat \ {0}
    BY <1>3, SizesAssumption
  <2>2. k = IF n.preset = 0 THEN 1 ELSE (n.preset + Period - 1) \div Period
    BY DEF ScansNeeded
  <2> HIDE DEF n, counts, k
  <2> QED
    BY <1>2, <2>1, <2>2, Periods DEF Expired
<1>6. v[i] <=> v[n.inputs[1]] /\ Expired(n, counts[i])
  BY <1>1, <1>2, NodeMeaning
<1>7. After(p, mem, Len(p.rules)).program.elapsed[r][i] =
         IF v[n.inputs[1]] THEN IF Expired(n, counts[i]) THEN counts[i] ELSE counts[i] + 1
         ELSE 0
  <2>1. After(p, mem, Len(p.rules)).program.elapsed[r] = Ticked(condition, counts, before)
    BY SaneAfter
  <2>2. Ticked(condition, counts, before)[i] =
           IF n.type = "TON_TIMER" /\ v[n.inputs[1]]
           THEN IF Expired(n, counts[i]) THEN counts[i] ELSE counts[i] + 1 ELSE 0
    BY DEF Ticked
  <2> HIDE DEF n, v, counts, before, condition
  <2> QED
    BY <1>2, <2>1, <2>2
<1> HIDE DEF k, v
<1> QED
  BY <1>3, <1>4, <1>5, <1>6, <1>7 DEF k

LEMMA ScanKeepsInv == ScanInv /\ Scan => ScanInv'
<1> SUFFICES ASSUME ScanInv, Scan PROVE ScanInv'
  OBVIOUS
<1> DEFINE last == Len(program.rules)
<1>1. PICK mem : /\ program' = After(program, mem, last).program
                 /\ history' = Append(history, ScanValues(program, mem))
  BY ScanEffect
<1>2. Sane(program)
  BY DEF ScanInv
<1>3. /\ Sane(program')
      /\ program'.rules = program.rules
  BY <1>1, <1>2, SaneAfter
<1>4. PICK S : history \in Seq(S)
  BY DEF ScanInv
<1> DEFINE s == Len(history)
<1>5. /\ history' \in Seq(S \cup {ScanValues(program, mem)})
      /\ Len(history') = s + 1 /\ s \in Nat
      /\ history'[s + 1] = ScanValues(program, mem)
      /\ \A t \in 1 .. s : history'[t] = history[t]
      /\ DOMAIN history' = 1 .. s + 1 /\ DOMAIN history = 1 .. s
  BY <1>1, <1>4, Appended
<1> HIDE DEF last, s
<1> DEFINE Needed(r, i) == ScansNeeded(program.rules[r].condition[i].preset)
           Counts(r, i) == Counted(Needed(r, i), s + 1, program'.elapsed[r][i], OnScans(r, i)')
           Delays(r, i) ==
              \A u \in 1 .. s + 1 :
                 history'[u][r][i] <=>
                    /\ u >= Needed(r, i)
                    /\ \A t \in u - Needed(r, i) + 1 .. u :
                          history'[t][r][program.rules[r].condition[i].inputs[1]]
<1>6. ASSUME NEW r \in DOMAIN program.rules, NEW i \in DOMAIN program.rules[r].condition,
             program.rules[r].condition[i].type = "TON_TIMER"
      PROVE  Counts(r, i) /\ Delays(r, i)
  <2> DEFINE n == program.rules[r].condition[i]
             k == ScansNeeded(n.preset)
             c == program.elapsed[r][i]
             in == n.inputs[1]
             on == {t \in 1 .. s : history[t][r][in]}
             on2 == {t \in 1 .. s + 1 : history'[t][r][in]}
  <2>1. OnScans(r, i) = on /\ OnScans(r, i)' = on2
    BY <1>3, <1>5 DEF OnScans, s
  <2>2. Counted(k, s, c, on)
    BY <1>6, <2>1 DEF ScanInv, TimersCount, s
  <2>3. /\ k \in Nat \ {0}
        /\ history'[s + 1][r][i] <=> history'[s + 1][r][in] /\ c + 1 >= k
        /\ program'.elapsed[r][i] =
              IF history'[s + 1][r][in] THEN IF c + 1 >= k THEN c ELSE c + 1 ELSE 0
    <3> DEFINE v == ScanValues(program, mem)[r]
    <3>1. /\ k \in Nat \ {0}
          /\ v[i] <=> v[in] /\ c + 1 >= k
          /\ After(program, mem, last).program.elapsed[r][i] =
                IF v[in] THEN IF c + 1 >= k THEN c ELSE c + 1 ELSE 0
      BY <1>2, <1>6, TimerStep DEF last
    <3>2. history'[s + 1][r] = v
      BY <1>5
    <3> HIDE DEF v, k, c, in
    <3> QED
      BY <1>1, <3>1, <3>2
  <2>4. \A u \in 1 .. s :
           history[u][r][i] <=> u >= k /\ \A t \in u - k + 1 .. u : history[t][r][in]
    BY <1>5, <1>6 DEF ScanInv, OnDelay
  <2> HIDE DEF n, k, c, in
  <2>5. s + 1 \in on2 <=> history'[s + 1][r][in]
    BY <1>5
  <2>6. \A t \in 1 .. s : t \in on2 <=> t \in on
    BY <1>5
  <2>7. \A t \in 1 .. s + 1 : t \in on2 <=> history'[t][r][in]
    OBVIOUS
  <2> HIDE DEF on, on2
  <2>8. /\ Counted(k, s + 1,
                   IF s + 1 \in on2 THEN IF c + 1 >= k THEN c ELSE c + 1 ELSE 0, on2)
        /\ (s + 1 \in on2 /\ c + 1 >= k)
              <=> (s + 1 >= k /\ \A t \in (s + 1) - k + 1 .. s + 1 : t \in on2)
    BY <1>5, <2>2, <2>3, <2>6, CountTicks
  <2>9. Counted(k, s + 1, program'.elapsed[r][i], on2)
    BY <2>3, <2>5, <2>8
  <2> DEFINE Meant(u) == history'[u][r][i] <=>
                            u >= k /\ \A t \in u - k + 1 .. u : history'[t][r][in]
  <2>10. Meant(s + 1)
    <3>1. s + 1 >= k => (s + 1) - k + 1 .. s + 1 \subseteq 1 .. s + 1
      BY <1>5, <2>3
    <3>2. s + 1 >= k => ((\A t \in (s + 1) - k + 1 .. s + 1 : t \in on2) <=>
                         (\A t \in (s + 1) - k + 1 .. s + 1 : history'[t][r][in]))
      BY <2>7, <3>1
    <3>3. history'[s + 1][r][i] <=> s + 1 \in on2 /\ c + 1 >= k
      BY <2>3, <2>5
    <3> QED
      BY <2>8, <3>2, <3>3
  <2>11. ASSUME NEW u \in 1 .. s PROVE Meant(u)
    <3>1. u >= k => u - k + 1 .. u \subseteq 1 .. s
      BY <1>5, <2>3
    <3>2. \A t \in 1 .. s : history'[t] = history[t]
      BY <1>5
    <3>3. u >= k => ((\A t \in u - k + 1 .. u : history[t][r][in]) <=>
                     (\A t \in u - k + 1 .. u : history'[t][r][in]))
      BY <3>1, <3>2
    <3> QED
      BY <2>4, <3>2, <3>3
  <2>12. \A u \in 1 .. s + 1 : Meant(u)
    <3>1. \A u \in 1 .. s + 1 : u = s + 1 \/ u \in 1 .. s
      BY <1>5
    <3> HIDE DEF Meant
    <3> QED
      BY <2>10, <2>11, <3>1
  <2>13. Delays(r, i)
    BY <2>12 DEF k, n, in
  <2>14. Counts(r, i)
    BY <2>1, <2>9 DEF k, n, in
  <2> QED
    BY <2>13, <2>14
<1>7. TimersCount'
  <2> SUFFICES ASSUME NEW r \in DOMAIN program'.rules,
                      NEW i \in DOMAIN program'.rules[r].condition,
                      program'.rules[r].condition[i].type = "TON_TIMER"
               PROVE  Counted(ScansNeeded(program'.rules[r].condition[i].preset),
                              Len(history'), program'.elapsed[r][i], OnScans(r, i)')
    BY DEF TimersCount
  <2>1. /\ r \in DOMAIN program.rules /\ i \in DOMAIN program.rules[r].condition
        /\ program.rules[r].condition[i].type = "TON_TIMER"
    BY <1>3
  <2>2. Counts(r, i)
    <3> HIDE DEF Counts, Delays
    <3> QED
      BY <1>6, <2>1
  <2>3. program'.rules = program.rules /\ Len(history') = s + 1
    BY <1>3, <1>5
  <2> QED
    BY <2>2, <2>3, Zenon
<1>8. OnDelay'
  <2>1. \A r \in DOMAIN program.rules : \A i \in DOMAIN program.rules[r].condition :
           program.rules[r].condition[i].type = "TON_TIMER" => Delays(r, i)
    <3> HIDE DEF Counts, Delays
    <3> QED
      BY <1>6
  <2>2. program'.rules = program.rules /\ DOMAIN history' = 1 .. s + 1
    BY <1>3, <1>5
  <2> QED
    BY <2>1, <2>2 DEF OnDelay
<1> QED
  BY <1>3, <1>5, <1>7, <1>8 DEF ScanInv

LEMMA ScanRungs == ScanInv /\ Scan => RungOrder'
<1> SUFFICES ASSUME ScanInv, Scan PROVE RungOrder'
  OBVIOUS
<1> DEFINE p == program
           last == Len(p.rules)
<1>1. PICK mem : /\ bits' = After(p, mem, last).memory
                 /\ program' = After(p, mem, last).program
                 /\ history' = Append(history, ScanValues(p, mem))
  BY ScanEffect
<1>2. Sane(p) /\ p \in Program
  BY DEF ScanInv, Sane
<1>3. program'.rules = p.rules
  BY <1>1, <1>2, SaneAfter
<1>4. /\ last \in Nat
      /\ DOMAIN p.rules = 1 .. last
  BY <1>2, RuleStates
<1>5. PICK S : history \in Seq(S)
  BY DEF ScanInv
<1> DEFINE now1 == ScanValues(p, mem)
           Out(q) == BitOf(p.rules[q].output)
           Root(q) == now1[q][Len(p.rules[q].condition)]
<1>6. history'[Len(history')] = now1
  BY <1>1, <1>5, Appended
<1>7. \A q \in 1 .. last : Root(q) = RootOf(p, mem, q)
  BY <1>4 DEF ScanValues, RootOf
<1> HIDE DEF now1, Out, Root
<1>8. ASSUME NEW k \in 0 .. last, NEW w \in 1 .. k, \A x \in w + 1 .. k : Out(x) # Out(w)
      PROVE  Out(w) \in After(p, mem, k).memory <=> Root(w)
  <2>1. w \in 1 .. last
    BY <1>4
  <2>2. Out(w) \in After(p, mem, k).memory <=> RootOf(p, mem, w)
    BY <1>2, <1>8, LastWriter DEF Out
  <2>3. Root(w) = RootOf(p, mem, w)
    BY <1>7, <2>1
  <2> QED
    BY <2>2, <2>3, Zenon
<1>9. ASSUME NEW r \in 1 .. last, \A q \in r + 1 .. last : Out(q) # Out(r)
      PROVE  Out(r) \in bits' <=> Root(r)
  <2>1. last \in 0 .. last
    BY <1>4
  <2> QED
    BY <1>1, <1>8, <1>9, <2>1
<1>10. ASSUME NEW r \in 1 .. last, NEW i \in DOMAIN p.rules[r].condition,
              p.rules[r].condition[i].type = "INPUT",
              \E q \in 1 .. r - 1 : Out(q) = BitOf(p.rules[r].condition[i].ref)
       PROVE  \E q \in 1 .. r - 1 :
                 /\ Out(q) = BitOf(p.rules[r].condition[i].ref)
                 /\ \A e \in 1 .. r - 1 :
                       Out(e) = BitOf(p.rules[r].condition[i].ref) => e <= q
                 /\ now1[r][i] <=> Root(q)
  <2> DEFINE bit == BitOf(p.rules[r].condition[i].ref)
             E == {q \in 1 .. r - 1 : Out(q) = bit}
  <2> HIDE DEF bit
  <2>1. E # {} /\ r - 1 \in Nat /\ E \in SUBSET (1 .. r - 1)
    BY <1>4, <1>10 DEF bit
  <2>2. PICK g \in E : \A e \in E : e <= g
    <3> HIDE DEF E
    <3> QED
      BY <2>1, Greatest
  <2>3. /\ g \in 1 .. r - 1 /\ Out(g) = bit
        /\ \A e \in 1 .. r - 1 : Out(e) = bit => e <= g
    BY <2>2
  <2>4. \A x \in g + 1 .. r - 1 : Out(x) # Out(g)
    BY <1>4, <2>3
  <2>5. r - 1 \in 0 .. last
    BY <1>4
  <2>6. Out(g) \in After(p, mem, r - 1).memory <=> Root(g)
    BY <1>8, <2>3, <2>4, <2>5
  <2>7. now1[r][i] <=> bit \in After(p, mem, r - 1).memory
    <3>1. r \in DOMAIN p.rules /\ WellFormed(p.rules[r].condition)
      BY <1>2, <1>4 DEF Sane
    <3>2. now1[r] = Values(p.rules[r].condition, p.elapsed[r], After(p, mem, r - 1).memory)
      BY <3>1 DEF now1, ScanValues
    <3>3. Values(p.rules[r].condition, p.elapsed[r], After(p, mem, r - 1).memory)[i]
             <=> bit \in After(p, mem, r - 1).memory
      BY <1>10, <3>1, NodeMeaning DEF bit
    <3> QED
      BY <3>2, <3>3
  <2>8. now1[r][i] <=> Root(g)
    BY <2>3, <2>6, <2>7
  <2> QED
    BY <2>3, <2>8 DEF bit
<1> DEFINE Ordered(r) ==
             /\ (\A q \in r + 1 .. last : ~ (Out(q) = Out(r)))
                   => (Out(r) \in bits' <=> Root(r))
             /\ \A i \in DOMAIN p.rules[r].condition :
                   LET n == p.rules[r].condition[i]
                       earlier == {q \in 1 .. r - 1 : Out(q) = BitOf(n.ref)}
                   IN  n.type = "INPUT" /\ earlier # {} =>
                         \E q \in earlier : /\ \A e \in earlier : e <= q
                                            /\ now1[r][i] <=> Root(q)
<1>11. \A r \in 1 .. last : Ordered(r)
  <2> SUFFICES ASSUME NEW r \in 1 .. last PROVE Ordered(r)
    OBVIOUS
  <2>1. (\A q \in r + 1 .. last : ~ (Out(q) = Out(r))) => (Out(r) \in bits' <=> Root(r))
    BY <1>9
  <2>2. ASSUME NEW i \in DOMAIN p.rules[r].condition,
               p.rules[r].condition[i].type = "INPUT",
               {q \in 1 .. r - 1 : Out(q) = BitOf(p.rules[r].condition[i].ref)} # {}
        PROVE  \E q \in {q \in 1 .. r - 1 : Out(q) = BitOf(p.rules[r].condition[i].ref)} :
                  /\ \A e \in {x \in 1 .. r - 1 :
                                 Out(x) = BitOf(p.rules[r].condition[i].ref)} : e <= q
                  /\ now1[r][i] <=> Root(q)
    <3>1. \E q \in 1 .. r - 1 : Out(q) = BitOf(p.rules[r].condition[i].ref)
      BY <2>2
    <3>2. PICK q \in 1 .. r - 1 :
             /\ Out(q) = BitOf(p.rules[r].condition[i].ref)
             /\ \A e \in 1 .. r - 1 : Out(e) = BitOf(p.rules[r].condition[i].ref) => e <= q
             /\ now1[r][i] <=> Root(q)
      BY <1>10, <2>2, <3>1
    <3> QED
      BY <3>2
  <2> QED
    BY <2>1, <2>2
<1> DEFINE Drives(rules, q, bit) == BitOf(rules[q].output) = bit
           RungsOrdered(rules, vals) ==
             \A r \in DOMAIN rules :
                /\ (\A q \in r + 1 .. Len(rules) : ~ Drives(rules, q, BitOf(rules[r].output)))
                      => (BitOf(rules[r].output) \in bits'
                             <=> vals[r][Len(rules[r].condition)])
                /\ \A i \in DOMAIN rules[r].condition :
                      LET n == rules[r].condition[i]
                          earlier == {q \in 1 .. r - 1 : Drives(rules, q, BitOf(n.ref))}
                      IN  n.type = "INPUT" /\ earlier # {} =>
                            \E q \in earlier :
                               /\ \A e \in earlier : e <= q
                               /\ vals[r][i] <=> vals[q][Len(rules[q].condition)]
<1>12. RungsOrdered(p.rules, now1)
  <2>1. \A r \in DOMAIN p.rules : Ordered(r)
    <3> HIDE DEF Ordered
    <3> QED
      BY <1>4, <1>11
  <2> HIDE DEF last
  <2> QED
    BY <2>1, Zenon DEF Out, Root, last
<1>13. RungsOrdered(program'.rules, history'[Len(history')])
  <2> HIDE DEF RungsOrdered
  <2> QED
    BY <1>3, <1>6, <1>12
<1>14. RungsOrdered(program'.rules, history'[Len(history')]) => RungOrder'
  BY DEF RungOrder, BitOf
<1> QED
  BY <1>13, <1>14

LEMMA InitScan == ScansInit => ScanInv
<1> SUFFICES ASSUME ScansInit PROVE ScanInv
  OBVIOUS
<1>1. PICK doc \in Sources : Accepted(doc) /\ program = NewProgram(doc)
  BY DEF ScansInit
<1>2. doc \in Document /\ history = <<>>
  BY <1>1, SourcesAssumption DEF ScansInit
<1>3. Sane(program)
  BY <1>1, <1>2, ParsedSane
<1>4. history \in Seq(Nat) /\ Len(history) = 0 /\ DOMAIN history = {}
  <2>1. history \in Seq(Nat) /\ Len(history) = 0
    BY <1>2, EmptySeq
  <2>2. DOMAIN history = 1 .. 0
    BY <2>1, SeqDomain
  <2> QED
    BY <2>1, <2>2
<1>5. TimersCount
  <2> SUFFICES ASSUME NEW r \in DOMAIN program.rules,
                      NEW i \in DOMAIN program.rules[r].condition,
                      program.rules[r].condition[i].type = "TON_TIMER"
               PROVE  Counted(ScansNeeded(program.rules[r].condition[i].preset), 0,
                              program.elapsed[r][i], OnScans(r, i))
    BY <1>4 DEF TimersCount
  <2>1. program.elapsed[r][i] = 0
    BY <1>1 DEF NewProgram
  <2>2. ScansNeeded(program.rules[r].condition[i].preset) \in Nat \ {0}
    BY <1>3, TimerStep
  <2> QED
    BY <2>1, <2>2 DEF Counted
<1>6. OnDelay
  BY <1>4 DEF OnDelay
<1> QED
  BY <1>3, <1>4, <1>5, <1>6 DEF ScanInv

LEMMA ScanInvariance == ScansSpec => [](ScanInv /\ RungOrder)
<1>1. ScansInit => ScanInv /\ RungOrder
  BY InitScan DEF ScansInit, RungOrder
<1>2. ASSUME ScanInv, RungOrder, [ScansNext]_(scansVars)
      PROVE  ScanInv' /\ RungOrder'
  <2>1. CASE Scan
    BY <1>2, <2>1, ScanKeepsInv, ScanRungs
  <2>2. CASE UNCHANGED scansVars
    <3>1. program' = program /\ bits' = bits /\ history' = history
      BY <2>2 DEF scansVars
    <3>2. ScanInv'
      <4>1. Sane(program') /\ (\E S : history' \in Seq(S))
        BY <1>2, <3>1 DEF ScanInv
      <4>2. \A r, i : OnScans(r, i)' = OnScans(r, i)
        BY <3>1 DEF OnScans
      <4>3. TimersCount'
        <5>1. TimersCount
          BY <1>2 DEF ScanInv
        <5> QED
          BY <3>1, <4>2, <5>1, Zenon DEF TimersCount
      <4>4. OnDelay'
        BY <1>2, <3>1 DEF ScanInv, OnDelay
      <4> QED
        BY <4>1, <4>3, <4>4 DEF ScanInv
    <3>3. RungOrder'
      BY <1>2, <3>1 DEF RungOrder
    <3> QED
      BY <3>2, <3>3
  <2> QED
    BY <1>2, <2>1, <2>2 DEF ScansNext
<1> QED
  BY <1>1, <1>2, PTL DEF ScansSpec

(* A timer is on exactly when its input has been true for as many scans in *)
(* a row as cover its preset: wherever the timer is in the tree, whatever  *)
(* its siblings evaluate to, however often it was reset before             *)
(* (TonTimerNode::evaluate, AndNode::evaluate).                            *)
THEOREM TimersDelay == ScansSpec => []OnDelay
<1>1. ScanInv => OnDelay
  BY DEF ScanInv
<1> QED
  BY <1>1, ScanInvariance, PTL

(* Within a scan, in rule order: the last rule that drives a bit decides   *)
(* it, and a rule reads what the rules before it wrote in this scan        *)
(* (LogicProgram::execute).                                                *)
THEOREM RungsInOrder == ScansSpec => []RungOrder
  BY ScanInvariance, PTL

-----------------------------------------------------------------------------
(* InputPath: writes of inputs hold unless they overlap, and a copy is     *)
(* fresh, for any number of handlers and bytes.                            *)

WritesTyped ==
    /\ inputs \in Image
    /\ asked \in Image
    /\ raced \subseteq Bytes
    /\ writer \in [Handlers -> {Idle} \cup Parsed \cup Loaded]

AtByte(w, b) == w.at = "loaded" /\ w.byte = b

\* A handler that has read a byte nobody else is writing knows what it still
\* holds, and it is the only one.
OneWriterPerByte ==
    \A b \in Bytes \ raced :
        /\ \A h \in Handlers : AtByte(writer[h], b) => writer[h].old = inputs[b]
        /\ \A h, o \in Handlers : AtByte(writer[h], b) /\ AtByte(writer[o], b) => h = o

WritesInv == WritesTyped /\ OneWriterPerByte /\ WritesHold

-----------------------------------------------------------------------------

LEMMA InitWrites == PathInit => WritesInv
<1> SUFFICES ASSUME PathInit PROVE WritesInv
  OBVIOUS
<1>1. Zero \in Image
  BY DEF Zero, Image
<1>2. \A h \in Handlers : writer[h] = Idle /\ writer[h].at = "idle"
  BY DEF PathInit, Idle
<1>3. WritesTyped
  BY <1>1 DEF PathInit, WritesTyped
<1>4. OneWriterPerByte
  BY <1>2 DEF OneWriterPerByte, AtByte
<1> QED  BY <1>3, <1>4 DEF WritesInv, WritesHold, PathInit

\* Setting or resetting a bit of a byte leaves a byte.
LEMMA WithTyped ==
    ASSUME NEW held \in SUBSET BitsOfByte, NEW w, w.bit \in BitsOfByte
    PROVE  With(held, w) \in SUBSET BitsOfByte
  BY DEF With

LEMMA WritesStep == WritesInv /\ [PathNext]_pathVars => WritesInv'
<1> SUFFICES ASSUME WritesInv, [PathNext]_pathVars PROVE WritesInv'
  OBVIOUS
<1> USE DEF WritesInv
<1>1. CASE \E h \in Handlers : Receive(h)
  <2>1. PICK h \in Handlers : Receive(h)
    BY <1>1
  <2>2. PICK byte \in 0 .. N, bit \in 0 .. Wrap, value \in BOOLEAN :
           writer' = [writer EXCEPT ![h] =
                         [at |-> "parsed", byte |-> byte, bit |-> bit % Wrap, value |-> value]]
    BY <2>1 DEF Receive
  <2>3. bit % Wrap \in 0 .. Wrap - 1
    BY InputAssumption
  <2> DEFINE w == [at |-> "parsed", byte |-> byte, bit |-> bit % Wrap, value |-> value]
  <2>4. w \in Parsed /\ w.at # "loaded"
    BY <2>3 DEF Parsed
  <2>5. writer' = [writer EXCEPT ![h] = w]
    BY <2>2
  <2> HIDE DEF w
  <2>6. UNCHANGED <<inputs, asked, raced>>
    BY <2>1 DEF Receive, pathHistory
  <2>7. WritesTyped'
    BY <2>4, <2>5, <2>6 DEF WritesTyped
  <2>8. OneWriterPerByte'
    BY <2>4, <2>5, <2>6 DEF OneWriterPerByte, AtByte, WritesTyped
  <2> QED  BY <2>6, <2>7, <2>8 DEF WritesHold
<1>2. CASE \E h \in Handlers : Ignore(h)
  <2>1. PICK h \in Handlers : Ignore(h)
    BY <1>2
  <2>2. /\ writer' = [writer EXCEPT ![h] = Idle]
        /\ UNCHANGED <<inputs, asked, raced>>
    BY <2>1 DEF Ignore, pathHistory
  <2>3. WritesTyped'
    BY <2>2 DEF WritesTyped
  <2>4. OneWriterPerByte'
    BY <2>2 DEF OneWriterPerByte, AtByte, WritesTyped, Idle
  <2> QED  BY <2>2, <2>3, <2>4 DEF WritesHold
<1>3. CASE \E h \in Handlers : Load(h)
  <2>1. PICK h \in Handlers : Load(h)
    BY <1>3
  <2> DEFINE w == writer[h]
             new == [at |-> "loaded", byte |-> w.byte, bit |-> w.bit, value |-> w.value,
                     old |-> inputs[w.byte]]
  <2>2. /\ w.at = "parsed" /\ w.byte \in Bytes /\ w.bit \in BitsOfByte
        /\ writer' = [writer EXCEPT ![h] = new]
        /\ UNCHANGED <<inputs, asked>>
    BY <2>1 DEF Load, InputInRange
  <2>3. w \in Parsed
    BY <2>2 DEF WritesTyped, Idle, Loaded
  <2>4. new \in Loaded
    BY <2>2, <2>3 DEF Loaded, Parsed, WritesTyped, Image
  <2>5. /\ raced \subseteq raced' /\ raced' \subseteq Bytes
        /\ w.byte \notin raced' => \A o \in Handlers : ~AtByte(writer[o], w.byte)
    BY <2>1, <2>2 DEF Load, AtByte, WritesTyped
  <2>6. WritesTyped'
    BY <2>2, <2>4, <2>5 DEF WritesTyped
  <2>7. OneWriterPerByte'
    <3> SUFFICES ASSUME NEW b \in Bytes \ raced'
                 PROVE  /\ \A o \in Handlers : AtByte(writer'[o], b) => writer'[o].old = inputs[b]
                        /\ \A o, p \in Handlers :
                              AtByte(writer'[o], b) /\ AtByte(writer'[p], b) => o = p
      BY <2>2 DEF OneWriterPerByte, AtByte
    <3>1. writer'[h] = new /\ \A o \in Handlers : o # h => writer'[o] = writer[o]
      BY <2>2 DEF WritesTyped
    <3>2. CASE b = w.byte
      <4>1. \A o \in Handlers : AtByte(writer'[o], b) => o = h
        BY <2>5, <3>1, <3>2
      <4>2. writer'[h].old = inputs[b]
        BY <3>1, <3>2
      <4> QED  BY <4>1, <4>2
    <3>3. CASE b # w.byte
      <4>1. ~AtByte(writer'[h], b)
        BY <3>1, <3>3 DEF AtByte
      <4> QED  BY <2>5, <3>1, <4>1 DEF OneWriterPerByte
    <3> QED  BY <3>2, <3>3
  <2> QED  BY <2>2, <2>5, <2>6, <2>7 DEF WritesHold
<1>4. CASE \E h \in Handlers : Store(h)
  <2>1. PICK h \in Handlers : Store(h)
    BY <1>4
  <2> DEFINE w == writer[h]
             b == w.byte
  <2>2. w.at = "loaded"
    BY <2>1 DEF Store
  <2>3. w \in Loaded
    BY <2>2 DEF WritesTyped, Idle, Parsed
  <2>4. /\ inputs' = [inputs EXCEPT ![b] = With(w.old, w)]
        /\ asked' = [asked EXCEPT ![b] = With(asked[b], w)]
        /\ writer' = [writer EXCEPT ![h] = Idle]
        /\ UNCHANGED raced
    BY <2>1, <2>3 DEF Store, StoreOf, WritesTyped, Image, Loaded
  <2>5. b \in Bytes /\ w.bit \in BitsOfByte /\ w.old \in SUBSET BitsOfByte /\ asked[b] \in SUBSET BitsOfByte
    BY <2>3 DEF Loaded, WritesTyped, Image
  <2>6. With(w.old, w) \in SUBSET BitsOfByte /\ With(asked[b], w) \in SUBSET BitsOfByte
    BY <2>5, WithTyped
  <2>7. WritesTyped'
    BY <2>4, <2>5, <2>6 DEF WritesTyped, Image
  <2>8. /\ \A o \in Handlers : o # h => writer'[o] = writer[o]
        /\ \A c \in Bytes : c # b => inputs'[c] = inputs[c] /\ asked'[c] = asked[c]
        /\ ~AtByte(writer'[h], b) /\ writer'[h] = Idle
        /\ AtByte(writer[h], b)
    BY <2>2, <2>4, <2>5 DEF WritesTyped, Image, AtByte, Idle
  <2>9. OneWriterPerByte'
    <3> SUFFICES ASSUME NEW c \in Bytes \ raced
                 PROVE  /\ \A o \in Handlers : AtByte(writer'[o], c) => writer'[o].old = inputs'[c]
                        /\ \A o, p \in Handlers :
                              AtByte(writer'[o], c) /\ AtByte(writer'[p], c) => o = p
      BY <2>4 DEF OneWriterPerByte, AtByte
    <3>1. \A o \in Handlers : AtByte(writer'[o], c) => o # h /\ AtByte(writer[o], c)
      BY <2>8 DEF AtByte, Idle
    <3>2. CASE c = b
      BY <2>8, <3>1, <3>2 DEF OneWriterPerByte
    <3>3. CASE c # b
      BY <2>8, <3>1, <3>3 DEF OneWriterPerByte
    <3> QED  BY <3>2, <3>3
  <2>10. WritesHold'
    <3> SUFFICES ASSUME NEW c \in Bytes \ raced PROVE inputs'[c] = asked'[c]
      BY <2>4 DEF WritesHold
    <3>1. inputs[c] = asked[c]
      BY DEF WritesHold
    <3>2. CASE c = b
      <4>1. w.old = inputs[c]
        BY <2>8, <3>2 DEF OneWriterPerByte
      <4>2. inputs'[c] = With(w.old, w) /\ asked'[c] = With(asked[c], w)
        BY <2>4, <3>2 DEF WritesTyped, Image
      <4> QED  BY <3>1, <4>1, <4>2
    <3>3. CASE c # b
      BY <2>8, <3>1, <3>3
    <3> QED  BY <3>2, <3>3
  <2> QED  BY <2>7, <2>9, <2>10
<1>5. CASE \/ UNCHANGED pathVars \/ Copies
           \/ \E b \in Browsers : SendFrame(b) \/ Show(b) \/ Lose(b)
  <2>1. UNCHANGED <<inputs, asked, raced, writer>>
    BY <1>5 DEF pathVars, pathHistory, Copies, BeginCopy, CopyByte, CopyBut, SendFrame, Show, Lose
  <2> QED  BY <2>1 DEF WritesTyped, OneWriterPerByte, WritesHold, AtByte
<1> QED  BY <1>1, <1>2, <1>3, <1>4, <1>5 DEF PathNext, Writes

\* Every write that did not overlap another of the same byte is carried out
\* in full (MockDriver::set_mock_input_bit).
THEOREM IsolatedWritesHold == PathSpec => []WritesHold
<1>1. WritesInv => WritesHold
  BY DEF WritesInv
<1> QED  BY InitWrites, WritesStep, <1>1, PTL DEF PathSpec

-----------------------------------------------------------------------------
(* The copy.                                                               *)

\* The bytes copied so far are fresh, and while the copy is under way `seen`
\* holds what the driver has at this moment.
CopyInv ==
    /\ next \in 0 .. N
    /\ DOMAIN image = Bytes
    /\ next < N => inputs \in seen
    /\ \A b \in Bytes : b < next => image[b] \in {s[b] : s \in seen}

\* From the first byte to the last, what is copied is what the driver had
\* since the copy began (MockDriver::read_inputs).
THEOREM CopyIsFresh == PathSpec => []BytesFresh
<1>1. PathInit => CopyInv
  <2> SUFFICES ASSUME PathInit PROVE CopyInv
    OBVIOUS
  <2>1. next = N /\ image = Zero /\ seen = {Zero}
    BY DEF PathInit
  <2>2. next \in 0 .. N /\ DOMAIN image = Bytes
    BY <2>1, InputAssumption DEF Zero
  <2> QED  BY <2>1, <2>2, InputAssumption DEF CopyInv
<1>2. CopyInv /\ [PathNext]_pathVars => CopyInv'
  <2> SUFFICES ASSUME CopyInv, [PathNext]_pathVars PROVE CopyInv'
    OBVIOUS
  <2> USE InputAssumption
  <2>1. CASE BeginCopy
    BY <2>1 DEF BeginCopy, CopyInv, Bytes
  <2>2. CASE CopyByte
    <3>1. /\ next < N /\ next' = next + 1 /\ UNCHANGED <<inputs, seen>>
          /\ image' = [image EXCEPT ![next] = inputs[next]]
      BY <2>2 DEF CopyByte, CopyBut, pathHistory, CopyInv
    <3>2. next' \in 0 .. N /\ DOMAIN image' = Bytes
      BY <3>1 DEF CopyInv
    <3>3. ASSUME NEW b \in Bytes, b < next'
          PROVE  image'[b] \in {s[b] : s \in seen'}
      <4>1. CASE b = next
        <5>1. image'[b] = inputs[b] /\ inputs \in seen'
          BY <3>1, <4>1 DEF CopyInv
        <5> QED  BY <5>1
      <4>2. CASE b # next
        <5>1. b < next
          BY <3>1, <3>3, <4>2 DEF CopyInv, Bytes
        <5> QED  BY <3>1, <4>2, <5>1 DEF CopyInv
      <4> QED  BY <4>1, <4>2
    <3> QED  BY <3>1, <3>2, <3>3 DEF CopyInv
  <2>3. CASE \E h \in Handlers : Store(h)
    <3>1. /\ UNCHANGED <<image, next>>
          /\ next < N => inputs' \in seen'
          /\ seen \subseteq seen'
      BY <2>3 DEF Store, StoreOf
    <3> QED  BY <3>1 DEF CopyInv
  <2>4. CASE \/ UNCHANGED pathVars
             \/ \E h \in Handlers : Receive(h) \/ Ignore(h) \/ Load(h)
             \/ \E b \in Browsers : SendFrame(b) \/ Show(b) \/ Lose(b)
    <3>1. UNCHANGED <<inputs, image, next, seen>>
      BY <2>4 DEF pathVars, pathHistory, Receive, Ignore, Load, SendFrame, Show, Lose
    <3> QED  BY <3>1 DEF CopyInv
  <2> QED  BY <2>1, <2>2, <2>3, <2>4 DEF PathNext, Writes, Copies
<1>3. CopyInv => BytesFresh
  BY InputAssumption DEF CopyInv, BytesFresh, Bytes
<1> QED  BY <1>1, <1>2, <1>3, PTL DEF PathSpec

-----------------------------------------------------------------------------
(* Types.                                                                  *)

\* What of the types the writes alone do not settle.
OtherTypes ==
    /\ image \in Image
    /\ next \in 0 .. N
    /\ link \in [Browsers -> Seq(Image)]
    /\ \A b \in Browsers : Len(link[b]) <= Room
    /\ shown \in [Browsers -> Image]
    /\ requests \in 0 .. MaxRequests
    /\ losses \in 0 .. MaxLosses

\* An index a handler stores at, or the scan thread copies, is one of the
\* driver's bytes, and a stored bit is one of a byte's
\* (MockDriver::set_mock_input_bit, read_inputs).
THEOREM PathTypeCorrect == PathSpec => []PathTypeOK
<1>1. PathInit => OtherTypes
  <2> SUFFICES ASSUME PathInit PROVE OtherTypes
    OBVIOUS
  <2>1. Zero \in Image
    BY DEF Zero, Image
  <2> QED  BY <2>1, EmptySeq, InputAssumption DEF PathInit, OtherTypes
<1>2. WritesInv /\ OtherTypes /\ [PathNext]_pathVars => OtherTypes'
  <2> SUFFICES ASSUME inputs \in Image, OtherTypes, [PathNext]_pathVars PROVE OtherTypes'
    BY DEF WritesInv, WritesTyped
  <2> USE InputAssumption
  <2>1. CASE \E h \in Handlers : Receive(h)
    BY <2>1 DEF Receive, OtherTypes, ui
  <2>2. CASE \/ UNCHANGED pathVars
             \/ \E h \in Handlers : Ignore(h) \/ Load(h) \/ Store(h)
    <3>1. UNCHANGED <<image, next, link, shown, requests, losses>>
      BY <2>2 DEF pathVars, ui, Ignore, Load, Store, StoreOf
    <3> QED  BY <3>1 DEF OtherTypes
  <2>3. CASE BeginCopy
    BY <2>3 DEF BeginCopy, OtherTypes, ui
  <2>4. CASE CopyByte
    <3>1. /\ next' = next + 1 /\ next < N
          /\ image' = [image EXCEPT ![next] = inputs[next]]
          /\ UNCHANGED <<link, shown, requests, losses>>
      BY <2>4 DEF CopyByte, CopyBut, OtherTypes, ui
    <3>2. inputs[next] \in SUBSET BitsOfByte
      BY <3>1 DEF Image, Bytes, OtherTypes
    <3>3. image' \in Image
      BY <3>1, <3>2 DEF Image, OtherTypes
    <3> QED  BY <3>1, <3>3 DEF OtherTypes
  <2>5. ASSUME NEW b \in Browsers, SendFrame(b) PROVE OtherTypes'
    <3>1. Append(link[b], image) \in Seq(Image) /\ Len(Append(link[b], image)) = Len(link[b]) + 1
      BY AppendProperties DEF OtherTypes
    <3>2. Len(link[b]) \in Nat /\ Len(link[b]) < Room
      BY <2>5, LenProperties DEF SendFrame, OtherTypes
    <3> QED  BY <2>5, <3>1, <3>2 DEF SendFrame, OtherTypes
  <2>6. ASSUME NEW b \in Browsers, Show(b) PROVE OtherTypes'
    <3>1. /\ Head(link[b]) \in Image /\ Tail(link[b]) \in Seq(Image)
          /\ Len(Tail(link[b])) = Len(link[b]) - 1
      BY <2>6, HeadTailProperties DEF Show, OtherTypes
    <3>2. Len(link[b]) \in Nat /\ Len(link[b]) <= Room
      BY LenProperties DEF OtherTypes
    <3> QED  BY <2>6, <3>1, <3>2 DEF Show, OtherTypes
  <2>7. ASSUME NEW b \in Browsers, Lose(b) PROVE OtherTypes'
    BY <2>7, EmptySeq DEF Lose, OtherTypes
  <2> QED  BY <2>1, <2>2, <2>3, <2>4, <2>5, <2>6, <2>7 DEF PathNext, Writes, Copies
<1>3. WritesInv /\ OtherTypes => PathTypeOK
  BY DEF WritesInv, WritesTyped, OtherTypes, PathTypeOK
<1> QED  BY InitWrites, WritesStep, <1>1, <1>2, <1>3, PTL DEF PathSpec

=============================================================================
