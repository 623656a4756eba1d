--------------------------- MODULE LogicInterpreter ---------------------------
(***************************************************************************)
(* The JSON logic language: which documents LogicProgram::from_json        *)
(* accepts, and what one rule of an accepted program does to the memory    *)
(* map and to the program's own timers (logic_interpreter.cpp, and the bit *)
(* accessors of memory_map.cpp).  There are no variables here: ScanEngine, *)
(* AtomicScan and ProgramScan run these operators.                         *)
(*                                                                         *)
(* The memory map is the set of its bits that are 1.  A document is a      *)
(* record [rules |-> <<rule, ...>>]; a rule is [output, condition]; the    *)
(* condition tree is laid out in post-order, so the inputs of node i are   *)
(* indices below i and the last node is the root.  A JSON field that is    *)
(* missing or has the wrong type is written "?" (area, type), <<>>         *)
(* (inputs, condition) or -1 (byte, bit, preset): parsing rejects it       *)
(* exactly as it rejects an unknown value.                                 *)
(***************************************************************************)
EXTENDS Integers, Sequences

CONSTANTS
    InputSize, OutputSize, MemorySize,   \* bytes of %I, %Q and %M
    BitsPerByte,                         \* 8 in the code
    Period                               \* the scan period, in ms

ASSUME SizesAssumption ==
    /\ InputSize \in Nat /\ OutputSize \in Nat /\ MemorySize \in Nat
    /\ BitsPerByte \in Nat \ {0}
    /\ Period \in Nat \ {0}

Areas == {"I", "Q", "M"}

AreaSize(area) ==
    CASE area = "I" -> InputSize
      [] area = "Q" -> OutputSize
      [] area = "M" -> MemorySize

\* The bits of an area, and of the memory map: <<area, byte offset, bit index>>.
BitsOf(area) == {area} \X (0 .. AreaSize(area) - 1) \X (0 .. BitsPerByte - 1)

Bits == UNION {BitsOf(area) : area \in Areas}

-----------------------------------------------------------------------------
(* Documents, before parsing.                                              *)

Signal == [node : BOOLEAN, area : STRING, byte : Int, bit : Int]

Node == [type : STRING, ref : Signal, inputs : Seq(Nat), preset : Int]

\* A tree in post-order: the inputs of a node come before it.
Condition ==
    {c \in Seq(Node) : \A i \in DOMAIN c :
                           \A k \in DOMAIN c[i].inputs : c[i].inputs[k] \in 1 .. i - 1}

Rule == [output : Signal, condition : Condition]

Rules == Seq(Rule)

Document == [rules : Rules]

SignalAcceptedAtEnd(s, allowInputArea) ==
    /\ ~ s.node
    /\ s.area \in Areas
    /\ allowInputArea \/ s.area # "I"
    /\ s.byte >= 0 /\ s.byte <= AreaSize(s.area)
    /\ s.bit >= 0 /\ s.bit < BitsPerByte

SignalAcceptedAnyArea(s, allowInputArea) ==
    /\ ~ s.node
    /\ s.area \in Areas
    /\ s.byte >= 0 /\ s.byte < AreaSize(s.area)
    /\ s.bit >= 0 /\ s.bit < BitsPerByte

\* parse_signal_ref: a reference to another node is never accepted.
SignalAccepted(s, allowInputArea) ==
    /\ ~ s.node
    /\ s.area \in Areas
    /\ allowInputArea \/ s.area # "I"
    /\ s.byte >= 0 /\ s.byte < AreaSize(s.area)
    /\ s.bit >= 0 /\ s.bit < BitsPerByte

\* parse_condition_node, for one node of the tree.
NodeAccepted(n) ==
    \/ n.type = "INPUT" /\ SignalAccepted(n.ref, TRUE)
    \/ n.type \in {"AND", "OR"} /\ n.inputs # <<>>
    \/ n.type = "NOT" /\ Len(n.inputs) = 1
    \/ n.type = "TON_TIMER" /\ Len(n.inputs) = 1 /\ n.preset >= 0

RuleAccepted(rule) ==
    /\ SignalAccepted(rule.output, FALSE)
    /\ rule.condition # <<>>
    /\ \A i \in DOMAIN rule.condition : NodeAccepted(rule.condition[i])

\* from_json: one bad rule rejects the whole document.
Accepted(doc) == \A r \in DOMAIN doc.rules : RuleAccepted(doc.rules[r])

-----------------------------------------------------------------------------
(* Programs.  A LogicProgram is its rules and, for every node of every     *)
(* rule, the node's elapsed-cycle counter (0 but for timers).              *)

Program ==
    {p \in [rules : Rules, elapsed : Seq(Seq(Nat))] :
        /\ DOMAIN p.elapsed = DOMAIN p.rules
        /\ \A r \in DOMAIN p.rules :
              DOMAIN p.elapsed[r] = DOMAIN p.rules[r].condition}

\* What from_json builds: every timer starts at 0.
NewProgram(doc) ==
    [rules |-> doc.rules,
     elapsed |-> [r \in DOMAIN doc.rules |->
                     [i \in DOMAIN doc.rules[r].condition |-> 0]]]

BitOf(ref) == <<ref.area, ref.byte, ref.bit>>

\* A timer's output while its input is true: the count includes this scan.
Expired(n, count) == (count + 1) * Period >= n.preset

\* The value of node i, given those of its children.
NodeValue(condition, counts, memory, val, i) ==
    LET n == condition[i] IN
    CASE n.type = "INPUT"     -> BitOf(n.ref) \in memory
      [] n.type = "AND"       -> \A k \in DOMAIN n.inputs : val[n.inputs[k]]
      [] n.type = "OR"        -> \E k \in DOMAIN n.inputs : val[n.inputs[k]]
      [] n.type = "NOT"       -> ~ val[n.inputs[1]]
      [] n.type = "TON_TIMER" -> val[n.inputs[1]] /\ Expired(n, counts[i])

\* The value every node of a condition evaluates to.  Every child of a node
\* is evaluated in every scan, whatever its siblings returned.
Values(condition, counts, memory) ==
    LET val[i \in DOMAIN condition] == NodeValue(condition, counts, memory, val, i)
    IN  val

\* With the short-circuiting && the comment in AndNode::evaluate warns of: a
\* node after a false sibling is not evaluated and its timer does not tick.
TickedShortCircuit(condition, counts, memory) ==
    LET val == Values(condition, counts, memory)
        Skipped(i) == \E a \in DOMAIN condition :
                        /\ condition[a].type = "AND"
                        /\ \E k \in DOMAIN condition[a].inputs :
                              /\ condition[a].inputs[k] = i
                              /\ \E j \in 1 .. k - 1 : ~ val[condition[a].inputs[j]]
    IN  [i \in DOMAIN condition |->
            LET n == condition[i] IN
            IF n.type = "TON_TIMER" /\ Skipped(i) THEN counts[i]
            ELSE IF n.type = "TON_TIMER" /\ val[n.inputs[1]]
            THEN IF Expired(n, counts[i]) THEN counts[i] ELSE counts[i] + 1
            ELSE 0]

\* The elapsed-cycle counters after one evaluation.  elapsed_cycles_ goes on
\* counting after the timer has expired; nothing can observe that, so the
\* counter stays at the last value that matters.
Ticked(condition, counts, memory) ==
    LET val == Values(condition, counts, memory)
    IN  [i \in DOMAIN condition |->
            LET n == condition[i] IN
            IF n.type = "TON_TIMER" /\ val[n.inputs[1]]
            THEN IF Expired(n, counts[i]) THEN counts[i] ELSE counts[i] + 1
            ELSE 0]

WriteBit(memory, bit, value) == IF value THEN memory \cup {bit} ELSE memory \ {bit}

\* One iteration of LogicProgram::execute: the memory map after rule r, and
\* the program (its timers) after rule r.
MemoryAfterRule(program, r, memory) ==
    LET condition == program.rules[r].condition
    IN  WriteBit(memory, BitOf(program.rules[r].output),
                 Values(condition, program.elapsed[r], memory)[Len(condition)])

ProgramAfterRule(program, r, memory) ==
    [rules   |-> program.rules,
     elapsed |-> [program.elapsed EXCEPT ![r] =
                     Ticked(program.rules[r].condition, @, memory)]]

\* Program and memory after rule r.
RunRule(s, r) == [program |-> ProgramAfterRule(s.program, r, s.memory),
                  memory  |-> MemoryAfterRule(s.program, r, s.memory)]

ExecutedBackwards(prog, mem, first) ==
    LET from[r \in first .. Len(prog.rules) + 1] ==
            IF r = Len(prog.rules) + 1 THEN [program |-> prog, memory |-> mem]
            ELSE RunRule(from[r + 1], r)
    IN  from[first]

\* LogicProgram::execute from rule `first`, in rule order: program and memory
\* after each rule.  Later rules see what earlier rules of the scan wrote.
AfterRules(prog, mem, first) ==
    LET upTo[r \in first - 1 .. Len(prog.rules)] ==
            IF r = first - 1 THEN [program |-> prog, memory |-> mem]
            ELSE RunRule(upTo[r - 1], r)
    IN  upTo

\* What the rules from `first` to the last leave behind.
Executed(prog, mem, first) == AfterRules(prog, mem, first)[Len(prog.rules)]

=============================================================================
