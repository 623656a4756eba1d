------------------------------ MODULE ProgramScan ------------------------------
(***************************************************************************)
(* One program, scan after scan, with whatever inputs the field presents:  *)
(* what its timers and its rung order mean over a history of scans.  The   *)
(* history of node values is kept only for the properties.                 *)
(***************************************************************************)
EXTENDS LogicInterpreter

CONSTANTS
    Sources,       \* documents to run, those of them that are accepted
    MaxScans       \* bound: scans in a history

ASSUME SourcesAssumption == Sources \subseteq Document

VARIABLES
    program,       \* the program, with its timers
    bits,          \* the memory map: the bits that are set
    history        \* for each scan, for each rule: the values of its nodes

scansVars == <<program, bits, history>>

ScansInit ==
    /\ program \in {NewProgram(doc) : doc \in {d \in Sources : Accepted(d)}}
    /\ bits = {}
    /\ history = <<>>

\* The memory map and the timers when rule r is about to run.
Before(r, image) ==
    [memory |-> AfterRules(program, (bits \ BitsOf("I")) \cup image, 1)[r - 1].memory,
     counts |-> program.elapsed[r]]

\* The values of every node of every rule in this scan.
NodeValues(image) ==
    [r \in DOMAIN program.rules |->
        Values(program.rules[r].condition, Before(r, image).counts, Before(r, image).memory)]

\* read_inputs, then LogicProgram::execute.
Scan ==
    /\ Len(history) < MaxScans
    /\ \E image \in SUBSET BitsOf("I") :
          LET after == Executed(program, (bits \ BitsOf("I")) \cup image, 1)
          IN  /\ bits' = after.memory
              /\ program' = after.program
              /\ history' = Append(history, NodeValues(image))

ScansNext == Scan

ScansSpec == ScansInit /\ [][ScansNext]_scansVars

-----------------------------------------------------------------------------
(* Properties.                                                             *)

\* How many scans in a row a timer's input must have been true: at least one,
\* even when the preset is 0.
ScansNeeded(preset) == IF preset = 0 THEN 1 ELSE (preset + Period - 1) \div Period

\* An on-delay timer is on exactly when its input has been true in each of
\* the last ScansNeeded scans, this one included: wherever the timer is in
\* the tree, whatever its siblings and its parents evaluate to, however often
\* it was reset before (TonTimerNode::evaluate, AndNode::evaluate).
OnDelay ==
    \A r \in DOMAIN program.rules : \A i \in DOMAIN program.rules[r].condition :
        LET n == program.rules[r].condition[i]
            k == ScansNeeded(n.preset)
        IN  n.type = "TON_TIMER" =>
              \A s \in DOMAIN history :
                 history[s][r][i] <=> /\ s >= k
                                      /\ \A t \in s - k + 1 .. s : history[t][r][n.inputs[1]]

\* Rung order within a scan: after a scan, the last rule that drives a bit
\* has decided it, and a rule that reads a bit driven by an earlier rule read
\* the value of this scan (LogicProgram::execute).
RungOrder ==
    history # <<>> =>
    LET rules == program.rules
        now   == history[Len(history)]
        Root(r) == now[r][Len(rules[r].condition)]
        Drives(r, bit) == BitOf(rules[r].output) = bit
    IN  \A r \in DOMAIN rules :
          /\ (\A q \in r + 1 .. Len(rules) : ~ Drives(q, BitOf(rules[r].output)))
                => (BitOf(rules[r].output) \in bits <=> Root(r))
          /\ \A i \in DOMAIN rules[r].condition :
                LET n == rules[r].condition[i]
                    earlier == {q \in 1 .. r - 1 : Drives(q, BitOf(n.ref))}
                IN  n.type = "INPUT" /\ earlier # {} =>
                      \E q \in earlier : /\ \A p \in earlier : p <= q
                                         /\ now[r][i] <=> Root(q)

=============================================================================
