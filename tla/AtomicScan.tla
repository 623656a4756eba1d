------------------------------ MODULE AtomicScan ------------------------------
(***************************************************************************)
(* What the engine and the hot-swap wrapper promise together: the          *)
(* controller reads its inputs, runs the whole of one program on them in a *)
(* single step, and publishes the outputs; a new program takes over        *)
(* between two such steps, complete and with all its timers at 0.          *)
(* ScanEngine runs the rules one at a time on a thread of its own, with    *)
(* reloads and stop() at any moment, and is shown to implement this.       *)
(***************************************************************************)
EXTENDS LogicInterpreter

CONSTANTS
    Documents,    \* the documents a reload may be given
    NoProgram     \* the runtime before any program was loaded

VARIABLES
    memory,       \* the memory map
    published,    \* the outputs the driver last wrote to the hardware
    program,      \* the program in force
    stage         \* "reading" inputs, or "executed" and not yet published

vars == <<memory, published, program, stage>>

Init ==
    /\ memory = {}
    /\ published = {}
    /\ program \in {NoProgram} \cup {NewProgram(doc) : doc \in {d \in Documents : Accepted(d)}}
    /\ stage = "reading"

\* The input image takes values from the field.
ReadInputs ==
    /\ stage = "reading"
    /\ \E image \in SUBSET BitsOf("I") : memory' = (memory \ BitsOf("I")) \cup image
    /\ UNCHANGED <<published, program, stage>>

\* All the rules of the program in force, in one step.
Execute ==
    /\ stage = "reading"
    /\ stage' = "executed"
    /\ IF program = NoProgram
       THEN UNCHANGED <<memory, program>>
       ELSE LET after == Executed(program, memory, 1)
            IN  memory' = after.memory /\ program' = after.program
    /\ UNCHANGED published

Publish ==
    /\ stage = "executed"
    /\ stage' = "reading"
    /\ published' = memory \cap BitsOf("Q")
    /\ UNCHANGED <<memory, program>>

\* The driver is initialised again when the engine is started again.
Initialise ==
    /\ stage = "reading"
    /\ published' = {}
    /\ UNCHANGED <<memory, program, stage>>

Deploy ==
    /\ \E doc \in {d \in Documents : Accepted(d)} : program' = NewProgram(doc)
    /\ UNCHANGED <<memory, published, stage>>

Next == ReadInputs \/ Execute \/ Publish \/ Initialise \/ Deploy

Spec == Init /\ [][Next]_vars

=============================================================================
