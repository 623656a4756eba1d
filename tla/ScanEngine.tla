------------------------------ MODULE ScanEngine ------------------------------
(***************************************************************************)
(* The scan cycle: AslcEngine's worker thread with its MockDriver, the     *)
(* LogicRuntime it calls back into, and the threads around it: the one     *)
(* that calls start() and stop(), those that reload a program, and those   *)
(* that set simulated inputs.                                              *)
(*                                                                         *)
(* One step of the scan thread is what it does between two points where    *)
(* another thread can interfere: a byte of the driver's input vector (no   *)
(* lock protects it), the shared lock of execute_cycle, and each rule (the *)
(* memory map has a lock of its own, and only this thread writes to it).   *)
(*                                                                         *)
(* A program object is shared by current_ and by the scan thread's local   *)
(* pointer; `aliased` says whether both point to the same object, so that  *)
(* ticking the timers of one ticks the other's.                            *)
(***************************************************************************)
EXTENDS LogicInterpreter

CONSTANTS
    Documents,    \* the documents a reload may be given, good and bad
    NoProgram     \* a null program pointer

ASSUME DocumentsAssumption ==
    /\ Documents \subseteq Document
    /\ NoProgram \notin Program

VARIABLES
    isRunning,       \* is_running_
    stopRequested,   \* the stop token of worker_thread_
    control,         \* where the thread calling start() and stop() is
    scan,            \* where worker_thread_ is
    copied,          \* read_inputs: bytes copied so far
    rule,            \* LogicProgram::execute: the next rule
    memory,          \* the MemoryMap
    mockInputs,      \* MockDriver::mock_inputs_
    published,       \* MockDriver::previous_outputs_: the outputs last written
    current,         \* LogicRuntime::current_
    local,           \* the scan thread's copy of current_
    aliased          \* current and local are one object

controlVars == <<isRunning, stopRequested, control>>
runtimeVars == <<current, local, aliased>>
vars == <<controlVars, scan, copied, rule, memory, mockInputs, published, runtimeVars>>

ByteOf(area, byte) == {area} \X {byte} \X (0 .. BitsPerByte - 1)

InputImage == memory \cap BitsOf("I")

ThreadExists == scan # "none"

-----------------------------------------------------------------------------

Init ==
    /\ isRunning = FALSE
    /\ stopRequested = FALSE
    /\ control = "idle"
    /\ scan = "none"
    /\ copied = 0
    /\ rule = 1
    /\ memory = {}
    /\ mockInputs = {}
    /\ published = {}
    /\ current \in {NoProgram} \cup {NewProgram(doc) : doc \in {d \in Documents : Accepted(d)}}
    /\ local = NoProgram
    /\ aliased = FALSE

(* The controlling thread.                                                 *)

\* AslcEngine::start.  The driver's initialize() clears previous_outputs_,
\* and the new worker thread gets a stop token of its own.
Start ==
    /\ control = "idle"
    /\ ~ isRunning
    /\ published' = {}
    /\ isRunning' = TRUE
    /\ stopRequested' = FALSE
    /\ scan' = "head"
    /\ UNCHANGED <<control, copied, rule, memory, mockInputs, runtimeVars>>

\* AslcEngine::stop, its three steps: the flag, the stop request, the join.
StopRunning ==
    /\ control = "idle"
    /\ isRunning
    /\ isRunning' = FALSE
    /\ control' = "requesting"
    /\ UNCHANGED <<stopRequested, scan, copied, rule, memory, mockInputs, published, runtimeVars>>

RequestStop ==
    /\ control = "requesting"
    /\ stopRequested' = TRUE
    /\ control' = "joining"
    /\ UNCHANGED <<isRunning, scan, copied, rule, memory, mockInputs, published, runtimeVars>>

JoinWithoutWaiting ==
    /\ control = "joining"
    /\ control' = "idle"
    /\ UNCHANGED <<isRunning, stopRequested, scan, copied, rule, memory, mockInputs, published, runtimeVars>>

Join ==
    /\ control = "joining"
    /\ scan = "exited"
    /\ scan' = "none"
    /\ control' = "idle"
    /\ UNCHANGED <<isRunning, stopRequested, copied, rule, memory, mockInputs, published, runtimeVars>>

(* The scan thread: AslcEngine::run.                                       *)

CheckStopNever ==
    /\ scan = "head"
    /\ scan' = "reading"
    /\ copied' = 0
    /\ UNCHANGED <<controlVars, rule, memory, mockInputs, published, runtimeVars>>

\* The loop condition.
CheckStop ==
    /\ scan = "head"
    /\ scan' = IF ~ stopRequested /\ isRunning THEN "reading" ELSE "exited"
    /\ copied' = 0
    /\ UNCHANGED <<controlVars, rule, memory, mockInputs, published, runtimeVars>>

\* One byte of read_inputs: std::copy from mock_inputs_, which other threads
\* may be changing, into %I.
ReadInputByte ==
    /\ scan = "reading"
    /\ copied < InputSize
    /\ memory' = (memory \ ByteOf("I", copied)) \cup (mockInputs \cap ByteOf("I", copied))
    /\ copied' = copied + 1
    /\ UNCHANGED <<controlVars, scan, rule, mockInputs, published, runtimeVars>>

\* execute_cycle takes its copy of the program pointer under the shared lock.
FetchProgram ==
    /\ scan = "reading"
    /\ copied = InputSize
    /\ local' = current
    /\ aliased' = (current # NoProgram)
    /\ rule' = 1
    /\ scan' = IF current = NoProgram THEN "writing" ELSE "executing"
    /\ UNCHANGED <<controlVars, copied, memory, mockInputs, published, current>>

ExecuteRuleOfCurrent ==
    /\ scan = "executing"
    /\ IF rule <= Len(current.rules)
       THEN /\ memory' = MemoryAfterRule(current, rule, memory)
            /\ current' = ProgramAfterRule(current, rule, memory)
       ELSE UNCHANGED <<memory, current>>
    /\ rule <= Len(local.rules)
    /\ rule' = rule + 1
    /\ UNCHANGED <<controlVars, scan, copied, mockInputs, published, local, aliased>>

\* One iteration of LogicProgram::execute.  A reference out of range would
\* throw here, out of the thread's function, and end the process; see
\* ReferencesInRange.
ExecuteRule ==
    /\ scan = "executing"
    /\ rule <= Len(local.rules)
    /\ memory' = MemoryAfterRule(local, rule, memory)
    /\ local' = ProgramAfterRule(local, rule, memory)
    /\ current' = IF aliased THEN local' ELSE current
    /\ rule' = rule + 1
    /\ UNCHANGED <<controlVars, scan, copied, mockInputs, published, aliased>>

FinishProgramRunsAgain ==
    /\ scan = "executing"
    /\ rule > Len(local.rules)
    /\ rule' = 1
    /\ UNCHANGED <<controlVars, scan, copied, memory, mockInputs, published, runtimeVars>>

\* execute and execute_cycle return; the scan thread drops its pointer.
FinishProgram ==
    /\ scan = "executing"
    /\ rule > Len(local.rules)
    /\ scan' = "writing"
    /\ local' = NoProgram
    /\ aliased' = FALSE
    /\ UNCHANGED <<controlVars, copied, rule, memory, mockInputs, published, current>>

\* write_outputs, then the end of the cycle: the cycle count, which nothing
\* reads but a log line, and the sleep until the next one are left out.
WriteOutputs ==
    /\ scan = "writing"
    /\ published' = memory \cap BitsOf("Q")
    /\ scan' = "head"
    /\ UNCHANGED <<controlVars, copied, rule, memory, mockInputs, runtimeVars>>

(* The other threads.                                                      *)

\* reload_from_json, or from_file and reload: a rejected document leaves the
\* runtime alone, an accepted one replaces the pointer under the lock.
Reload ==
    \E doc \in Documents :
        /\ IF Accepted(doc)
           THEN current' = NewProgram(doc) /\ aliased' = FALSE
           ELSE UNCHANGED <<current, aliased>>
        /\ UNCHANGED <<controlVars, scan, copied, rule, memory, mockInputs, published, local>>

\* A store by set_mock_input_bit.  The read-modify-write is not atomic (see
\* InputPath), so a store may leave any value in the one byte it writes.
SetInput ==
    \E byte \in 0 .. InputSize - 1 : \E value \in SUBSET ByteOf("I", byte) :
        /\ mockInputs' = (mockInputs \ ByteOf("I", byte)) \cup value
        /\ UNCHANGED <<controlVars, scan, copied, rule, memory, published, runtimeVars>>

-----------------------------------------------------------------------------

ScanStep == \/ CheckStop \/ ReadInputByte \/ FetchProgram \/ ExecuteRule
            \/ FinishProgram \/ WriteOutputs

StopStep == RequestStop \/ Join

Next == Start \/ StopRunning \/ StopStep \/ ScanStep \/ Reload \/ SetInput

Spec == Init /\ [][Next]_vars

\* The operating system runs the scan thread and a thread inside stop(); it
\* owes nothing to those that may call start, stop, reload or set inputs.
FairSpec == Spec /\ WF_vars(ScanStep) /\ WF_vars(StopStep)

-----------------------------------------------------------------------------
(* Properties.                                                             *)

LivePrograms == {p \in {current, local} : p # NoProgram}

\* Types; the copy of the inputs never runs past %I (MockDriver::read_inputs),
\* and programs keep one counter per node (LogicProgram).
TypeOK ==
    /\ isRunning \in BOOLEAN
    /\ stopRequested \in BOOLEAN
    /\ control \in {"idle", "requesting", "joining"}
    /\ scan \in {"none", "head", "reading", "executing", "writing", "exited"}
    /\ copied \in 0 .. InputSize
    /\ rule \in Nat \ {0}
    /\ memory \subseteq Bits
    /\ mockInputs \subseteq BitsOf("I")
    /\ published \subseteq BitsOf("Q")
    /\ current \in Program \cup {NoProgram}
    /\ local \in Program \cup {NoProgram}
    /\ aliased \in BOOLEAN

\* No program the scan thread can reach reads or writes outside the memory
\* map, or writes to %I.  MemoryMap would throw out of AslcEngine::run, which
\* catches nothing, and the process would end: it is the parser, on another
\* thread and perhaps long before, that keeps the scan thread alive.
ReferencesInRange ==
    \A p \in LivePrograms : \A r \in DOMAIN p.rules :
        /\ BitOf(p.rules[r].output) \in Bits \ BitsOf("I")
        /\ p.rules[r].condition # <<>>
        /\ \A i \in DOMAIN p.rules[r].condition :
              LET n == p.rules[r].condition[i]
              IN  /\ n.type = "INPUT" => BitOf(n.ref) \in Bits
                  /\ n.type # "INPUT" => n.inputs # <<>>

\* The inputs a scan sees are those it latched: from the moment the program
\* is fetched until the outputs are written, %I does not change, whatever
\* happens in the field, and whatever program is loaded.
InputsFrozen == [][scan # "reading" => InputImage' = InputImage]_vars

\* start() never finds a scan thread left over, and stop() never leaves one
\* behind: two threads would run the same program's timers unlocked.
OneScanThread == (control = "idle") => (isRunning <=> ThreadExists)

\* stop() returns: the scan thread sees the flag within a cycle.
StopReturns == (control # "idle") ~> (control = "idle")

InForce(doc) == current # NoProgram /\ current.rules = doc.rules

\* A deployed program is run: while the engine is running, a program that is
\* not replaced is executed by some later scan, even when it was swapped in
\* while the scan thread was executing the one before.
DeployedProgramRuns ==
    \A doc \in Documents :
        (isRunning /\ InForce(doc))
            ~> \/ scan = "executing" /\ local.rules = doc.rules /\ aliased
               \/ ~ InForce(doc)
               \/ ~ isRunning

=============================================================================
