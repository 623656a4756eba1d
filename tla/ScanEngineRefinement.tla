-------------------------- MODULE ScanEngineRefinement --------------------------
(***************************************************************************)
(* ScanEngine implements AtomicScan.  A scan takes effect when it fetches  *)
(* its program: from then until the last rule has run, the abstract memory *)
(* and program are what the rules still to run will leave behind.          *)
(***************************************************************************)
EXTENDS ScanEngine

Remaining == Executed(local, memory, rule)

AbstractMemory == IF scan = "executing" THEN Remaining.memory ELSE memory

AbstractProgram ==
    IF scan = "executing" /\ aliased THEN Remaining.program ELSE current

AbstractStage == IF scan \in {"executing", "writing"} THEN "executed" ELSE "reading"

Atomic == INSTANCE AtomicScan WITH memory  <- AbstractMemory,
                                   program <- AbstractProgram,
                                   stage   <- AbstractStage

\* Every scan is atomic: one program, the inputs it latched, its timers and
\* its outputs, whatever reloads and stops happen while its rules run
\* (LogicRuntime::execute_cycle copies the pointer and runs without the lock).
ImplementsAtomicScan == Atomic!Spec

=============================================================================
