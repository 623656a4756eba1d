------------------------------ MODULE ScanTiming ------------------------------
(***************************************************************************)
(* When AslcEngine::run starts its cycles, and what that makes of a timer, *)
(* which counts cycles and takes each of them for one period.  The         *)
(* deadline advances by one period per cycle whatever the cycle took, and  *)
(* sleep_until returns at once when the deadline has passed: a late engine *)
(* runs its cycles back to back until it has caught up.  How long a scan   *)
(* takes and how late the system wakes the thread is arbitrary.            *)
(***************************************************************************)
EXTENDS Integers, Sequences

CONSTANTS
    CyclePeriod,  \* cycle_period_, period_ms_
    Preset,       \* preset_ms_ of the timer
    Horizon       \* bound: the last instant considered

ASSUME TimingAssumption ==
    /\ CyclePeriod \in Nat \ {0}
    /\ Preset \in Nat
    /\ Horizon \in Nat

VARIABLES
    now,          \* steady_clock
    phase,        \* the engine thread: "stopped", "ready", "scanning", "sleeping"
    deadline,     \* next_cycle_time
    elapsed,      \* elapsed_cycles_ of the timer
    lit,          \* what the timer last evaluated to
    began,        \* when run() was entered (history)
    cycles,       \* how many cycles it began since (history)
    dues          \* of every cycle ever begun, when it was due (history)

timingVars == <<now, phase, deadline, elapsed, lit, began, cycles, dues>>

TimingInit ==
    /\ now = 0
    /\ phase = "stopped"
    /\ deadline = 0
    /\ elapsed = 0
    /\ lit = FALSE
    /\ began = 0
    /\ cycles = 0
    /\ dues = <<>>

\* run() up to its loop.  The program, and with it the timer, is the
\* runtime's: it keeps its count while the engine is stopped.
EnterFrom(time) ==
    /\ phase = "stopped"
    /\ phase' = "ready"
    /\ deadline' = time
    /\ began' = now
    /\ cycles' = 0
    /\ UNCHANGED <<now, elapsed, lit, dues>>

EnterKeepingDeadline == EnterFrom(deadline)
Enter == EnterFrom(now)

\* The loop condition holds: the deadline moves on, the scan begins.
BeginCycle ==
    /\ phase = "ready"
    /\ phase' = "scanning"
    /\ deadline' = deadline + CyclePeriod
    /\ cycles' = cycles + 1
    /\ dues' = Append(dues, deadline)
    /\ UNCHANGED <<now, elapsed, lit, began>>

\* It does not: the thread ends.
Leave ==
    /\ phase = "ready"
    /\ phase' = "stopped"
    /\ UNCHANGED <<now, deadline, elapsed, lit, began, cycles, dues>>

\* The callback evaluates the timer, whose input is `input`, and the engine
\* goes to sleep.
Count(input) ==
    /\ elapsed' = IF input THEN elapsed + 1 ELSE 0
    /\ lit' = (input /\ elapsed' * CyclePeriod >= Preset)

EndCycleTo(next) ==
    /\ phase = "scanning"
    /\ phase' = next
    /\ \E input \in BOOLEAN : Count(input)
    /\ UNCHANGED <<now, deadline, began, cycles, dues>>

EndCycleWithoutSleep == EndCycleTo("ready")
EndCycle == EndCycleTo("sleeping")

\* sleep_until returns, at the deadline or later.
Wake ==
    /\ phase = "sleeping"
    /\ now >= deadline
    /\ phase' = "ready"
    /\ UNCHANGED <<now, deadline, elapsed, lit, began, cycles, dues>>

Elapse ==
    /\ now < Horizon
    /\ now' = now + 1
    /\ UNCHANGED <<phase, deadline, elapsed, lit, began, cycles, dues>>

TimingNext == Enter \/ BeginCycle \/ Leave \/ EndCycle \/ Wake \/ Elapse

TimingSpec == TimingInit /\ [][TimingNext]_timingVars

-----------------------------------------------------------------------------
(* Properties.                                                             *)

\* Types; and the engine never sleeps for more than one period
\* (AslcEngine::run).
TimingTypeOK ==
    /\ now \in 0 .. Horizon
    /\ phase \in {"stopped", "ready", "scanning", "sleeping"}
    /\ deadline \in 0 .. now + CyclePeriod
    /\ elapsed \in 0 .. Len(dues)
    /\ lit \in BOOLEAN
    /\ began \in 0 .. now
    /\ cycles \in 0 .. Len(dues)
    /\ \A k \in DOMAIN dues : dues[k] \in 0 .. now

\* n cycles never stand for more time than has passed since the engine was
\* started: catching up repays a delay and nothing else, so that a restart
\* owes no cycles for the time the engine was stopped (AslcEngine::run).
NoMoreCyclesThanTime == (cycles - 1) * CyclePeriod <= now - began

\* A timer that is on has waited its preset but for one period, from the
\* instant its first counted cycle was due: a burst of late cycles makes it
\* early by what that cycle was late and no more, also when the engine was
\* stopped and restarted meanwhile (TonTimerNode::evaluate under
\* AslcEngine::run).
TimerWaits ==
    lit /\ phase # "scanning" =>
        LET first == dues[Len(dues) - elapsed + 1]
        IN  now - first >= Preset - CyclePeriod

=============================================================================
