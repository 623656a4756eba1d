-------------------------- MODULE MCTelemetryFrames --------------------------
(***************************************************************************)
(* One byte of %I, two of %Q.  Three rules of which the first and the last *)
(* drive one output, as in a program that sets a coil and overwrites it.   *)
(***************************************************************************)
EXTENDS TelemetryFrames, TLC

CONSTANTS c1, c2

MCThreads == {Scanner, c1, c2}
MCAreas == {I, Q}
MCSize == I :> 1 @@ Q :> 2
MCCoil == <<0, 1, 0>>
MCBlocks == {<<{i}>> : i \in 1 .. MaxScans}
Symmetry == Permutations(Clients)

=============================================================================
