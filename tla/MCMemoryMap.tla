----------------------------- MODULE MCMemoryMap -----------------------------
(***************************************************************************)
(* An area of two bytes of two bits.  Areas share nothing but the lock.    *)
(***************************************************************************)
EXTENDS MemoryMap, TLC

CONSTANTS I, t1, t2

MCAreas == {I}
MCSize == I :> 2
MCBlocks == {<<{0}>>, <<{1}, {0, 1}>>, <<{}, {}, {}>>}
Symmetry == Permutations(Threads)

=============================================================================
