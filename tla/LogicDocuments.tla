---------------------------- MODULE LogicDocuments ----------------------------
(***************************************************************************)
(* Builders for the small logic documents the model-checked instances use. *)
(***************************************************************************)
EXTENDS LogicInterpreter

Ref(area, byte, bit) == [node |-> FALSE, area |-> area, byte |-> byte, bit |-> bit]
I0 == Ref("I", 0, 0)
I1 == Ref("I", 0, 1)
Q0 == Ref("Q", 0, 0)
Q1 == Ref("Q", 0, 1)

Input(ref)       == [type |-> "INPUT", ref |-> ref, inputs |-> <<>>, preset |-> -1]
Gate(type, ins)  == [type |-> type, ref |-> I0, inputs |-> ins, preset |-> -1]
Timer(in, ms)    == [type |-> "TON_TIMER", ref |-> I0, inputs |-> <<in>>, preset |-> ms]

RuleFor(output, condition) == [output |-> output, condition |-> condition]
Doc(rules) == [rules |-> rules]

=============================================================================
