----------------------------- MODULE MCScanEngine -----------------------------
(***************************************************************************)
(* ScanEngine on a memory map of one input byte and one output byte of two *)
(* bits each, with three good documents and bad ones of every kind the     *)
(* parser knows.                                                           *)
(***************************************************************************)
EXTENDS ScanEngineRefinement, LogicDocuments

Copy == RuleFor(Q0, <<Input(I0)>>)

\* A timer, and a rule chained to it through %Q.
Delayed == Doc(<< RuleFor(Q0, <<Input(I0), Timer(1, 30)>>),
                  RuleFor(Q1, <<Input(Q0), Input(I1), Gate("OR", <<1, 2>>)>>) >>)
\* The same output driven the other way, and a self-holding rung.
Latching == Doc(<< RuleFor(Q0, <<Input(I0), Gate("NOT", <<1>>)>>),
                   RuleFor(Q1, <<Input(Q1), Input(I1), Gate("AND", <<1, 2>>)>>) >>)
NoRules == Doc(<<>>)

WritesInput  == Doc(<<Copy, RuleFor(I1, <<Input(I0)>>)>>)
ByteTooHigh  == Doc(<<RuleFor(Ref("Q", 1, 0), <<Input(I0)>>)>>)
BitTooHigh   == Doc(<<RuleFor(Q0, <<Input(Ref("I", 0, 2))>>)>>)
EmptyAnd     == Doc(<<RuleFor(Q0, <<Gate("AND", <<>>)>>)>>)
Remote       == Doc(<<RuleFor(Q0, <<Input([I0 EXCEPT !.node = TRUE])>>)>>)
NegativeTime == Doc(<<RuleFor(Q0, <<Input(I0), Timer(1, -1)>>)>>)
NoCondition  == Doc(<<RuleFor(Q0, <<>>)>>)

MCDocuments == {Delayed, Latching, NoRules, WritesInput, ByteTooHigh, BitTooHigh,
                EmptyAnd, Remote, NegativeTime, NoCondition}

=============================================================================
