---------------------------- MODULE MCProgramScan ----------------------------
(***************************************************************************)
(* ProgramScan with timers in every position of a tree: under an AND after *)
(* a sibling that may be false, in series, negated, with presets that are  *)
(* 0, a multiple of the period, and between two multiples; and rungs that  *)
(* chain through %M and %Q, forwards and backwards, and share an output.   *)
(***************************************************************************)
EXTENDS ProgramScan, LogicDocuments

M0 == Ref("M", 0, 0)

Gated == Doc(<< RuleFor(Q0, << Input(I0), Input(I1), Timer(2, 50), Gate("AND", <<1, 3>>) >>) >>)

InSeries == Doc(<< RuleFor(Q0, << Input(I0), Timer(1, 40), Timer(2, 21),
                                  Input(I1), Timer(4, 0), Gate("OR", <<3, 5>>) >>) >>)

Chained == Doc(<< RuleFor(Q1, << Input(M0), Timer(1, 20) >>),
                  RuleFor(M0, << Input(I0), Input(I1), Gate("AND", <<1, 2>>), Gate("NOT", <<3>>) >>),
                  RuleFor(Q0, << Input(M0), Timer(1, 60) >>),
                  RuleFor(Q0, << Input(Q0), Input(I1), Gate("OR", <<1, 2>>) >>) >>)

MCDocuments == {Gated, InSeries, Chained}

=============================================================================
