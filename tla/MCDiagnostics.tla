--------------------------- MODULE MCDiagnostics ---------------------------
(* The programs of FailingPrograms. The tables come first and under names  *)
(* of their own, so that they are worked out once and before the rest.     *)
EXTENDS FailingPrograms, Diagnostics

MCStates == LET states == TripleStates IN states
MCAct == LET act == TripleAct IN act

Loaded == [p \in DOMAIN Sources |-> PreprocessNamed(Sources[p])]
MCCode == LET loaded == Loaded IN loaded

=============================================================================
