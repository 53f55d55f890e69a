---------------------------- MODULE MCHistory ----------------------------
(* The engine with its history on the programs of MCPrograms.              *)
EXTENDS DDSimHistory, MCPrograms

(* The order test_simulation.cpp (StepThroughCode) expects of              *)
(* complex-jumps.qasm.                                                     *)
ASSUME StepThroughCode ==
  LET at == Journey(MCCode["jumps"], 27)
  IN  [k \in 1 .. 27 |-> at[k - 1].pos] =
        <<0, 1, 4, 9, 12, 5, 6, 10, 2, 3, 11, 7, 10, 2, 3, 11, 8, 13, 10, 2,
          3, 11, 14, 10, 2, 3, 11>>

=============================================================================
