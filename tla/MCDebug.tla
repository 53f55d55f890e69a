------------------------------ MODULE MCDebug ------------------------------
(* The engine alone on the programs of MCPrograms.                         *)
EXTENDS DDSimDebug, MCPrograms
=============================================================================
