---------------------------- MODULE MCControl ----------------------------
(* The commands of the debugger on the programs of MCPrograms.             *)
EXTENDS DDSimControl, MCPrograms
=============================================================================
