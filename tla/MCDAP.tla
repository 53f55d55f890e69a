------------------------------- MODULE MCDAP -------------------------------
(* The debug adapter on the programs of MCPrograms.                        *)
EXTENDS DAPServer, MCPrograms
=============================================================================
