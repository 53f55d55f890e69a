----------------------------- MODULE MCFraming -----------------------------
(* A flat body and one with a nested object in it.                         *)
EXTENDS DAPFraming
MCBodies == {<<"{", "}">>, <<"{", "{", "}", "}">>}
=============================================================================
