------------------------- MODULE AssertionMovement -------------------------
(***************************************************************************)
(* Which assertions the debugger suggests to move up, and how far: the     *)
(* commutation rules (src/src/common/parsing/AssertionTools.cpp) and the   *)
(* scan of dddiagnosticsOnCodePreprocessing (DDSimDiagnostics.cpp).        *)
(***************************************************************************)
EXTENDS QubitPrograms

-----------------------------------------------------------------------------
(* Commutation rules.                                                      *)

PauliAndPhase == {"x", "y", "z", "s", "t", "sdg", "tdg"}

(* An instruction on the assertion's qubits: entanglement survives what    *)
(* has one target, superposition survives Pauli and phase gates.           *)
RuleCommutes(assertion, st) ==
  \/ st.is = "op" /\ st.kind = "barrier"
  \/ assertion.asserts = "ent" /\ Len(st.targets) < 2
  \/ /\ assertion.asserts = "sup"
     /\ st.is = "op" /\ st.gate \in PauliAndPhase

(* A register among an instruction's targets stands for all its elements;  *)
(* an assertion's targets are elements already.                            *)
SharesTarget(assertionTargets, st) ==
  \E v \in Range(assertionTargets), w \in Range(st.targets) :
    IF IsElement(w) THEN v = w ELSE v[1] = w[1]

(* Mutant of DoesCommute: the assertion may pass a measurement.            *)
DoesCommutePastMeasure(p, i, j) ==
  LET st == p.lines[j]
  IN  CASE st.is \in {"assert", "def"} -> TRUE
        [] st.is = "decl" -> \A v \in Range(p.targets[i]) :
                               \A w \in Range(st.targets) : v[1] # w[1]
        [] st.is = "op" /\ st.kind = "reset" -> FALSE
        [] st.is = "op" /\ st.kind = "if" -> RuleCommutes(p.lines[i], st)
        [] OTHER -> \/ ~SharesTarget(p.targets[i], st)
                    \/ RuleCommutes(p.lines[i], st)

(* May the assertion at i change places with line j? It passes other       *)
(* assertions, definitions and foreign declarations, never a measurement   *)
(* or a reset, and a conditional operation by its rules only.              *)
DoesCommute(p, i, j) ==
  LET st == p.lines[j]
  IN  CASE st.is \in {"assert", "def"} -> TRUE
        [] st.is = "decl" -> \A v \in Range(p.targets[i]) :
                               \A w \in Range(st.targets) : v[1] # w[1]
        [] st.is = "op" /\ st.kind \in {"measure", "reset"} -> FALSE
        [] st.is = "op" /\ st.kind = "if" -> RuleCommutes(p.lines[i], st)
        [] OTHER -> \/ ~SharesTarget(p.targets[i], st)
                    \/ RuleCommutes(p.lines[i], st)

-----------------------------------------------------------------------------
(* The scan: line by line upward, a whole gate definition at a time, never *)
(* out of the gate the assertion is in.                                    *)

Above(p, k) ==
  IF p.type[k - 1] = "RETURN" THEN p.body[k - 1] ELSE k - 1

(* Mutant of LowestSwap: leaves the body of the gate.                      *)
LowestSwapLeavesGate(p, i) ==
  LET Lowest[k \in 0 .. i] ==
        IF k = 0 THEN k
        ELSE IF DoesCommute(p, i, Above(p, k)) THEN Lowest[Above(p, k)]
             ELSE k
  IN  Lowest[i]

LowestSwap(p, i) ==
  LET Lowest[k \in 0 .. i] ==
        IF k = 0 \/ k - 1 \in p.definitions THEN k
        ELSE IF DoesCommute(p, i, Above(p, k)) THEN Lowest[Above(p, k)]
             ELSE k
  IN  Lowest[i]

(* assertionsToMove: from where to where.                                  *)
AssertionsToMove(p) ==
  {<<i, LowestSwap(p, i)>> :
     i \in {k \in DOMAIN p.type :
              p.type[k] = "ASSERTION" /\ LowestSwap(p, k) # k}}

=============================================================================
