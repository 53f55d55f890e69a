-------------------------- MODULE AssertionChecks --------------------------
(***************************************************************************)
(* What an assertion says of a quantum state (checkAssertion in            *)
(* src/src/backend/dd/DDSimDebug.cpp) and which assertions imply others    *)
(* (src/src/common/parsing/AssertionParsing.cpp). An equality assertion    *)
(* has a state vector (of its circuit, for an assert-eq with code) and a   *)
(* similarity.                                                             *)
(***************************************************************************)
EXTENDS ComplexMathematics, Sequences

QubitSet(qubits) == {qubits[m] : m \in DOMAIN qubits}

CheckAssertionEntangled(v, qubits) ==
  \A i, j \in QubitSet(qubits) : i # j => AreQubitsEntangled(v, i, j)

(* Some target has not the same value in all of the state.                 *)
CheckAssertionSuperposition(v, qubits) ==
  \E k, l \in Support(v) : \E q \in QubitSet(qubits) : Bit(k, q) # Bit(l, q)

(* getStateVectorSub: all qubits in order are the state itself; of others  *)
(* the sub-state must be pure. The order of the targets plays no part.     *)
IsWhole(v, qubits) == qubits = [m \in 1 .. NumQubits(v) |-> m - 1]

SubState(v, qubits) ==
  IF IsWhole(v, qubits) THEN v
  ELSE SubStateVectorAmplitudes(v, QubitSet(qubits))

CheckAssertionEquality(v, qubits, target, similarity) ==
  CASE ~IsWhole(v, qubits) /\ ~HasSubStateVector(v, QubitSet(qubits)) -> "throws"
    [] IsSimilar(SubState(v, qubits), target, similarity) -> "holds"
    [] OTHER -> "fails"

CheckAssertion(assertion, qubits, v) ==
  CASE assertion.asserts = "ent" ->
         IF CheckAssertionEntangled(v, qubits) THEN "holds" ELSE "fails"
    [] assertion.asserts = "sup" ->
         IF CheckAssertionSuperposition(v, qubits) THEN "holds" ELSE "fails"
    [] assertion.asserts \in {"eq", "circ"} ->
         CheckAssertionEquality(v, qubits, assertion.state, assertion.similarity)

-----------------------------------------------------------------------------
(* implies.                                                                *)

Targets(assertion) == QubitSet(assertion.targets)

(* qubitInSuperposition adds up magnitudes, not their squares. Amplitudes  *)
(* that are not zero have all the same magnitude here.                     *)
QubitInSuperposition(v, q) ==
  LET ones == Cardinality({k \in Support(v) : Bit(k, q) = 1})
  IN  ones > 0 /\ ones * ones < Cardinality(Support(v))

(* The places of other's targets among those of an assertion.              *)
IndexList(assertion, other) ==
  {m - 1 : m \in {k \in DOMAIN assertion.targets :
                    assertion.targets[k] \in Targets(other)}}

EntanglementImplies(assertion, other) ==
  \/ other.asserts = "ent" /\ Targets(other) \subseteq Targets(assertion)
  \/ other.asserts = "sup" /\ Targets(other) \cap Targets(assertion) # {}

SuperpositionImpliesParts(assertion, other) ==       \* mutant
  other.asserts = "sup" /\ Targets(other) \subseteq Targets(assertion)

SuperpositionImplies(assertion, other) ==
  other.asserts = "sup" /\ Targets(assertion) \subseteq Targets(other)

(* The similarity of both states times one threshold reaches the other.    *)
IsSimilarWithin(v, similarity, other) ==
  DotProduct(v, other.state) * similarity
    >= other.similarity * Norm(v) * Norm(other.state)

EqualityImpliesEquality(assertion, other) ==
  IsSimilarWithin(IF Targets(assertion) = Targets(other) THEN assertion.state
                  ELSE SubStateVectorAmplitudes(assertion.state,
                                                IndexList(assertion, other)),
                  assertion.similarity, other)

EqualityImplies(assertion, other) ==
  CASE other.asserts = "eq" ->
         /\ assertion.similarity >= other.similarity
         /\ Targets(other) \subseteq Targets(assertion)
         /\ EqualityImpliesEquality(assertion, other)
    [] other.asserts = "sup" ->
         \E q \in IndexList(assertion, other) :
           QubitInSuperposition(assertion.state, q)
    [] other.asserts = "ent" ->
         /\ assertion.similarity = 4
         /\ Targets(other) \subseteq Targets(assertion)
         /\ \A i, j \in IndexList(assertion, other) :
              i # j => AreQubitsEntangled(assertion.state, i, j)
    [] OTHER -> FALSE

(* getSubStateVectorAmplitudes finds no amplitudes when the sub-state is   *)
(* not pure: the comparison throws.                                        *)
ImpliesThrows(assertion, other) ==
  /\ assertion.asserts = "eq" /\ other.asserts = "eq"
  /\ assertion.similarity >= other.similarity
  /\ Targets(other) \subseteq Targets(assertion)
  /\ Targets(other) # Targets(assertion)
  /\ ~HasSubStateVector(assertion.state, IndexList(assertion, other))

Implies(assertion, other) ==
  CASE assertion.asserts = "ent" -> EntanglementImplies(assertion, other)
    [] assertion.asserts = "sup" -> SuperpositionImplies(assertion, other)
    [] assertion.asserts = "eq" -> EqualityImplies(assertion, other)
    [] assertion.asserts = "circ" -> FALSE

=============================================================================
