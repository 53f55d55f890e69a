----------------------------- MODULE TwoQubits -----------------------------
(***************************************************************************)
(* The states of two qubits that h, s, x, z and cx reach from |00>: sixty, *)
(* with real and imaginary amplitudes, separable and entangled.            *)
(***************************************************************************)
EXTENDS QubitStates

PairIdentity == <<"id", <<>>>>
PairGates ==
  {PairIdentity}
    \cup {<<name, qubits>> : name \in {"h", "x", "z", "s"},
                             qubits \in {<<0>>, <<1>>, <<0, 1>>}}
    \cup {<<"cx", <<0, 1>>>>, <<"cx", <<1, 0>>>>}

PairZero == AllZero(2)
PairStates == ReachedWithin(9, PairGates, PairZero)
PairAct == ActOn(PairGates, PairStates)

MeasureQubit(q, b) == MeasureQubitOf(PairStates, q, b)
ResetOf(q) == ResetQubitOf(PairStates, q)

=============================================================================
