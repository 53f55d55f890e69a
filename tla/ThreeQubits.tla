---------------------------- MODULE ThreeQubits ----------------------------
(***************************************************************************)
(* The states of three qubits that h, x and cx reach from |000>: all       *)
(* amplitudes are real.                                                    *)
(***************************************************************************)
EXTENDS QubitStates

TripleIdentity == <<"id", <<>>>>
TripleGates ==
  {TripleIdentity}
    \cup {<<name, <<q>>>> : name \in {"h", "x"}, q \in 0 .. 2}
    \cup {<<"cx", qubits>> : qubits \in {<<c, t>> \in (0 .. 2) \X (0 .. 2) : c # t}}

TripleZero == AllZero(3)
TripleStates == ReachedWithin(9, TripleGates, TripleZero)
TripleAct == ActOn(TripleGates, TripleStates)

MeasureTripleQubit(q, b) == MeasureQubitOf(TripleStates, q, b)

=============================================================================
