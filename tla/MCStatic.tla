----------------------------- MODULE MCStatic -----------------------------
(* Programs over two qubits and a bit, with gates that call each other.    *)
EXTENDS StaticAnalysis, AssertionChecks, TwoQubits

(* Constants of the root module are evaluated once.                        *)
MCStates == PairStates
MCAct == PairAct

Q(k) == <<"q", k>>
Whole == <<"q">>
A == <<"a">>
B == <<"b">>
D == <<"d">>
LOCAL Gate(name, targets) == On(ApplyGate(name), targets)
LOCAL Calls(name, targets) == On(Call(name), targets)
LOCAL Says(kind, targets) == Asserting(kind, targets, NoClaim)

TwoQubitPreamble == <<DeclareQubits("q", 2), On(Declare({"c0"}), << <<"c", 1>> >>)>>

(* After the gates of test/circuits/diagnose-with-jumps.qasm and the       *)
(* statements of test_assertion_movement.cpp; the last, on three qubits,   *)
(* is never called.                                                        *)
GateDefinitions ==
  {On(DefineGate("one", <<Gate("x", <<A>>), Says("sup", <<A>>)>>), <<A>>),
   On(DefineGate("two", <<Gate("h", <<A>>), Gate("z", <<B>>),
                          Says("sup", <<B>>), Gate("cx", <<B, A>>)>>),
      <<A, B>>),
   On(DefineGate("nest", <<Gate("h", <<B>>), Calls("two", <<B, A>>),
                           Calls("one", <<A>>), Says("ent", <<A, B>>)>>),
      <<A, B>>),
   On(DefineGate("chain", <<Gate("cx", <<A, B>>), Gate("cx", <<B, D>>),
                            Says("ent", <<A, D>>)>>),
      <<A, B, D>>)}

MainStatements ==
  {Gate("h", <<Q(0)>>), Gate("x", <<Whole>>), Gate("cx", <<Q(0), Q(1)>>),
   On(Barrier, <<Q(0)>>), On(If("c0" :> TRUE, "x", "id"), <<Q(1)>>),
   On(Measure(MeasureQubit(0, "c0")), <<Q(0)>>),
   Calls("two", <<Q(0), Q(1)>>), Calls("nest", <<Q(1), Q(0)>>),
   Says("sup", <<Q(0)>>), Says("ent", <<Q(0), Q(1)>>), Says("eq", <<Q(1)>>)}

AllStatements == GateDefinitions \cup MainStatements

(* assert-ent, assert-sup, and assert-eq with |0> or |00>.                 *)
LOCAL OnZeros(kind, n) ==
  [asserts |-> kind, state |-> AllZero(n), similarity |-> 4]
PairVerdicts ==
  [kind \in {"ent", "sup", "eq"} |->
     [qubits \in {{0}, {1}, {0, 1}} |->
        [s \in PairStates |->
           CheckAssertion(OnZeros(kind, Cardinality(qubits)),
                          SetToSortSeq(qubits, <), s)]]]
PairVerdict(kind, qubits, s) == PairVerdicts[kind][qubits][s]

=============================================================================
