----------------------------- MODULE MCSlices -----------------------------
(* Programs over two qubits and a bit with assertions at the top level.    *)
EXTENDS SliceCheck, TwoQubits

(* Constants of the root module are evaluated once.                        *)
MCStates == PairStates
MCAct == PairAct

Q(k) == <<"q", k>>
LOCAL Gate(name, targets) == On(ApplyGate(name), targets)
LOCAL Says(kind, targets) == Asserting(kind, targets, NoClaim)
LOCAL SaysEqual(targets, state, similarity) ==
  [state |-> state, similarity |-> similarity] @@ Says("eq", targets)
LOCAL SaysCircuit(targets, code) ==
  [state |-> FoldLeft(LAMBDA v, g : Applied(g, v), AllZero(Len(targets)), code),
   similarity |-> 4, code |-> code] @@ Says("circ", targets)

SlicePreamble ==
  <<DeclareQubits("q", 2), On(Declare({"c0"}), << <<"c", 1>> >>),
    On(DefineGate("swap_in", <<Gate("cx", << <<"b">>, <<"a">> >>)>>),
       << <<"a">>, <<"b">> >>)>>

LOCAL Plus == [k \in 0 .. 1 |-> <<1, 0>>]
LOCAL Bell == [k \in 0 .. 3 |-> IF k \in {0, 3} THEN <<1, 0>> ELSE Zero]

Unasked(kind, qubits, s) == "holds"

SingleStatements ==
  {Gate("h", <<Q(0)>>), Gate("h", <<Q(1)>>), Gate("cx", <<Q(0), Q(1)>>),
   On(Call("swap_in"), <<Q(0), Q(1)>>),
   On(Measure(MeasureQubit(0, "c0")), <<Q(0)>>),
   On(If("c0" :> TRUE, "x", "id"), <<Q(1)>>),
   Says("sup", <<Q(0)>>), Says("sup", <<Q(0), Q(1)>>), Says("ent", <<Q(0), Q(1)>>),
   SaysEqual(<<Q(0)>>, Plus, 4), SaysEqual(<<Q(0)>>, AllZero(1), 2),
   SaysEqual(<<Q(0)>>, Plus, 1),
   SaysEqual(<<Q(0), Q(1)>>, Bell, 4),
   SaysCircuit(<<Q(0)>>, << <<"h", <<0>>>> >>)}

=============================================================================
