-------------------------- MODULE FailingPrograms --------------------------
(***************************************************************************)
(* Programs on three qubits with assertions that fail, after the circuits  *)
(* and statements of the tests. What the assertions say of the states is   *)
(* worked out once, in the two tables.                                     *)
(***************************************************************************)
EXTENDS QubitPrograms, ThreeQubits, AssertionChecks

Q(k) == <<"q", k>>
Register == <<DeclareQubits("q", 3)>>
A == <<"a">>
B == <<"b">>
LOCAL Gate(name, targets) == On(ApplyGate(name), targets)
LOCAL Calls(name, targets) == On(Call(name), targets)

Vector(n, ones) == [k \in 0 .. 2^n - 1 |-> IF k \in ones THEN <<1, 0>> ELSE Zero]

LOCAL ClaimOf(assertion, qubits) ==
  LET outcome == Evaluated([s \in TripleStates |-> CheckAssertion(assertion, qubits, s)])
  IN  [holds |-> {s \in TripleStates : outcome[s] = "holds"},
       entangled |-> {s \in TripleStates : outcome[s] = "throws"}]

(* By the set of qubits.                                                   *)
EntanglementClaims ==
  Evaluated([qubits \in {{0, 1}, {0, 2}, {1, 2}, {0, 1, 2}} |->
               ClaimOf([asserts |-> "ent"], SetToSortSeq(qubits, <))])

(* By the qubits and the basis states of the vector.                       *)
EqualityClaims ==
  Evaluated([key \in {<<<<0, 1>>, {0}>>, <<<<0, 1, 2>>, {2, 7}>>, <<<<0, 1>>, {0, 3}>>,
                      <<<<1, 2>>, {0, 1, 2, 3}>>, <<<<0>>, {0}>>} |->
               ClaimOf([asserts |-> "eq", similarity |-> 4,
                        state |-> Vector(Len(key[1]), key[2])], key[1])])

LOCAL Entangled(targets, qubits) ==
  Asserting("ent", targets, EntanglementClaims[qubits])
LOCAL Equal(qubits, ones) ==
  [state |-> Vector(Len(qubits), ones), similarity |-> 4]
    @@ Asserting("eq", [m \in DOMAIN qubits |-> Q(qubits[m])],
                 EqualityClaims[<<qubits, ones>>])

(* test/circuits/zero-controls-with-jumps.qasm and an assertion.           *)
ZeroControlsWithJumps ==
  Register \o
  <<Gate("x", <<Q(0)>>),
    On(DefineGate("test1", <<Gate("cx", <<A, B>>)>>), <<A, B>>),
    On(DefineGate("test2", <<Gate("cx", <<A, B>>)>>), <<A, B>>),
    Calls("test1", <<Q(2), Q(1)>>), Calls("test1", <<Q(1), Q(2)>>),
    Calls("test2", <<Q(0), Q(2)>>), Calls("test2", <<Q(1), Q(2)>>),
    Gate("cx", <<Q(1), Q(2)>>),
    Entangled(<<Q(0), Q(1), Q(2)>>, {0, 1, 2})>>

(* test/circuits/runtime-interaction.qasm: the interaction is outside of   *)
(* the gate with the assertion. Here the gate is called again, the other   *)
(* way round.                                                              *)
RuntimeInteraction ==
  <<On(DefineGate("gate1", <<Gate("x", <<A>>), Gate("x", <<B>>),
                             Entangled(<<A, B>>, {0, 1})>>), <<A, B>>)>>
  \o Register \o
  <<Gate("cx", <<Q(0), Q(1)>>),
    Calls("gate1", <<Q(0), Q(1)>>), Calls("gate1", <<Q(1), Q(0)>>)>>

(* The trees of test_assertion_creation.cpp, and a pair that never meets.  *)
TreeOfInteractions ==
  Register \o
  <<Gate("h", <<Q(0)>>), Gate("cx", <<Q(0), Q(1)>>), Gate("cx", <<Q(2), Q(1)>>),
    Entangled(<<Q(0), Q(1), Q(2)>>, {0, 1, 2}),
    Entangled(<<Q(0), Q(2)>>, {0, 2})>>

(* Two qubits are entangled by means of a third, which is then released.   *)
RelayedInteraction ==
  Register \o
  <<Gate("h", <<Q(1)>>), Gate("cx", <<Q(1), Q(0)>>), Gate("cx", <<Q(0), Q(2)>>),
    Gate("cx", <<Q(1), Q(0)>>),
    Entangled(<<Q(0), Q(1), Q(2)>>, {0, 1, 2})>>

(* A gate calls another with its parameters exchanged.                     *)
NestedCalls ==
  Register \o
  <<On(DefineGate("two", <<Gate("cx", <<B, A>>)>>), <<A, B>>),
    On(DefineGate("nest", <<Calls("two", <<B, A>>), Gate("h", <<B>>)>>), <<A, B>>),
    Entangled(<<Q(1), Q(2)>>, {1, 2}),
    Calls("nest", <<Q(2), Q(0)>>), Calls("nest", <<Q(0), Q(2)>>),
    Entangled(<<Q(1), Q(2)>>, {1, 2})>>

(* What the measurement leaves decides which controls are zero.            *)
MeasuredControls ==
  Register \o <<On(Declare({"c0"}), << <<"c", 1>> >>),
    Gate("h", <<Q(0)>>), Gate("cx", <<Q(0), Q(1)>>),
    On(Measure(MeasureTripleQubit(0, "c0")), <<Q(0)>>),
    On(If("c0" :> TRUE, "x", "id"), <<Q(0)>>),
    Gate("cx", <<Q(1), Q(2)>>), On(Barrier, <<Q(0), Q(1)>>),
    Gate("cx", <<Q(0), Q(2)>>),
    Entangled(<<Q(0), Q(2)>>, {0, 2})>>

(* test_assertion_creation.cpp, SplitEqualityAssertion; an equality on all *)
(* qubits of which one is separable; one that cannot be split.             *)
SplitEquality ==
  Register \o
  <<Gate("x", <<Q(0)>>),
    Equal(<<0, 1>>, {0}),
    Gate("h", <<Q(2)>>),
    Equal(<<0, 1, 2>>, {2, 7}),
    Equal(<<0, 1>>, {0, 3}),
    Equal(<<1, 2>>, {0, 1, 2, 3})>>

(* An equality on one qubit of an entangled pair: its check throws.        *)
IllegalSubstate ==
  Register \o
  <<Gate("h", <<Q(0)>>), Gate("cx", <<Q(0), Q(1)>>),
    Equal(<<0>>, {0}),
    Gate("x", <<Q(1)>>)>>

(* Two ways between the same qubits.                                       *)
TwoWays ==
  Register \o
  <<Gate("cx", <<Q(0), Q(1)>>), Gate("h", <<Q(2)>>), Gate("cx", <<Q(0), Q(2)>>),
    Gate("cx", <<Q(2), Q(1)>>),
    Entangled(<<Q(0), Q(1)>>, {0, 1}), Entangled(<<Q(1), Q(0)>>, {1, 0})>>

Sources ==
  "zeros" :> ZeroControlsWithJumps
    @@ "interaction" :> RuntimeInteraction
    @@ "tree" :> TreeOfInteractions
    @@ "relayed" :> RelayedInteraction
    @@ "nested" :> NestedCalls
    @@ "measured" :> MeasuredControls
    @@ "split" :> SplitEquality
    @@ "illegal" :> IllegalSubstate
    @@ "two_ways" :> TwoWays
    @@ "none" :> <<>>

=============================================================================
