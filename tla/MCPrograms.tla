---------------------------- MODULE MCPrograms ----------------------------
(***************************************************************************)
(* The programs the instances load, written as source code and run through *)
(* the model of the preprocessor.                                          *)
(***************************************************************************)
EXTENDS CodePreprocessing, SmallQuantum

(* test/circuits/complex-jumps.qasm: calls nest three deep and run forward *)
(* to a gate defined later.                                                *)
ComplexJumps ==
  <<Declare({}),
    DefineGate("my_cx", <<ApplyGate("cx")>>),
    DefineGate("make_ghz",
               <<ApplyGate("h"), Call("entangle"), Call("entangle")>>),
    DefineGate("entangle", <<Call("my_cx")>>),
    Call("make_ghz"), Call("entangle"), Call("entangle")>>

(* After the statements of test/circuits/failing-assertions.qasm: two      *)
(* assertions in a row, one inside a gate that is called twice from inside *)
(* another and fails the second time only.                                 *)
FailingAssertions ==
  <<DefineGate("checked", <<ApplyGate("cx"),
                            Claim(SmallStates \ {Swap12}, {})>>),
    DefineGate("twice", <<Call("checked"), ApplyGate("x"), Call("checked")>>),
    ApplyGate("h"),
    Claim({}, {}),
    Claim({}, {}),
    Call("twice"),
    Claim({SmallZero}, {})>>

(* One that fails the second time, inside two calls, and nothing else.     *)
CheckedTwice ==
  <<DefineGate("checked", <<ApplyGate("cx"),
                            Claim(SmallStates \ {SmallZero}, {})>>),
    DefineGate("around", <<Call("checked"), Call("checked")>>),
    Call("around")>>

(* After test/circuits/classical-storage.qasm and the if, reset and        *)
(* barrier tests of test_custom_code.cpp.                                  *)
ClassicalStorage ==
  <<DefineGate("flip", <<ApplyGate("x"), Barrier>>),
    Declare({"c0"}),
    ApplyGate("h"),
    If("c0" :> TRUE, "cx", "id"),
    Measure(MeasureInto("c0")),
    If("c0" :> TRUE, "x", "h"),
    Call("flip"),
    Reset(ResetQubit),
    Call("flip")>>

(* test_custom_code.cpp, IllegalSubstateSVEqualityAssertion: the check of  *)
(* an assertion throws.                                                    *)
IllegalSubstate ==
  <<ApplyGate("x"),
    Claim({}, SmallStates \ {SmallZero}),
    ApplyGate("h")>>

(* A custom gate of two operations that takes an angle.                    *)
GateWithAngle ==
  <<DefineGate("rotate", <<ApplyGate("h"), ApplyGate("x")>>),
    CallWithAngles("rotate"),
    ApplyGate("cx"),
    ApplyGate("h")>>

(* A condition the engine does not support.                                *)
UnsupportedIf ==
  <<Declare({"c0"}),
    ApplyGate("h"),
    IfUnequal("c0" :> TRUE, "x"),
    ApplyGate("cx")>>

(* A constant of OpenQASM 3 between two operations.                        *)
ConstantInside ==
  <<ApplyGate("h"),
    Constant,
    ApplyGate("x")>>

(* All of them under the names the configurations use, and "none", the     *)
(* debugger before its first load.                                         *)
LOCAL Sources ==
  "jumps" :> ComplexJumps
    @@ "assertions" :> FailingAssertions
    @@ "checked" :> CheckedTwice
    @@ "classical" :> ClassicalStorage
    @@ "illegal" :> IllegalSubstate
    @@ "angle" :> GateWithAngle
    @@ "unsupported" :> UnsupportedIf
    @@ "constant" :> ConstantInside
    @@ "none" :> <<>>

(* Their tables, copied value by value: TLC then keeps them instead of     *)
(* preprocessing the source again at every use.                            *)
LOCAL Loaded == [p \in DOMAIN Sources |-> Preprocess(Sources[p])]
MCCode == [p \in DOMAIN Loaded |-> Loaded[p]]

=============================================================================
