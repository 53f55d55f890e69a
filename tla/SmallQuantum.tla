--------------------------- MODULE SmallQuantum ---------------------------
(***************************************************************************)
(* A small instance of the quantum data for model checking. The states are *)
(* the six permutations of three points and a gate composes with one of    *)
(* them, so gates are reversible and do not commute: applying, inverting   *)
(* or ordering them wrongly shows in the state.                            *)
(***************************************************************************)
EXTENDS Integers, TLC

SmallStates == Permutations(1 .. 3)
SmallZero == [i \in 1 .. 3 |-> i]

Compose(g, s) == [i \in 1 .. 3 |-> g[s[i]]]

Swap12 == (1 :> 2) @@ (2 :> 1) @@ (3 :> 3)
Swap23 == (1 :> 1) @@ (2 :> 3) @@ (3 :> 2)
Cycle == Compose(Swap12, Swap23)

SmallGates == {"id", "h", "x", "cx"}
SmallUnitary == "id" :> SmallZero @@ "h" :> Cycle @@ "x" :> Swap12
                  @@ "cx" :> Swap23
SmallAct == [g \in SmallGates |->
               [s \in SmallStates |-> Compose(SmallUnitary[g], s)]]

(* Measuring into bit b: the zero state always reads 0, any other state    *)
(* may read either and is left in the state that outcome names.            *)
After(value) == IF value THEN Swap12 ELSE SmallZero

MeasureInto(b) ==
  [s \in SmallStates |->
     {[bits |-> b :> value, state |-> After(value)] :
        value \in IF s = SmallZero THEN {FALSE} ELSE BOOLEAN}]

ResetQubit ==
  [s \in SmallStates |-> {[bits |-> <<>>, state |-> SmallZero]}]

=============================================================================
