-------------------------- MODULE MCPreprocessing --------------------------
(* Short programs over two gates that may call each other.                 *)
EXTENDS PreprocessingCheck, MCPrograms

X == ApplyGate("x")
Check == Claim({SmallZero}, {})

MCStatements ==
  {Declare({"c0"}), X, Check, Call("f"), Call("g")}
    \cup {DefineGate("f", body) :
            body \in {<<X>>, <<X, Check>>, <<Call("g")>>, <<Call("g"), X>>,
                      <<Call("g"), Call("g")>>}}
    \cup {DefineGate("g", body) :
            body \in {<<X>>, <<Check>>, <<X, Call("f")>>}}

=============================================================================
