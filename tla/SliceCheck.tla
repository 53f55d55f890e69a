---------------------------- MODULE SliceCheck ----------------------------
(***************************************************************************)
(* The assertion compiler on every short program: slices and programs are  *)
(* executed, all outcomes of measurements in parallel, and compared.       *)
(***************************************************************************)
EXTENDS StaticAnalysis, AssertionSlices, QubitStates

-----------------------------------------------------------------------------
(* Execution. A run so far is its state, its classical bits and what was   *)
(* read for each assertion.                                                *)

Start ==
  [state |-> ZeroState, bits |-> [b \in Bits |-> FALSE], readings |-> <<>>]

OperationOutcomes(op, run) ==
  CASE op.kind \in {"measure", "reset"} ->
         {[run EXCEPT !.state = o.state, !.bits = o.bits @@ @] :
            o \in op.collapse[run.state]}
    [] op.kind = "barrier" -> {run}
    [] OTHER ->
         LET met == \A b \in DOMAIN op.cond : op.cond[b] = run.bits[b]
         IN  {[run EXCEPT !.state = Act[IF met THEN op.gate ELSE op.otherwise][@]]}

StepOutcomes(step, run) ==
  CASE step.is = "op" -> OperationOutcomes(step.op, run)
    [] step.is = "gate" -> {[run EXCEPT !.state = Act[step.gate][@]]}
    [] step.is = "read" ->
         {[run EXCEPT !.state = Projected(@, step.qubit, bit),
                      !.readings = Append(@, <<step.for, bit>>)] :
            bit \in Possible(run.state, step.qubit)}

Executed(steps) ==
  FoldLeft(LAMBDA runs, step : UNION {StepOutcomes(step, run) : run \in runs},
           {Start}, steps)

ReadingsFor(i, steps) ==
  {SelectSeq(run.readings, LAMBDA reading : reading[1] = i) :
     run \in Executed(steps)}

StatesAt(p, i) == {run.state : run \in Executed(CircuitSteps(p, 0, i))}

VerdictIn(p, i, s) ==
  LET assertion == AssertionAt(p, i)
      qubits == [m \in DOMAIN assertion.targets |-> p.qubit[assertion.targets[m]]]
  IN  CheckAssertion(assertion, qubits, s)

Verdicts(p, i) == {VerdictIn(p, i, s) : s \in StatesAt(p, i)}

AlwaysHolds(p, i) == Verdicts(p, i) = {"holds"}

-----------------------------------------------------------------------------
(* Properties.                                                             *)

(* Asked for slice after slice, the compiler measures every assertion it   *)
(* has not cancelled, once and in order, at each optimization level (docs/ *)
(* runtime_verification.md:18, "translating each assertion in the program  *)
(* into a set of measurements").                                           *)
MeasuredAreKept(slices, fates) ==
  LET measured == FlattenSeq([k \in DOMAIN slices |-> slices[k].cover])
  IN  (\A i \in DOMAIN fates : fates[i] # "throws") =>
        /\ Range(measured) = {i \in DOMAIN fates : fates[i] = "kept"}
        /\ \A a, b \in DOMAIN measured : a < b => measured[a] < measured[b]

EveryAssertionIsMeasuredIn(p) ==
  \A opt \in 0 .. 2 : MeasuredAreKept(Slices(p, opt), Fates(p, opt))

EveryAssertionIsMeasured == \A p \in tables : EveryAssertionIsMeasuredIn(p)

(* Where implies is wrong: an equality below full similarity implies what  *)
(* its own target state has, and a state that is merely similar has not:   *)
(* its superposition (AssertionParsing.cpp:265-284), another equality      *)
(* (261-263).                                                              *)
ImpliesLoosely(p) ==
  \E i, j \in Assertions(p) :
    /\ i < j /\ p.lines[i].asserts = "eq" /\ p.lines[i].similarity < 4
    /\ Implies(AssertionAt(p, i), AssertionAt(p, j))
    /\ \E s \in QStates : VerdictIn(p, i, s) = "holds" /\ VerdictIn(p, j, s) = "fails"

(* An assertion is cancelled only if the others make it sure: when all     *)
(* that are kept hold in every execution, none that was cancelled fails in *)
(* any (assertion implication through commuting instructions), unless an   *)
(* equality is wrongly taken to imply another assertion.                   *)
KeptDecide(p, kept) ==
  (\A i \in kept : AlwaysHolds(p, i)) =>
    \A j \in Assertions(p) \ kept : "fails" \notin Verdicts(p, j)

CancelledCannotFailIn(p) ==
  \/ KeptDecide(p, {i \in Assertions(p) : Cancellation(p, i) # "cancelled"})
  \/ ImpliesLoosely(p)

CancelledCannotFail == \A p \in tables : CancelledCannotFailIn(p)

(* What can be read for the assertions of a slice, each behind the         *)
(* measurements for those before it, is what can be read where it alone is *)
(* measured; an assertion with a circuit that holds reads zeros.           *)
ReadsTrue(p, slice, i) ==
  ReadingsFor(i, SliceSteps(p, slice)) =
    IF p.lines[i].asserts = "circ"
    THEN {[m \in DOMAIN p.targets[i] |-> <<i, 0>>]}
    ELSE ReadingsFor(i, Instrumented(p, <<i>>, i + 1))

CircuitsHold(p, slice) ==
  \A i \in Range(slice.cover) :
    p.lines[i].asserts = "circ" => AlwaysHolds(p, i)

RereadsCircuit(p, slice) ==
  \E i, j \in Range(slice.cover) :
    /\ i < j /\ p.lines[j].asserts = "circ"
    /\ Range(p.targets[i]) \cap Range(p.targets[j]) # {}

(* "By only collecting assertions with measurements that do not interfere  *)
(* with each other in the same slice" (docs/runtime_verification.md:21).   *)
SlicesDoNotInterfereIn(p) ==
  \A opt \in 0 .. 2 : \A slice \in Range(Slices(p, opt)) :
    CircuitsHold(p, slice) =>
      \A i \in Range(slice.cover) : ReadsTrue(p, slice, i)

SlicesDoNotInterfere == \A p \in tables : SlicesDoNotInterfereIn(p)

(* What is so of it: as long as operations name single qubits and no       *)
(* assertion with a circuit follows one that measures its qubits in the    *)
(* slice, readings are true (areAssertionsIndependent compares names, and  *)
(* only those of the operations between two assertions).                   *)
SlicesReadTrueIn(p) ==
  \A opt \in 0 .. 2 : \A slice \in Range(Slices(p, opt)) :
    (CircuitsHold(p, slice) /\ ~RereadsCircuit(p, slice)) =>
      \A i \in Range(slice.cover) : ReadsTrue(p, slice, i)

SlicesReadTrue == \A p \in tables : SlicesReadTrueIn(p)

=============================================================================
