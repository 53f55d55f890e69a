------------------------- MODULE DDSimDebug_proofs -------------------------
(***************************************************************************)
(* The engine keeps its types, its call stack and its place in the         *)
(* circuit, for every set of well-formed programs and whatever the client  *)
(* does.                                                                   *)
(*                                                                         *)
(* That the call stack is a nesting of gate bodies is not inductive:       *)
(* stepping backward rebuilds it from three stacks, so what those stacks   *)
(* hold has to be part of the invariant. FlowInv says that there is a      *)
(* path: flows that lead, one forward step each, to the present one.       *)
(***************************************************************************)
EXTENDS DDSimDebug, ControlFlow_proofs

FlowInv ==
  /\ prog \in Programs \cup {NoProgram}
  /\ Flow \in Flows(Table)
  /\ CallStackIsNesting
  /\ \E h : IsPath(Table, h, Flow)

(* FlowInv and the program have everything the lemmas on flows ask for.    *)
LEMMA TableIsWellFormed ==
  ASSUME FlowInv
  PROVE  WellFormedFlow(Table)
  BY CodeIsWellFormed DEF FlowInv, WellFormed, Table

LEMMA FlowAhead ==
  ASSUME FlowInv, CanStepForward
  PROVE  Ahead(Table, Flow)
<1>1. Flow.pos < Table.n
  BY DEF CanStepForward, Flow
<1> QED
  BY <1>1, TableIsWellFormed DEF FlowInv, CallStackIsNesting, Ahead

LEMMA SetFlowSets ==
  ASSUME NEW p, NEW f, f \in Flows(p), SetFlow(f)
  PROVE  Flow' = f
  BY DEF Flows, SetFlow, Flow

(* The ways an action leaves the flow: as it was, ...                      *)
LEMMA FlowKept ==
  ASSUME FlowInv, UNCHANGED <<prog, flow>>
  PROVE  FlowInv'
  BY DEF FlowInv, flow, Flow, Table, CallStackIsNesting

(* ... at the start of a program, ...                                      *)
LEMMA FlowStarts ==
  ASSUME prog' \in Programs \cup {NoProgram}, SetFlow(FlowStart)
  PROVE  FlowInv' /\ currentInstruction' = 0
<1> DEFINE t == Code[prog']
<1>1. WellFormedFlow(t)
  BY CodeIsWellFormed DEF WellFormed
<1>2. FlowStart \in Flows(t)
  BY <1>1, EmptySeq DEF FlowStart, Flows, WellFormedFlow
<1>3. Nested(t, FlowStart)
  BY <1>1, EmptySeq DEF FlowStart, Nested, EnteredBody, WellFormedFlow
<1>4. IsPath(t, <<>>, FlowStart)
  BY PathStart DEF FlowStart
<1>5. Flow' = FlowStart /\ Table' = t
  BY <1>2, SetFlowSets DEF Table
<1> QED
  BY <1>2, <1>3, <1>4, <1>5 DEF FlowInv, CallStackIsNesting, SetFlow, FlowStart

(* ... one step forward, ...                                               *)
LEMMA FlowAdvances ==
  ASSUME FlowInv, CanStepForward, prog' = prog,
         SetFlow(Forward(Table, Flow))
  PROVE  FlowInv'
<1>1. Ahead(Table, Flow)
  BY FlowAhead
<1>2. /\ Forward(Table, Flow) \in Flows(Table)
      /\ Nested(Table, Forward(Table, Flow))
  BY <1>1, ForwardIsNested
<1>3. PICK h : IsPath(Table, h, Flow)
  BY DEF FlowInv
<1>4. IsPath(Table, Append(h, Flow), Forward(Table, Flow))
  BY <1>1, <1>3, PathForward
<1>5. Flow' = Forward(Table, Flow) /\ Table' = Table
  BY <1>2, SetFlowSets DEF Table
<1> QED
  BY <1>2, <1>4, <1>5 DEF FlowInv, CallStackIsNesting

(* ... one step forward with the way back closed, ...                      *)
LEMMA FlowCollapses ==
  ASSUME FlowInv, CanStepForward, prog' = prog,
         SetFlow(Closed(Forward(Table, Flow)))
  PROVE  FlowInv'
<1> DEFINE f == Forward(Table, Flow)
           g == Closed(f)
<1>1. f \in Flows(Table) /\ Nested(Table, f)
  BY FlowAhead, ForwardIsNested
<1> HIDE DEF f
<1>2. g \in Flows(Table) /\ g.pos = f.pos /\ g.calls = f.calls /\ g.prev = <<>>
  BY <1>1, EmptySeq DEF Flows, Closed
<1>3. Nested(Table, g)
  BY <1>1, <1>2 DEF Nested
<1>4. IsPath(Table, <<>>, g)
  BY <1>2, PathStart
<1>5. Flow' = g /\ Table' = Table
  BY <1>2, SetFlowSets DEF Table, f
<1> QED
  BY <1>2, <1>3, <1>4, <1>5 DEF FlowInv, CallStackIsNesting

(* ... one step forward and back, which is where it was, ...               *)
LEMMA FlowStops ==
  ASSUME FlowInv, CanStepForward,
         SetFlow(Backward(Forward(Table, Flow)))
  PROVE  UNCHANGED flow
<1>1. Backward(Forward(Table, Flow)) = Flow
  BY FlowAhead, BackwardUndoesForward
<1> QED
  BY <1>1 DEF SetFlow, Flow, flow

(* ... and one step backward.                                              *)
LEMMA FlowRetreats ==
  ASSUME FlowInv, CanStepBackward, prog' = prog, SetFlow(Backward(Flow))
  PROVE  FlowInv' /\ currentInstruction' < Table.n
<1>1. PICK h : IsPath(Table, h, Flow)
  BY DEF FlowInv
<1>2. Flow.prev # <<>> /\ Flow \in Flows(Table)
  BY DEF CanStepBackward, Flow, FlowInv
<1>3. /\ Backward(Flow) = Last(h) /\ Ahead(Table, Last(h))
      /\ IsPath(Table, Front(h), Last(h))
  BY <1>1, <1>2, TableIsWellFormed, PathBackward
<1>4. Flow' = Last(h) /\ Table' = Table
  BY <1>3, SetFlowSets DEF Ahead, Table
<1>5. currentInstruction' = Last(h).pos
  BY <1>3 DEF SetFlow
<1> QED
  BY <1>3, <1>4, <1>5 DEF Ahead, FlowInv, CallStackIsNesting

-----------------------------------------------------------------------------

LEMMA FlowInit == Init => FlowInv
<1> SUFFICES ASSUME Init PROVE FlowInv
  OBVIOUS
<1> DEFINE t == Code[NoProgram]
<1>1. WellFormedFlow(t)
  BY CodeIsWellFormed DEF WellFormed
<1>2. FlowStart \in Flows(t)
  BY <1>1, EmptySeq DEF FlowStart, Flows, WellFormedFlow
<1>3. Nested(t, FlowStart)
  BY <1>1, EmptySeq DEF FlowStart, Nested, EnteredBody, WellFormedFlow
<1>4. IsPath(t, <<>>, FlowStart)
  BY PathStart DEF FlowStart
<1>5. Flow = FlowStart /\ Table = t /\ prog = NoProgram
  BY DEF Init, Flow, FlowStart, Table
<1> QED
  BY <1>2, <1>3, <1>4, <1>5 DEF FlowInv, CallStackIsNesting

(* Every action leaves the flow in one of those ways.                      *)
LEMMA FlowForward ==
  ASSUME FlowInv, StepForward
  PROVE  FlowInv'
<1>1. CASE StepForwardRefused
  BY <1>1, FlowKept DEF StepForwardRefused, code
<1>2. CASE Advance
  BY <1>2, FlowAdvances DEF Advance, code
<1>3. CASE StepStopsAtAssertion
  BY <1>3, FlowStops, FlowKept DEF StepStopsAtAssertion, code
<1>4. CASE StepCollapses
  <2>1. /\ CanStepForward /\ prog' = prog
        /\ SetFlow(Closed(Forward(Table, Flow)))
    BY <1>4 DEF StepCollapses, Simulates, code
  <2> QED
    BY <2>1, FlowCollapses
<1> QED
  BY <1>1, <1>2, <1>3, <1>4
     DEF StepForward, StepControl, StepPastAssertion, StepAssertionThrows,
         StepAssertionCrashes, StepBarrier, StepGate, StepUnsupportedThrows,
         StepRunsOffCircuit

LEMMA FlowBackward ==
  ASSUME FlowInv, StepBackward
  PROVE  FlowInv'
<1>1. CASE StepBackwardRefused
  BY <1>1, FlowKept DEF StepBackwardRefused, code
<1>2. CASE Retreat
  BY <1>2, FlowRetreats DEF Retreat, code
<1> QED
  BY <1>1, <1>2
     DEF StepBackward, BackPastControl, BackPastBarrier, BackPastGate,
         BackUnsupportedThrows, BackRunsOffCircuit, BackOver

LEMMA FlowStep ==
  ASSUME FlowInv, [Next]_vars
  PROVE  FlowInv'
<1>1. CASE StepForward
  BY <1>1, FlowForward
<1>2. CASE StepBackward
  BY <1>2, FlowBackward
<1>3. ASSUME NEW p \in Programs, LoadCode(p)
      PROVE  FlowInv'
  BY <1>3, FlowStarts DEF LoadCode
<1>4. ASSUME NEW p \in Programs \cup {NoProgram}, LoadRejected(p)
      PROVE  FlowInv'
  BY <1>4, FlowStarts DEF LoadRejected
<1>5. CASE ResetSimulation
  BY <1>5, FlowStarts DEF ResetSimulation, code, FlowInv
<1>6. ASSUME NEW i \in 0 .. Table.n - 1, SetBreakpoint(i)
      PROVE  FlowInv'
  BY <1>6, FlowKept DEF SetBreakpoint, code
<1>7. CASE ClearBreakpoints
  BY <1>7, FlowKept DEF ClearBreakpoints, code
<1>8. CASE Edit
  BY <1>8, FlowKept DEF Edit, ChangeClassicalVariableValue,
                        ChangeAmplitudeValue, code
<1>9. CASE UNCHANGED vars
  BY <1>9, FlowKept DEF vars, code
<1> QED
  BY <1>1, <1>2, <1>3, <1>4, <1>5, <1>6, <1>7, <1>8, <1>9 DEF Next

(* Whatever the client loads, steps, resets and edits, the call stack is   *)
(* the nesting of gate bodies the engine is in.                            *)
THEOREM CallStackCorrect == Spec => []CallStackIsNesting
<1>1. FlowInv /\ [Next]_vars => FlowInv'
  BY FlowStep
<1>2. FlowInv => CallStackIsNesting
  BY DEF FlowInv
<1> QED
  BY FlowInit, <1>1, <1>2, PTL DEF Spec

-----------------------------------------------------------------------------
(* Types.                                                                  *)

(* Gates stay in the quantum states, and inverting one does too.           *)
LEMMA GateTypes ==
  ASSUME NEW g \in Gates, NEW s \in QStates
  PROVE  Act[g][s] \in QStates /\ Undo(g, s) \in QStates
<1>1. Act[g] \in [QStates -> QStates]
  BY GatesAreReversible
<1>2. \E t \in QStates : Act[g][t] = s
  BY GatesAreReversible
<1> QED
  BY <1>1, <1>2 DEF Undo

(* The operations of the circuit are operations, and apply gates.          *)
LEMMA OperationTypes ==
  ASSUME circuit \in Programs \cup {NoProgram},
         NEW k \in 1 .. Len(Code[circuit].ops)
  PROVE  /\ Operation(k) \in Operations
         /\ EffectiveGate(Operation(k)) \in Gates
         /\ \A s \in QStates : Operation(k).collapse[s] \subseteq Outcomes
<1>1. Code[circuit].ops \in Seq(Operations)
  BY CodeIsWellFormed DEF WellFormed, WellFormedData
<1>2. Operation(k) \in Operations
  BY <1>1, ElementOfSeq DEF Operation
<1>3. /\ Operation(k).gate \in Gates /\ Operation(k).otherwise \in Gates
      /\ Operation(k).collapse \in [QStates -> SUBSET Outcomes]
  BY <1>2 DEF Operations
<1> QED
  BY <1>2, <1>3 DEF EffectiveGate

(* The classical bits stay a valuation when some of them are set.          *)
LEMMA ValuationTypes ==
  ASSUME variables \in Valuations, NEW bits \in Valuations
  PROVE  Assigned(bits) \in Valuations
<1>1. PICK B \in SUBSET Bits : bits \in [B -> BOOLEAN]
  BY DEF Valuations
<1>2. PICK C \in SUBSET Bits : variables \in [C -> BOOLEAN]
  BY DEF Valuations
<1>3. Assigned(bits) \in [B \cup C -> BOOLEAN]
  BY <1>1, <1>2 DEF Assigned
<1> QED
  BY <1>3 DEF Valuations

LEMMA CircuitLength ==
  ASSUME NEW p \in Programs \cup {NoProgram}
  PROVE  Len(Code[p].ops) \in Nat
<1>1. Code[p].ops \in Seq(Operations)
  BY CodeIsWellFormed DEF WellFormed, WellFormedData
<1> QED
  BY <1>1, LenProperties

LEMMA BitTypes ==
  ASSUME NEW p \in Programs \cup {NoProgram}
  PROVE  ClearedVariables(p) \in Valuations
<1>1. Code[p].bits \subseteq Bits
  BY CodeIsWellFormed DEF WellFormed, WellFormedData
<1>2. ClearedVariables(p) \in [Code[p].bits -> BOOLEAN]
  BY DEF ClearedVariables
<1> QED
  BY <1>1, <1>2 DEF Valuations

(* Instruction numbers, and what the two marks are set to.                 *)
LEMMA InstructionTypesAreNat ==
  ASSUME FlowInv
  PROVE  /\ Table.n \in Nat
         /\ currentInstruction \in Nat
         /\ BreakpointAt(currentInstruction) \in Nat \cup {NoInstruction}
<1>1. Table.n \in Nat
  BY TableIsWellFormed DEF WellFormedFlow
<1>2. currentInstruction \in 0 .. Table.n
  BY DEF FlowInv, Flows, Flow
<1> QED
  BY <1>1, <1>2 DEF BreakpointAt

LEMMA TypeInit == Init => TypeOK
<1> SUFFICES ASSUME Init PROVE TypeOK
  OBVIOUS
<1>1. variables \in Valuations
  <2>1. variables \in [{} -> BOOLEAN]
    BY DEF Init
  <2> QED
    BY <2>1 DEF Valuations
<1>2. Flow \in Flows(Table)
  BY FlowInit DEF FlowInv
<1>3. iterator \in 0 .. Len(Code[circuit].ops)
  BY CircuitLength DEF Init
<1>4. simulationState \in QStates /\ breakpoints \subseteq Nat
  BY GatesAreReversible DEF Init
<1>5. assertionInstructions \subseteq LoadedAssertions(prog)
  BY DEF Init
<1>6. /\ prog \in Programs \cup {NoProgram}
      /\ circuit \in Programs \cup {NoProgram}
      /\ ready \in BOOLEAN /\ (ready => circuit = prog)
      /\ lastFailedAssertion = NoInstruction
      /\ lastMetBreakpoint = NoInstruction
      /\ result = "OK"
  BY DEF Init
<1> QED
  BY <1>1, <1>2, <1>3, <1>4, <1>5, <1>6 DEF TypeOK

(* What a step keeps or moves within its type: the loaded code, ...        *)
LEMMA CodeTypes ==
  ASSUME TypeOK, UNCHANGED code, assertionInstructions' \subseteq
                                   assertionInstructions
  PROVE  /\ prog' \in Programs \cup {NoProgram}
         /\ circuit' \in Programs \cup {NoProgram}
         /\ ready' \in BOOLEAN /\ (ready' => circuit' = prog')
         /\ assertionInstructions' \subseteq LoadedAssertions(prog')
  BY DEF TypeOK, code

(* ... and the marks, which are cleared or set to an instruction.          *)
LEMMA MarkTypes ==
  ASSUME FlowInv'
  PROVE  /\ currentInstruction' \in Nat
         /\ BreakpointAt(currentInstruction)' \in Nat \cup {NoInstruction}
<1>1. (/\ currentInstruction \in Nat
       /\ BreakpointAt(currentInstruction) \in Nat \cup {NoInstruction})'
  BY InstructionTypesAreNat, PTL
<1> QED
  BY <1>1

(* Reading or executing an operation keeps the data in their types.        *)
LEMMA DataTypes ==
  ASSUME TypeOK, UNCHANGED code,
         \/ UNCHANGED data
         \/ StepCollapses \/ StepBarrier \/ StepGate
         \/ BackPastBarrier \/ BackPastGate \/ BackUnsupportedThrows
  PROVE  /\ iterator' \in 0 .. Len(Code[circuit'].ops)
         /\ simulationState' \in QStates
         /\ variables' \in Valuations
<1> DEFINE n == Len(Code[circuit].ops)
<1>1. /\ circuit' = circuit /\ circuit \in Programs \cup {NoProgram}
      /\ n \in Nat /\ iterator \in 0 .. n
      /\ simulationState \in QStates /\ variables \in Valuations
  BY CircuitLength DEF TypeOK, code
<1>2. CASE UNCHANGED data
  BY <1>1, <1>2 DEF data
<1>3. CASE StepCollapses
  <2>1. iterator < n /\ iterator' = iterator + 1
    BY <1>3 DEF StepCollapses, Simulates
  <2>2. PICK outcome \in NextOperation.collapse[simulationState] :
          /\ simulationState' = outcome.state
          /\ variables' = Assigned(outcome.bits)
    BY <1>3 DEF StepCollapses
  <2>3. iterator + 1 \in 1 .. n
    BY <1>1, <2>1
  <2>4. outcome \in Outcomes
    BY <1>1, <2>3, OperationTypes DEF NextOperation
  <2>5. outcome.bits \in Valuations /\ outcome.state \in QStates
    BY <2>4 DEF Outcomes
  <2> QED
    BY <1>1, <2>1, <2>2, <2>5, ValuationTypes
<1>4. CASE StepBarrier
  BY <1>1, <1>4 DEF StepBarrier, Simulates
<1>5. CASE StepGate
  <2>1. /\ iterator < n /\ iterator' = iterator + 1 /\ UNCHANGED variables
        /\ simulationState' =
             Act[EffectiveGate(NextOperation)][simulationState]
    BY <1>5 DEF StepGate, Simulates
  <2>2. iterator + 1 \in 1 .. n
    BY <1>1, <2>1
  <2>3. EffectiveGate(NextOperation) \in Gates
    BY <1>1, <2>2, OperationTypes DEF NextOperation
  <2> QED
    BY <1>1, <2>1, <2>3, GateTypes
<1>6. CASE BackPastBarrier \/ BackUnsupportedThrows
  BY <1>1, <1>6 DEF BackPastBarrier, BackUnsupportedThrows, BackOver
<1>7. CASE BackPastGate
  <2>1. /\ iterator > 0 /\ iterator' = iterator - 1 /\ UNCHANGED variables
        /\ simulationState' =
             Undo(EffectiveGate(Operation(iterator)), simulationState)
    BY <1>7 DEF BackPastGate, BackOver
  <2>2. iterator \in 1 .. n
    BY <1>1, <2>1
  <2>3. EffectiveGate(Operation(iterator)) \in Gates
    BY <1>1, <2>2, OperationTypes
  <2> QED
    BY <1>1, <2>1, <2>3, GateTypes
<1> QED
  BY <1>2, <1>3, <1>4, <1>5, <1>6, <1>7

(* A step made from those parts keeps every type.                          *)
LEMMA StepTypes ==
  ASSUME TypeOK, FlowInv', UNCHANGED <<code, breakpoints>>,
         assertionInstructions' \subseteq assertionInstructions,
         \/ UNCHANGED data
         \/ StepCollapses \/ StepBarrier \/ StepGate
         \/ BackPastBarrier \/ BackPastGate \/ BackUnsupportedThrows,
         lastMetBreakpoint' \in {lastMetBreakpoint,
                                BreakpointAt(currentInstruction')},
         lastFailedAssertion' \in {lastFailedAssertion, currentInstruction',
                                  NoInstruction},
         result' \in {"OK", "ERROR", "THROWN", "CRASHED"}
  PROVE  TypeOK'
<1>1. /\ prog' \in Programs \cup {NoProgram}
      /\ circuit' \in Programs \cup {NoProgram}
      /\ ready' \in BOOLEAN /\ (ready' => circuit' = prog')
      /\ assertionInstructions' \subseteq LoadedAssertions(prog')
  BY CodeTypes
<1>2. /\ iterator' \in 0 .. Len(Code[circuit'].ops)
      /\ simulationState' \in QStates
      /\ variables' \in Valuations
  BY DataTypes
<1>3. Flow' \in Flows(Table)' /\ breakpoints' \subseteq Nat
  BY DEF FlowInv, TypeOK
<1>4. /\ lastMetBreakpoint' \in Nat \cup {NoInstruction}
      /\ lastFailedAssertion' \in Nat \cup {NoInstruction}
  BY MarkTypes DEF TypeOK, BreakpointAt
<1> QED
  BY <1>1, <1>2, <1>3, <1>4 DEF TypeOK

LEMMA TypeForward ==
  ASSUME FlowInv, TypeOK, StepForward
  PROVE  TypeOK'
<1>1. FlowInv'
  BY FlowForward
<1>2. CASE StepForwardRefused
  BY <1>1, <1>2, StepTypes DEF StepForwardRefused, marks
<1>3. CASE StepControl
  BY <1>1, <1>3, StepTypes DEF StepControl, Advance
<1>4. CASE StepPastAssertion
  BY <1>1, <1>4, StepTypes DEF StepPastAssertion, Advance
<1>5. CASE StepStopsAtAssertion
  BY <1>1, <1>5, StepTypes DEF StepStopsAtAssertion, FlagAfterRetreat
<1>6. CASE StepAssertionThrows
  BY <1>1, <1>6, StepTypes DEF StepAssertionThrows, Advance
<1>7. CASE StepAssertionCrashes
  BY <1>1, <1>7, StepTypes DEF StepAssertionCrashes, Advance
<1>8. CASE StepCollapses
  BY <1>1, <1>8, StepTypes DEF StepCollapses, Simulates
<1>9. CASE StepBarrier
  BY <1>1, <1>9, StepTypes DEF StepBarrier, Simulates, Advance
<1>10. CASE StepGate
  BY <1>1, <1>10, StepTypes DEF StepGate, Simulates, Advance
<1>11. CASE StepUnsupportedThrows
  BY <1>1, <1>11, StepTypes DEF StepUnsupportedThrows, Simulates, Advance
<1>12. CASE StepRunsOffCircuit
  BY <1>1, <1>12, StepTypes DEF StepRunsOffCircuit, Advance
<1> QED
  BY <1>2, <1>3, <1>4, <1>5, <1>6, <1>7, <1>8, <1>9, <1>10, <1>11, <1>12
     DEF StepForward

LEMMA TypeBackward ==
  ASSUME FlowInv, TypeOK, StepBackward
  PROVE  TypeOK'
<1>1. FlowInv'
  BY FlowBackward
<1>2. CASE StepBackwardRefused
  BY <1>1, <1>2, StepTypes DEF StepBackwardRefused, marks
<1>3. CASE BackPastControl
  BY <1>1, <1>3, StepTypes DEF BackPastControl, Retreat, FlagAfterRetreat
<1>4. CASE BackPastBarrier
  BY <1>1, <1>4, StepTypes DEF BackPastBarrier, BackOver, Retreat,
                             FlagAfterRetreat
<1>5. CASE BackPastGate
  BY <1>1, <1>5, StepTypes DEF BackPastGate, BackOver, Retreat,
                             FlagAfterRetreat
<1>6. CASE BackUnsupportedThrows
  BY <1>1, <1>6, StepTypes DEF BackUnsupportedThrows, BackOver, Retreat,
                             FlagAfterRetreat
<1>7. CASE BackRunsOffCircuit
  BY <1>1, <1>7, StepTypes DEF BackRunsOffCircuit, Retreat, FlagAfterRetreat
<1> QED
  BY <1>2, <1>3, <1>4, <1>5, <1>6, <1>7 DEF StepBackward

(* Loading, resetting and editing.                                         *)
LEMMA TypeLoad ==
  ASSUME TypeOK, FlowInv', NEW p \in Programs \cup {NoProgram},
         \/ p \in Programs /\ LoadCode(p)
         \/ LoadRejected(p)
  PROVE  TypeOK'
<1>1. Flow' \in Flows(Table)'
  BY DEF FlowInv
<1>2. /\ ClearedVariables(p) \in Valuations /\ ZeroState \in QStates
      /\ 0 \in 0 .. Len(Code[p].ops)
  BY BitTypes, CircuitLength, GatesAreReversible
<1>3. CASE p \in Programs /\ LoadCode(p)
  BY <1>1, <1>2, <1>3 DEF LoadCode, TypeOK
<1>4. CASE LoadRejected(p)
  BY <1>1, <1>2, <1>4 DEF LoadRejected, TypeOK, marks
<1> QED
  BY <1>3, <1>4

LEMMA TypeEdit ==
  ASSUME TypeOK, FlowInv', Edit
  PROVE  TypeOK'
<1>1. /\ Flow' \in Flows(Table)' /\ UNCHANGED <<code, iterator>>
      /\ UNCHANGED <<assertionInstructions, breakpoints, marks>>
      /\ result' \in {"OK", "ERROR"}
  BY DEF FlowInv, Edit, ChangeClassicalVariableValue, ChangeAmplitudeValue
<1>2. simulationState' \in QStates
  BY DEF TypeOK, Edit, ChangeClassicalVariableValue, ChangeAmplitudeValue
<1>3. variables' \in Valuations
  <2>1. PICK B \in SUBSET Bits : variables \in [B -> BOOLEAN]
    BY DEF TypeOK, Valuations
  <2>2. variables' \in [B -> BOOLEAN]
    BY <2>1 DEF Edit, ChangeClassicalVariableValue, ChangeAmplitudeValue
  <2> QED
    BY <2>2 DEF Valuations
<1> QED
  BY <1>1, <1>2, <1>3 DEF TypeOK, code, marks

LEMMA TypeStep ==
  ASSUME FlowInv, TypeOK, [Next]_vars
  PROVE  TypeOK'
<1>1. FlowInv'
  BY FlowStep
<1>2. CASE StepForward
  BY <1>2, TypeForward
<1>3. CASE StepBackward
  BY <1>3, TypeBackward
<1>4. ASSUME NEW p \in Programs, LoadCode(p)
      PROVE  TypeOK'
  BY <1>1, <1>4, TypeLoad
<1>5. ASSUME NEW p \in Programs \cup {NoProgram}, LoadRejected(p)
      PROVE  TypeOK'
  BY <1>1, <1>5, TypeLoad
<1>6. CASE ResetSimulation
  <2>1. /\ UNCHANGED <<code, variables, assertionInstructions, breakpoints>>
        /\ iterator' = 0 /\ simulationState' = ZeroState
        /\ lastFailedAssertion' = NoInstruction
        /\ lastMetBreakpoint' = NoInstruction
        /\ result' = "OK"
    BY <1>6 DEF ResetSimulation
  <2>2. 0 \in 0 .. Len(Code[circuit].ops) /\ ZeroState \in QStates
    BY CircuitLength, GatesAreReversible DEF TypeOK
  <2>3. Flow' \in Flows(Table)'
    BY <1>1 DEF FlowInv
  <2> QED
    BY <2>1, <2>2, <2>3 DEF TypeOK, code
<1>7. ASSUME NEW i \in 0 .. Table.n - 1, SetBreakpoint(i)
      PROVE  TypeOK'
  <2>1. /\ UNCHANGED <<code, data, assertionInstructions, marks>>
        /\ breakpoints' = breakpoints \cup {i} /\ result' = "OK"
    BY <1>7 DEF SetBreakpoint
  <2>2. Flow' \in Flows(Table)' /\ i \in Nat
    BY <1>1 DEF FlowInv
  <2> QED
    BY <2>1, <2>2 DEF TypeOK, code, data, marks
<1>8. CASE ClearBreakpoints
  <2>1. Flow' \in Flows(Table)'
    BY <1>1 DEF FlowInv
  <2> QED
    BY <1>8, <2>1 DEF ClearBreakpoints, TypeOK, code, data, marks
<1>9. CASE Edit
  BY <1>1, <1>9, TypeEdit
<1>10. CASE UNCHANGED vars
  BY <1>1, <1>10 DEF FlowInv, TypeOK, vars, code, data, marks
<1> QED
  BY <1>2, <1>3, <1>4, <1>5, <1>6, <1>7, <1>8, <1>9, <1>10 DEF Next

(* Whatever the client does, instruction numbers stay inside the program,  *)
(* the iterator inside the circuit and every bit and stack in its type.    *)
THEOREM TypeCorrect == Spec => []TypeOK
<1>1. Init => FlowInv /\ TypeOK
  BY FlowInit, TypeInit
<1>2. FlowInv /\ TypeOK /\ [Next]_vars => (FlowInv /\ TypeOK)'
  BY FlowStep, TypeStep
<1> QED
  BY <1>1, <1>2, PTL DEF Spec

-----------------------------------------------------------------------------
(* The flag of a failed assertion.                                         *)

(* A flag that is set names an assertion of the program, and one that      *)
(* fails wherever the client has stepped since: what changes the state     *)
(* clears the flag, and a step back keeps it only where it arrives at that *)
(* assertion.                                                              *)
FlagInv ==
  ready /\ lastFailedAssertion # NoInstruction =>
    /\ lastFailedAssertion < Table.n
    /\ TypeOf(lastFailedAssertion) = "ASSERTION"
    /\ ~Editing => AssertionOutcome(lastFailedAssertion) = "fails"

LEMMA FlagKept ==
  ASSUME FlagInv, UNCHANGED <<code, simulationState, lastFailedAssertion>>
  PROVE  FlagInv'
  BY DEF FlagInv, code, TypeOf, AssertionOutcome, Table

LEMMA FlagCleared ==
  ASSUME lastFailedAssertion' = NoInstruction
  PROVE  FlagInv'
  BY DEF FlagInv

LEMMA FlagForward ==
  ASSUME FlowInv, FlagInv, StepForward
  PROVE  FlagInv'
<1>1. CASE StepForwardRefused
  BY <1>1, FlagKept DEF StepForwardRefused, marks, data
<1>2. CASE StepPastAssertion \/ StepAssertionThrows \/ StepAssertionCrashes
  BY <1>2, FlagKept DEF StepPastAssertion, StepAssertionThrows,
     StepAssertionCrashes, Advance, data
<1>3. CASE StepStopsAtAssertion
  <2>1. UNCHANGED flow /\ UNCHANGED code /\ UNCHANGED simulationState
    BY <1>3, FlowStops DEF StepStopsAtAssertion, data
  <2>2. lastFailedAssertion' = currentInstruction
    BY <1>3, <2>1 DEF StepStopsAtAssertion, FlagAfterRetreat, flow
  <2>3. /\ TypeOf(currentInstruction) = "ASSERTION"
        /\ AssertionOutcome(currentInstruction) = "fails"
        /\ currentInstruction < Table.n
    BY <1>3 DEF StepStopsAtAssertion, CanStepForward
  <2> QED
    BY <2>1, <2>2, <2>3 DEF FlagInv, code, TypeOf, AssertionOutcome, Table
<1>4. CASE lastFailedAssertion' = NoInstruction
  BY <1>4, FlagCleared
<1> QED
  BY <1>1, <1>2, <1>3, <1>4 DEF StepForward, StepControl, StepCollapses,
     StepBarrier, StepGate, StepUnsupportedThrows, StepRunsOffCircuit, Simulates

LEMMA FlagBackward ==
  ASSUME FlagInv, StepBackward
  PROVE  FlagInv'
<1>1. CASE StepBackwardRefused
  BY <1>1, FlagKept DEF StepBackwardRefused, marks, data
<1>2. CASE lastFailedAssertion' = NoInstruction
  BY <1>2, FlagCleared
<1>3. CASE Retreat /\ lastFailedAssertion' # NoInstruction
  <2>1. /\ UNCHANGED code /\ lastFailedAssertion' = lastFailedAssertion
        /\ lastFailedAssertion = currentInstruction'
    BY <1>3 DEF Retreat, FlagAfterRetreat
  <2>2. CASE UNCHANGED simulationState
    BY <2>1, <2>2, FlagKept
  <2>3. CASE TypeOf(currentInstruction') = "SIMULATE"
    <3>1. ~ready
      BY <1>3, <2>1, <2>3 DEF FlagInv
    <3> QED
      BY <2>1, <3>1 DEF FlagInv, code
  <2> QED
    BY <1>3, <2>2, <2>3 DEF StepBackward, StepBackwardRefused, Retreat,
       BackPastControl, BackPastBarrier, BackPastGate, BackUnsupportedThrows,
       BackRunsOffCircuit, BackOver, data
<1> QED
  BY <1>1, <1>2, <1>3 DEF StepBackward, BackPastControl, BackPastBarrier,
     BackPastGate, BackUnsupportedThrows, BackRunsOffCircuit, BackOver

LEMMA FlagStep ==
  ASSUME FlowInv, FlagInv, [Next]_vars
  PROVE  FlagInv'
<1>1. CASE StepForward
  BY <1>1, FlagForward
<1>2. CASE StepBackward
  BY <1>2, FlagBackward
<1>3. ASSUME NEW p, LoadCode(p) \/ LoadRejected(p)
      PROVE  FlagInv'
  BY <1>3 DEF LoadCode, LoadRejected, FlagInv
<1>4. CASE ResetSimulation
  BY <1>4, FlagCleared DEF ResetSimulation
<1>5. ASSUME NEW i, SetBreakpoint(i) \/ ClearBreakpoints
      PROVE  FlagInv'
  BY <1>5, FlagKept DEF SetBreakpoint, ClearBreakpoints, marks, data
<1>6. CASE Editing /\ Edit
  BY <1>6 DEF Edit, ChangeClassicalVariableValue, ChangeAmplitudeValue,
              FlagInv, code, marks, TypeOf, Table
<1>7. CASE UNCHANGED vars
  BY <1>7, FlagKept DEF vars, marks, data
<1> QED
  BY <1>1, <1>2, <1>3, <1>4, <1>5, <1>6, <1>7 DEF Next

(* Unless somebody edits the state, didAssertionFail answers yes only where *)
(* the instruction is an assertion that fails in the present state.        *)
THEOREM FailureFlagCorrect == Spec => []FailureFlagIsTrue
<1>1. Init => FlowInv /\ FlagInv
  BY FlowInit DEF Init, FlagInv
<1>2. FlowInv /\ FlagInv /\ [Next]_vars => (FlowInv /\ FlagInv)'
  BY FlowStep, FlagStep
<1>3. ASSUME FlowInv, FlagInv
      PROVE  FailureFlagIsTrue
  <2>1. currentInstruction \in Nat
    <3>1. Flow \in Flows(Table) /\ Table.n \in Nat
      BY <1>3, TableIsWellFormed DEF FlowInv, WellFormedFlow
    <3> QED
      BY <3>1 DEF Flows, Flow
  <2>2. currentInstruction # NoInstruction
    BY <2>1 DEF NoInstruction
  <2> QED
    BY <1>3, <2>2 DEF FlagInv, FailureFlagIsTrue, DidAssertionFail
<1>4. FlowInv /\ FlagInv => FailureFlagIsTrue
  BY <1>3
<1> QED
  BY <1>1, <1>2, <1>4, PTL DEF Spec

-----------------------------------------------------------------------------
(* The iterator over the circuit and the instruction pointer.              *)
(*                                                                         *)
(* That the operation under the iterator is the one for the instruction    *)
(* says nothing of the place a step back leads to. WayInStep compares the  *)
(* whole way back with the execution CircuitIsExpansion speaks of: the     *)
(* places passed are a stretch of it, the engine is where the stretch      *)
(* ends, and the iterator is as far as the execution was there.            *)

SamePlace(f, g) == f.pos = g.pos /\ f.calls = g.calls

(* h and then f are the places of the execution from the one before step   *)
(* k - Len(h) to the one before step k. The stretch begins outside gates,  *)
(* because nothing in a gate closes the way back.                          *)
Along(at, h, f, k) ==
  LET first == k - Len(h)
  IN  /\ first \in Nat
      /\ SamePlace(f, at[k])
      /\ \A i \in 1 .. Len(h) : SamePlace(h[i], at[first + i - 1])
      /\ at[first].calls = <<>>

(* It is the journey by the tables, as far as the end of the program.      *)
OnJourney(p, m, at) == m \in 0 .. MaxSteps /\ at = Journey(p, MaxSteps)

InStep(p, h, f, done) ==
  \E m, at, count :
    /\ m \in Nat /\ Executes(p, m, at, count) /\ OnJourney(p, m, at)
    /\ \E k \in 0 .. m : Along(at, h, f, k) /\ done = count[k]

WayInStep ==
  ready /\ FollowsTables(Table) =>
    \E h : IsPath(Table, h, Flow) /\ InStep(Table, h, Flow, iterator)

-----------------------------------------------------------------------------
(* What an instruction does to the number of operations done.              *)
Counts(p, f, before, after) ==
  IF p.type[f.pos] = "SIMULATE"
    THEN /\ before < Len(p.ops) /\ after = before + 1
         /\ p.ops[before + 1].at = f.pos
         /\ p.ops[before + 1].frames = f.calls
    ELSE after = before

LEMMA SamePlaceForward ==
  ASSUME NEW p, NEW f, NEW g, SamePlace(f, g)
  PROVE  SamePlace(Forward(p, f), Forward(p, g))
  BY DEF SamePlace, Forward

(* The start of a program is the start of its execution.                   *)
LEMMA InStepStarts ==
  ASSUME NEW p, IsExpanded(p, MaxSteps), NEW f, f.pos = 0, f.calls = <<>>
  PROVE  InStep(p, <<>>, f, 0)
<1>1. PICK m, at, count :
        m \in 0 .. MaxSteps /\ Executes(p, m, at, count) /\ OnJourney(p, m, at)
  BY Zenon DEF IsExpanded, OnJourney
<1>2. m \in Nat /\ 0 \in 0 .. m
  BY <1>1, CircuitIsExpansion
<1>3. count[0] = 0 /\ at[0].pos = 0 /\ at[0].calls = <<>>
  BY <1>1 DEF Executes, FlowStart
<1>4. Len(<<>>) = 0
  BY EmptySeq
<1>5. Along(at, <<>>, f, 0)
  BY <1>3, <1>4 DEF Along, SamePlace
<1> QED
  BY <1>1, <1>2, <1>3, <1>5 DEF InStep

(* So wherever the engine is, the journey leads.                           *)
LEMMA InStepOnJourney ==
  ASSUME NEW p, NEW h, NEW f, NEW done, InStep(p, h, f, done)
  PROVE  \E k \in 0 .. MaxSteps : SamePlace(f, Journey(p, MaxSteps)[k])
<1>1. PICK m, at, count :
        /\ m \in Nat /\ Executes(p, m, at, count) /\ OnJourney(p, m, at)
        /\ \E k \in 0 .. m : Along(at, h, f, k) /\ done = count[k]
  BY DEF InStep
<1>2. PICK k \in 0 .. m : Along(at, h, f, k)
  BY <1>1
<1>3. k \in 0 .. MaxSteps /\ at = Journey(p, MaxSteps)
  BY <1>1, CircuitIsExpansion DEF OnJourney
<1>4. SamePlace(f, at[k])
  BY <1>2 DEF Along
<1> QED
  BY <1>3, <1>4

(* Where the program goes on, so does its execution, and it counts what    *)
(* the instruction executes.                                               *)
LEMMA ExecutionGoesOn ==
  ASSUME NEW p, NEW m \in Nat, NEW at, NEW count, Executes(p, m, at, count),
         NEW f, NEW k \in 0 .. m, SamePlace(f, at[k]),
         p.n \in Nat, f.pos \in 0 .. p.n
  PROVE  /\ f.pos = p.n => k = m /\ count[k] = Len(p.ops)
         /\ f.pos < p.n => 
              /\ k + 1 \in 0 .. m
              /\ SamePlace(Forward(p, f), at[k + 1])
              /\ Counts(p, f, count[k], count[k + 1])
<1>1. \A j \in 0 .. m - 1 : at[j].pos < p.n
  BY DEF Executes
<1>2. ASSUME f.pos = p.n
      PROVE  k = m /\ count[k] = Len(p.ops)
  <2>1. ~(at[k].pos < p.n)
    BY <1>2 DEF SamePlace
  <2>2. k = m
    BY <1>1, <2>1
  <2>3. count[m] = Len(p.ops)
    BY DEF Executes
  <2> QED
    BY <2>2, <2>3
<1>3. ASSUME f.pos < p.n
      PROVE  /\ k + 1 \in 0 .. m
             /\ SamePlace(Forward(p, f), at[k + 1])
             /\ Counts(p, f, count[k], count[k + 1])
  <2>1. f.pos = at[k].pos /\ f.calls = at[k].calls /\ at[m].pos = p.n
    BY DEF SamePlace, Executes
  <2>2. k # m
    BY <1>3, <2>1
  <2>3. k \in 0 .. m - 1 /\ k + 1 \in 0 .. m
    BY <2>2
  <2>4. /\ at[k + 1] = Forward(p, at[k])
        /\ IF p.type[at[k].pos] = "SIMULATE"
           THEN /\ count[k] < Len(p.ops) /\ count[k + 1] = count[k] + 1
                /\ p.ops[count[k] + 1].at = at[k].pos
                /\ p.ops[count[k] + 1].frames = at[k].calls
           ELSE count[k + 1] = count[k]
    BY <2>3 DEF Executes
  <2>5. SamePlace(Forward(p, f), at[k + 1])
    BY <2>4, SamePlaceForward
  <2>6. Counts(p, f, count[k], count[k + 1])
    BY <2>1, <2>4 DEF Counts
  <2> QED
    BY <2>3, <2>5, <2>6
<1> QED
  BY <1>2, <1>3

(* A step forward goes along the execution, ...                            *)
LEMMA AlongForward ==
  ASSUME NEW p, NEW f, Ahead(p, f), NEW m \in Nat, NEW at, NEW count,
         Executes(p, m, at, count), NEW h \in Seq(Flows(p)), NEW k \in 0 .. m, Along(at, h, f, k)
  PROVE  /\ k + 1 \in 0 .. m
         /\ Along(at, Append(h, f), Forward(p, f), k + 1)
         /\ Counts(p, f, count[k], count[k + 1])
<1>1. /\ f \in Flows(p) /\ f.pos < p.n /\ p.n \in Nat /\ f.pos \in 0 .. p.n
  <2>1. f \in Flows(p) /\ f.pos < p.n
    BY DEF Ahead
  <2>2. p.n \in Nat /\ f.pos \in 0 .. p.n - 1
    BY FlowTypes
  <2>3. f.pos \in 0 .. p.n
    BY <2>2
  <2> QED
    BY <2>1, <2>2, <2>3
<1>2. SamePlace(f, at[k])
  BY DEF Along
<1>3. /\ k + 1 \in 0 .. m
      /\ SamePlace(Forward(p, f), at[k + 1])
      /\ Counts(p, f, count[k], count[k + 1])
  BY <1>1, <1>2, ExecutionGoesOn
<1> DEFINE g == Append(h, f)
           first == k - Len(h)
<1>4. /\ Len(h) \in Nat /\ Len(g) = Len(h) + 1 /\ g[Len(h) + 1] = f
      /\ \A i \in 1 .. Len(h) : g[i] = h[i]
  BY <1>1, AppendProperties, LenProperties
<1> HIDE DEF g
<1>5. /\ first \in Nat /\ at[first].calls = <<>>
      /\ \A i \in 1 .. Len(h) : SamePlace(h[i], at[first + i - 1])
  BY DEF Along
<1>6. /\ (k + 1) - Len(g) = first
      /\ \A i \in 1 .. Len(g) : SamePlace(g[i], at[first + i - 1])
  BY <1>2, <1>4, <1>5
<1>7. Along(at, g, Forward(p, f), k + 1)
  BY <1>3, <1>5, <1>6 DEF Along
<1> QED
  BY <1>3, <1>7 DEF g

(* ... a step backward goes back along it, ...                             *)
LEMMA AlongBackward ==
  ASSUME NEW at, NEW S, NEW h \in Seq(S), h # <<>>, NEW f, NEW k \in Nat,
         Along(at, h, f, k)
  PROVE  k - 1 \in Nat /\ Along(at, Front(h), Last(h), k - 1)
<1>1. /\ Len(h) \in Nat /\ Len(h) > 0 /\ Last(h) = h[Len(h)]
      /\ Len(Front(h)) = Len(h) - 1
      /\ \A i \in 1 .. Len(h) - 1 : Front(h)[i] = h[i]
  BY PopPush
<1> DEFINE first == k - Len(h)
           g == Front(h)
<1>2. /\ first \in Nat /\ at[first].calls = <<>>
      /\ \A i \in 1 .. Len(h) : SamePlace(h[i], at[first + i - 1])
  BY DEF Along
<1>3. k - 1 \in Nat /\ (k - 1) - Len(g) = first
  BY <1>1, <1>2
<1>4. SamePlace(Last(h), at[k - 1])
  BY <1>1, <1>2
<1>5. \A i \in 1 .. Len(g) : SamePlace(g[i], at[first + i - 1])
  BY <1>1, <1>2
<1> QED
  BY <1>2, <1>3, <1>4, <1>5 DEF Along

(* ... and where the way back is closed, outside gates, it starts anew.    *)
LEMMA AlongClosed ==
  ASSUME NEW at, NEW f, f.calls = <<>>, NEW k \in Nat, SamePlace(f, at[k])
  PROVE  Along(at, <<>>, f, k)
<1>1. Len(<<>>) = 0
  BY EmptySeq
<1> QED
  BY <1>1 DEF Along, SamePlace

-----------------------------------------------------------------------------
(* The steps of the engine.                                                *)

(* What WayInStep says when it says something.                               *)
Tracked == ready /\ FollowsTables(Table)

LEMMA TrackedStep ==
  ASSUME WayInStep, UNCHANGED code, Tracked'
  PROVE  /\ ready /\ Table' = Table /\ FollowsTables(Table)
         /\ \E h : IsPath(Table, h, Flow) /\ InStep(Table, h, Flow, iterator)
  BY DEF WayInStep, Tracked, code, Table

LEMMA IterKept ==
  ASSUME WayInStep, UNCHANGED <<code, flow, iterator>>
  PROVE  WayInStep'
  BY DEF WayInStep, code, flow, Flow, Table

LEMMA IterStarts ==
  ASSUME SetFlow(FlowStart), iterator' = 0, prog' \in Programs \cup {NoProgram},
         ready' => prog' \in Programs
  PROVE  WayInStep'
<1> SUFFICES ASSUME Tracked'
             PROVE  \E h : IsPath(Table', h, Flow')
                            /\ InStep(Table', h, Flow', iterator')
  BY DEF WayInStep, Tracked
<1> DEFINE t == Code[prog']
<1>1. Table' = t /\ prog' \in Programs /\ FollowsTables(t)
  BY DEF Tracked, Table
<1>2. IsExpanded(t, MaxSteps)
  BY <1>1, CircuitIsExpansion
<1>3. Flow'.pos = 0 /\ Flow'.calls = <<>> /\ Flow'.prev = <<>>
  BY DEF SetFlow, FlowStart, Flow
<1>4. InStep(t, <<>>, Flow', 0) /\ IsPath(t, <<>>, Flow')
  BY <1>2, <1>3, InStepStarts, PathStart
<1> QED
  BY <1>1, <1>4

(* The operation a SIMULATE instruction executes is the one it was made    *)
(* into; the end of the circuit is met at the end of the program only.     *)
LEMMA NextIsInStep ==
  ASSUME FlowInv, TypeOK, Tracked, NEW h, InStep(Table, h, Flow, iterator)
  PROVE  /\ IsFinished => iterator = Len(Code[circuit].ops)
         /\ ~IsFinished /\ TypeOf(currentInstruction) = "SIMULATE" =>
              /\ iterator < Len(Code[circuit].ops)
              /\ NextOperation.at = currentInstruction
              /\ NextOperation.frames = callReturnStack
<1>1. PICK m, at, count :
        /\ m \in Nat /\ Executes(Table, m, at, count) /\ OnJourney(Table, m, at)
        /\ \E k \in 0 .. m : Along(at, h, Flow, k) /\ iterator = count[k]
  BY DEF InStep
<1>2. PICK k \in 0 .. m : Along(at, h, Flow, k) /\ iterator = count[k]
  BY <1>1
<1>3. /\ Flow.pos = currentInstruction /\ Flow.calls = callReturnStack
      /\ Code[circuit] = Table
  BY DEF Flow, Tracked, TypeOK, Table
<1>4. Table.n \in Nat /\ Flow.pos \in 0 .. Table.n
  BY TableIsWellFormed DEF FlowInv, WellFormedFlow, Flows
<1>5. SamePlace(Flow, at[k])
  BY <1>2 DEF Along
<1>6. /\ Flow.pos = Table.n => count[k] = Len(Table.ops)
      /\ Flow.pos < Table.n => Counts(Table, Flow, count[k], count[k + 1])
  BY <1>1, <1>4, <1>5, ExecutionGoesOn
<1>7. Flow.pos # Table.n => Flow.pos < Table.n
  BY <1>4
<1> QED
  BY <1>2, <1>3, <1>6, <1>7
     DEF IsFinished, TypeOf, NextOperation, Operation, Counts

(* A step forward that executes what the execution executes there.         *)
LEMMA IterForward ==
  ASSUME FlowInv, TypeOK, Tracked, NEW h, IsPath(Table, h, Flow),
         InStep(Table, h, Flow, iterator), CanStepForward,
         IF TypeOf(currentInstruction) = "SIMULATE"
           THEN iterator' = iterator + 1 ELSE iterator' = iterator
  PROVE  LET g == Forward(Table, Flow)
         IN  /\ IsPath(Table, Append(h, Flow), g)
             /\ InStep(Table, Append(h, Flow), g, iterator')
             /\ g.calls = <<>> => InStep(Table, <<>>, Closed(g), iterator')
<1> DEFINE g == Forward(Table, Flow)
<1>1. PICK m, at, count :
        /\ m \in Nat /\ Executes(Table, m, at, count) /\ OnJourney(Table, m, at)
        /\ \E k \in 0 .. m : Along(at, h, Flow, k) /\ iterator = count[k]
  BY DEF InStep
<1>2. PICK k \in 0 .. m : Along(at, h, Flow, k) /\ iterator = count[k]
  BY <1>1
<1>3. Ahead(Table, Flow)
  BY FlowAhead
<1>4. IsPath(Table, Append(h, Flow), g) /\ h \in Seq(Flows(Table))
  BY <1>3, PathForward DEF IsPath
<1>5. /\ k + 1 \in 0 .. m
      /\ Along(at, Append(h, Flow), g, k + 1)
      /\ Counts(Table, Flow, count[k], count[k + 1])
  BY <1>1, <1>2, <1>3, <1>4, AlongForward
<1>6. iterator' = count[k + 1]
  BY <1>2, <1>5 DEF Counts, TypeOf, Flow
<1> HIDE DEF g
<1>7. ASSUME g.calls = <<>>
      PROVE  InStep(Table, <<>>, Closed(g), iterator')
  <2>1. Closed(g).pos = g.pos /\ Closed(g).calls = g.calls
    BY DEF Closed
  <2>2. SamePlace(Closed(g), at[k + 1])
    BY <1>5, <2>1 DEF Along, SamePlace
  <2>3. Along(at, <<>>, Closed(g), k + 1)
    BY <1>5, <1>7, <2>1, <2>2, AlongClosed
  <2> QED
    BY <1>1, <1>5, <1>6, <2>3 DEF InStep
<1>8. InStep(Table, Append(h, Flow), g, iterator')
  BY <1>1, <1>5, <1>6 DEF InStep
<1> QED
  BY <1>4, <1>7, <1>8 DEF g

(* Nothing that collapses the state is executed inside a gate.             *)
LEMMA CollapsesOutside ==
  ASSUME FlowInv, TypeOK, Tracked, NEW h, InStep(Table, h, Flow, iterator),
         Simulates({"measure", "reset"})
  PROVE  Forward(Table, Flow).calls = <<>>
<1>1. /\ CanStepForward /\ TypeOf(currentInstruction) = "SIMULATE"
      /\ iterator < Len(Code[circuit].ops)
      /\ NextOperation.kind \in {"measure", "reset"}
  BY DEF Simulates
<1>2. Table.n \in Nat /\ currentInstruction < Table.n
  BY <1>1, TableIsWellFormed DEF CanStepForward, WellFormedFlow
<1>3. ~IsFinished
  BY <1>2 DEF IsFinished
<1>4. NextOperation.frames = callReturnStack
  BY <1>1, <1>3, NextIsInStep
<1>5. iterator + 1 \in 1 .. Len(Code[circuit].ops)
  BY <1>1, CircuitLength DEF TypeOK
<1>6. \A k \in 1 .. Len(Code[circuit].ops) :
        Code[circuit].ops[k].kind \in {"measure", "reset"}
          => Code[circuit].ops[k].frames = <<>>
  BY CodeIsWellFormed DEF TypeOK, WellFormed, WellFormedData
<1>7. callReturnStack = <<>>
  BY <1>1, <1>4, <1>5, <1>6 DEF NextOperation, Operation
<1>8. Moves(Table, Flow, Forward(Table, Flow))
  BY <1>1, FlowAhead, ForwardMoves
<1> QED
  BY <1>1, <1>7, <1>8 DEF Moves, TypeOf, Flow

LEMMA IterStepForward ==
  ASSUME FlowInv, TypeOK, WayInStep, StepForward
  PROVE  WayInStep'
<1>1. UNCHANGED code
  BY DEF StepForward, StepForwardRefused, StepControl, StepPastAssertion,
       StepStopsAtAssertion, StepAssertionThrows, StepAssertionCrashes,
       StepCollapses, StepBarrier, StepGate, StepUnsupportedThrows,
       StepRunsOffCircuit, Simulates, Advance
<1> SUFFICES ASSUME Tracked'
             PROVE  \E h : IsPath(Table', h, Flow')
                            /\ InStep(Table', h, Flow', iterator')
  BY DEF WayInStep, Tracked
<1>2. /\ Tracked /\ Table' = Table
      /\ \E h : IsPath(Table, h, Flow) /\ InStep(Table, h, Flow, iterator)
  BY <1>1, TrackedStep DEF Tracked
<1>3. PICK h : IsPath(Table, h, Flow) /\ InStep(Table, h, Flow, iterator)
  BY <1>2
<1> DEFINE g == Forward(Table, Flow)
<1>4. ASSUME CanStepForward
      PROVE  g \in Flows(Table)
  BY <1>4, FlowAhead, ForwardIsNested
<1>5. CASE UNCHANGED <<flow, iterator>>
  BY <1>2, <1>3, <1>5 DEF flow, Flow
<1>6. CASE /\ CanStepForward /\ SetFlow(g)
           /\ IF TypeOf(currentInstruction) = "SIMULATE"
                THEN iterator' = iterator + 1 ELSE iterator' = iterator
  <2>1. Flow' = g
    BY <1>4, <1>6, SetFlowSets
  <2>2. /\ IsPath(Table, Append(h, Flow), g)
        /\ InStep(Table, Append(h, Flow), g, iterator')
    BY <1>2, <1>3, <1>6, IterForward
  <2> QED
    BY <1>2, <2>1, <2>2
<1>7. CASE StepCollapses
  <2>1. /\ Simulates({"measure", "reset"}) /\ SetFlow(Closed(g))
        /\ CanStepForward /\ TypeOf(currentInstruction) = "SIMULATE"
        /\ iterator' = iterator + 1
    BY <1>7 DEF StepCollapses, Simulates
  <2>2. InStep(Table, <<>>, Closed(g), iterator')
    BY <1>2, <1>3, <2>1, CollapsesOutside, IterForward
  <2>3. Closed(g) \in Flows(Table) /\ Closed(g).prev = <<>>
    <3>1. g \in Flows(Table)
      BY <1>4, <2>1
    <3> HIDE DEF g
    <3> QED
      BY <3>1, EmptySeq DEF Closed, Flows
  <2>4. Flow' = Closed(g) /\ IsPath(Table, <<>>, Closed(g))
    BY <2>1, <2>3, SetFlowSets, PathStart
  <2> QED
    BY <1>2, <2>2, <2>4
<1>8. CASE StepForwardRefused
  BY <1>5, <1>8 DEF StepForwardRefused, data
<1>9. CASE StepControl \/ StepPastAssertion \/ StepAssertionThrows
             \/ StepAssertionCrashes
  BY <1>6, <1>9 DEF StepControl, StepPastAssertion, StepAssertionThrows,
     StepAssertionCrashes, Advance, data
<1>10. CASE StepStopsAtAssertion
  BY <1>5, <1>10, FlowStops DEF StepStopsAtAssertion, data
<1>11. CASE StepBarrier \/ StepGate
  BY <1>6, <1>11 DEF StepBarrier, StepGate, Simulates, Advance
<1>12. CASE StepUnsupportedThrows
  <2>1. /\ iterator + 1 \in DOMAIN Table.ops
        /\ Table.ops[iterator + 1].kind = "if"
        /\ ~Table.ops[iterator + 1].supported
    <3>1. /\ iterator < Len(Code[circuit].ops) /\ NextOperation.kind = "if"
          /\ ~NextOperation.supported /\ circuit = prog
      BY <1>2, <1>12 DEF StepUnsupportedThrows, Simulates, Tracked, TypeOK
    <3>2. iterator + 1 \in 1 .. Len(Code[circuit].ops)
      BY <3>1, CircuitLength DEF TypeOK
    <3>3. Code[circuit].ops \in Seq(Operations)
      BY CodeIsWellFormed DEF TypeOK, WellFormed, WellFormedData
    <3>4. DOMAIN Code[circuit].ops = 1 .. Len(Code[circuit].ops)
      BY <3>3, LenProperties
    <3> QED
      BY <3>1, <3>2, <3>4 DEF NextOperation, Operation, Table
  <2> QED
    BY <1>2, <2>1 DEF Tracked, FollowsTables
<1>13. CASE StepRunsOffCircuit
  <2>1. /\ CanStepForward /\ TypeOf(currentInstruction) = "SIMULATE"
        /\ iterator = Len(Code[circuit].ops)
    BY <1>13 DEF StepRunsOffCircuit, Advance
  <2>2. Table.n \in Nat /\ currentInstruction < Table.n
    BY <2>1, TableIsWellFormed DEF CanStepForward, WellFormedFlow
  <2>3. ~IsFinished
    BY <2>2 DEF IsFinished
  <2>4. iterator < Len(Code[circuit].ops)
    BY <1>2, <1>3, <2>1, <2>3, NextIsInStep
  <2> QED
    BY <2>1, <2>4, CircuitLength DEF TypeOK
<1> QED
  BY <1>7, <1>8, <1>9, <1>10, <1>11, <1>12, <1>13 DEF StepForward

(* A step back leads to the place the execution came from, and before the  *)
(* operation it met there.                                                 *)
LEMMA IterBackward ==
  ASSUME FlowInv, TypeOK, Tracked, NEW h, IsPath(Table, h, Flow),
         InStep(Table, h, Flow, iterator), CanStepBackward
  PROVE  /\ Backward(Flow) = Last(h) /\ Last(h) \in Flows(Table)
         /\ IsPath(Table, Front(h), Last(h))
         /\ Table.type[Last(h).pos] = "SIMULATE" =>
              iterator > 0 /\ InStep(Table, Front(h), Last(h), iterator - 1)
         /\ Table.type[Last(h).pos] # "SIMULATE" =>
              InStep(Table, Front(h), Last(h), iterator)
<1>1. Flow.prev # <<>> /\ Flow \in Flows(Table)
  BY DEF CanStepBackward, Flow, FlowInv
<1>2. /\ h # <<>> /\ Backward(Flow) = Last(h) /\ Ahead(Table, Last(h))
      /\ IsPath(Table, Front(h), Last(h)) /\ h \in Seq(Flows(Table))
  BY <1>1, TableIsWellFormed, PathBackward DEF IsPath
<1>3. PICK m, at, count :
        /\ m \in Nat /\ Executes(Table, m, at, count) /\ OnJourney(Table, m, at)
        /\ \E k \in 0 .. m : Along(at, h, Flow, k) /\ iterator = count[k]
  BY DEF InStep
<1>4. PICK k \in 0 .. m : Along(at, h, Flow, k) /\ iterator = count[k]
  BY <1>3
<1> DEFINE j == k - 1
<1>5. j \in Nat /\ Along(at, Front(h), Last(h), j)
  BY <1>2, <1>4, AlongBackward
<1>6. j \in 0 .. m /\ k = j + 1
  BY <1>3, <1>4, <1>5
<1>7. Last(h) \in Flows(Table) /\ Last(h).pos < Table.n /\ Table.n \in Nat
  BY <1>2 DEF Ahead, WellFormedFlow
<1>8. Last(h).pos \in 0 .. Table.n
  BY <1>7 DEF Flows
<1>9. SamePlace(Last(h), at[j])
  BY <1>5 DEF Along
<1> HIDE DEF j
<1>10. Counts(Table, Last(h), count[j], count[j + 1])
  BY <1>3, <1>6, <1>7, <1>8, <1>9, ExecutionGoesOn
<1>11. count[j] \in Nat
  BY <1>3, <1>6 DEF Executes
<1>12. InStep(Table, Front(h), Last(h), count[j])
  BY <1>3, <1>5, <1>6 DEF InStep
<1>13. ASSUME Table.type[Last(h).pos] = "SIMULATE"
       PROVE  iterator > 0 /\ InStep(Table, Front(h), Last(h), iterator - 1)
  <2>1. count[k] = count[j] + 1
    BY <1>6, <1>10, <1>13 DEF Counts
  <2>2. iterator > 0 /\ iterator - 1 = count[j]
    BY <1>4, <1>11, <2>1
  <2> QED
    BY <1>12, <2>2
<1>14. ASSUME Table.type[Last(h).pos] # "SIMULATE"
       PROVE  InStep(Table, Front(h), Last(h), iterator)
  <2>1. count[k] = count[j]
    BY <1>6, <1>10, <1>14 DEF Counts
  <2> QED
    BY <1>4, <1>12, <2>1
<1> QED
  BY <1>2, <1>7, <1>13, <1>14

LEMMA IterStepBackward ==
  ASSUME FlowInv, TypeOK, WayInStep, StepBackward
  PROVE  WayInStep'
<1>1. UNCHANGED code
  BY DEF StepBackward, StepBackwardRefused, BackPastControl, BackPastBarrier,
       BackPastGate, BackUnsupportedThrows, BackRunsOffCircuit, BackOver, Retreat
<1> SUFFICES ASSUME Tracked'
             PROVE  \E h : IsPath(Table', h, Flow')
                            /\ InStep(Table', h, Flow', iterator')
  BY DEF WayInStep, Tracked
<1>2. /\ Tracked /\ Table' = Table
      /\ \E h : IsPath(Table, h, Flow) /\ InStep(Table, h, Flow, iterator)
  BY <1>1, TrackedStep DEF Tracked
<1>3. PICK h : IsPath(Table, h, Flow) /\ InStep(Table, h, Flow, iterator)
  BY <1>2
<1>4. CASE StepBackwardRefused
  BY <1>2, <1>3, <1>4 DEF StepBackwardRefused, flow, data, Flow
<1>5. CASE Retreat
  <2>1. CanStepBackward /\ SetFlow(Backward(Flow))
    BY <1>5 DEF Retreat
  <2>2. /\ Backward(Flow) = Last(h) /\ Last(h) \in Flows(Table)
        /\ IsPath(Table, Front(h), Last(h))
        /\ Table.type[Last(h).pos] = "SIMULATE" =>
             iterator > 0 /\ InStep(Table, Front(h), Last(h), iterator - 1)
        /\ Table.type[Last(h).pos] # "SIMULATE" =>
             InStep(Table, Front(h), Last(h), iterator)
    BY <1>2, <1>3, <2>1, IterBackward
  <2>3. Flow' = Last(h) /\ Last(h).pos = currentInstruction'
    BY <2>1, <2>2, SetFlowSets DEF SetFlow
  <2>4. CASE TypeOf(currentInstruction') # "SIMULATE"
    <3>1. iterator' = iterator
      BY <1>4, <1>5, <2>4 DEF StepBackward, BackPastControl, BackPastBarrier,
         BackPastGate, BackUnsupportedThrows, BackRunsOffCircuit, BackOver,
         StepBackwardRefused, data
    <3> QED
      BY <1>2, <2>2, <2>3, <2>4, <3>1 DEF TypeOf
  <2>5. CASE TypeOf(currentInstruction') = "SIMULATE"
    <3>1. iterator > 0
      BY <2>2, <2>3, <2>5 DEF TypeOf
    <3>2. ~(iterator = 0) /\ ~StepBackwardRefused
      BY <2>1, <3>1 DEF StepBackwardRefused
    <3>3. iterator' = iterator - 1
      BY <2>5, <3>2 DEF StepBackward, BackPastControl, BackPastBarrier,
         BackPastGate, BackUnsupportedThrows, BackRunsOffCircuit, BackOver
    <3> QED
      BY <1>2, <2>2, <2>3, <2>5, <3>3 DEF TypeOf
  <2> QED
    BY <2>4, <2>5
<1> QED
  BY <1>4, <1>5 DEF StepBackward, BackPastControl, BackPastBarrier,
     BackPastGate, BackUnsupportedThrows, BackRunsOffCircuit, BackOver

(* A debugger that is ready has loaded a program.                          *)
HasProgram == ready => prog \in Programs

IterInv == HasProgram /\ WayInStep

LEMMA StepsKeepCode ==
  ASSUME StepForward \/ StepBackward
  PROVE  UNCHANGED code
<1>1. CASE StepForward
  BY <1>1 DEF StepForward, StepForwardRefused, StepControl, StepPastAssertion,
       StepStopsAtAssertion, StepAssertionThrows, StepAssertionCrashes,
       StepCollapses, StepBarrier, StepGate, StepUnsupportedThrows,
       StepRunsOffCircuit, Simulates, Advance
<1>2. CASE StepBackward
  BY <1>2 DEF StepBackward, StepBackwardRefused, BackPastControl,
       BackPastBarrier, BackPastGate, BackUnsupportedThrows,
       BackRunsOffCircuit, BackOver, Retreat
<1> QED
  BY <1>1, <1>2

LEMMA IterStep ==
  ASSUME FlowInv, TypeOK, IterInv, [Next]_vars
  PROVE  IterInv'
<1>1. HasProgram /\ WayInStep
  BY DEF IterInv
<1>2. ASSUME UNCHANGED code
      PROVE  HasProgram'
  BY <1>1, <1>2 DEF HasProgram, code
<1>3. CASE StepForward \/ StepBackward
  <2>1. WayInStep'
    BY <1>1, <1>3, IterStepForward, IterStepBackward
  <2> QED
    BY <1>2, <1>3, <2>1, StepsKeepCode DEF IterInv
<1>4. ASSUME NEW p \in Programs, LoadCode(p)
      PROVE  IterInv'
  <2>1. WayInStep'
    BY <1>4, IterStarts DEF LoadCode
  <2> QED
    BY <1>4, <2>1 DEF LoadCode, IterInv, HasProgram
<1>5. ASSUME NEW p, LoadRejected(p)
      PROVE  IterInv'
  BY <1>5 DEF LoadRejected, IterInv, HasProgram, WayInStep
<1>6. CASE ResetSimulation
  <2>1. /\ SetFlow(FlowStart) /\ iterator' = 0 /\ UNCHANGED code
        /\ prog' = prog /\ ready' = ready
    BY <1>6 DEF ResetSimulation, code
  <2>2. prog' \in Programs \cup {NoProgram} /\ (ready' => prog' \in Programs)
    BY <1>1, <2>1 DEF FlowInv, HasProgram
  <2>3. WayInStep'
    BY <2>1, <2>2, IterStarts
  <2> QED
    BY <1>2, <2>1, <2>3 DEF IterInv
<1>7. CASE UNCHANGED <<code, flow, iterator>>
  BY <1>1, <1>2, <1>7, IterKept DEF IterInv
<1>8. ASSUME NEW i, SetBreakpoint(i) \/ ClearBreakpoints
      PROVE  IterInv'
  BY <1>7, <1>8 DEF SetBreakpoint, ClearBreakpoints, data
<1>9. CASE Edit
  BY <1>7, <1>9 DEF Edit, ChangeClassicalVariableValue, ChangeAmplitudeValue
<1>10. CASE UNCHANGED vars
  BY <1>7, <1>10 DEF vars, data
<1> QED
  BY <1>3, <1>4, <1>5, <1>6, <1>8, <1>9, <1>10 DEF Next

LEMMA IterIsInStep ==
  ASSUME FlowInv, TypeOK, IterInv
  PROVE  IteratorInStep
<1> SUFFICES ASSUME Tracked
             PROVE  IteratorStays
  BY DEF IteratorInStep, IteratorStays, Tracked
<1>1. PICK h : InStep(Table, h, Flow, iterator)
  BY DEF IterInv, WayInStep, Tracked
<1> QED
  BY <1>1, NextIsInStep DEF IteratorStays

(* In a program that follows its tables the iterator over the circuit and  *)
(* the instruction pointer never drift apart, whatever the client steps,   *)
(* loads, resets and edits.                                                *)
THEOREM IteratorCorrect == Spec => []IteratorInStep
<1> DEFINE Inv == FlowInv /\ TypeOK /\ IterInv
<1>1. Init => Inv
  BY FlowInit, TypeInit DEF Init, IterInv, HasProgram, WayInStep
<1>2. Inv /\ [Next]_vars => Inv'
  BY FlowStep, TypeStep, IterStep
<1>3. Inv => IteratorInStep
  BY IterIsInStep
<1> QED
  BY <1>1, <1>2, <1>3, PTL DEF Spec

=============================================================================
