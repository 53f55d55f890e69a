---------------------------- MODULE DDSimDebug ----------------------------
(***************************************************************************)
(* The simulation engine of the debugger (src/src/backend/dd/              *)
(* DDSimDebug.cpp): one client loads OpenQASM programs and moves through   *)
(* them one instruction at a time, forward and backward, over custom-gate  *)
(* calls, assertions, measurements and classically controlled gates.       *)
(* Every action is one call of the C interface; the commands that repeat   *)
(* these steps are in DDSimControl.                                        *)
(***************************************************************************)
EXTENDS ControlFlow

CONSTANTS
  Programs,       \* names of the programs a client may load
  NoProgram,      \* the tables before the first load
  Code,           \* Code[p]: the preprocessed tables of program p
  MaxSteps,       \* bound on the steps a program that follows its tables takes
  MaxBreakpoints, \* bound on the breakpoints set at a time
  Editing         \* may the client edit bits and amplitudes?

ASSUME CodeIsWellFormed ==
  /\ NoProgram \notin Programs
  /\ \A p \in Programs \cup {NoProgram} : WellFormed(Code[p])
  /\ Code[NoProgram].n = 0 /\ Code[NoProgram].ops = <<>>
  /\ MaxBreakpoints \in Nat /\ Editing \in BOOLEAN

(* No instruction is two operations of the circuit in the same nest of     *)
(* calls, none outside gates is no operation, and the engine supports the  *)
(* condition of every if.                                                  *)
FollowsTables(p) ==
  /\ \A j, k \in DOMAIN p.ops :
       p.ops[j].at = p.ops[k].at /\ p.ops[j].frames = p.ops[k].frames => j = k
  /\ \A i \in DOMAIN p.type :
       p.type[i] = "SIMULATE" /\ p.body[i] = TopLevel =>
         \E k \in DOMAIN p.ops : p.ops[k].at = i
  /\ \A k \in DOMAIN p.ops : p.ops[k].kind = "if" => p.ops[k].supported

(* The importer made the circuit of the code the tables were made of: such *)
(* a program executes it (PreprocessingCheck.ExecutionIsExpansion).        *)
ASSUME CircuitIsExpansion ==
  /\ MaxSteps \in Nat
  /\ \A p \in Programs :
       FollowsTables(Code[p]) => IsExpanded(Code[p], MaxSteps)

NoInstruction == -1     \* the code's -1ULL

VARIABLES
  prog,                      \* program whose tables are loaded
  circuit,                   \* program whose operations are in qc
  ready,
  currentInstruction,
  previousInstructionStack,
  callReturnStack,
  restoreCallReturnStack,
  iterator,                  \* operations of qc behind the iterator
  simulationState,
  variables,
  assertionInstructions,     \* instructions that still have an Assertion
  breakpoints,
  lastFailedAssertion,
  lastMetBreakpoint,
  result                     \* what the last call returned

flow == <<currentInstruction, previousInstructionStack, callReturnStack,
          restoreCallReturnStack>>
code == <<prog, circuit, ready>>
data == <<iterator, simulationState, variables>>
marks == <<lastFailedAssertion, lastMetBreakpoint>>
vars == <<code, flow, data, assertionInstructions, breakpoints, marks, result>>

Table == Code[prog]
TypeOf(i) == Table.type[i]

-----------------------------------------------------------------------------
(* Moving through the program.                                             *)

Flow == [pos |-> currentInstruction, prev |-> previousInstructionStack,
         calls |-> callReturnStack, restore |-> restoreCallReturnStack]

SetFlow(f) ==
  /\ currentInstruction' = f.pos
  /\ previousInstructionStack' = f.prev
  /\ callReturnStack' = f.calls
  /\ restoreCallReturnStack' = f.restore

CanStepForward == ready /\ currentInstruction < Table.n
CanStepBackward == ready /\ previousInstructionStack # <<>>
IsFinished == currentInstruction = Table.n
DidAssertionFail == lastFailedAssertion = currentInstruction
WasBreakpointHit == lastMetBreakpoint = currentInstruction

(* A backward step keeps the flag of the assertion it arrives at only.     *)
FlagAlwaysCleared(flag) == NoInstruction             \* mutant
FlagNeverCleared(flag) == flag                       \* mutant

FlagAfterRetreat(flag) ==
  IF flag = currentInstruction' THEN flag ELSE NoInstruction

BreakpointAt(i) == IF i \in breakpoints THEN i ELSE NoInstruction

-----------------------------------------------------------------------------
(* Data.                                                                   *)

ClearedVariables(p) == [b \in Code[p].bits |-> FALSE]
LoadedAssertions(p) == {i \in DOMAIN Code[p].type :
                          Code[p].type[i] = "ASSERTION"}

(* Bits that were read are assigned, a bit never declared is added.        *)
Assigned(bits) ==
  [b \in DOMAIN bits \cup DOMAIN variables |->
     IF b \in DOMAIN bits THEN bits[b] ELSE variables[b]]

(* Equality of a register (or a bit) with the expected value.              *)
ConditionMet(op) == \A b \in DOMAIN op.cond : op.cond[b] = variables[b]

(* The unitary an operation applies with the bits as they are now.         *)
EffectiveGate(op) ==
  IF op.kind = "if" /\ ~ConditionMet(op) THEN op.otherwise ELSE op.gate

(* checkAssertion: an equality assertion on an entangled sub-state throws. *)
AssertionOutcome(i) ==
  LET claim == Table.claim[i]
  IN  CASE simulationState \in claim.entangled -> "throws"
        [] simulationState \in claim.holds -> "holds"
        [] OTHER -> "fails"

Operation(k) == Code[circuit].ops[k]

-----------------------------------------------------------------------------
(* stepForward.                                                            *)

StepForwardRefused ==
  /\ ~CanStepForward
  /\ result' = "ERROR"
  /\ UNCHANGED <<code, flow, data, assertionInstructions, breakpoints, marks>>

(* What every forward step does before it looks at the instruction.        *)
Advance ==
  /\ CanStepForward
  /\ SetFlow(Forward(Table, Flow))
  /\ lastMetBreakpoint' = BreakpointAt(currentInstruction')
  /\ UNCHANGED <<code, breakpoints>>

(* An assertion that holds, or that the client was already stopped at.     *)
StepPastAssertion ==
  /\ Advance
  /\ TypeOf(currentInstruction) = "ASSERTION"
  /\ currentInstruction \in assertionInstructions
  /\ \/ AssertionOutcome(currentInstruction) = "holds"
     \/ /\ AssertionOutcome(currentInstruction) = "fails"
        /\ lastFailedAssertion = currentInstruction
  /\ result' = "OK"
  /\ UNCHANGED <<data, assertionInstructions, lastFailedAssertion>>

(* A failing assertion steps back again, in the same call.                 *)
StepStopsAtAssertion ==
  /\ CanStepForward
  /\ TypeOf(currentInstruction) = "ASSERTION"
  /\ currentInstruction \in assertionInstructions
  /\ AssertionOutcome(currentInstruction) = "fails"
  /\ lastFailedAssertion # currentInstruction
  /\ SetFlow(Backward(Forward(Table, Flow)))
  /\ lastMetBreakpoint' = BreakpointAt(currentInstruction')
  /\ lastFailedAssertion' = FlagAfterRetreat(currentInstruction)
  /\ result' = "OK"
  /\ UNCHANGED <<code, data, assertionInstructions, breakpoints>>

(* The check throws after the assertion was moved out of the map: the step *)
(* stays made and the assertion is gone.                                   *)
StepAssertionThrows ==
  /\ Advance
  /\ TypeOf(currentInstruction) = "ASSERTION"
  /\ currentInstruction \in assertionInstructions
  /\ AssertionOutcome(currentInstruction) = "throws"
  /\ assertionInstructions' = assertionInstructions \ {currentInstruction}
  /\ result' = "ERROR"
  /\ UNCHANGED <<data, lastFailedAssertion>>

(* Checking an assertion that is gone dereferences a null pointer.         *)
StepAssertionCrashes ==
  /\ Advance
  /\ TypeOf(currentInstruction) = "ASSERTION"
  /\ currentInstruction \notin assertionInstructions
  /\ result' = "CRASHED"
  /\ UNCHANGED <<data, assertionInstructions, lastFailedAssertion>>

StepControl ==
  /\ Advance
  /\ TypeOf(currentInstruction) \in {"NOP", "CALL", "RETURN"}
  /\ lastFailedAssertion' = NoInstruction
  /\ result' = "OK"
  /\ UNCHANGED <<data, assertionInstructions>>

(* A SIMULATE instruction executes the operation under the iterator.       *)
NextOperation == Operation(iterator + 1)

Simulates(kinds) ==
  /\ CanStepForward
  /\ TypeOf(currentInstruction) = "SIMULATE"
  /\ iterator < Len(Code[circuit].ops)
  /\ NextOperation.kind \in kinds
  /\ lastFailedAssertion' = NoInstruction
  /\ UNCHANGED assertionInstructions

(* Measurements and resets collapse the state and forget the way here.     *)
StepCollapses ==
  /\ Simulates({"measure", "reset"})
  /\ SetFlow(Closed(Forward(Table, Flow)))
  /\ lastMetBreakpoint' = BreakpointAt(currentInstruction')
  /\ \E outcome \in NextOperation.collapse[simulationState] :
       /\ simulationState' = outcome.state
       /\ variables' = Assigned(outcome.bits)
  /\ iterator' = iterator + 1
  /\ result' = "OK"
  /\ UNCHANGED <<code, breakpoints>>

(* Mutant of StepBarrier: returns before the iterator moved.               *)
StepBarrierStays ==
  /\ Simulates({"barrier"})
  /\ Advance
  /\ result' = "OK"
  /\ UNCHANGED data

StepBarrier ==
  /\ Simulates({"barrier"})
  /\ Advance
  /\ iterator' = iterator + 1
  /\ result' = "OK"
  /\ UNCHANGED <<simulationState, variables>>

StepGate ==
  /\ Simulates({"gate", "if"})
  /\ NextOperation.kind = "if" => NextOperation.supported
  /\ Advance
  /\ simulationState' = Act[EffectiveGate(NextOperation)][simulationState]
  /\ iterator' = iterator + 1
  /\ result' = "OK"
  /\ UNCHANGED variables

(* A condition that is no equality throws after the step was recorded and  *)
(* before the iterator moved.                                              *)
StepUnsupportedThrows ==
  /\ Simulates({"if"})
  /\ ~NextOperation.supported
  /\ Advance
  /\ result' = "THROWN"
  /\ UNCHANGED data

(* No operation is left for the instruction: the iterator is dereferenced  *)
(* at the end.                                                             *)
StepRunsOffCircuit ==
  /\ Advance
  /\ TypeOf(currentInstruction) = "SIMULATE"
  /\ iterator = Len(Code[circuit].ops)
  /\ result' = "CRASHED"
  /\ lastFailedAssertion' = NoInstruction
  /\ UNCHANGED <<data, assertionInstructions>>

StepForward ==
  \/ StepForwardRefused
  \/ StepControl
  \/ StepPastAssertion
  \/ StepStopsAtAssertion
  \/ StepAssertionThrows
  \/ StepAssertionCrashes
  \/ StepCollapses
  \/ StepBarrier
  \/ StepGate
  \/ StepUnsupportedThrows
  \/ StepRunsOffCircuit

-----------------------------------------------------------------------------
(* stepBackward.                                                           *)

StepBackwardRefused ==
  /\ ~CanStepBackward
  /\ result' = "ERROR"
  /\ UNCHANGED <<code, flow, data, assertionInstructions, breakpoints, marks>>

Retreat ==
  /\ CanStepBackward
  /\ SetFlow(Backward(Flow))
  /\ lastMetBreakpoint' = BreakpointAt(currentInstruction')
  /\ lastFailedAssertion' = FlagAfterRetreat(lastFailedAssertion)
  /\ UNCHANGED <<code, assertionInstructions, breakpoints>>

BackPastControl ==
  /\ Retreat
  /\ TypeOf(currentInstruction') # "SIMULATE"
  /\ result' = "OK"
  /\ UNCHANGED data

(* The iterator goes back first; the operation it then points at is        *)
(* inverted, an if with the bits as they are now.                          *)
BackOver(kinds) ==
  /\ Retreat
  /\ TypeOf(currentInstruction') = "SIMULATE"
  /\ iterator > 0
  /\ Operation(iterator).kind \in kinds
  /\ iterator' = iterator - 1
  /\ UNCHANGED variables

BackPastBarrier ==
  /\ BackOver({"barrier"})
  /\ result' = "OK"
  /\ UNCHANGED simulationState

BackPastGate ==
  /\ BackOver({"gate", "if"})
  /\ Operation(iterator).kind = "if" => Operation(iterator).supported
  /\ simulationState' =
       Undo(EffectiveGate(Operation(iterator)), simulationState)
  /\ result' = "OK"

BackUnsupportedThrows ==
  /\ BackOver({"if"})
  /\ ~Operation(iterator).supported
  /\ result' = "THROWN"
  /\ UNCHANGED simulationState

(* The iterator is moved before the first operation and dereferenced.      *)
BackRunsOffCircuit ==
  /\ Retreat
  /\ TypeOf(currentInstruction') = "SIMULATE"
  /\ iterator = 0
  /\ result' = "CRASHED"
  /\ UNCHANGED data

StepBackward ==
  \/ StepBackwardRefused
  \/ BackPastControl
  \/ BackPastBarrier
  \/ BackPastGate
  \/ BackUnsupportedThrows
  \/ BackRunsOffCircuit

-----------------------------------------------------------------------------
(* Loading, resetting and editing.                                         *)

(* A program that is accepted replaces everything but the breakpoints.     *)
LoadCode(p) ==
  /\ prog' = p
  /\ circuit' = p
  /\ ready' = TRUE
  /\ SetFlow(FlowStart)
  /\ iterator' = 0
  /\ simulationState' = ZeroState
  /\ variables' = ClearedVariables(p)
  /\ assertionInstructions' = LoadedAssertions(p)
  /\ lastFailedAssertion' = NoInstruction
  /\ lastMetBreakpoint' = NoInstruction
  /\ result' = "OK"
  /\ UNCHANGED breakpoints

(* Mutant of LoadRejected: the program before stays ready.                 *)
LoadRejectedStaysReady(p) ==
  /\ prog' = p
  /\ SetFlow(FlowStart)
  /\ variables' = ClearedVariables(p)
  /\ assertionInstructions' = LoadedAssertions(p)
  /\ result' = "ERROR"
  /\ UNCHANGED <<circuit, ready, iterator, simulationState, breakpoints,
                 marks>>

(* A program that is rejected by the preprocessor leaves empty tables, one *)
(* rejected by the importer leaves its own; the circuit, the iterator, the *)
(* quantum state and the two marks stay those of the program before.       *)
LoadRejected(p) ==
  /\ prog' = p
  /\ ready' = FALSE
  /\ SetFlow(FlowStart)
  /\ variables' = ClearedVariables(p)
  /\ assertionInstructions' = LoadedAssertions(p)
  /\ result' = "ERROR"
  /\ UNCHANGED <<circuit, iterator, simulationState, breakpoints, marks>>

ResetSimulation ==
  /\ SetFlow(FlowStart)
  /\ iterator' = 0
  /\ simulationState' = ZeroState
  /\ lastFailedAssertion' = NoInstruction
  /\ lastMetBreakpoint' = NoInstruction
  /\ result' = "OK"
  /\ UNCHANGED <<code, variables, assertionInstructions, breakpoints>>

(* The source position a client names resolves to the instruction i.       *)
SetBreakpoint(i) ==
  /\ Cardinality(breakpoints \cup {i}) <= MaxBreakpoints
  /\ breakpoints' = breakpoints \cup {i}
  /\ result' = "OK"
  /\ UNCHANGED <<code, flow, data, assertionInstructions, marks>>

ClearBreakpoints ==
  /\ breakpoints' = {}
  /\ result' = "OK"
  /\ UNCHANGED <<code, flow, data, assertionInstructions, marks>>

ChangeClassicalVariableValue(b, value) ==
  /\ IF b \in DOMAIN variables
     THEN /\ variables' = [variables EXCEPT ![b] = value]
          /\ result' = "OK"
     ELSE /\ result' = "ERROR"
          /\ UNCHANGED variables
  /\ UNCHANGED <<code, flow, iterator, simulationState,
                 assertionInstructions, breakpoints, marks>>

(* A well-formed request renormalises to some other state, an ill-formed   *)
(* one is refused.                                                         *)
ChangeAmplitudeValue ==
  /\ \/ /\ \E s \in QStates : simulationState' = s
        /\ result' = "OK"
     \/ /\ result' = "ERROR"
        /\ UNCHANGED simulationState
  /\ UNCHANGED <<code, flow, iterator, variables, assertionInstructions,
                 breakpoints, marks>>

-----------------------------------------------------------------------------

Init ==
  /\ prog = NoProgram
  /\ circuit = NoProgram
  /\ ready = FALSE
  /\ currentInstruction = 0
  /\ previousInstructionStack = <<>>
  /\ callReturnStack = <<>>
  /\ restoreCallReturnStack = <<>>
  /\ iterator = 0
  /\ simulationState = ZeroState
  /\ variables = <<>>
  /\ assertionInstructions = {}
  /\ breakpoints = {}
  /\ lastFailedAssertion = NoInstruction
  /\ lastMetBreakpoint = NoInstruction
  /\ result = "OK"

Edit ==
  \/ \E b \in Bits, value \in BOOLEAN : ChangeClassicalVariableValue(b, value)
  \/ ChangeAmplitudeValue

Alive == result # "CRASHED"

Next ==
  /\ Alive
  /\ \/ StepForward
     \/ StepBackward
     \/ \E p \in Programs : LoadCode(p)
     \/ \E p \in Programs \cup {NoProgram} : LoadRejected(p)
     \/ ResetSimulation
     \/ \E i \in 0 .. Table.n - 1 : SetBreakpoint(i)
     \/ ClearBreakpoints
     \/ Editing /\ Edit

Spec == Init /\ [][Next]_vars

-----------------------------------------------------------------------------
(* Properties.                                                             *)

TypeOK ==
  /\ prog \in Programs \cup {NoProgram}
  /\ circuit \in Programs \cup {NoProgram}
  /\ ready \in BOOLEAN
  /\ ready => circuit = prog
  /\ Flow \in Flows(Table)
  /\ iterator \in 0 .. Len(Code[circuit].ops)
  /\ simulationState \in QStates
  /\ variables \in Valuations
  /\ assertionInstructions \subseteq LoadedAssertions(prog)
  /\ breakpoints \subseteq Nat
  /\ lastFailedAssertion \in Nat \cup {NoInstruction}
  /\ lastMetBreakpoint \in Nat \cup {NoInstruction}
  /\ result \in {"OK", "ERROR", "THROWN", "CRASHED"}

(* The call stack is the nesting of gate bodies the engine is in, wherever *)
(* it was stepped, forward or backward. The stack trace, the qubit         *)
(* substitution of assertions and the return jump of stepForward rest on   *)
(* it; a RETURN never finds the stack empty.                               *)
CallStackIsNesting == Nested(Table, Flow)

(* The operation under the iterator is the one the flattened circuit has   *)
(* for this instruction in this nest of calls, and the iterator is at the  *)
(* end when the program is: the iterator and the instruction pointer never *)
(* drift apart, in either direction (the comment on iterator in            *)
(* DDSimDebug.hpp calls it "the current instruction in the simulation").   *)
(* It is refuted for a program that does not follow its tables.            *)
IteratorStays ==
  ready =>
    /\ IsFinished => iterator = Len(Code[circuit].ops)
    /\ ~IsFinished /\ TypeOf(currentInstruction) = "SIMULATE" =>
         /\ iterator < Len(Code[circuit].ops)
         /\ NextOperation.at = currentInstruction
         /\ NextOperation.frames = callReturnStack

(* In every other program it holds.                                        *)
IteratorInStep == FollowsTables(Table) => IteratorStays

(* When nobody edits the state, didAssertionFail is true only where the    *)
(* assertion would fail now: no flag from an earlier pass through a gate,  *)
(* from before a reset or from a neighbouring assertion survives.          *)
FailureFlagIsTrue ==
  ready /\ ~IsFinished /\ DidAssertionFail /\ ~Editing =>
    /\ TypeOf(currentInstruction) = "ASSERTION"
    /\ AssertionOutcome(currentInstruction) = "fails"

(* DDSimDebug.hpp:164-165 calls assertionInstructions the map of "all      *)
(* assertion" instructions: every assertion of the loaded program stays    *)
(* checkable. It is refuted: a check that throws loses its assertion.      *)
AssertionsStay == ready => assertionInstructions = LoadedAssertions(prog)

=============================================================================
