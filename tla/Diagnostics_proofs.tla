------------------------- MODULE Diagnostics_proofs -------------------------
(***************************************************************************)
(* What the diagnostics record while the engine runs is true of the        *)
(* circuit and stays true, through steps back, resets and loads; the       *)
(* interactions they miss are missing, and the pairs of qubits they        *)
(* suggest to assert connect the qubits of the assertion that failed.      *)
(*                                                                         *)
(* None of it is inductive. That a reported gate never acted says nothing  *)
(* of a gate not reported, whose recorded controls a later step may add    *)
(* to: RecordsInv explains every record by an operation, and every change  *)
(* of the state by an operation without control or by a record. That two   *)
(* qubits without an interaction are not entangled says nothing of three:  *)
(* InteractionInv says that the state is a product wherever the recorded   *)
(* gates leave the qubits in two parts. Both rest on IteratorInStep:       *)
(* controls are looked up under the iterator, the names of qubits in the   *)
(* call stack. That suggestions connect says nothing of what they were     *)
(* made from: SuggestionInv says that each belongs to an assertion that    *)
(* was reached, and names its qubits.                                      *)
(***************************************************************************)
EXTENDS Diagnostics, DDSimDebug_proofs, FiniteSetTheorems

(* A control recorded as zero is one of an operation made of the           *)
(* instruction.                                                            *)
ZerosAreControls ==
  \A c \in zeroControls :
    \E k \in DOMAIN Table.ops :
      Table.ops[k].at = c[1] /\ IsControlled(Table.ops[k])

(* What changed the state has no control, or one that was not zero then.   *)
ActedHasReason ==
  \A i \in acted :
    \/ \E k \in DOMAIN Table.ops :
         Table.ops[k].at = i /\ ~IsControlled(Table.ops[k])
    \/ \E c \in nonZeroControls : c[1] = i

(* The qubits recorded for a gate are those of an operation made of it, ... *)
RecordsAreOperations ==
  \A r \in actualQubits, k \in DOMAIN Table.ops :
    Table.ops[k].at = r[1] /\ Table.ops[k].kind = "gate" =>
      \E l \in DOMAIN Table.ops :
        /\ Table.ops[l].at = r[1] /\ Table.ops[l].kind = "gate"
        /\ Table.ops[l].gate[2] = r[2]

(* ... and those of every operation behind the iterator are recorded.      *)
BehindIsRecorded ==
  \A k \in 1 .. iterator :
    Table.ops[k].kind \in {"gate", "if"} =>
      <<Table.ops[k].at, Table.ops[k].gate[2]>> \in actualQubits

NothingRecorded ==
  actualQubits = {} /\ zeroControls = {} /\ nonZeroControls = {} /\ acted = {}

RecordsInv ==
  /\ prog = NoProgram => NothingRecorded
  /\ FollowsTables(Table) =>
       /\ ZerosAreControls
       /\ ActedHasReason
       /\ RecordsAreOperations

(* Where no recorded gate crosses it, a division of the qubits is one of   *)
(* the state.                                                              *)
UninvolvedApart ==
  \A A \in SUBSET Wires :
    (\A r \in Simulated(actualQubits) : ~Crosses(Range(r[2]), A))
      => IsProduct(simulationState, A)

(* The assertion that failed names qubits of the program, still.           *)
FlagNamesQubits ==
  lastFailedAssertion # NoInstruction =>
    \A v \in Range(Table.targets[lastFailedAssertion]) :
      VariableToQubit(v) \in Wires

InteractionInv ==
  /\ IsFiniteSet(actualQubits)
  /\ ready /\ FollowsTables(Table) =>
       BehindIsRecorded /\ UninvolvedApart /\ FlagNamesQubits

(* The qubits recorded for an operation or an assertion are as many as its *)
(* targets.                                                                *)
RecordsNameWires ==
  \A r \in actualQubits :
    TypeOf(r[1]) \in {"SIMULATE", "ASSERTION"} =>
      r[2] \in Seq(Wires) /\ Len(r[2]) = Len(Table.targets[r[1]])

Names == {NameOf(q) : q \in Wires}

(* What is suggested is suggested for an assertion that was reached; for   *)
(* one of two qubits it names qubits of the program, ...                   *)
SuggestedForReached ==
  \A s \in assertionsEntToInsert :
    /\ TypeOf(s[1]) = "ASSERTION"
    /\ \E r \in actualQubits : r[1] = s[1]
    /\ Len(Table.targets[s[1]]) = 2 => s[2] \subseteq Names

(* ... and connects them (SuggestionsConnect, ready or not).               *)
SuggestedFor(i) == {s[2] : s \in {s \in assertionsEntToInsert : s[1] = i}}

SuggestedConnect ==
  \A r \in actualQubits :
    /\ SuggestedFor(r[1]) # {} /\ Len(r[2]) = 2
    /\ \A s \in actualQubits : s[1] = r[1] => s = r
    => NameOf(r[2][2]) \in Connected(SuggestedFor(r[1]), NameOf(r[2][1]))

SuggestionInv ==
  /\ prog = NoProgram => actualQubits = {} /\ assertionsEntToInsert = {}
  /\ FollowsTables(Table) =>
       RecordsNameWires /\ SuggestedForReached /\ SuggestedConnect

EngineInv == FlowInv /\ TypeOK /\ IterInv /\ FlagInv

-----------------------------------------------------------------------------
(* The diagnostics never get in the way of the engine.                     *)
LEMMA ObservedIsStep ==
  ASSUME [DNext]_dvars
  PROVE  [Next]_vars
<1>1. CASE DNext
  <2>1. ASSUME NEW p \in Programs \cup {NoProgram}, ObservedLoad(p)
        PROVE  (p \in Programs /\ LoadCode(p)) \/ LoadRejected(p)
    BY <2>1 DEF ObservedLoad
  <2> QED
    BY <1>1, <2>1 DEF DNext, ObservedStepForward, Next
<1>2. CASE UNCHANGED dvars
  BY <1>2 DEF dvars
<1> QED
  BY <1>1, <1>2

LEMMA EngineStep ==
  ASSUME EngineInv, [DNext]_dvars
  PROVE  EngineInv'
  BY ObservedIsStep, FlowStep, TypeStep, IterStep, FlagStep DEF EngineInv

(* What the assumptions say of the loaded program.                         *)
LEMMA LoadedCircuit ==
  ASSUME EngineInv, ready, FollowsTables(Table)
  PROVE  LET ops == Table.ops
         IN  /\ Code[circuit] = Table /\ prog \in Programs
             /\ Len(ops) \in Nat /\ DOMAIN ops = 1 .. Len(ops)
             /\ ops \in Seq(Operations)
             /\ \A k \in DOMAIN ops :
                  TypeOf(ops[k].at) = "SIMULATE" /\ ops[k].at < Table.n
             /\ \A j, k \in DOMAIN ops : ops[j].at = ops[k].at =>
                  /\ ops[j].kind = ops[k].kind
                  /\ IsControlled(ops[j]) <=> IsControlled(ops[k])
             /\ \A k \in DOMAIN ops : ops[k].kind \in {"gate", "if"} =>
                  ops[k].gate[2] =
                    [m \in DOMAIN Table.targets[ops[k].at] |->
                       QubitNamed(Table, ops[k].frames,
                                  Table.targets[ops[k].at][m])]
             /\ \A k \in DOMAIN ops :
                  ops[k].kind = "if" => ops[k].otherwise = Identity
<1> DEFINE t == Code[prog]
<1>1. t = Table /\ Code[circuit] = Table /\ prog \in Programs
  BY DEF EngineInv, TypeOK, IterInv, HasProgram, Table
<1>2. t.ops \in Seq(Operations)
  BY <1>1, CodeIsWellFormed DEF WellFormed, WellFormedData
<1>3. Len(t.ops) \in Nat /\ DOMAIN t.ops = 1 .. Len(t.ops)
  BY <1>2, LenProperties
<1>4. PICK m, at, count :
        m \in 0 .. MaxSteps /\ Executes(t, m, at, count)
  <2>1. IsExpanded(t, MaxSteps)
    BY <1>1, CircuitIsExpansion
  <2> QED
    BY <2>1, Zenon DEF IsExpanded
<1>5. m \in Nat
  BY <1>4, CircuitIsExpansion
<1>6. \A k \in DOMAIN t.ops :
        t.type[t.ops[k].at] = "SIMULATE" /\ t.ops[k].at < t.n
  BY <1>3, <1>4, <1>5, ExecutedAreSimulated
<1>7. /\ \A j, k \in DOMAIN t.ops : t.ops[j].at = t.ops[k].at =>
           /\ t.ops[j].kind = t.ops[k].kind
           /\ IsControlled(t.ops[j]) <=> IsControlled(t.ops[k])
      /\ \A k \in DOMAIN t.ops : t.ops[k].kind \in {"gate", "if"} =>
           t.ops[k].gate[2] =
             [n \in DOMAIN t.targets[t.ops[k].at] |->
                QubitNamed(t, t.ops[k].frames, t.targets[t.ops[k].at][n])]
      /\ \A k \in DOMAIN t.ops : t.ops[k].kind = "if" => t.ops[k].otherwise = Identity
  BY <1>1, CircuitNamesQubits
<1> QED
  BY <1>1, <1>2, <1>3, <1>6, <1>7 DEF TypeOf

-----------------------------------------------------------------------------
(* A step forward.                                                         *)

(* The operation it executes, if any, was made of the instruction it       *)
(* stands at, and the names are those of the calls it is in.               *)
LEMMA NextIsOperation ==
  ASSUME EngineInv, FollowsTables(Table), CanStepForward,
         TypeOf(currentInstruction) = "SIMULATE"
  PROVE  /\ iterator < Len(Code[circuit].ops)
         /\ iterator + 1 \in DOMAIN Table.ops
         /\ NextOperation = Table.ops[iterator + 1]
         /\ NextOperation.at = currentInstruction
         /\ NextOperation.kind \in {"gate", "if"} =>
              NextOperation.gate[2] = TargetQubits(currentInstruction)
<1>1. ready /\ FlowInv /\ TypeOK /\ IterInv /\ ~IsFinished
  <2>1. ready /\ currentInstruction < Table.n /\ FlowInv /\ TypeOK /\ IterInv
    BY DEF CanStepForward, EngineInv
  <2>2. Table.n \in Nat
    BY <2>1, TableIsWellFormed DEF WellFormedFlow
  <2> QED
    BY <2>1, <2>2 DEF IsFinished
<1>2. IteratorStays
  BY <1>1, IterIsInStep DEF IteratorInStep
<1>3. /\ iterator < Len(Code[circuit].ops)
      /\ NextOperation.at = currentInstruction
      /\ NextOperation.frames = callReturnStack
  BY <1>1, <1>2 DEF IteratorStays
<1>4. /\ Code[circuit] = Table /\ Len(Table.ops) \in Nat
      /\ DOMAIN Table.ops = 1 .. Len(Table.ops)
      /\ \A k \in DOMAIN Table.ops : Table.ops[k].kind \in {"gate", "if"} =>
           Table.ops[k].gate[2] =
             [m \in DOMAIN Table.targets[Table.ops[k].at] |->
                QubitNamed(Table, Table.ops[k].frames,
                           Table.targets[Table.ops[k].at][m])]
  BY <1>1, LoadedCircuit
<1>5. iterator \in Nat
  BY <1>1, <1>4 DEF TypeOK
<1>6. iterator + 1 \in DOMAIN Table.ops
  BY <1>3, <1>4, <1>5
<1>7. NextOperation = Table.ops[iterator + 1]
  BY <1>4 DEF NextOperation, Operation
<1>8. ASSUME NextOperation.kind \in {"gate", "if"}
      PROVE  NextOperation.gate[2] = TargetQubits(currentInstruction)
  BY <1>3, <1>4, <1>6, <1>7, <1>8 DEF TargetQubits, VariableToQubit
<1> QED
  BY <1>3, <1>6, <1>7, <1>8

(* What a step forward changes, apart from the flow and the marks.         *)
LEMMA StepForwardChanges ==
  ASSUME EngineInv, StepForward
  PROVE  /\ ~CanStepForward => UNCHANGED <<iterator, simulationState>>
         /\ \/ iterator' = iterator
            \/ /\ iterator' = iterator + 1
               /\ TypeOf(currentInstruction) = "SIMULATE"
         /\ \/ UNCHANGED simulationState
            \/ StepCollapses
            \/ StepGate
<1>1. CASE StepCollapses \/ StepBarrier \/ StepGate
  BY <1>1 DEF StepCollapses, StepBarrier, StepGate, Simulates
<1>2. CASE UNCHANGED data
  BY <1>2 DEF data
<1> QED
  BY <1>1, <1>2 DEF StepForward, StepForwardRefused, StepControl,
     StepPastAssertion, StepStopsAtAssertion, StepAssertionThrows,
     StepAssertionCrashes, StepUnsupportedThrows, StepRunsOffCircuit

(* What changes the state has no control or one that is not zero.          *)
LEMMA ChangeHasReason ==
  ASSUME EngineInv, FollowsTables(Table), StepForward,
         simulationState' # simulationState
  PROVE  /\ CanStepForward /\ TypeOf(currentInstruction) = "SIMULATE"
         /\ \/ ~IsControlled(NextOperation)
            \/ \E q \in ControlsOf(currentInstruction) : ~IsAlwaysZero(q)
<1>1. StepCollapses \/ StepGate
  BY StepForwardChanges
<1>2. /\ CanStepForward /\ TypeOf(currentInstruction) = "SIMULATE"
      /\ iterator < Len(Code[circuit].ops)
  BY <1>1 DEF StepCollapses, StepGate, Simulates
<1>3. CASE StepCollapses
  BY <1>2, <1>3 DEF StepCollapses, Simulates, IsControlled
<1>4. CASE StepGate /\ IsControlled(NextOperation)
  <2> DEFINE g == NextOperation.gate
  <2>1. simulationState' = Act[g][simulationState] /\ g[1] = "cx"
    BY <1>4 DEF StepGate, EffectiveGate, IsControlled
  <2>2. g \in Gates /\ simulationState \in QStates
    <3>1. iterator + 1 \in DOMAIN Table.ops /\ ready
          /\ NextOperation = Table.ops[iterator + 1]
      BY <1>2, NextIsOperation DEF CanStepForward
    <3>2. NextOperation \in Operations
      BY <3>1, LoadedCircuit, ElementOfSeq
    <3> QED
      BY <3>2 DEF Operations, EngineInv, TypeOK
  <2>3. ~IsZeroIn(simulationState, g[2][1])
    BY <2>1, <2>2, ControlsDecide
  <2>4. g[2][1] \in ControlsOf(currentInstruction)
    BY <1>2, <1>4 DEF ControlsOf, Controls
  <2> QED
    BY <1>2, <2>3, <2>4 DEF IsAlwaysZero
<1>5. CASE ~IsControlled(NextOperation)
  BY <1>2, <1>5
<1> QED
  BY <1>1, <1>3, <1>4, <1>5

(* The records keep their meaning in a step that is not refused.           *)
LEMMA RecordsStep ==
  ASSUME EngineInv, RecordsInv, FollowsTables(Table), StepForward,
         CanStepForward, OnStepForward, UNCHANGED code
  PROVE  (/\ ZerosAreControls
          /\ ActedHasReason
          /\ RecordsAreOperations)'
<1> DEFINE i == currentInstruction
           New == {<<i, q>> : q \in {q \in ControlsOf(i) : IsAlwaysZero(q)}}
           Others == {<<i, q>> : q \in {q \in ControlsOf(i) : ~IsAlwaysZero(q)}}
<1>1. /\ ready /\ Table' = Table
      /\ ZerosAreControls /\ ActedHasReason
      /\ RecordsAreOperations
  BY DEF CanStepForward, RecordsInv, code, Table
<1>2. /\ zeroControls' = zeroControls \cup New
      /\ nonZeroControls' = nonZeroControls \cup Others
      /\ acted' = IF simulationState' = simulationState THEN acted
                                                        ELSE acted \cup {i}
      /\ actualQubits' =
           IF TypeOf(i) \in {"SIMULATE", "CALL", "ASSERTION"}
           THEN actualQubits \cup {<<i, TargetQubits(i)>>} ELSE actualQubits
  BY DEF OnStepForward
<1>3. TypeOf(i) = "SIMULATE" =>
        /\ iterator + 1 \in DOMAIN Table.ops
        /\ NextOperation = Table.ops[iterator + 1]
        /\ NextOperation.at = i
        /\ NextOperation.kind = "gate" => NextOperation.gate[2] = TargetQubits(i)
  BY NextIsOperation
<1>4. /\ DOMAIN Table.ops = 1 .. Len(Table.ops) /\ Len(Table.ops) \in Nat
      /\ \A k \in DOMAIN Table.ops : TypeOf(Table.ops[k].at) = "SIMULATE"
      /\ \A j, k \in DOMAIN Table.ops : Table.ops[j].at = Table.ops[k].at =>
           Table.ops[j].kind = Table.ops[k].kind
  BY <1>1, LoadedCircuit
<1> HIDE DEF i
<1>5. ZerosAreControls'
  <2>1. ASSUME NEW c \in New
        PROVE  \E k \in DOMAIN Table.ops :
                 Table.ops[k].at = c[1] /\ IsControlled(Table.ops[k])
    <3>1. c[1] = i /\ ControlsOf(i) # {}
      BY <2>1
    <3>2. TypeOf(i) = "SIMULATE" /\ IsControlled(NextOperation)
      BY <3>1 DEF ControlsOf, Controls
    <3> QED
      BY <1>3, <3>1, <3>2
  <2> HIDE DEF New
  <2> QED
    BY <1>1, <1>2, <2>1 DEF ZerosAreControls
<1>6. ActedHasReason'
  <2>1. ASSUME NEW j \in acted
        PROVE  \/ \E k \in DOMAIN Table.ops :
                    Table.ops[k].at = j /\ ~IsControlled(Table.ops[k])
               \/ \E c \in nonZeroControls' : c[1] = j
    BY <1>1, <1>2 DEF ActedHasReason
  <2>2. ASSUME simulationState' # simulationState
        PROVE  \/ \E k \in DOMAIN Table.ops :
                    Table.ops[k].at = i /\ ~IsControlled(Table.ops[k])
               \/ \E c \in nonZeroControls' : c[1] = i
    <3>1. /\ TypeOf(i) = "SIMULATE"
          /\ \/ ~IsControlled(NextOperation)
             \/ \E q \in ControlsOf(i) : ~IsAlwaysZero(q)
      BY <2>2, ChangeHasReason DEF i
    <3>2. CASE ~IsControlled(NextOperation)
      BY <1>3, <3>1, <3>2
    <3>3. ASSUME NEW q \in ControlsOf(i), ~IsAlwaysZero(q)
          PROVE  \E c \in nonZeroControls' : c[1] = i
      <4>1. <<i, q>> \in nonZeroControls' /\ <<i, q>>[1] = i
        BY <1>2, <3>3
      <4> QED
        BY <4>1
    <3> QED
      BY <3>1, <3>2, <3>3
  <2> HIDE DEF Others
  <2> QED
    BY <1>1, <1>2, <2>1, <2>2 DEF ActedHasReason
<1>7. RecordsAreOperations'
  <2>1. ASSUME NEW k \in DOMAIN Table.ops,
               Table.ops[k].at = i, Table.ops[k].kind = "gate"
        PROVE  \E l \in DOMAIN Table.ops :
                 /\ Table.ops[l].at = i /\ Table.ops[l].kind = "gate"
                 /\ Table.ops[l].gate[2] = TargetQubits(i)
    <3>1. TypeOf(i) = "SIMULATE"
      BY <1>4, <2>1
    <3>2. NextOperation.kind = "gate"
      BY <1>3, <1>4, <2>1, <3>1
    <3> QED
      BY <1>3, <3>1, <3>2
  <2>2. \A r \in actualQubits' : r \in actualQubits \/ r = <<i, TargetQubits(i)>>
    BY <1>2
  <2>3. ASSUME NEW r \in actualQubits', NEW k \in DOMAIN Table.ops,
               Table.ops[k].at = r[1], Table.ops[k].kind = "gate"
        PROVE  \E l \in DOMAIN Table.ops :
                 /\ Table.ops[l].at = r[1] /\ Table.ops[l].kind = "gate"
                 /\ Table.ops[l].gate[2] = r[2]
    <3>1. CASE r \in actualQubits
      BY <1>1, <2>3, <3>1 DEF RecordsAreOperations
    <3>2. CASE r = <<i, TargetQubits(i)>>
      <4>1. r[1] = i /\ r[2] = TargetQubits(i)
        BY <3>2
      <4> QED
        BY <2>1, <2>3, <4>1
    <3> QED
      BY <2>2, <3>1, <3>2
  <2> QED
    BY <1>1, <2>3 DEF RecordsAreOperations
<1> QED
  BY <1>5, <1>6, <1>7

(* With the program and the records, what is said of them stays.           *)
LEMMA RecordsKept ==
  ASSUME RecordsInv, prog' = prog, UNCHANGED records
  PROVE  RecordsInv'
<1>1. /\ Table' = Table /\ actualQubits' = actualQubits
      /\ zeroControls' = zeroControls /\ nonZeroControls' = nonZeroControls
      /\ acted' = acted
  BY DEF Table, records
<1> QED
  BY <1>1 DEF RecordsInv, NothingRecorded, ZerosAreControls, ActedHasReason,
              RecordsAreOperations

(* Where nothing is recorded there is nothing to be wrong.                 *)
LEMMA RecordsStart ==
  ASSUME NothingRecorded'
  PROVE  RecordsInv'
  BY DEF RecordsInv, NothingRecorded, ZerosAreControls, ActedHasReason,
         RecordsAreOperations

LEMMA RecordsForward ==
  ASSUME EngineInv, RecordsInv, ObservedStepForward
  PROVE  RecordsInv'
<1>1. StepForward /\ UNCHANGED code /\ prog' = prog
  BY StepsKeepCode DEF ObservedStepForward, code
<1>2. CASE ~CanStepForward
  <2>1. UNCHANGED records
    BY <1>2 DEF ObservedStepForward
  <2> QED
    BY <1>1, <2>1, RecordsKept
<1>3. CASE CanStepForward
  <2>1. OnStepForward
    BY <1>3 DEF ObservedStepForward
  <2>2. prog' # NoProgram /\ Table' = Table
    BY <1>1, <1>3, CodeIsWellFormed
       DEF CanStepForward, EngineInv, IterInv, HasProgram, Table
  <2>3. ASSUME FollowsTables(Table)
        PROVE  (/\ ZerosAreControls
                /\ ActedHasReason
                /\ RecordsAreOperations)'
    BY <1>1, <1>3, <2>1, <2>3, RecordsStep
  <2> QED
    BY <2>2, <2>3 DEF RecordsInv
<1> QED
  BY <1>2, <1>3

(* A load of the same program keeps the records, and there are none when   *)
(* the first is loaded.                                                    *)
LEMMA RecordsLoad ==
  ASSUME EngineInv, RecordsInv, ~Switching, NEW p, ObservedLoad(p)
  PROVE  RecordsInv'
<1>1. /\ prog' = p /\ (prog = NoProgram \/ prog = p)
      /\ UNCHANGED <<actualQubits, zeroControls, nonZeroControls>>
      /\ acted' = IF p = prog THEN acted ELSE {}
  BY DEF ObservedLoad, LoadCode, LoadRejected
<1>2. CASE prog = p
  BY <1>1, <1>2, RecordsKept DEF records
<1>3. CASE prog = NoProgram
  <2>1. NothingRecorded
    BY <1>3 DEF RecordsInv
  <2>2. NothingRecorded'
    BY <1>1, <2>1 DEF NothingRecorded
  <2> QED
    BY <1>1, <2>2, RecordsStart
<1> QED
  BY <1>1, <1>2, <1>3

LEMMA RecordsNext ==
  ASSUME EngineInv, RecordsInv, ~Switching, [DNext]_dvars
  PROVE  RecordsInv'
<1>1. CASE ObservedStepForward
  BY <1>1, RecordsForward
<1>2. ASSUME NEW p, ObservedLoad(p)
      PROVE  RecordsInv'
  BY <1>2, RecordsLoad
<1>3. CASE StepBackward /\ UNCHANGED diagnostics
  BY <1>3, StepsKeepCode, RecordsKept DEF diagnostics, code
<1>4. CASE ResetSimulation /\ UNCHANGED diagnostics
  BY <1>4, RecordsKept DEF ResetSimulation, diagnostics, code
<1>5. CASE UNCHANGED dvars
  BY <1>5, RecordsKept DEF dvars, diagnostics, vars, code
<1> QED
  BY <1>1, <1>2, <1>3, <1>4, <1>5 DEF DNext

-----------------------------------------------------------------------------
(* What groups of qubits that act together connect.                        *)

(* The groups of which some member is in W.                                *)
Touching(groups, W) == {g \in groups : g \cap W # {}}

Grown(groups, W) == W \cup UNION Touching(groups, W)

IsClosed(groups, W) == \A g \in groups : g \cap W = {} \/ g \subseteq W

(* Growing a set by the groups it touches either ends or touches another   *)
(* group.                                                                  *)
LEMMA GrownTouchesMore ==
  ASSUME NEW groups, IsFiniteSet(groups), NEW W, NEW r \in Nat,
         IsClosed(groups, W) \/ Cardinality(Touching(groups, W)) > r
  PROVE  \/ IsClosed(groups, Grown(groups, W))
         \/ Cardinality(Touching(groups, Grown(groups, W))) > r + 1
<1> DEFINE V == Grown(groups, W)
           T == Touching(groups, W)
           U == Touching(groups, V)
<1>1. T \subseteq U /\ U \subseteq groups /\ T \subseteq groups
  BY DEF Touching, Grown
<1>2. \A g \in T : g \subseteq V
  BY DEF Grown
<1>3. IsFiniteSet(U) /\ IsFiniteSet(T)
  BY <1>1, FS_Subset
<1>4. Cardinality(U) \in Nat /\ Cardinality(T) \in Nat
  BY <1>3, FS_CardinalityType
<1>5. CASE IsClosed(groups, W)
  <2>1. V = W
    BY <1>5 DEF IsClosed, Grown, Touching
  <2> QED
    BY <1>5, <2>1
<1>6. CASE U = T
  <2>1. \A g \in groups : g \cap V = {} \/ g \in T
    BY <1>6 DEF Touching
  <2> QED
    BY <1>2, <2>1 DEF IsClosed
<1>7. CASE U # T /\ Cardinality(T) > r
  <2>1. Cardinality(T) <= Cardinality(U) /\ Cardinality(T) # Cardinality(U)
    BY <1>1, <1>3, <1>7, FS_Subset
  <2> QED
    BY <1>4, <1>7, <2>1
<1> QED
  BY <1>5, <1>6, <1>7

(* What groups connect a qubit to holds the qubit, and no group lies       *)
(* partly in it: there are no more groups to touch than groups.            *)
LEMMA ConnectedIsClosed ==
  ASSUME NEW groups, IsFiniteSet(groups), NEW qubit
  PROVE  /\ qubit \in Connected(groups, qubit)
         /\ IsClosed(groups, Connected(groups, qubit))
<1> DEFINE n == Cardinality(groups)
           S == SUBSET ((UNION groups) \cup {qubit})
           Go(W) == W \cup UNION {g \in groups : g \cap W # {}}
           step == [j \in 0 + 1 .. n |-> [W \in S |-> Go(W)]]
           A == CHOOSE h : h = [r \in 0 .. n |->
                                  IF r = 0 THEN {qubit} ELSE Go(h[r - 1])]
<1>1. Connected(groups, qubit) = A[n] /\ n \in Nat
  BY FS_CardinalityType DEF Connected
<1>2. {qubit} \in S /\ \A W \in S : Go(W) \in S
  OBVIOUS
<1>3. /\ step \in [0 + 1 .. n -> [S -> S]]
      /\ \A j \in 0 + 1 .. n : \A W \in S : step[j][W] = Go(W)
  <2> HIDE DEF Go, S
  <2> QED
    BY <1>2
<1> HIDE DEF step, S, n
<1>4. Recursion(S, {qubit}, 0, n, step)
  BY <1>1, <1>2, <1>3 DEF Recursion
<1>5. PICK h : Follows(S, {qubit}, 0, n, step, h)
  BY <1>4, RecursionExists
<1>6. h \in [0 .. n -> S] /\ h[0] = {qubit}
      /\ \A j \in 0 + 1 .. n : h[j] = Go(h[j - 1])
  <2>1. h \in [0 .. n -> S] /\ h[0] = {qubit}
        /\ \A j \in 0 + 1 .. n : h[j] = step[j][h[j - 1]]
    BY <1>5 DEF Follows
  <2>2. ASSUME NEW j \in 0 + 1 .. n
        PROVE  h[j] = Go(h[j - 1])
    <3>1. j - 1 \in 0 .. n
      BY <1>1
    <3>2. h[j - 1] \in S
      BY <2>1, <3>1
    <3> HIDE DEF Go
    <3> QED
      BY <1>3, <2>1, <3>2
  <2> QED
    BY <2>1, <2>2
<1>7. h = [r \in 0 .. n |-> IF r = 0 THEN {qubit} ELSE Go(h[r - 1])]
  <2> HIDE DEF Go
  <2>1. ASSUME NEW j \in 0 .. n
        PROVE  h[j] = IF j = 0 THEN {qubit} ELSE Go(h[j - 1])
    <3>1. j # 0 => j \in 0 + 1 .. n
      BY <1>1
    <3> QED
      BY <1>6, <3>1
  <2> QED
    BY <1>6, <2>1
<1>8. A = [r \in 0 .. n |-> IF r = 0 THEN {qubit} ELSE Go(A[r - 1])]
  <2> HIDE DEF Go
  <2> QED
    BY <1>7, Zenon
<1> HIDE DEF A
<1>9. FollowsWhileTyped(S, {qubit}, 0, n, step, A)
  <2> HIDE DEF Go
  <2>1. 0 \in 0 .. n /\ \A j \in 0 + 1 .. n : j \in 0 .. n /\ j # 0
    BY <1>1
  <2>2. A[0] = {qubit} /\ \A j \in 0 + 1 .. n : A[j] = Go(A[j - 1])
    BY <1>8, <2>1
  <2>3. \A j \in 0 + 1 .. n : A[j - 1] \in S => A[j] = step[j][A[j - 1]]
    BY <1>3, <2>2
  <2> QED
    BY <2>2, <2>3 DEF FollowsWhileTyped
<1>10. n \in 0 .. n /\ A[n] = h[n]
  <2>1. \A j \in 0 .. n : A[j] = h[j]
    BY <1>4, <1>5, <1>9, RecursionUnique
  <2> QED
    BY <1>1, <2>1
<1> DEFINE T == {r \in 0 .. n :
                   /\ qubit \in h[r]
                   /\ \/ IsClosed(groups, h[r])
                      \/ Cardinality(Touching(groups, h[r])) > r}
<1>11. 0 \in T
  <2>1. qubit \in h[0] /\ h[0] = {qubit} /\ 0 \in 0 .. n
    BY <1>1, <1>6
  <2>2. CASE Touching(groups, h[0]) = {}
    BY <2>1, <2>2 DEF IsClosed, Touching
  <2>3. CASE Touching(groups, h[0]) # {}
    <3>1. IsFiniteSet(Touching(groups, h[0]))
      BY FS_Subset DEF Touching
    <3>2. Cardinality(Touching(groups, h[0])) \in Nat
          /\ Cardinality(Touching(groups, h[0])) # 0
      BY <2>3, <3>1, FS_CardinalityType, FS_EmptySet
    <3> QED
      BY <2>1, <3>2
  <2> QED
    BY <2>2, <2>3
<1>12. ASSUME NEW r \in 0 .. n, r \in T, r + 1 <= n
       PROVE  r + 1 \in T
  <2>1. r \in Nat /\ r + 1 \in 0 + 1 .. n /\ r + 1 \in 0 .. n /\ (r + 1) - 1 = r
    BY <1>1, <1>12
  <2>2. h[r + 1] = Grown(groups, h[r])
    BY <1>6, <2>1 DEF Grown, Touching
  <2>3. IsClosed(groups, h[r]) \/ Cardinality(Touching(groups, h[r])) > r
    BY <1>12
  <2>4. \/ IsClosed(groups, h[r + 1])
        \/ Cardinality(Touching(groups, h[r + 1])) > r + 1
    BY <2>1, <2>2, <2>3, GrownTouchesMore
  <2>5. qubit \in h[r + 1]
    BY <1>12, <2>2 DEF Grown
  <2> QED
    BY <2>1, <2>4, <2>5
<1>13. n \in T
  <2> HIDE DEF T
  <2>1. \A j \in 0 .. n : j \in T
    BY <1>1, <1>11, <1>12, IntervalInduction
  <2> QED
    BY <1>10, <2>1
<1>14. ~(Cardinality(Touching(groups, h[n])) > n)
  <2>1. Touching(groups, h[n]) \in SUBSET groups
    BY DEF Touching
  <2>2. Cardinality(Touching(groups, h[n])) <= n
    BY <2>1, FS_Subset DEF n
  <2>3. Cardinality(Touching(groups, h[n])) \in Nat
    BY <2>1, FS_Subset, FS_CardinalityType
  <2> QED
    BY <1>1, <2>2, <2>3
<1> QED
  BY <1>1, <1>10, <1>13, <1>14
-----------------------------------------------------------------------------
(* A division of the qubits that no gate crosses.                          *)

(* It is one of the state after a gate if and only if it was before, ...   *)
LEMMA GateKeepsParts ==
  ASSUME NEW A \in SUBSET Wires, NEW g \in Gates, ~Crosses(Range(g[2]), A),
         NEW s \in QStates, IsProduct(s, A)
  PROVE  IsProduct(Act[g][s], A) /\ IsProduct(Undo(g, s), A)
<1>1. \A t \in QStates : IsProduct(t, A) <=> IsProduct(Act[g][t], A)
  <2>1. \A t \in QStates : Act[g][t] \in QStates
    BY GateTypes
  <2> QED
    BY <2>1, EntanglementNeedsGates
<1>2. Undo(g, s) \in QStates
  BY GateTypes
<1>3. Act[g][Undo(g, s)] = s
  BY GatesAreReversible DEF Undo
<1> QED
  BY <1>1, <1>2, <1>3

(* ... the one that changes nothing included, ...                          *)
LEMMA IdentityKeeps ==
  ASSUME NEW s \in QStates
  PROVE  Act[Identity][s] = s /\ Undo(Identity, s) = s
<1>1. \A t \in QStates : Act[Identity][t] = t
  BY GatesAreReversible
<1>2. Undo(Identity, s) \in QStates /\ Act[Identity][Undo(Identity, s)] = s
  BY <1>1 DEF Undo
<1> QED
  BY <1>1, <1>2

(* ... and so for an operation of the circuit, whatever the bits are.      *)
LEMMA OperationKeepsParts ==
  ASSUME EngineInv, ready, FollowsTables(Table), NEW k \in DOMAIN Table.ops,
         Table.ops[k].kind \in {"gate", "if"},
         NEW A \in SUBSET Wires, ~Crosses(Range(Table.ops[k].gate[2]), A),
         IsProduct(simulationState, A)
  PROVE  LET g == EffectiveGate(Table.ops[k])
         IN  /\ IsProduct(Act[g][simulationState], A)
             /\ IsProduct(Undo(g, simulationState), A)
<1> DEFINE op == Table.ops[k]
<1>1. /\ Table.ops \in Seq(Operations)
      /\ op.kind = "if" => op.otherwise = Identity
  BY LoadedCircuit
<1>2. op \in Operations
  BY <1>1, ElementOfSeq, LoadedCircuit
<1>3. op.gate \in Gates /\ simulationState \in QStates
  BY <1>2 DEF Operations, EngineInv, TypeOK
<1> HIDE DEF op
<1>4. EffectiveGate(op) = op.gate \/ EffectiveGate(op) = Identity
  BY <1>1 DEF EffectiveGate
<1>5. CASE EffectiveGate(op) = op.gate
  <2>1. IsProduct(Act[op.gate][simulationState], A)
        /\ IsProduct(Undo(op.gate, simulationState), A)
    BY <1>3, GateKeepsParts DEF op
  <2> QED
    BY <1>5, <2>1 DEF op
<1>6. CASE EffectiveGate(op) = Identity
  BY <1>3, <1>6, IdentityKeeps DEF op
<1> QED
  BY <1>4, <1>5, <1>6

(* What the records say is simulated, they still say when there are more.  *)
LEMMA MoreSimulated ==
  ASSUME NEW recorded, NEW more, recorded \subseteq more
  PROVE  Simulated(recorded) \subseteq Simulated(more)
  BY DEF Simulated

(* A step forward: the gate it applies is recorded.                        *)
LEMMA ApartForward ==
  ASSUME EngineInv, FollowsTables(Table), UninvolvedApart, StepForward,
         CanStepForward, OnStepForward, UNCHANGED code
  PROVE  UninvolvedApart'
<1> DEFINE i == currentInstruction
           op == Table.ops[iterator + 1]
<1>1. ready /\ i < Table.n /\ Table' = Table
  BY DEF CanStepForward, code, Table
<1> SUFFICES ASSUME NEW A \in SUBSET Wires,
                    \A r \in Simulated(actualQubits)' : ~Crosses(Range(r[2]), A)
             PROVE  IsProduct(simulationState', A)
  BY DEF UninvolvedApart
<1>2. Simulated(actualQubits)' = Simulated(actualQubits')
  BY <1>1 DEF Simulated, TypeOf
<1>3. /\ actualQubits \subseteq actualQubits'
      /\ TypeOf(i) = "SIMULATE" => <<i, TargetQubits(i)>> \in actualQubits'
  BY DEF OnStepForward
<1>4. IsProduct(simulationState, A)
  BY <1>2, <1>3, MoreSimulated DEF UninvolvedApart
<1>5. simulationState \in QStates /\ prog \in Programs /\ Table = Code[prog]
  BY <1>1, LoadedCircuit DEF EngineInv, TypeOK, Table
<1>6. TypeOf(i) = "SIMULATE" =>
        /\ iterator + 1 \in DOMAIN Table.ops /\ NextOperation = op
        /\ op.kind \in {"gate", "if"} => op.gate[2] = TargetQubits(i)
  BY NextIsOperation
<1>7. CASE StepCollapses
  <2>1. TypeOf(i) = "SIMULATE" /\ NextOperation.kind \in {"measure", "reset"}
    BY <1>7 DEF StepCollapses, Simulates
  <2>2. PICK outcome \in NextOperation.collapse[simulationState] :
          simulationState' = outcome.state
    BY <1>7 DEF StepCollapses
  <2> QED
    BY <1>4, <1>5, <1>6, <2>1, <2>2, EntanglementNeedsGates
<1>8. CASE StepGate
  <2>1. TypeOf(i) = "SIMULATE" /\ NextOperation.kind \in {"gate", "if"}
        /\ simulationState' = Act[EffectiveGate(NextOperation)][simulationState]
    BY <1>8 DEF StepGate, Simulates
  <2> DEFINE r == <<i, TargetQubits(i)>>
  <2>2. r[1] = i /\ r[2] = TargetQubits(i)
    OBVIOUS
  <2>3. r \in Simulated(actualQubits')
    BY <1>1, <1>3, <2>1, <2>2 DEF Simulated
  <2>4. ~Crosses(Range(op.gate[2]), A)
    BY <1>2, <1>6, <2>1, <2>2, <2>3
  <2> QED
    BY <1>1, <1>4, <1>6, <2>1, <2>4, OperationKeepsParts
<1>9. CASE UNCHANGED simulationState
  BY <1>4, <1>9
<1> QED
  BY <1>7, <1>8, <1>9, StepForwardChanges

(* A step backward changes the state and the iterator where it undoes the  *)
(* operation behind the iterator only, and keeps the flag of the assertion *)
(* it leads to only.                                                       *)
LEMMA StepBackwardChanges ==
  ASSUME TypeOK, StepBackward
  PROVE  /\ iterator' = iterator \/ iterator' = iterator - 1
         /\ UNCHANGED simulationState \/ BackPastGate
         /\ \/ UNCHANGED <<flow, lastFailedAssertion>>
            \/ lastFailedAssertion' = NoInstruction
            \/ /\ lastFailedAssertion' = lastFailedAssertion
               /\ lastFailedAssertion = currentInstruction'
<1>1. CASE StepBackwardRefused
  BY <1>1 DEF StepBackwardRefused, data, marks
<1>2. CASE Retreat
  <2>1. \/ lastFailedAssertion' = NoInstruction
        \/ /\ lastFailedAssertion' = lastFailedAssertion
           /\ lastFailedAssertion = currentInstruction'
    BY <1>2 DEF Retreat, FlagAfterRetreat
  <2>2. UNCHANGED data \/ BackOver({"barrier"}) \/ BackOver({"if"}) \/ BackPastGate
    BY <1>2 DEF StepBackward, StepBackwardRefused, Retreat, BackPastControl,
       BackPastBarrier, BackUnsupportedThrows, BackRunsOffCircuit
  <2>3. iterator' = iterator \/ iterator' = iterator - 1
    BY <2>2 DEF data, BackOver, BackPastGate
  <2>4. UNCHANGED simulationState \/ BackPastGate
    BY DEF StepBackward, StepBackwardRefused, BackPastControl,
       BackPastBarrier, BackUnsupportedThrows, BackRunsOffCircuit, data
  <2> QED
    BY <2>1, <2>3, <2>4
<1> QED
  BY <1>1, <1>2 DEF StepBackward, BackPastControl, BackPastBarrier,
     BackPastGate, BackUnsupportedThrows, BackRunsOffCircuit, BackOver

(* A step backward: the gate it undoes was recorded.                       *)
LEMMA ApartBackward ==
  ASSUME EngineInv, ready, FollowsTables(Table), BehindIsRecorded,
         UninvolvedApart, StepBackward, UNCHANGED <<code, actualQubits>>
  PROVE  UninvolvedApart'
<1> DEFINE op == Table.ops[iterator]
<1>1. Table' = Table
  BY DEF code, Table
<1> SUFFICES ASSUME NEW A \in SUBSET Wires,
                    \A r \in Simulated(actualQubits)' : ~Crosses(Range(r[2]), A)
             PROVE  IsProduct(simulationState', A)
  BY DEF UninvolvedApart
<1>2. \A r \in Simulated(actualQubits) : ~Crosses(Range(r[2]), A)
  BY <1>1 DEF Simulated, TypeOf
<1>3. IsProduct(simulationState, A)
  BY <1>2 DEF UninvolvedApart
<1>4. CASE UNCHANGED simulationState
  BY <1>3, <1>4
<1>5. CASE BackPastGate
  <2>1. /\ iterator > 0 /\ Operation(iterator).kind \in {"gate", "if"}
        /\ simulationState' =
             Undo(EffectiveGate(Operation(iterator)), simulationState)
    BY <1>5 DEF BackPastGate, BackOver
  <2>2. /\ Code[circuit] = Table /\ Len(Table.ops) \in Nat
        /\ DOMAIN Table.ops = 1 .. Len(Table.ops)
        /\ \A k \in DOMAIN Table.ops :
             TypeOf(Table.ops[k].at) = "SIMULATE" /\ Table.ops[k].at < Table.n
    BY LoadedCircuit
  <2>3. iterator \in DOMAIN Table.ops /\ iterator \in 1 .. iterator
    BY <2>1, <2>2 DEF EngineInv, TypeOK
  <2>4. Operation(iterator) = op
    BY <2>2 DEF Operation
  <2> DEFINE r == <<op.at, op.gate[2]>>
  <2>5. r \in actualQubits
    BY <2>1, <2>3, <2>4 DEF BehindIsRecorded
  <2>6. r[1] = op.at /\ r[2] = op.gate[2]
    OBVIOUS
  <2>7. r \in Simulated(actualQubits)
    BY <2>2, <2>3, <2>5, <2>6 DEF Simulated
  <2>8. ~Crosses(Range(op.gate[2]), A)
    BY <1>2, <2>6, <2>7
  <2> QED
    BY <1>3, <2>1, <2>3, <2>4, <2>8, OperationKeepsParts
<1> QED
  BY <1>4, <1>5, StepBackwardChanges DEF EngineInv

-----------------------------------------------------------------------------
(* What the failed assertion names.                                        *)

(* Wherever the engine is at an operation or an assertion, that names      *)
(* qubits there.                                                           *)
LEMMA PlaceNamesQubits ==
  ASSUME NEW p \in Programs, FollowsTables(Code[p]), NEW h, NEW f, NEW done,
         InStep(Code[p], h, f, done), f.pos < Code[p].n,
         Code[p].type[f.pos] \in {"SIMULATE", "ASSERTION"}
  PROVE  LET names == Code[p].targets[f.pos]
         IN  /\ names \in Seq(Range(names))
             /\ \A v \in Range(names) : QubitNamed(Code[p], f.calls, v) \in Wires
<1> DEFINE at == Journey(Code[p], MaxSteps)
<1>1. PICK k \in 0 .. MaxSteps : SamePlace(f, at[k])
  BY InStepOnJourney
<1>2. f.pos = at[k].pos /\ f.calls = at[k].calls
  BY <1>1 DEF SamePlace
<1> QED
  BY <1>2, TargetsAreQubits

(* So a flag set there, or kept, names qubits.                             *)
LEMMA FlagArrives ==
  ASSUME EngineInv', ready', FollowsTables(Table'),
         currentInstruction' < Table'.n,
         Table'.type[currentInstruction'] = "ASSERTION",
         lastFailedAssertion' = currentInstruction'
  PROVE  FlagNamesQubits'
<1>1. prog' \in Programs /\ Table' = Code[prog']
  BY DEF EngineInv, IterInv, HasProgram, Table
<1>2. PICK h : InStep(Table', h, Flow', iterator')
  BY DEF EngineInv, IterInv, WayInStep
<1>3. Flow'.pos = currentInstruction' /\ Flow'.calls = callReturnStack'
  BY DEF Flow
<1>4. ASSUME NEW v \in Range(Table'.targets[currentInstruction'])
      PROVE  QubitNamed(Table', callReturnStack', v) \in Wires
  BY <1>1, <1>2, <1>3, <1>4, PlaceNamesQubits
<1> QED
  BY <1>4 DEF FlagNamesQubits, VariableToQubit

LEMMA FlagNamesKept ==
  ASSUME FlagNamesQubits, prog' = prog, callReturnStack' = callReturnStack,
         lastFailedAssertion' = lastFailedAssertion
  PROVE  FlagNamesQubits'
  BY DEF FlagNamesQubits, VariableToQubit, Table

(* A step forward clears the flag, sets it where it is, or leaves it and   *)
(* goes past an assertion, which changes no calls.                         *)
LEMMA FlagNamesForward ==
  ASSUME EngineInv, EngineInv', ready, FollowsTables(Table), FlagNamesQubits,
         StepForward, UNCHANGED code
  PROVE  FlagNamesQubits'
<1>1. Table' = Table /\ prog' = prog /\ ready'
  BY DEF code, Table
<1>2. CASE StepForwardRefused
  BY <1>1, <1>2, FlagNamesKept DEF StepForwardRefused, flow, marks
<1>3. CASE StepPastAssertion \/ StepAssertionThrows \/ StepAssertionCrashes
  <2>1. /\ CanStepForward /\ SetFlow(Forward(Table, Flow))
        /\ TypeOf(currentInstruction) = "ASSERTION"
        /\ lastFailedAssertion' = lastFailedAssertion
    BY <1>3 DEF StepPastAssertion, StepAssertionThrows, StepAssertionCrashes,
       Advance
  <2>2. Moves(Table, Flow, Forward(Table, Flow))
    BY <2>1, FlowAhead, ForwardMoves DEF EngineInv
  <2>3. callReturnStack' = callReturnStack
    BY <2>1, <2>2 DEF Moves, TypeOf, Flow, SetFlow
  <2> QED
    BY <1>1, <2>1, <2>3, FlagNamesKept
<1>4. CASE StepStopsAtAssertion
  <2>1. UNCHANGED flow
    BY <1>4, FlowStops DEF StepStopsAtAssertion, EngineInv
  <2>2. /\ lastFailedAssertion' = currentInstruction'
        /\ currentInstruction' = currentInstruction
    BY <1>4, <2>1 DEF StepStopsAtAssertion, FlagAfterRetreat, flow
  <2>3. /\ Table'.type[currentInstruction'] = "ASSERTION"
        /\ currentInstruction' < Table'.n
    BY <1>1, <1>4, <2>2 DEF StepStopsAtAssertion, CanStepForward, TypeOf
  <2> QED
    BY <1>1, <2>2, <2>3, FlagArrives
<1>5. CASE lastFailedAssertion' = NoInstruction
  BY <1>5 DEF FlagNamesQubits
<1> QED
  BY <1>2, <1>3, <1>4, <1>5 DEF StepForward, StepControl, StepCollapses,
     StepBarrier, StepGate, StepUnsupportedThrows, StepRunsOffCircuit, Simulates

LEMMA FlagNamesBackward ==
  ASSUME EngineInv, EngineInv', ready, FollowsTables(Table), FlagNamesQubits,
         StepBackward, UNCHANGED code
  PROVE  FlagNamesQubits'
<1>1. Table' = Table /\ prog' = prog /\ ready'
  BY DEF code, Table
<1>2. CASE UNCHANGED <<flow, lastFailedAssertion>>
  BY <1>1, <1>2, FlagNamesKept DEF flow
<1>3. CASE lastFailedAssertion' = NoInstruction
  BY <1>3 DEF FlagNamesQubits
<1>4. CASE /\ lastFailedAssertion' = lastFailedAssertion
           /\ lastFailedAssertion = currentInstruction'
           /\ lastFailedAssertion # NoInstruction
  <2>1. /\ lastFailedAssertion < Table.n
        /\ Table.type[lastFailedAssertion] = "ASSERTION"
    BY <1>4 DEF EngineInv, FlagInv, TypeOf
  <2> QED
    BY <1>1, <1>4, <2>1, FlagArrives
<1> QED
  BY <1>2, <1>3, <1>4, StepBackwardChanges DEF EngineInv

-----------------------------------------------------------------------------
(* Every step keeps InteractionInv.                                        *)

(* A step forward records the operation it executes.                       *)
LEMMA BehindForward ==
  ASSUME EngineInv, FollowsTables(Table), BehindIsRecorded, StepForward,
         CanStepForward, OnStepForward, UNCHANGED code
  PROVE  BehindIsRecorded'
<1> DEFINE i == currentInstruction
<1>1. ready /\ Table' = Table
  BY DEF CanStepForward, code, Table
<1>2. /\ actualQubits \subseteq actualQubits'
      /\ TypeOf(i) = "SIMULATE" => <<i, TargetQubits(i)>> \in actualQubits'
  BY DEF OnStepForward
<1>3. \A k \in 1 .. iterator : Table.ops[k].kind \in {"gate", "if"} =>
        <<Table.ops[k].at, Table.ops[k].gate[2]>> \in actualQubits'
  BY <1>2 DEF BehindIsRecorded
<1>4. CASE iterator' = iterator
  BY <1>1, <1>3, <1>4 DEF BehindIsRecorded
<1>5. CASE iterator' = iterator + 1 /\ TypeOf(i) = "SIMULATE"
  <2>1. /\ NextOperation = Table.ops[iterator + 1] /\ NextOperation.at = i
        /\ NextOperation.kind \in {"gate", "if"} =>
             NextOperation.gate[2] = TargetQubits(i)
    BY <1>5, NextIsOperation
  <2>2. NextOperation.kind \in {"gate", "if"} =>
          <<NextOperation.at, NextOperation.gate[2]>> \in actualQubits'
    BY <1>2, <1>5, <2>1
  <2>3. iterator \in Nat
    <3>1. Code[circuit] = Table /\ Len(Table.ops) \in Nat
      BY <1>1, LoadedCircuit
    <3> QED
      BY <3>1 DEF EngineInv, TypeOK
  <2>4. \A k \in 1 .. iterator' : k \in 1 .. iterator \/ k = iterator + 1
    BY <1>5, <2>3
  <2> QED
    BY <1>1, <1>3, <2>1, <2>2, <2>4 DEF BehindIsRecorded
<1> QED
  BY <1>4, <1>5, StepForwardChanges

LEMMA InteractionForward ==
  ASSUME EngineInv, EngineInv', InteractionInv, ObservedStepForward
  PROVE  InteractionInv'
<1>1. StepForward /\ UNCHANGED code
  BY StepsKeepCode DEF ObservedStepForward
<1>2. Table' = Table /\ ready' = ready
  BY <1>1 DEF code, Table
<1>3. IsFiniteSet(actualQubits')
  <2>1. actualQubits' = actualQubits
        \/ actualQubits' = actualQubits
                             \cup {<<currentInstruction,
                                     TargetQubits(currentInstruction)>>}
    BY DEF ObservedStepForward, OnStepForward, records
  <2> QED
    BY <2>1, FS_AddElement DEF InteractionInv
<1>4. ASSUME ready, FollowsTables(Table)
      PROVE  BehindIsRecorded' /\ UninvolvedApart' /\ FlagNamesQubits'
  <2>1. BehindIsRecorded /\ UninvolvedApart /\ FlagNamesQubits
    BY <1>4 DEF InteractionInv
  <2>2. FlagNamesQubits'
    BY <1>1, <1>4, <2>1, FlagNamesForward
  <2>3. CASE CanStepForward
    <3>1. OnStepForward
      BY <2>3 DEF ObservedStepForward
    <3> QED
      BY <1>1, <1>4, <2>1, <2>2, <2>3, <3>1, ApartForward, BehindForward
  <2>4. CASE ~CanStepForward
    <3>1. UNCHANGED <<iterator, simulationState, actualQubits>>
      BY <1>1, <2>4, StepForwardChanges DEF ObservedStepForward, records
    <3> QED
      BY <1>2, <2>1, <2>2, <3>1
         DEF BehindIsRecorded, UninvolvedApart, Simulated, TypeOf
  <2> QED
    BY <2>3, <2>4
<1> QED
  BY <1>2, <1>3, <1>4 DEF InteractionInv

LEMMA InteractionBackward ==
  ASSUME EngineInv, EngineInv', InteractionInv, StepBackward,
         UNCHANGED diagnostics
  PROVE  InteractionInv'
<1>1. UNCHANGED <<code, actualQubits>>
  BY StepsKeepCode DEF diagnostics, records
<1>2. Table' = Table /\ ready' = ready
  BY <1>1 DEF code, Table
<1>3. ASSUME ready, FollowsTables(Table)
      PROVE  BehindIsRecorded' /\ UninvolvedApart' /\ FlagNamesQubits'
  <2>1. BehindIsRecorded /\ UninvolvedApart /\ FlagNamesQubits
    BY <1>3 DEF InteractionInv
  <2>2. FlagNamesQubits' /\ UninvolvedApart'
    BY <1>1, <1>3, <2>1, FlagNamesBackward, ApartBackward
  <2>3. iterator \in Nat /\ (iterator' = iterator \/ iterator' = iterator - 1)
    <3>1. Len(Code[circuit].ops) \in Nat
      BY CircuitLength DEF EngineInv, TypeOK
    <3> QED
      BY <3>1, StepBackwardChanges DEF EngineInv, TypeOK
  <2>4. \A k \in 1 .. iterator' : k \in 1 .. iterator
    BY <2>3
  <2>5. BehindIsRecorded'
    BY <1>1, <1>2, <2>1, <2>4 DEF BehindIsRecorded
  <2> QED
    BY <2>2, <2>5
<1> QED
  BY <1>1, <1>2, <1>3 DEF InteractionInv

(* At the start of a run nothing is entangled.                             *)
LEMMA InteractionStarts ==
  ASSUME IsFiniteSet(actualQubits'),
         ready' => /\ iterator' = 0 /\ simulationState' = ZeroState
                   /\ lastFailedAssertion' = NoInstruction
  PROVE  InteractionInv'
<1>1. \A A \in SUBSET Wires : IsProduct(ZeroState, A)
  BY EntanglementNeedsGates
<1> QED
  BY <1>1 DEF InteractionInv, BehindIsRecorded, UninvolvedApart, FlagNamesQubits

LEMMA InteractionNext ==
  ASSUME EngineInv, EngineInv', InteractionInv, [DNext]_dvars
  PROVE  InteractionInv'
<1>1. CASE ObservedStepForward
  BY <1>1, InteractionForward
<1>2. ASSUME NEW p, ObservedLoad(p)
      PROVE  InteractionInv'
  BY <1>2, InteractionStarts DEF ObservedLoad, LoadCode, LoadRejected, InteractionInv
<1>3. CASE StepBackward /\ UNCHANGED diagnostics
  BY <1>3, InteractionBackward
<1>4. CASE ResetSimulation /\ UNCHANGED diagnostics
  BY <1>4, InteractionStarts
     DEF ResetSimulation, diagnostics, records, InteractionInv
<1>5. CASE UNCHANGED dvars
  BY <1>5 DEF dvars, diagnostics, records, vars, code, flow, data, marks,
     InteractionInv, BehindIsRecorded, UninvolvedApart, Simulated, TypeOf,
     FlagNamesQubits, VariableToQubit, Table
<1> QED
  BY <1>1, <1>2, <1>3, <1>4, <1>5 DEF DNext

-----------------------------------------------------------------------------
(* A missing interaction is real.                                          *)

LEMMA PairIsTwo ==
  ASSUME NEW pair, IsFiniteSet(pair), Cardinality(pair) = 2,
         NEW a \in pair, NEW b \in pair, a # b
  PROVE  pair = {a, b}
<1>1. IsFiniteSet(pair \ {a}) /\ Cardinality(pair \ {a}) = 1
  BY FS_RemoveElement
<1>2. \E c : pair \ {a} = {c}
  BY <1>1, FS_Singleton
<1> QED
  BY <1>2

(* What the records connect a qubit to is a division of the qubits that no *)
(* recorded gate crosses.                                                  *)
LEMMA UnconnectedApart ==
  ASSUME InteractionInv, UninvolvedApart, simulationState \in QStates,
         NEW a \in Wires, NEW b \in Wires,
         b \notin GetInteractionsAtRuntime(actualQubits, a)
  PROVE  /\ a # b
         /\ ~AreQubitsEntangled(simulationState, a, b)
         /\ ~AreQubitsEntangled(simulationState, b, a)
<1> DEFINE R == Simulated(actualQubits)
           groups == {Range(r[2]) : r \in R}
           C == Connected(groups, a)
           A == C \cap Wires
           f == [r \in R |-> Range(r[2])]
<1>1. IsFiniteSet(groups)
  <2>1. IsFiniteSet(R)
    <3>1. R \in SUBSET actualQubits
      BY DEF Simulated
    <3> QED
      BY <3>1, FS_Subset DEF InteractionInv
  <2>2. f \in Surjection(R, groups)
    BY DEF Surjection
  <2> HIDE DEF R, groups, f
  <2> QED
    BY <2>1, <2>2, FS_Surjection
<1>2. GetInteractionsAtRuntime(actualQubits, a) = C
  BY DEF GetInteractionsAtRuntime
<1> HIDE DEF C
<1>3. a \in C /\ IsClosed(groups, C)
  BY <1>1, ConnectedIsClosed DEF C
<1>4. \A r \in R : ~Crosses(Range(r[2]), A)
  BY <1>3 DEF IsClosed, Crosses
<1>5. IsProduct(simulationState, A)
  BY <1>4 DEF UninvolvedApart
<1>6. a \in A /\ b \in Wires \ A /\ A \in SUBSET Wires
  BY <1>2, <1>3
<1> HIDE DEF A
<1> QED
  BY <1>5, <1>6, EntanglementNeedsGates

LEMMA MissingIsReal ==
  ASSUME EngineInv, InteractionInv, FollowsTables(Table)
  PROVE  MissingInteractionIsReal
<1> SUFFICES ASSUME ready,
                    NEW cause \in PotentialErrorCauses,
                    cause[1] = "MissingInteraction",
                    NEW a \in cause[3], NEW b \in cause[3], a # b
             PROVE  ~AreQubitsEntangled(simulationState, a, b)
  BY DEF MissingInteractionIsReal
<1> DEFINE i == lastFailedAssertion
           pair == cause[3]
<1>1. i # NoInstruction /\ pair \in MissingInteractions
  <2>1. /\ i # NoInstruction
        /\ cause \in {<<"MissingInteraction", i, P>> : P \in MissingInteractions}
                       \cup {<<"ControlAlwaysZero", k>> : k \in ZeroControlCauses}
    BY DEF PotentialErrorCauses
  <2>2. PICK P \in MissingInteractions : cause = <<"MissingInteraction", i, P>>
    BY <2>1
  <2> QED
    BY <2>1, <2>2
<1>2. /\ pair \in kSubset(2, Range(TargetQubits(i)))
      /\ \E c \in pair : pair \ GetInteractionsAtRuntime(actualQubits, c) # {}
  BY <1>1 DEF MissingInteractions
<1>3. pair \subseteq Range(TargetQubits(i)) /\ Cardinality(pair) = 2
  BY <1>2 DEF kSubset
<1>4. BehindIsRecorded /\ UninvolvedApart /\ FlagNamesQubits
  BY DEF InteractionInv
<1>5. Range(TargetQubits(i)) \subseteq Wires
  BY <1>1, <1>4 DEF FlagNamesQubits, TargetQubits, Range
<1>6. IsFiniteSet(pair)
  <2>1. pair \in SUBSET Wires
    BY <1>3, <1>5
  <2> QED
    BY <2>1, EntanglementNeedsGates, FS_Subset
<1>7. PICK c \in pair, d \in pair :
        d \notin GetInteractionsAtRuntime(actualQubits, c)
  BY <1>2
<1>8. /\ c # d
      /\ ~AreQubitsEntangled(simulationState, c, d)
      /\ ~AreQubitsEntangled(simulationState, d, c)
  BY <1>3, <1>4, <1>5, <1>7, UnconnectedApart DEF EngineInv, TypeOK
<1>9. pair = {a, b}
  BY <1>3, <1>6, PairIsTwo
<1> QED
  BY <1>7, <1>8, <1>9

-----------------------------------------------------------------------------
(* The search for the path between two qubits.                             *)

(* What a qubit was reached from: another qubit on the way back to start,  *)
(* reached earlier.                                                        *)
IsRanked(predecessors, start, rank) ==
  /\ rank \in [DOMAIN predecessors -> Nat]
  /\ \A q \in DOMAIN predecessors :
       LET from == predecessors[q][1]
       IN  from = start \/ (from \in DOMAIN predecessors /\ rank[from] < rank[q])

LeadBack(predecessors, start, W) ==
  /\ DOMAIN predecessors \subseteq W
  /\ \A q \in DOMAIN predecessors : predecessors[q][1] \in W
  /\ \E rank : IsRanked(predecessors, start, rank)

(* The qubits that wait were reached.                                      *)
Reached(search, start, W) ==
  /\ LeadBack(search.predecessors, start, W)
  /\ \A m \in DOMAIN search.toVisit :
       /\ search.toVisit[m] # {}
       /\ search.toVisit[m] \subseteq DOMAIN search.predecessors \cup {start}

(* The searches over some qubits and edges with some instructions.         *)
Edges(W, I) == W \X {Min(B) : B \in SUBSET I}

Searches(start, W, I) ==
  {search \in [toVisit : Seq(SUBSET W), visited : SUBSET W,
               predecessors : UNION {[D -> Edges(W, I)] : D \in SUBSET W},
               multiplePredecessors : SUBSET W] :
     Reached(search, start, W)}

LEMMA NextQubit ==
  ASSUME NEW W \in SUBSET Nat, NEW I, NEW start \in W,
         NEW search \in Searches(start, W, I), search.toVisit # <<>>
  PROVE  /\ Min(Head(search.toVisit)) \in Head(search.toVisit)
         /\ Min(Head(search.toVisit)) \in W
         /\ Min(Head(search.toVisit)) \in DOMAIN search.predecessors \cup {start}
<1> DEFINE S == Head(search.toVisit)
<1>1. search.toVisit \in Seq(SUBSET W) /\ Reached(search, start, W)
  BY DEF Searches
<1>2. 1 \in DOMAIN search.toVisit /\ S = search.toVisit[1] /\ S \in SUBSET W
  BY <1>1
<1>3. S # {} /\ S \subseteq DOMAIN search.predecessors \cup {start}
  BY <1>1, <1>2 DEF Reached
<1>4. \E x \in S : \A y \in S : x <= y
  <2>1. S \in SUBSET Nat
    BY <1>2
  <2> HIDE DEF S
  <2> QED
    BY <1>3, <2>1, LeastNumber
<1> HIDE DEF S
<1>5. Min(S) \in S
  BY <1>4 DEF Min
<1> QED
  BY <1>2, <1>3, <1>5 DEF S

(* The qubits that are reached from a qubit lead back over it.             *)
LEMMA ReachesLeadBack ==
  ASSUME NEW W \in SUBSET Nat, NEW I, NEW start \in W,
         NEW search \in Searches(start, W, I),
         NEW current \in W, current \in DOMAIN search.predecessors \cup {start},
         NEW By, DOMAIN By \subseteq W, \A q \in DOMAIN By : By[q] \in SUBSET I
  PROVE  LET predecessors == Reaches(search, current, By).predecessors
         IN  /\ predecessors \in UNION {[D -> Edges(W, I)] : D \in SUBSET W}
             /\ DOMAIN predecessors =
                  DOMAIN search.predecessors \cup {q \in DOMAIN By : By[q] # {}}
             /\ LeadBack(predecessors, start, W)
<1> DEFINE old == search.predecessors
           known == DOMAIN old
           reached == {q \in DOMAIN By : By[q] # {}}
           pred == [q \in known \cup reached |->
                      IF q \in known THEN old[q] ELSE <<current, Min(By[q])>>]
<1>1. Reaches(search, current, By).predecessors = pred
  BY DEF Reaches
<1>2. LeadBack(old, start, W) /\ old \in UNION {[D -> Edges(W, I)] : D \in SUBSET W}
  BY DEF Searches, Reached
<1>3. /\ known \subseteq W /\ old \in [known -> Edges(W, I)]
      /\ \A q \in known : old[q][1] \in W
  BY <1>2 DEF LeadBack
<1>4. known \cup reached \in SUBSET W
  BY <1>3
<1>5. ASSUME NEW q \in known \cup reached
      PROVE  /\ pred[q] \in Edges(W, I)
             /\ q \in known => pred[q] = old[q]
             /\ q \notin known => pred[q][1] = current
  <2>1. CASE q \in known
    BY <1>3, <2>1
  <2>2. CASE q \notin known
    <3>1. pred[q] = <<current, Min(By[q])>> /\ By[q] \in SUBSET I
      BY <1>5, <2>2
    <3>2. Min(By[q]) \in {Min(B) : B \in SUBSET I}
      BY <3>1
    <3> QED
      BY <2>2, <3>1, <3>2 DEF Edges
  <2> QED
    BY <2>1, <2>2
<1>6. DOMAIN pred = known \cup reached
  OBVIOUS
<1>7. PICK rank : IsRanked(old, start, rank)
  BY <1>2 DEF LeadBack
<1> DEFINE above == IF current \in known THEN rank[current] + 1 ELSE 0
           next == [q \in known \cup reached |->
                      IF q \in known THEN rank[q] ELSE above]
<1>8. rank \in [known -> Nat] /\ above \in Nat
  BY <1>7 DEF IsRanked
<1>9. IsRanked(pred, start, next)
  <2>1. next \in [DOMAIN pred -> Nat]
    BY <1>6, <1>8
  <2> HIDE DEF pred, above
  <2>2. ASSUME NEW q \in DOMAIN pred
        PROVE  LET from == pred[q][1]
               IN  from = start \/ (from \in DOMAIN pred /\ next[from] < next[q])
    <3>1. CASE q \in known
      <4>1. pred[q] = old[q] /\ next[q] = rank[q]
        BY <1>5, <1>6, <3>1
      <4> QED
        BY <1>6, <1>7, <3>1, <4>1 DEF IsRanked
    <3>2. CASE q \notin known
      <4>1. pred[q][1] = current /\ next[q] = above
        BY <1>5, <1>6, <2>2, <3>2
      <4>2. CASE current = start
        BY <4>1, <4>2
      <4>3. CASE current # start
        <5>1. current \in known
          BY <4>3
        <5>2. next[current] = rank[current] /\ rank[current] \in Nat
              /\ above = rank[current] + 1
          BY <1>8, <5>1 DEF above
        <5> QED
          BY <1>6, <4>1, <5>1, <5>2
      <4> QED
        BY <4>2, <4>3
    <3> QED
      BY <3>1, <3>2
  <2> QED
    BY <2>1, <2>2 DEF IsRanked
<1>10. pred \in UNION {[D -> Edges(W, I)] : D \in SUBSET W}
  <2>1. pred \in [known \cup reached -> Edges(W, I)]
    BY <1>5
  <2> HIDE DEF pred, known, reached
  <2> QED
    BY <1>4, <2>1
<1>11. LeadBack(pred, start, W)
  <2>1. \A q \in DOMAIN pred : pred[q][1] \in W
    <3> HIDE DEF pred
    <3> QED
      BY <1>5, <1>6 DEF Edges
  <2> HIDE DEF pred, next
  <2> QED
    BY <1>4, <1>6, <1>9, <2>1 DEF LeadBack
<1> QED
  <2> HIDE DEF pred
  <2> QED
    BY <1>1, <1>6, <1>10, <1>11

(* What waits next was reached and is not empty.                           *)
IsWaiting(toVisit, known, W) ==
  /\ toVisit \in Seq(SUBSET W)
  /\ \A m \in DOMAIN toVisit : toVisit[m] # {} /\ toVisit[m] \subseteq known

LEMMA TogetherWaits ==
  ASSUME NEW W, NEW known, NEW S \in SUBSET W, S \subseteq known
  PROVE  IsWaiting(Together(S), known, W)
<1>1. CASE S = {}
  BY <1>1 DEF Together, IsWaiting
<1>2. CASE S # {}
  <2>1. Together(S) = <<S>>
    BY <1>2 DEF Together
  <2>2. <<S>> \in Seq(SUBSET W) /\ DOMAIN <<S>> = {1} /\ <<S>>[1] = S
    OBVIOUS
  <2> QED
    BY <1>2, <2>1, <2>2 DEF IsWaiting
<1> QED
  BY <1>1, <1>2

LEMMA JoinedWait ==
  ASSUME NEW W, NEW known, NEW s, NEW t,
         IsWaiting(s, known, W), IsWaiting(t, known, W)
  PROVE  IsWaiting(s \o t, known, W)
<1>1. s \in Seq(SUBSET W) /\ t \in Seq(SUBSET W)
  BY DEF IsWaiting
<1>2. s \o t \in Seq(SUBSET W) /\ Len(s \o t) = Len(s) + Len(t)
  BY <1>1
<1>3. ASSUME NEW m \in DOMAIN (s \o t)
      PROVE  (s \o t)[m] # {} /\ (s \o t)[m] \subseteq known
  <2>1. m \in 1 .. Len(s) + Len(t)
    BY <1>2
  <2>2. CASE m <= Len(s)
    <3>1. m \in DOMAIN s /\ (s \o t)[m] = s[m]
      BY <1>1, <2>1, <2>2
    <3> QED
      BY <3>1 DEF IsWaiting
  <2>3. CASE m > Len(s)
    <3>1. m - Len(s) \in DOMAIN t /\ (s \o t)[m] = t[m - Len(s)]
      BY <1>1, <2>1, <2>3
    <3> QED
      BY <3>1 DEF IsWaiting
  <2> QED
    BY <1>1, <2>1, <2>2, <2>3
<1> QED
  BY <1>2, <1>3 DEF IsWaiting

LEMMA TailWaits ==
  ASSUME NEW W, NEW known, NEW s, IsWaiting(s, known, W), s # <<>>
  PROVE  IsWaiting(Tail(s), known, W)
<1>1. s \in Seq(SUBSET W)
  BY DEF IsWaiting
<1>2. Tail(s) \in Seq(SUBSET W) /\ Len(Tail(s)) = Len(s) - 1
  BY <1>1
<1>3. ASSUME NEW m \in DOMAIN Tail(s)
      PROVE  Tail(s)[m] # {} /\ Tail(s)[m] \subseteq known
  <2>1. m + 1 \in DOMAIN s /\ Tail(s)[m] = s[m + 1]
    BY <1>1, <1>2
  <2> QED
    BY <2>1 DEF IsWaiting
<1> QED
  BY <1>2, <1>3 DEF IsWaiting

(* A graph over some qubits with some instructions.                        *)
IsGraph(graph, W, I) == \A e \in graph : e[1] \subseteq W /\ e[2] \in I

LEMMA SearchGoesOn ==
  ASSUME NEW W \in SUBSET Nat, NEW I, NEW start \in W, NEW end,
         NEW graph, IsGraph(graph, W, I),
         NEW search \in Searches(start, W, I)
  PROVE  SearchFurther(graph, search, end) \in Searches(start, W, I)
<1> DEFINE S == Head(search.toVisit)
           current == Min(S)
           By == [q \in Neighbours(graph, current) |->
                    InstructionsBetween(graph, search, current, q)]
           next == Reaches(search, current, By)
           reached == {q \in DOMAIN By : By[q] # {}}
           known == DOMAIN search.predecessors
           waiting == {current} \cup UNION Range(search.toVisit)
           new == reached \ (search.visited \cup waiting)
<1>1. CASE search.toVisit = <<>> \/ current = end
  BY <1>1 DEF SearchFurther
<1>2. CASE ~(search.toVisit = <<>> \/ current = end)
  <2>1. SearchFurther(graph, search, end) = next
    BY <1>2 DEF SearchFurther, Visit
  <2>2. current \in S /\ current \in W /\ current \in known \cup {start}
    BY <1>2, NextQubit
  <2>3. /\ search.toVisit \in Seq(SUBSET W) /\ search.visited \in SUBSET W
        /\ search.multiplePredecessors \in SUBSET W
        /\ Reached(search, start, W)
    BY DEF Searches
  <2>4. DOMAIN By \subseteq W /\ \A q \in DOMAIN By : By[q] \in SUBSET I
    <3>1. Neighbours(graph, current) \subseteq W
      BY DEF Neighbours, IsGraph
    <3>2. \A q : InstructionsBetween(graph, search, current, q) \in SUBSET I
      BY DEF InstructionsBetween, IsGraph
    <3> QED
      BY <3>1, <3>2
  <2> HIDE DEF By, current
  <2>5. /\ next.predecessors \in UNION {[D -> Edges(W, I)] : D \in SUBSET W}
        /\ DOMAIN next.predecessors = known \cup reached
        /\ LeadBack(next.predecessors, start, W)
    BY <2>2, <2>4, ReachesLeadBack
  <2> DEFINE after == known \cup reached \cup {start}
  <2>6. IsWaiting(search.toVisit, after, W)
    BY <2>3 DEF IsWaiting, Reached
  <2>7. S \in SUBSET W /\ S \subseteq after
    <3>1. 1 \in DOMAIN search.toVisit /\ S = search.toVisit[1]
      BY <1>2, <2>3
    <3> QED
      BY <2>3, <2>6, <3>1 DEF IsWaiting
  <2>8. next.toVisit = Together(S \ {current}) \o Tail(search.toVisit)
                         \o Together(new)
    BY DEF Reaches
  <2>9. IsWaiting(next.toVisit, after, W)
    <3>1. IsWaiting(Together(S \ {current}), after, W)
      BY <2>7, TogetherWaits
    <3>2. IsWaiting(Together(new), after, W)
      BY <2>4, TogetherWaits
    <3>3. IsWaiting(Tail(search.toVisit), after, W)
      BY <1>2, <2>6, TailWaits
    <3> HIDE DEF S, new, after
    <3>4. IsWaiting(Together(S \ {current}) \o Tail(search.toVisit), after, W)
      BY <3>1, <3>3, JoinedWait
    <3> QED
      BY <2>8, <3>2, <3>4, JoinedWait
  <2>10. next = [toVisit |-> next.toVisit, visited |-> next.visited,
                 predecessors |-> next.predecessors,
                 multiplePredecessors |-> next.multiplePredecessors]
    BY DEF Reaches
  <2>11. next.visited \in SUBSET W /\ next.multiplePredecessors \in SUBSET W
    BY <2>2, <2>3, <2>4 DEF Reaches
  <2> HIDE DEF next, reached, known
  <2>12. Reached(next, start, W)
    BY <2>5, <2>9 DEF IsWaiting, Reached
  <2>13. next.toVisit \in Seq(SUBSET W)
    BY <2>9 DEF IsWaiting
  <2> QED
    BY <2>1, <2>5, <2>10, <2>11, <2>12, <2>13 DEF Searches
<1> QED
  BY <1>1, <1>2

(* So every qubit the search has reached leads back to start.              *)
LEMMA SearchLeadsBack ==
  ASSUME NEW W \in SUBSET Nat, NEW I, NEW start \in W, NEW end,
         NEW graph, IsGraph(graph, W, I), Cardinality(graph) \in Nat
  PROVE  LeadBack(SearchPath(graph, start, end).predecessors, start, W)
<1> DEFINE n == Cardinality(graph) + 1
           S == Searches(start, W, I)
           Go(search) == SearchFurther(graph, search, end)
           first == [toVisit |-> <<{start}>>, visited |-> {},
                     predecessors |-> <<>>, multiplePredecessors |-> {}]
           step == [j \in 0 + 1 .. n |-> [search \in S |-> Go(search)]]
           A == CHOOSE h : h = [k \in 0 .. n |->
                                  IF k = 0 THEN first ELSE Go(h[k - 1])]
<1>1. SearchPath(graph, start, end) = A[n] /\ n \in Nat
  BY DEF SearchPath
<1>2. first \in S
  <2>1. <<{start}>> \in Seq(SUBSET W) /\ DOMAIN <<{start}>> = {1}
        /\ <<{start}>>[1] = {start}
    OBVIOUS
  <2>2. DOMAIN <<>> = {} /\ <<>> \in [{} -> Edges(W, I)]
    OBVIOUS
  <2>3. <<>> \in UNION {[D -> Edges(W, I)] : D \in SUBSET W}
    <3>1. [{} -> Edges(W, I)] \in {[D -> Edges(W, I)] : D \in SUBSET W}
      OBVIOUS
    <3> QED
      BY <2>2, <3>1
  <2>4. LeadBack(<<>>, start, W)
    <3> DEFINE rank == [q \in {} |-> 0]
    <3>1. rank \in [{} -> Nat]
      OBVIOUS
    <3>2. IsRanked(<<>>, start, rank)
      BY <2>2, <3>1 DEF IsRanked
    <3> QED
      BY <2>2, <3>2 DEF LeadBack
  <2>5. Reached(first, start, W)
    BY <2>1, <2>4 DEF Reached
  <2> QED
    BY <2>1, <2>3, <2>5 DEF Searches
<1>3. \A search \in S : Go(search) \in S
  BY SearchGoesOn
<1>4. step \in [0 + 1 .. n -> [S -> S]]
      /\ \A j \in 0 + 1 .. n : \A search \in S : step[j][search] = Go(search)
  <2> HIDE DEF Go, S
  <2> QED
    BY <1>3
<1> HIDE DEF step, S, n, first, Go
<1>5. Recursion(S, first, 0, n, step)
  BY <1>1, <1>2, <1>4 DEF Recursion
<1>6. PICK h : Follows(S, first, 0, n, step, h)
  BY <1>5, RecursionExists
<1>7. h \in [0 .. n -> S] /\ h[0] = first
      /\ \A j \in 0 + 1 .. n : h[j] = Go(h[j - 1])
  <2>1. h \in [0 .. n -> S] /\ h[0] = first
        /\ \A j \in 0 + 1 .. n : h[j] = step[j][h[j - 1]]
    BY <1>6 DEF Follows
  <2>2. ASSUME NEW j \in 0 + 1 .. n
        PROVE  h[j] = Go(h[j - 1])
    <3>1. j - 1 \in 0 .. n
      BY <1>1
    <3> QED
      BY <1>4, <2>1, <3>1
  <2> QED
    BY <2>1, <2>2
<1>8. h = [k \in 0 .. n |-> IF k = 0 THEN first ELSE Go(h[k - 1])]
  <2>1. ASSUME NEW j \in 0 .. n
        PROVE  h[j] = IF j = 0 THEN first ELSE Go(h[j - 1])
    <3>1. j # 0 => j \in 0 + 1 .. n
      BY <1>1
    <3> QED
      BY <1>7, <3>1
  <2> QED
    BY <1>7, <2>1
<1>9. A = [k \in 0 .. n |-> IF k = 0 THEN first ELSE Go(A[k - 1])]
  BY <1>8, Zenon
<1> HIDE DEF A
<1>10. FollowsWhileTyped(S, first, 0, n, step, A)
  <2>1. 0 \in 0 .. n /\ \A j \in 0 + 1 .. n : j \in 0 .. n /\ j # 0
    BY <1>1
  <2>2. A[0] = first /\ \A j \in 0 + 1 .. n : A[j] = Go(A[j - 1])
    BY <1>9, <2>1
  <2>3. \A j \in 0 + 1 .. n : A[j - 1] \in S => A[j] = step[j][A[j - 1]]
    BY <1>4, <2>2
  <2> QED
    BY <2>2, <2>3 DEF FollowsWhileTyped
<1>11. n \in 0 .. n /\ A[n] = h[n]
  <2>1. \A j \in 0 .. n : A[j] = h[j]
    BY <1>5, <1>6, <1>10, RecursionUnique
  <2> QED
    BY <1>1, <2>1
<1>12. A[n] \in S
  BY <1>7, <1>11
<1> QED
  BY <1>1, <1>12 DEF S, Searches, Reached

-----------------------------------------------------------------------------
(* The way back.                                                           *)

EdgeTo(predecessors, q) == <<{predecessors[q][1], q}, predecessors[q][2]>>

(* The qubits between a qubit and start.                                   *)
IsWayBack(predecessors, start, Q) ==
  \A y \in Q \ {start} : predecessors[y][1] \in Q

Between(predecessors, start, q) ==
  {x \in DOMAIN predecessors \cup {start} :
     \A Q \in SUBSET (DOMAIN predecessors \cup {start}) :
       q \in Q /\ IsWayBack(predecessors, start, Q) => x \in Q}

LEMMA BetweenOneStep ==
  ASSUME NEW predecessors, NEW start, NEW q \in DOMAIN predecessors \cup {start},
         \A y \in DOMAIN predecessors :
           predecessors[y][1] \in DOMAIN predecessors \cup {start}
  PROVE  /\ q = start => Between(predecessors, start, q) = {start}
         /\ q # start => Between(predecessors, start, q) =
                           {q} \cup Between(predecessors, start, predecessors[q][1])
<1> DEFINE D == DOMAIN predecessors \cup {start}
           B(x) == Between(predecessors, start, x)
<1>1. ASSUME q = start
      PROVE  B(q) = {start}
  <2>1. {start} \in SUBSET D /\ IsWayBack(predecessors, start, {start})
    BY DEF IsWayBack
  <2>2. B(q) \subseteq {start}
    BY <1>1, <2>1 DEF Between
  <2>3. start \in B(q)
    BY <1>1 DEF Between
  <2> QED
    BY <2>2, <2>3
<1>2. ASSUME q # start
      PROVE  B(q) = {q} \cup B(predecessors[q][1])
  <2> DEFINE from == predecessors[q][1]
  <2>1. from \in D /\ q \in D
    BY <1>2
  <2>2. q \in B(q)
    BY DEF Between
  <2>3. ASSUME NEW x \in B(from)
        PROVE  x \in B(q)
    <3>1. ASSUME NEW Q \in SUBSET D, q \in Q, IsWayBack(predecessors, start, Q)
          PROVE  x \in Q
      <4>1. from \in Q
        BY <1>2, <3>1 DEF IsWayBack
      <4> QED
        BY <2>3, <3>1, <4>1 DEF Between
    <3> QED
      BY <2>3, <3>1 DEF Between
  <2>4. ASSUME NEW x \in B(q), x # q
        PROVE  x \in B(from)
    <3>1. ASSUME NEW Q \in SUBSET D, from \in Q, IsWayBack(predecessors, start, Q)
          PROVE  x \in Q
      <4> DEFINE R == Q \cup {q}
      <4>1. R \in SUBSET D /\ q \in R
        OBVIOUS
      <4>2. IsWayBack(predecessors, start, R)
        BY <3>1 DEF IsWayBack
      <4>3. x \in R
        <5> HIDE DEF R
        <5> QED
          BY <2>4, <4>1, <4>2 DEF Between
      <4> QED
        BY <2>4, <4>3
    <3> QED
      BY <2>4, <3>1 DEF Between
  <2> QED
    BY <2>2, <2>3, <2>4
<1> QED
  BY <1>1, <1>2

(* The edges on it, step by step.                                          *)
LEMMA TrailFollows ==
  ASSUME NEW predecessors, NEW start,
         \A y \in DOMAIN predecessors :
           predecessors[y][1] \in DOMAIN predecessors \cup {start}
  PROVE  /\ Trail(predecessors, start, start) = {}
         /\ \A q \in DOMAIN predecessors \ {start} :
              Trail(predecessors, start, q) =
                {EdgeTo(predecessors, q)}
                  \cup Trail(predecessors, start, predecessors[q][1])
<1> DEFINE D == DOMAIN predecessors \cup {start}
           B(q) == Between(predecessors, start, q)
           h == [q \in D |-> {EdgeTo(predecessors, x) : x \in B(q) \ {start}}]
           A == CHOOSE f : f = [q \in D |->
                  IF q = start THEN {}
                  ELSE {<<{predecessors[q][1], q}, predecessors[q][2]>>}
                         \cup f[predecessors[q][1]]]
<1>1. h = [q \in D |->
             IF q = start THEN {}
             ELSE {<<{predecessors[q][1], q}, predecessors[q][2]>>}
                    \cup h[predecessors[q][1]]]
  <2>1. ASSUME NEW q \in D
        PROVE  h[q] = IF q = start THEN {}
                      ELSE {<<{predecessors[q][1], q}, predecessors[q][2]>>}
                             \cup h[predecessors[q][1]]
    <3>1. CASE q = start
      <4>1. B(q) = {start}
        BY <3>1, BetweenOneStep
      <4>2. h[q] = {}
        BY <4>1
      <4> QED
        BY <3>1, <4>2
    <3>2. CASE q # start
      <4>1. predecessors[q][1] \in D
        BY <3>2
      <4>2. B(q) = {q} \cup B(predecessors[q][1])
        BY <3>2, BetweenOneStep
      <4>3. h[q] = {EdgeTo(predecessors, q)} \cup h[predecessors[q][1]]
        BY <3>2, <4>1, <4>2
      <4> QED
        BY <3>2, <4>3 DEF EdgeTo
    <3> QED
      BY <3>1, <3>2
  <2>2. DOMAIN h = D
    OBVIOUS
  <2>3. h = [q \in D |-> h[q]]
    OBVIOUS
  <2> HIDE DEF h, D
  <2> QED
    BY <2>1, <2>3
<1>2. A = [q \in D |->
             IF q = start THEN {}
             ELSE {<<{predecessors[q][1], q}, predecessors[q][2]>>}
                    \cup A[predecessors[q][1]]]
  <2> HIDE DEF h, D
  <2> QED
    BY <1>1, Zenon
<1>3. \A q : Trail(predecessors, start, q) = A[q]
  BY DEF Trail
<1> HIDE DEF A, h
<1>4. A[start] = {}
  BY <1>2
<1>5. ASSUME NEW q \in DOMAIN predecessors \ {start}
      PROVE  A[q] = {EdgeTo(predecessors, q)} \cup A[predecessors[q][1]]
  BY <1>2 DEF EdgeTo
<1> QED
  BY <1>3, <1>4, <1>5

(* A set of qubits with start that no edge on the way back leaves holds    *)
(* the qubit the way begins at.                                            *)
LEMMA TrailConnects ==
  ASSUME NEW W, NEW start \in W, NEW predecessors,
         LeadBack(predecessors, start, W), NEW Q, start \in Q
  PROVE  \A q \in DOMAIN predecessors \cup {start} :
           /\ \A e \in Trail(predecessors, start, q) : e[1] \subseteq W
           /\ IsClosed({e[1] : e \in Trail(predecessors, start, q)}, Q) => q \in Q
<1> DEFINE D == DOMAIN predecessors \cup {start}
           T(q) == Trail(predecessors, start, q)
           Right(q) == /\ \A e \in T(q) : e[1] \subseteq W
                       /\ IsClosed({e[1] : e \in T(q)}, Q) => q \in Q
<1>1. PICK rank : IsRanked(predecessors, start, rank)
  BY DEF LeadBack
<1>2. \A y \in DOMAIN predecessors : predecessors[y][1] \in D
  BY <1>1 DEF IsRanked
<1>3. T(start) = {}
  BY <1>2, TrailFollows
<1>4. Right(start)
  BY <1>3
<1>5. ASSUME NEW q \in DOMAIN predecessors, q # start,
             Right(predecessors[q][1])
      PROVE  Right(q)
  <2> DEFINE from == predecessors[q][1]
             edge == EdgeTo(predecessors, q)
  <2>1. T(q) = {edge} \cup T(from)
    BY <1>2, <1>5, TrailFollows
  <2>2. edge[1] = {from, q} /\ from \in W /\ q \in W
    BY <1>5 DEF EdgeTo, LeadBack
  <2> HIDE DEF edge, T
  <2>3. \A e \in T(q) : e[1] \subseteq W
    BY <1>5, <2>1, <2>2
  <2>4. ASSUME IsClosed({e[1] : e \in T(q)}, Q)
        PROVE  q \in Q
    <3>1. IsClosed({e[1] : e \in T(from)}, Q)
      BY <2>1, <2>4 DEF IsClosed
    <3>2. from \in Q
      BY <1>5, <3>1
    <3>3. {from, q} \in {e[1] : e \in T(q)}
      BY <2>1, <2>2
    <3>4. {from, q} \cap Q = {} \/ {from, q} \subseteq Q
      BY <2>4, <3>3 DEF IsClosed
    <3> QED
      BY <3>2, <3>4
  <2> QED
    BY <2>3, <2>4
<1>6. \A q \in DOMAIN predecessors : Right(q)
  <2> DEFINE Wrong == {q \in DOMAIN predecessors : ~Right(q)}
             ranks == {rank[q] : q \in Wrong}
  <2> HIDE DEF Right
  <2> SUFFICES ASSUME Wrong # {} PROVE FALSE
    OBVIOUS
  <2>1. ranks \in SUBSET Nat /\ ranks # {}
    BY <1>1 DEF IsRanked
  <2>2. PICK r \in ranks : \A y \in ranks : r <= y
    <3> HIDE DEF ranks
    <3> QED
      BY <2>1, LeastNumber
  <2>3. PICK q \in Wrong : r = rank[q]
    BY <2>2
  <2>4. q \in DOMAIN predecessors /\ ~Right(q) /\ q # start
    BY <1>4, <2>3
  <2>5. predecessors[q][1] # start
    BY <1>4, <1>5, <2>4
  <2>6. /\ predecessors[q][1] \in DOMAIN predecessors
        /\ rank[predecessors[q][1]] < rank[q]
    BY <1>1, <2>4, <2>5 DEF IsRanked
  <2>7. Right(predecessors[q][1])
    <3> SUFFICES ASSUME predecessors[q][1] \in Wrong PROVE FALSE
      BY <2>6
    <3>1. rank[q] <= rank[predecessors[q][1]]
      BY <2>2, <2>3
    <3>2. rank[q] \in Nat /\ rank[predecessors[q][1]] \in Nat
      BY <1>1, <2>4, <2>6 DEF IsRanked
    <3> QED
      BY <2>6, <3>1, <3>2
  <2> QED
    BY <1>5, <2>4, <2>7
<1> QED
  BY <1>4, <1>6

(* The same of the path that is found, if one is.                          *)
LEMMA PathConnects ==
  ASSUME NEW W \in SUBSET Nat, NEW I, NEW start \in W, NEW end,
         NEW graph, IsGraph(graph, W, I), Cardinality(graph) \in Nat,
         NEW Q, start \in Q
  PROVE  LET path == FindUniquePath(graph, start, end)
         IN  /\ \A e \in path : e[1] \subseteq W
             /\ path # {} /\ IsClosed({e[1] : e \in path}, Q) => end \in Q
<1> DEFINE search == SearchPath(graph, start, end)
           path == FindUniquePath(graph, start, end)
<1>1. LeadBack(search.predecessors, start, W)
  BY SearchLeadsBack
<1>2. \/ path = {}
      \/ /\ end \in DOMAIN search.predecessors
         /\ path = Trail(search.predecessors, start, end)
  BY DEF FindUniquePath, UniquePath, Unambiguous
<1> HIDE DEF search, path
<1>3. CASE path = {}
  BY <1>3 DEF path
<1>4. CASE /\ end \in DOMAIN search.predecessors
           /\ path = Trail(search.predecessors, start, end)
  <2>1. /\ \A e \in path : e[1] \subseteq W
        /\ IsClosed({e[1] : e \in path}, Q) => end \in Q
    BY <1>1, <1>4, TrailConnects
  <2> QED
    BY <2>1 DEF path
<1> QED
  BY <1>2, <1>3, <1>4

-----------------------------------------------------------------------------
(* The assertions that are suggested.                                      *)

LEMMA WiresAreNumbers == Wires \in SUBSET Nat
  BY DEF Wires, Qubits

LEMMA NamesAreFinite == IsFiniteSet(Names)
<1> DEFINE f == [q \in Wires |-> NameOf(q)]
<1>1. f \in Surjection(Wires, Names)
  BY DEF Surjection, Names
<1> HIDE DEF f
<1> QED
  BY <1>1, EntanglementNeedsGates, FS_Surjection

(* The records of gates make a graph of qubits.                            *)
LEMMA TreeIsGraph ==
  ASSUME NEW recorded, IsFiniteSet(recorded),
         \A r \in Simulated(recorded) : r[2] \in Seq(Wires), NEW qubit
  PROVE  LET graph == GetInteractionTreeAtRuntime(recorded, qubit)
         IN  /\ IsGraph(graph, Wires, {r[1] : r \in recorded})
             /\ Cardinality(graph) \in Nat
<1> DEFINE graph == GetInteractionTreeAtRuntime(recorded, qubit)
           I == {r[1] : r \in recorded}
           f == [r \in recorded |-> r[1]]
<1>1. ASSUME NEW e \in graph
      PROVE  e \in (SUBSET Wires) \X I /\ e[1] \subseteq Wires /\ e[2] \in I
  <2>0. PICK r \in Simulated(recorded) :
          e \in {<<pair, r[1]>> :
                   pair \in kSubset(2, Range(r[2]) \cap
                              GetInteractionsAtRuntime(recorded, qubit))}
    BY <1>1 DEF GetInteractionTreeAtRuntime
  <2>1. PICK pair \in kSubset(2, Range(r[2]) \cap
                              GetInteractionsAtRuntime(recorded, qubit)) :
          e = <<pair, r[1]>>
    BY <2>0
  <2>2. pair \subseteq Range(r[2]) /\ r \in recorded
    BY <2>1 DEF kSubset, Simulated
  <2>3. Range(r[2]) \subseteq Wires
    BY <2>1 DEF Range
  <2> QED
    BY <2>1, <2>2, <2>3
<1>2. IsFiniteSet(I)
  <2>1. f \in Surjection(recorded, I)
    BY DEF Surjection
  <2> HIDE DEF f, I
  <2> QED
    BY <2>1, FS_Surjection
<1>3. IsFiniteSet((SUBSET Wires) \X I)
  <2> HIDE DEF I
  <2> QED
    BY <1>2, EntanglementNeedsGates, FS_SUBSET, FS_Product
<1>4. graph \in SUBSET ((SUBSET Wires) \X I)
  <2> HIDE DEF graph, I
  <2> QED
    BY <1>1
<1>5. IsFiniteSet(graph)
  <2> HIDE DEF graph, I
  <2> QED
    BY <1>3, <1>4, FS_Subset
<1> QED
  <2> HIDE DEF graph, I
  <2>1. IsGraph(graph, Wires, I)
    BY <1>1 DEF IsGraph
  <2>2. Cardinality(graph) \in Nat
    BY <1>5, FS_CardinalityType
  <2> QED
    BY <2>1, <2>2 DEF graph, I

(* What is suggested for an assertion of two qubits names qubits, and      *)
(* connects them where the assertion was reached in one way.               *)
LEMMA PathsConnect ==
  ASSUME NEW recorded, IsFiniteSet(recorded),
         \A r \in Simulated(recorded) : r[2] \in Seq(Wires),
         NEW i, Len(Table.targets[i]) = 2,
         \A r \in recorded : r[1] = i => r[2] \in Seq(Wires) /\ Len(r[2]) = 2
  PROVE  LET suggested == SuggestBasedOnFailedEntanglementAssertion(recorded, i)
         IN  /\ \A s \in suggested : s[1] = i /\ s[2] \subseteq Names
             /\ \A r \in recorded : \A pairs \in SUBSET SUBSET Names :
                  /\ r[1] = i /\ \A s \in recorded : s[1] = i => s = r
                  /\ suggested # {} /\ {s[2] : s \in suggested} \subseteq pairs
                  => NameOf(r[2][2]) \in Connected(pairs, NameOf(r[2][1]))
<1> DEFINE suggested == SuggestBasedOnFailedEntanglementAssertion(recorded, i)
           I == {r[1] : r \in recorded}
           Graph(r) == GetInteractionTreeAtRuntime(recorded, r[2][2])
           Path(r) == FindUniquePath(Graph(r), r[2][1], r[2][2])
           Here == {r \in recorded : r[1] = i}
           Pair(e) == {NameOf(q) : q \in e[1]}
<1>1. suggested = {<<i, Pair(e), e[2] + 1>> : e \in CommonPath(recorded, i)}
  BY DEF SuggestBasedOnFailedEntanglementAssertion
<1>2. CommonPath(recorded, i) = CommonEdges({Path(r) : r \in Here})
  BY DEF CommonPath
<1>3. ASSUME NEW r \in Here
      PROVE  r[2][1] \in Wires /\ r[2][2] \in Wires
             /\ IsGraph(Graph(r), Wires, I) /\ Cardinality(Graph(r)) \in Nat
  BY TreeIsGraph
<1> HIDE DEF I
<1>4. ASSUME NEW r \in Here, NEW Q, r[2][1] \in Q
      PROVE  /\ \A e \in Path(r) : e[1] \subseteq Wires
             /\ Path(r) # {} /\ IsClosed({e[1] : e \in Path(r)}, Q) => r[2][2] \in Q
  <2>1. /\ r[2][1] \in Wires /\ IsGraph(Graph(r), Wires, I)
        /\ Cardinality(Graph(r)) \in Nat
    BY <1>3
  <2> DEFINE graph == Graph(r)
             start == r[2][1]
             end == r[2][2]
             path == FindUniquePath(graph, start, end)
  <2>2. start \in Wires /\ IsGraph(graph, Wires, I) /\ start \in Q
        /\ Cardinality(graph) \in Nat
    BY <1>4, <2>1
  <2> HIDE DEF graph, start, end
  <2>3. /\ \A e \in path : e[1] \subseteq Wires
        /\ path # {} /\ IsClosed({e[1] : e \in path}, Q) => end \in Q
    BY <2>2, WiresAreNumbers, PathConnects
  <2> QED
    BY <2>3 DEF graph, start, end
<1> HIDE DEF Path, suggested
<1>5. ASSUME NEW s \in suggested
      PROVE  s[1] = i /\ s[2] \subseteq Names
  <2>1. PICK e \in CommonPath(recorded, i) : s = <<i, Pair(e), e[2] + 1>>
    BY <1>1
  <2>2. PICK r \in Here : e \in Path(r)
    BY <1>2, <2>1 DEF CommonEdges
  <2>3. e[1] \subseteq Wires
    BY <1>4, <2>2
  <2> QED
    BY <2>1, <2>3 DEF Names
<1>6. ASSUME NEW r \in recorded, NEW pairs \in SUBSET SUBSET Names,
             r[1] = i, \A s \in recorded : s[1] = i => s = r,
             suggested # {}, {s[2] : s \in suggested} \subseteq pairs
      PROVE  NameOf(r[2][2]) \in Connected(pairs, NameOf(r[2][1]))
  <2> DEFINE C == Connected(pairs, NameOf(r[2][1]))
             Q == {q \in Wires : NameOf(q) \in C}
  <2>1. Here = {r}
    BY <1>6
  <2>2. CommonPath(recorded, i) = Path(r)
    BY <1>2, <2>1 DEF CommonEdges
  <2>3. Path(r) # {} /\ \A e \in Path(r) : Pair(e) \in pairs
    <3>1. \A e \in Path(r) : <<i, Pair(e), e[2] + 1>> \in suggested
      BY <1>1, <2>2
    <3>2. \A e \in Path(r) : <<i, Pair(e), e[2] + 1>>[2] = Pair(e)
      OBVIOUS
    <3> HIDE DEF Pair
    <3> QED
      BY <1>1, <1>6, <2>2, <3>1, <3>2
  <2>4. NameOf(r[2][1]) \in C /\ IsClosed(pairs, C)
    <3>1. IsFiniteSet(pairs)
      BY NamesAreFinite, FS_SUBSET, FS_Subset
    <3> QED
      BY <3>1, ConnectedIsClosed
  <2> HIDE DEF C
  <2>5. r \in Here /\ r[2][1] \in Q
    BY <1>3, <2>1, <2>4
  <2>6. IsClosed({e[1] : e \in Path(r)}, Q)
    <3>1. ASSUME NEW e \in Path(r), e[1] \cap Q # {}
          PROVE  e[1] \subseteq Q
      <4>1. Pair(e) \cap C # {}
        BY <3>1
      <4>2. Pair(e) \subseteq C
        BY <2>3, <2>4, <4>1 DEF IsClosed
      <4>3. e[1] \subseteq Wires
        BY <1>4, <2>5
      <4> QED
        BY <4>2, <4>3
    <3> QED
      BY <3>1 DEF IsClosed
  <2> HIDE DEF Q
  <2>7. r[2][2] \in Q
    BY <1>4, <2>3, <2>5, <2>6
  <2> QED
    BY <2>7 DEF Q, C
<1> QED
  BY <1>5, <1>6 DEF suggested

-----------------------------------------------------------------------------
(* Every step keeps SuggestionInv.                                         *)

LEMMA SuggestionKept ==
  ASSUME SuggestionInv, prog' = prog, actualQubits' = actualQubits,
         assertionsEntToInsert' = assertionsEntToInsert
  PROVE  SuggestionInv'
<1>1. Table' = Table
  BY DEF Table
<1> QED
  BY <1>1 DEF SuggestionInv, RecordsNameWires, SuggestedForReached,
     SuggestedConnect, SuggestedFor, TypeOf, NameOf, Names

(* The record a step forward makes.                                        *)
LEMMA RecordNamesWires ==
  ASSUME EngineInv, FollowsTables(Table), CanStepForward,
         TypeOf(currentInstruction) \in {"SIMULATE", "ASSERTION"}
  PROVE  /\ TargetQubits(currentInstruction) \in Seq(Wires)
         /\ Len(TargetQubits(currentInstruction)) =
              Len(Table.targets[currentInstruction])
<1> DEFINE names == Table.targets[currentInstruction]
           qubits == TargetQubits(currentInstruction)
<1>1. ready /\ prog \in Programs /\ Table = Code[prog]
      /\ currentInstruction < Table.n
  BY DEF EngineInv, IterInv, HasProgram, Table, CanStepForward
<1>2. PICK h : InStep(Table, h, Flow, iterator)
  BY <1>1 DEF EngineInv, IterInv, WayInStep
<1>3. Flow.pos = currentInstruction /\ Flow.calls = callReturnStack
  BY DEF Flow
<1>4. /\ names \in Seq(Range(names))
      /\ \A v \in Range(names) : VariableToQubit(v) \in Wires
  BY <1>1, <1>2, <1>3, PlaceNamesQubits DEF TypeOf, VariableToQubit
<1>5. Len(names) \in Nat /\ DOMAIN names = 1 .. Len(names)
      /\ \A m \in DOMAIN names : names[m] \in Range(names)
  <2> HIDE DEF names
  <2> QED
    BY <1>4, LenProperties DEF Range
<1>6. qubits \in [1 .. Len(names) -> Wires]
  BY <1>4, <1>5 DEF TargetQubits
<1> HIDE DEF names, qubits
<1> QED
  BY <1>5, <1>6, FunctionIsSequence DEF names, qubits

(* A step forward adds the record of the instruction it stands at, and     *)
(* suggestions only for an assertion it stands at.                         *)
LEMMA StepRecords ==
  ASSUME EngineInv, CanStepForward, ObservedStepForward
  PROVE  LET i == currentInstruction
         IN  /\ \/ actualQubits' = actualQubits
                \/ actualQubits' = actualQubits \cup {<<i, TargetQubits(i)>>}
             /\ TypeOf(i) = "ASSERTION" => <<i, TargetQubits(i)>> \in actualQubits'
             /\ \/ assertionsEntToInsert' = assertionsEntToInsert
                \/ /\ TypeOf(i) = "ASSERTION"
                   /\ assertionsEntToInsert' = assertionsEntToInsert
                        \cup SuggestBasedOnFailedEntanglementAssertion(
                               actualQubits', i)
<1>1. /\ StepForward /\ OnStepForward
      /\ IF FailsNow THEN OnFailedAssertion(currentInstruction)
         ELSE UNCHANGED suggestions
  BY DEF ObservedStepForward
<1>2. FailsNow => TypeOf(currentInstruction) = "ASSERTION"
  <2>1. currentInstruction \in Nat
    BY DEF EngineInv, TypeOK, Flows, Flow
  <2>2. lastFailedAssertion' = NoInstruction \/ lastFailedAssertion' = lastFailedAssertion
        \/ TypeOf(currentInstruction) = "ASSERTION"
    BY <1>1 DEF StepForward, StepForwardRefused, StepControl, StepPastAssertion,
       StepStopsAtAssertion, StepAssertionThrows, StepAssertionCrashes,
       StepCollapses, StepBarrier, StepGate, StepUnsupportedThrows,
       StepRunsOffCircuit, Simulates, marks
  <2> QED
    BY <2>1, <2>2 DEF FailsNow, NoInstruction
<1> QED
  BY <1>1, <1>2 DEF OnStepForward, OnFailedAssertion, suggestions

(* Suggestions are for the instruction the step stands at, and name it.    *)
LEMMA SuggestionForward ==
  ASSUME EngineInv, InteractionInv', SuggestionInv, ObservedStepForward
  PROVE  SuggestionInv'
<1> DEFINE i == currentInstruction
           record == <<i, TargetQubits(i)>>
           suggested == SuggestBasedOnFailedEntanglementAssertion(actualQubits', i)
           For(j) == {s[2] : s \in {s \in assertionsEntToInsert' : s[1] = j}}
<1>1. StepForward /\ UNCHANGED code /\ prog' = prog /\ Table' = Table
  BY StepsKeepCode DEF ObservedStepForward, code, Table
<1>2. CASE ~CanStepForward
  <2>1. StepForwardRefused
    BY <1>1, <1>2 DEF StepForward, StepControl, StepPastAssertion,
       StepStopsAtAssertion, StepAssertionThrows, StepAssertionCrashes,
       StepCollapses, StepBarrier, StepGate, StepUnsupportedThrows,
       StepRunsOffCircuit, Simulates, Advance
  <2>2. ~FailsNow
    BY <2>1 DEF StepForwardRefused, FailsNow, marks
  <2>3. UNCHANGED records /\ UNCHANGED suggestions
    BY <1>2, <2>2 DEF ObservedStepForward
  <2> QED
    BY <1>1, <2>3, SuggestionKept DEF records, suggestions
<1>3. CASE CanStepForward
  <2>1. prog # NoProgram
    BY <1>3, CodeIsWellFormed DEF CanStepForward, EngineInv, IterInv, HasProgram
  <2>2. /\ \/ actualQubits' = actualQubits
           \/ actualQubits' = actualQubits \cup {record}
        /\ TypeOf(i) = "ASSERTION" => record \in actualQubits'
        /\ \/ assertionsEntToInsert' = assertionsEntToInsert
           \/ /\ TypeOf(i) = "ASSERTION"
              /\ assertionsEntToInsert' = assertionsEntToInsert \cup suggested
    BY <1>3, StepRecords
  <2>3. record[1] = i /\ record[2] = TargetQubits(i)
    OBVIOUS
  <2> SUFFICES ASSUME FollowsTables(Table)
               PROVE  (RecordsNameWires /\ SuggestedForReached /\ SuggestedConnect)'
    BY <1>1, <2>1 DEF SuggestionInv
  <2>4. RecordsNameWires /\ SuggestedForReached /\ SuggestedConnect
    BY DEF SuggestionInv
  <2>5. TypeOf(i) \in {"SIMULATE", "ASSERTION"} =>
          record[2] \in Seq(Wires) /\ Len(record[2]) = Len(Table.targets[i])
    BY <1>3, <2>3, RecordNamesWires
  <2> HIDE DEF i, record
  <2>6. \A r \in actualQubits' :
          TypeOf(r[1]) \in {"SIMULATE", "ASSERTION"} =>
            r[2] \in Seq(Wires) /\ Len(r[2]) = Len(Table.targets[r[1]])
    BY <2>2, <2>3, <2>4, <2>5 DEF RecordsNameWires, i
  <2>7. ASSUME TypeOf(i) = "ASSERTION", Len(Table.targets[i]) = 2
        PROVE  /\ \A s \in suggested : s[1] = i /\ s[2] \subseteq Names
               /\ \A r \in actualQubits' : \A pairs \in SUBSET SUBSET Names :
                    /\ r[1] = i /\ \A s \in actualQubits' : s[1] = i => s = r
                    /\ suggested # {} /\ {s[2] : s \in suggested} \subseteq pairs
                    => NameOf(r[2][2]) \in Connected(pairs, NameOf(r[2][1]))
    <3>1. IsFiniteSet(actualQubits')
      BY DEF InteractionInv
    <3>2. \A r \in Simulated(actualQubits') : r[2] \in Seq(Wires)
      BY <2>6 DEF Simulated
    <3>3. \A r \in actualQubits' : r[1] = i => r[2] \in Seq(Wires) /\ Len(r[2]) = 2
      BY <2>6, <2>7
    <3> DEFINE recorded == actualQubits'
    <3> HIDE DEF recorded
    <3> QED
      BY <2>7, <3>1, <3>2, <3>3, PathsConnect DEF recorded
  <2>8. \A s \in suggested : s[1] = i
    BY DEF SuggestBasedOnFailedEntanglementAssertion
  <2> HIDE DEF suggested
  <2>9. ASSUME NEW s \in assertionsEntToInsert'
        PROVE  /\ TypeOf(s[1]) = "ASSERTION"
               /\ \E r \in actualQubits' : r[1] = s[1]
               /\ Len(Table.targets[s[1]]) = 2 => s[2] \subseteq Names
    <3>1. CASE s \in assertionsEntToInsert
      BY <2>2, <2>4, <3>1 DEF SuggestedForReached
    <3>2. CASE s \notin assertionsEntToInsert
      <4>1. TypeOf(i) = "ASSERTION" /\ s \in suggested /\ record \in actualQubits'
        BY <2>2, <2>9, <3>2
      <4>2. s[1] = i
        BY <2>8, <4>1
      <4> QED
        BY <2>3, <2>7, <4>1, <4>2 DEF i
    <3> QED
      BY <3>1, <3>2
  <2>10. ASSUME NEW r \in actualQubits', For(r[1]) # {}, Len(r[2]) = 2,
                \A s \in actualQubits' : s[1] = r[1] => s = r
         PROVE  NameOf(r[2][2]) \in Connected(For(r[1]), NameOf(r[2][1]))
    <3>1. CASE For(r[1]) = SuggestedFor(r[1])
      <4>1. PICK s \in assertionsEntToInsert : s[1] = r[1]
        BY <2>10, <3>1 DEF SuggestedFor
      <4>2. PICK old \in actualQubits : old[1] = r[1]
        BY <2>4, <4>1 DEF SuggestedForReached
      <4>3. actualQubits \subseteq actualQubits'
        BY <2>2
      <4>4. r \in actualQubits /\ \A t \in actualQubits : t[1] = r[1] => t = r
        BY <2>10, <4>2, <4>3
      <4> HIDE DEF For
      <4> QED
        BY <2>4, <2>10, <3>1, <4>4 DEF SuggestedConnect
    <3>2. CASE For(r[1]) # SuggestedFor(r[1])
      <4>1. /\ TypeOf(i) = "ASSERTION"
            /\ assertionsEntToInsert' = assertionsEntToInsert \cup suggested
        <5>1. assertionsEntToInsert' # assertionsEntToInsert
          BY <3>2 DEF SuggestedFor
        <5> QED
          BY <2>2, <5>1
      <4>2. r[1] = i /\ suggested # {}
        <5> SUFFICES ASSUME r[1] # i \/ suggested = {}
                     PROVE  {s \in assertionsEntToInsert' : s[1] = r[1]} =
                              {s \in assertionsEntToInsert : s[1] = r[1]}
          BY <3>2 DEF SuggestedFor
        <5> QED
          BY <2>8, <4>1
      <4>3. Len(Table.targets[i]) = 2
        BY <2>6, <2>10, <4>1, <4>2
      <4>4. For(i) \in SUBSET SUBSET Names
        BY <2>9, <4>3
      <4>5. {s[2] : s \in suggested} \subseteq For(i)
        BY <2>8, <4>1
      <4> DEFINE pairs == For(i)
      <4> HIDE DEF For, pairs
      <4>6. pairs \in SUBSET SUBSET Names /\ {s[2] : s \in suggested} \subseteq pairs
        BY <4>4, <4>5 DEF pairs
      <4>7. \A s \in actualQubits' : s[1] = i => s = r
        BY <2>10, <4>2
      <4>8. NameOf(r[2][2]) \in Connected(pairs, NameOf(r[2][1]))
        BY <2>7, <4>1, <4>2, <4>3, <4>6, <4>7
      <4> QED
        BY <4>2, <4>8 DEF pairs
    <3> QED
      BY <3>1, <3>2
  <2>11. RecordsNameWires'
    BY <1>1, <2>6 DEF RecordsNameWires, TypeOf
  <2>12. SuggestedForReached'
    BY <1>1, <2>9 DEF SuggestedForReached, TypeOf, Names, NameOf
  <2>13. SuggestedConnect'
    BY <1>1, <2>10 DEF SuggestedConnect, SuggestedFor, NameOf
  <2> QED
    BY <2>11, <2>12, <2>13
<1> QED
  BY <1>2, <1>3

LEMMA SuggestionNext ==
  ASSUME EngineInv, InteractionInv', SuggestionInv, ~Switching, [DNext]_dvars
  PROVE  SuggestionInv'
<1>1. CASE ObservedStepForward
  BY <1>1, SuggestionForward
<1>2. ASSUME NEW p, ObservedLoad(p)
      PROVE  SuggestionInv'
  <2>1. /\ prog' = p /\ (prog = NoProgram \/ prog = p)
        /\ actualQubits' = actualQubits
        /\ assertionsEntToInsert' = assertionsEntToInsert
    BY <1>2 DEF ObservedLoad, LoadCode, LoadRejected, suggestions
  <2>2. CASE prog = p
    BY <2>1, <2>2, SuggestionKept
  <2>3. CASE prog = NoProgram
    <3>1. actualQubits' = {} /\ assertionsEntToInsert' = {}
      BY <2>1, <2>3 DEF SuggestionInv
    <3> QED
      BY <3>1 DEF SuggestionInv, RecordsNameWires, SuggestedForReached,
         SuggestedConnect
  <2> QED
    BY <2>1, <2>2, <2>3
<1>3. CASE StepBackward /\ UNCHANGED diagnostics
  BY <1>3, StepsKeepCode, SuggestionKept DEF diagnostics, records, suggestions, code
<1>4. CASE ResetSimulation /\ UNCHANGED diagnostics
  BY <1>4, SuggestionKept
     DEF ResetSimulation, diagnostics, records, suggestions, code
<1>5. CASE UNCHANGED dvars
  BY <1>5, SuggestionKept DEF dvars, diagnostics, records, suggestions, vars, code
<1> QED
  BY <1>1, <1>2, <1>3, <1>4, <1>5 DEF DNext

-----------------------------------------------------------------------------

LEMMA ReportsAreTrue ==
  ASSUME EngineInv, RecordsInv, FollowsTables(Table)
  PROVE  ReportedGateNeverActed
<1> SUFFICES ASSUME NEW i \in GetZeroControlInstructions, i \in acted
             PROVE  FALSE
  BY DEF ReportedGateNeverActed
<1>1. PICK c \in zeroControls : c[1] = i
  BY DEF GetZeroControlInstructions
<1>2. ~ \E d \in nonZeroControls : d[1] = i
  BY DEF GetZeroControlInstructions
<1>3. prog \in Programs
  BY <1>1 DEF RecordsInv, NothingRecorded, EngineInv, FlowInv
<1>4. PICK k \in DOMAIN Table.ops :
        Table.ops[k].at = i /\ IsControlled(Table.ops[k])
  BY <1>1 DEF RecordsInv, ZerosAreControls
<1>5. PICK j \in DOMAIN Table.ops :
        Table.ops[j].at = i /\ ~IsControlled(Table.ops[j])
  BY <1>2 DEF RecordsInv, ActedHasReason
<1> QED
  BY <1>3, <1>4, <1>5, CircuitNamesQubits DEF Table

LEMMA RecordsMatch ==
  ASSUME EngineInv, RecordsInv, InteractionInv, FollowsTables(Table)
  PROVE  RecordsMatchCircuit
<1> SUFFICES ASSUME ready PROVE RecordsMatchCircuit
  BY DEF RecordsMatchCircuit
<1> DEFINE ops == Table.ops
           Placed(ks) == {<<ops[k].at, ops[k].gate[2]>> :
                            k \in {k \in ks : ops[k].kind = "gate"}}
           kept == {<<r[1], r[2]>> :
                      r \in {r \in actualQubits :
                               \E k \in DOMAIN ops :
                                 ops[k].at = r[1] /\ ops[k].kind = "gate"}}
<1>1. /\ Code[circuit] = Table /\ Len(ops) \in Nat
      /\ DOMAIN ops = 1 .. Len(ops)
  BY LoadedCircuit
<1>2. RecordsAreOperations /\ BehindIsRecorded
  BY DEF RecordsInv, InteractionInv
<1>3. 1 .. iterator \subseteq DOMAIN ops
  BY <1>1 DEF EngineInv, TypeOK
<1>4. Placed(1 .. iterator) \subseteq kept
  <2> SUFFICES ASSUME NEW k \in 1 .. iterator, ops[k].kind = "gate"
               PROVE  <<ops[k].at, ops[k].gate[2]>> \in kept
    OBVIOUS
  <2> DEFINE r == <<ops[k].at, ops[k].gate[2]>>
  <2>1. r \in actualQubits
    BY <1>2 DEF BehindIsRecorded
  <2>2. r = <<r[1], r[2]>> /\ ops[k].at = r[1] /\ k \in DOMAIN ops
    BY <1>3
  <2> HIDE DEF r
  <2>3. <<r[1], r[2]>> \in kept
    BY <2>1, <2>2
  <2> QED
    BY <2>2, <2>3 DEF r
<1>5. kept \subseteq Placed(DOMAIN ops)
  <2> SUFFICES ASSUME NEW r \in actualQubits, NEW k \in DOMAIN ops,
                      ops[k].at = r[1], ops[k].kind = "gate"
               PROVE  <<r[1], r[2]>> \in Placed(DOMAIN ops)
    OBVIOUS
  <2>1. PICK l \in DOMAIN ops : /\ ops[l].at = r[1] /\ ops[l].kind = "gate"
                                /\ ops[l].gate[2] = r[2]
    BY <1>2 DEF RecordsAreOperations
  <2> QED
    BY <2>1
<1> QED
  BY <1>1, <1>4, <1>5 DEF RecordsMatchCircuit, Operation

(* The engine underneath, and the records of interactions, in every        *)
(* behaviour.                                                              *)
LEMMA InteractionsHold == DSpec => [](EngineInv /\ InteractionInv)
<1>1. DInit => EngineInv
  BY FlowInit, TypeInit
     DEF DInit, Init, EngineInv, IterInv, HasProgram, WayInStep, FlagInv
<1>2. DInit => InteractionInv
  <2> SUFFICES ASSUME DInit PROVE InteractionInv
    OBVIOUS
  <2>1. actualQubits = {} /\ ready = FALSE
    BY DEF DInit, Init, DiagnosticsInit
  <2> QED
    BY <2>1, FS_EmptySet DEF InteractionInv
<1>3. EngineInv /\ InteractionInv /\ [DNext]_dvars
        => (EngineInv /\ InteractionInv)'
  BY EngineStep, InteractionNext
<1> QED
  BY <1>1, <1>2, <1>3, PTL DEF DSpec

(* The records, and what the invariant says of them, where the client      *)
(* loads one program, however often.                                       *)
LEMMA RecordsHold ==
  ASSUME ~Switching
  PROVE  DSpec => []RecordsInv
<1>1. DInit => RecordsInv
  BY DEF DInit, Init, DiagnosticsInit, RecordsInv, NothingRecorded,
         ZerosAreControls, ActedHasReason, RecordsAreOperations
<1>2. EngineInv /\ RecordsInv /\ [DNext]_dvars => RecordsInv'
  BY RecordsNext
<1> QED
  BY <1>1, <1>2, InteractionsHold, PTL DEF DSpec

(* In a program that follows its tables, a gate reported for controls that *)
(* were always zero has never changed the state: not in another call of    *)
(* the gate it lies in, in an earlier run, or in a run that was taken back.*)
THEOREM ReportsCorrect ==
  ASSUME ~Switching
  PROVE  DSpec => [](FollowsTables(Table) => ReportedGateNeverActed)
<1>1. EngineInv /\ RecordsInv
        => (FollowsTables(Table) => ReportedGateNeverActed)
  BY ReportsAreTrue
<1> QED
  BY <1>1, RecordsHold, InteractionsHold, PTL

(* In such a program the qubits recorded for a gate are those of an        *)
(* operation of the circuit, and every operation behind the iterator is    *)
(* recorded, backward steps, resets and loads included.                    *)
THEOREM RecordsCorrect ==
  ASSUME ~Switching
  PROVE  DSpec => [](FollowsTables(Table) => RecordsMatchCircuit)
<1>1. EngineInv /\ RecordsInv /\ InteractionInv
        => (FollowsTables(Table) => RecordsMatchCircuit)
  BY RecordsMatch
<1> QED
  BY <1>1, RecordsHold, InteractionsHold, PTL

(* Where a failed entanglement assertion is explained by an interaction    *)
(* that is missing, the two qubits are not entangled: whatever was stepped *)
(* forward and back, reset and loaded since, a program that was loaded     *)
(* before included, whose records can only make for fewer reports.         *)
THEOREM MissingInteractionCorrect ==
  DSpec => [](FollowsTables(Table) => MissingInteractionIsReal)
<1>1. EngineInv /\ InteractionInv
        => (FollowsTables(Table) => MissingInteractionIsReal)
  BY MissingIsReal
<1> QED
  BY <1>1, InteractionsHold, PTL

(* The pairs suggested for a failed entanglement assertion on two qubits   *)
(* that was reached in one way connect them, however often it has failed:  *)
(* the search for a path always leads back to where it began, and what it  *)
(* finds unambiguous is complete.                                          *)
THEOREM SuggestionsCorrect ==
  ASSUME ~Switching
  PROVE  DSpec => [](FollowsTables(Table) => SuggestionsConnect)
<1>1. DInit => SuggestionInv
  BY DEF DInit, Init, DiagnosticsInit, SuggestionInv, RecordsNameWires,
         SuggestedForReached, SuggestedConnect
<1>2. EngineInv /\ InteractionInv' /\ SuggestionInv /\ [DNext]_dvars
        => SuggestionInv'
  BY SuggestionNext
<1>3. SuggestionInv => (FollowsTables(Table) => SuggestionsConnect)
  BY DEF SuggestionInv, SuggestedConnect, SuggestedFor, SuggestionsConnect
<1> QED
  BY <1>1, <1>2, <1>3, InteractionsHold, PTL DEF DSpec

=============================================================================
