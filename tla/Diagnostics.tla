---------------------------- MODULE Diagnostics ----------------------------
(***************************************************************************)
(* What the diagnostics (src/src/backend/dd/DDSimDiagnostics.cpp) learn    *)
(* while the engine of DDSimDebug runs, and what they make of it: error    *)
(* causes, gates whose controls were always zero, assertions to move and   *)
(* new assertions. Every action is a call of the C interface of the engine *)
(* together with the calls it makes into the diagnostics.                  *)
(***************************************************************************)
EXTENDS DDSimDebug, DataDependencies, AssertionMovement, AssertionChecks

CONSTANTS
  MaxMovements, \* bound on the assertions to move, which every load adds to
  Switching     \* may the client load another program than before?

ASSUME DiagnosticsBounds == MaxMovements \in Nat /\ Switching \in BOOLEAN

VARIABLES
  actualQubits,          \* <<instruction, the qubits it was run with>>
  zeroControls,          \* <<instruction, control that was always zero>>
  nonZeroControls,       \* <<instruction, control that was not>>
  assertionsToMove,      \* sequence of <<from, to>>
  assertionsEntToInsert, \* <<failed assertion, pair of names, position>>
  assertionsEqToInsert,  \* <<failed assertion, part of its state>>
  acted                  \* instructions that have changed the state (history)

records == <<actualQubits, zeroControls, nonZeroControls, acted>>
suggestions == <<assertionsEntToInsert, assertionsEqToInsert>>
diagnostics == <<records, assertionsToMove, suggestions>>
dvars == <<vars, diagnostics>>

-----------------------------------------------------------------------------
(* dddiagnosticsOnStepForward.                                             *)

(* What a name stands for in the innermost call, then in the one around    *)
(* it, and so on.                                                          *)
ResolvedBy(p, call, v) ==
  IF v \in DOMAIN p.substitution[call] THEN p.substitution[call][v] ELSE v

QubitNamed(p, calls, v) ==
  p.qubit[FoldRight(LAMBDA call, w : ResolvedBy(p, call, w), calls, v)]

(* Mutant of VariableToQubit: begins with the outermost call.              *)
VariableToQubitOutermost(v) ==
  Table.qubit[FoldLeft(LAMBDA w, call : ResolvedBy(Table, call, w), v,
                       callReturnStack)]

VariableToQubit(v) == QubitNamed(Table, callReturnStack, v)

TargetQubits(i) ==
  [m \in DOMAIN Table.targets[i] |-> VariableToQubit(Table.targets[i][m])]

(* The controls of an operation of the circuit; a condition is none.       *)
IsControlled(op) == op.kind = "gate" /\ op.gate[1] = "cx"
Controls(op) == IF IsControlled(op) THEN {op.gate[2][1]} ELSE {}

(* Controls are looked up in the operation under the iterator.             *)
ControlsOf(i) ==
  IF TypeOf(i) = "SIMULATE" /\ iterator < Len(Code[circuit].ops)
  THEN Controls(NextOperation) ELSE {}

IsZeroIn(s, q) == \A k \in Support(s) : Bit(k, q) = 0
IsAlwaysZero(q) == IsZeroIn(simulationState, q)

(* Mutant of OnStepForward: a control is not looked at again once it was   *)
(* zero.                                                                   *)
OnFirstStepForward ==
  LET i == currentInstruction
      known == {c[2] : c \in {c \in zeroControls : c[1] = i}}
  IN  /\ actualQubits' =
           IF TypeOf(i) \in {"SIMULATE", "CALL", "ASSERTION"}
           THEN actualQubits \cup {<<i, TargetQubits(i)>>} ELSE actualQubits
      /\ zeroControls' = zeroControls \cup
           {<<i, q>> : q \in {q \in ControlsOf(i) \ known : IsAlwaysZero(q)}}
      /\ nonZeroControls' = nonZeroControls \cup
           {<<i, q>> : q \in {q \in ControlsOf(i) \ known : ~IsAlwaysZero(q)}}
      /\ acted' = IF simulationState' = simulationState THEN acted
                                                        ELSE acted \cup {i}

(* It runs first in every forward step that is not refused, so the state   *)
(* is the one before the step.                                             *)
OnStepForward ==
  LET i == currentInstruction
  IN  /\ actualQubits' =
           IF TypeOf(i) \in {"SIMULATE", "CALL", "ASSERTION"}
           THEN actualQubits \cup {<<i, TargetQubits(i)>>} ELSE actualQubits
      /\ zeroControls' = zeroControls \cup
           {<<i, q>> : q \in {q \in ControlsOf(i) : IsAlwaysZero(q)}}
      /\ nonZeroControls' = nonZeroControls \cup
           {<<i, q>> : q \in {q \in ControlsOf(i) : ~IsAlwaysZero(q)}}
      /\ acted' = IF simulationState' = simulationState THEN acted
                                                        ELSE acted \cup {i}

(* A gate whose control is zero does nothing: what it is to be a control.  *)
ASSUME ControlsDecide ==
  \A g \in Gates, s \in QStates :
    g[1] = "cx" /\ IsZeroIn(s, g[2][1]) => Act[g][s] = s

(* The importer makes one gate of an instruction, in whatever calls, and   *)
(* inlines a call by renaming: the gate acts on the qubits that the        *)
(* targets of the instruction name there. A condition not met skips it.    *)
ASSUME CircuitNamesQubits ==
  \A p \in Programs : FollowsTables(Code[p]) =>
    LET ops == Code[p].ops
        Names(k) == Code[p].targets[ops[k].at]
    IN  /\ \A j, k \in DOMAIN ops : ops[j].at = ops[k].at =>
             /\ ops[j].kind = ops[k].kind
             /\ IsControlled(ops[j]) <=> IsControlled(ops[k])
        /\ \A k \in DOMAIN ops : ops[k].kind \in {"gate", "if"} =>
             ops[k].gate[2] =
               [m \in DOMAIN Names(k) |->
                  QubitNamed(Code[p], ops[k].frames, Names(k)[m])]
        /\ \A k \in DOMAIN ops : ops[k].kind = "if" => ops[k].otherwise = Identity

GetZeroControlInstructions ==
  {c[1] : c \in zeroControls} \ {c[1] : c \in nonZeroControls}

(* Every operation and assertion the loader accepts names qubits of the    *)
(* program, in all the calls it is reached through.                        *)
Wires == Qubits(ZeroState)

ASSUME TargetsAreQubits ==
  \A p \in Programs : FollowsTables(Code[p]) =>
    LET t == Code[p]
        at == Journey(t, MaxSteps)
        HasTargets(k) ==
          at[k].pos < t.n /\ t.type[at[k].pos] \in {"SIMULATE", "ASSERTION"}
    IN  \A k \in {k \in 0 .. MaxSteps : HasTargets(k)} :
          LET names == t.targets[at[k].pos]
          IN  /\ names \in Seq(Range(names))
              /\ \A v \in Range(names) : QubitNamed(t, at[k].calls, v) \in Wires

-----------------------------------------------------------------------------
(* What it takes to entangle.                                              *)

(* The basis state with the bits of l at the qubits in A, of k elsewhere.  *)
Mixed(k, l, A) ==
  MapThenSumSet(LAMBDA q : Bit(IF q \in A THEN l ELSE k, q) * 2^q, Wires)

(* The state is the product of one of the qubits in A and one of the rest: *)
(* what is exchanged between two of its terms leaves their product.        *)
IsProduct(v, A) ==
  \A k, l \in Support(v) :
    ComplexMultiplication(v[k], v[l]) =
      ComplexMultiplication(v[Mixed(k, l, A)], v[Mixed(l, k, A)])

(* Some of the qubits lie in A and some do not.                            *)
Crosses(qubits, A) == qubits \cap A # {} /\ ~(qubits \cap Wires \subseteq A)

(* A product comes apart, and is made, by gates across the two parts only, *)
(* never by a measurement or a reset, and no two qubits are entangled in   *)
(* it across the parts.                                                    *)
ASSUME EntanglementNeedsGates ==
  /\ IsFiniteSet(Wires)
  /\ \A A \in SUBSET Wires :
       LET Products == {s \in QStates : IsProduct(s, A)}
       IN  /\ ZeroState \in Products
           /\ \A g \in {g \in Gates : ~Crosses(Range(g[2]), A)} :
                \A s \in QStates : s \in Products <=> Act[g][s] \in Products
           /\ \A p \in Programs : \A k \in DOMAIN Code[p].ops :
                Code[p].ops[k].kind \in {"measure", "reset"} =>
                  \A s \in Products : \A outcome \in Code[p].ops[k].collapse[s] :
                    outcome.state \in Products
           /\ \A a \in A, b \in Wires \ A, s \in Products :
                ~AreQubitsEntangled(s, a, b) /\ ~AreQubitsEntangled(s, b, a)

-----------------------------------------------------------------------------
(* Interactions at runtime.                                                *)

Simulated(recorded) ==
  {r \in recorded : r[1] < Table.n /\ TypeOf(r[1]) = "SIMULATE"}

(* Mutant of GetInteractionsAtRuntime: partners of the qubit itself only.  *)
GetPartnersAtRuntime(recorded, qubit) ==
  {qubit} \cup UNION {g \in {Range(r[2]) : r \in Simulated(recorded)} : qubit \in g}

GetInteractionsAtRuntime(recorded, qubit) ==
  Connected({Range(r[2]) : r \in Simulated(recorded)}, qubit)

(* Its edges: two qubits and the instruction that brought them together.   *)
GetInteractionTreeAtRuntime(recorded, qubit) ==
  LET tree == GetInteractionsAtRuntime(recorded, qubit)
  IN  UNION {{<<pair, r[1]>> : pair \in kSubset(2, Range(r[2]) \cap tree)} :
               r \in Simulated(recorded)}

(* potentialErrorCauses, when the client gives room for all of them.       *)
MissingInteractions ==
  LET i == lastFailedAssertion
      qubits == TargetQubits(i)
  IN  IF Table.lines[i].asserts # "ent" THEN {}
      ELSE {pair \in kSubset(2, Range(qubits)) :
              \E a \in pair :
                pair \ GetInteractionsAtRuntime(actualQubits, a) # {}}

ZeroControlCauses ==
  GetDataDependencies(Table, lastFailedAssertion, TRUE)
    \cap GetZeroControlInstructions

PotentialErrorCauses ==
  IF lastFailedAssertion = NoInstruction THEN {}
  ELSE {<<"MissingInteraction", lastFailedAssertion, pair>> :
          pair \in MissingInteractions}
         \cup {<<"ControlAlwaysZero", i>> : i \in ZeroControlCauses}

-----------------------------------------------------------------------------
(* dddiagnosticsOnFailedAssertion: new assertions.                         *)

Neighbours(graph, q) == UNION {e[1] : e \in {e \in graph : q \in e[1]}} \ {q}

(* Breadth first, lower qubits first: the queue is made of the qubits that *)
(* were reached together. A qubit remembers the first edge it was reached  *)
(* by, and is ambiguous when another instruction reaches it, from wherever *)
(* the search has been: it ends at the end of the path.                    *)
Together(qubits) == IF qubits = {} THEN <<>> ELSE <<qubits>>

InstructionsBetween(graph, search, current, q) ==
  {e[2] : e \in {e \in graph :
     /\ e[1] = {current, q}
     /\ current \in DOMAIN search.predecessors =>
          e # <<{search.predecessors[current][1], current},
                search.predecessors[current][2]>>}}

Reaches(search, current, By) ==
  LET known == DOMAIN search.predecessors
      reached == {q \in DOMAIN By : By[q] # {}}
      predecessors == [q \in known \cup reached |->
                         IF q \in known THEN search.predecessors[q]
                                        ELSE <<current, Min(By[q])>>]
      waiting == {current} \cup UNION Range(search.toVisit)
  IN  [toVisit |-> Together(Head(search.toVisit) \ {current})
                     \o Tail(search.toVisit)
                     \o Together(reached \ (search.visited \cup waiting)),
       visited |-> search.visited \cup {current},
       predecessors |-> predecessors,
       multiplePredecessors |->
         search.multiplePredecessors
           \cup {q \in reached : By[q] # {predecessors[q][2]}}]

Visit(graph, search, current) ==
  Reaches(search, current,
          [q \in Neighbours(graph, current) |->
             InstructionsBetween(graph, search, current, q)])

SearchFurther(graph, search, end) ==
  IF search.toVisit = <<>> \/ Min(Head(search.toVisit)) = end THEN search
  ELSE Visit(graph, search, Min(Head(search.toVisit)))

SearchPath(graph, start, end) ==
  LET Search[k \in 0 .. Cardinality(graph) + 1] ==
        IF k = 0
        THEN [toVisit |-> <<{start}>>, visited |-> {}, predecessors |-> <<>>,
              multiplePredecessors |-> {}]
        ELSE SearchFurther(graph, Search[k - 1], end)
  IN  Search[Cardinality(graph) + 1]

(* The edges from end back to start.                                       *)
Trail(predecessors, start, end) ==
  LET From[q \in DOMAIN predecessors \cup {start}] ==
        IF q = start THEN {}
        ELSE {<<{predecessors[q][1], q}, predecessors[q][2]>>}
               \cup From[predecessors[q][1]]
  IN  From[end]

(* None when a qubit on the way (but the start) is ambiguous.              *)
Unambiguous(trail, ambiguous) ==
  IF UNION {e[1] : e \in trail} \cap ambiguous # {} THEN {} ELSE trail

UniquePath(search, start, end) ==
  IF end \notin DOMAIN search.predecessors THEN {}
  ELSE Unambiguous(Trail(search.predecessors, start, end),
                   search.multiplePredecessors \ {start})

(* Mutant of FindUniquePath: leaves out the edge at the start.             *)
FindPathTail(graph, start, end) ==
  {e \in UniquePath(SearchPath(graph, start, end), start, end) : start \notin e[1]}

FindUniquePath(graph, start, end) ==
  UniquePath(SearchPath(graph, start, end), start, end)

NameOf(q) == CHOOSE v \in DOMAIN Table.qubit : Table.qubit[v] = q

(* What all the ways to this assertion have in common.                     *)
CommonEdges(paths) == {e \in UNION paths : \A path \in paths : e \in path}

CommonPath(recorded, i) ==
  CommonEdges({FindUniquePath(GetInteractionTreeAtRuntime(recorded, r[2][2]),
                              r[2][1], r[2][2]) :
                 r \in {r \in recorded : r[1] = i}})

(* A larger entanglement assertion is split into pairs at its own place;   *)
(* one of two qubits suggests the pairs on the path between them, each     *)
(* behind the instruction that brought the pair together.                  *)
SuggestBasedOnFailedEntanglementAssertion(recorded, i) ==
  IF Len(Table.targets[i]) # 2
  THEN {<<i, pair, i>> : pair \in kSubset(2, Range(Table.targets[i]))}
  ELSE {<<i, {NameOf(q) : q \in e[1]}, e[2] + 1>> : e \in CommonPath(recorded, i)}

(* One qubit remains.                                                      *)
SomeRemain(separable, qubits) ==
  IF separable = qubits THEN separable \ {Max(qubits)} ELSE separable

SeparableQubits(v) ==
  SomeRemain({q \in Qubits(v) : PartialTraceIsPure(v, {q})}, Qubits(v))

(* A part of an equality assertion: the targets at some places, and their  *)
(* sub-state.                                                              *)
Part(assertion, names, places) ==
  [asserts |-> "eq", similarity |-> assertion.similarity,
   state |-> SubStateVectorAmplitudes(assertion.state, places),
   targets |-> [m \in 1 .. Cardinality(places) |->
                  names[SetToSortSeq(places, <)[m] + 1]]]

(* Mutant of SplitInto: the qubits that remain are forgotten.              *)
SplitWithoutRest(separable, qubits) == {{q} : q \in separable}

SplitInto(separable, qubits) ==
  IF separable = {} THEN {} ELSE {{q} : q \in separable} \cup {qubits \ separable}

SuggestSplitEqualityAssertion(i) ==
  LET assertion == Table.lines[i]
  IN  {<<i, Part(assertion, Table.targets[i], places)>> :
         places \in SplitInto(SeparableQubits(assertion.state),
                             Qubits(assertion.state))}

(* Called after OnStepForward and before the engine steps back.            *)
OnFailedAssertion(i) ==
  /\ assertionsEntToInsert' =
       IF Table.lines[i].asserts # "ent" THEN assertionsEntToInsert
       ELSE assertionsEntToInsert
              \cup SuggestBasedOnFailedEntanglementAssertion(actualQubits', i)
  /\ assertionsEqToInsert' =
       IF Table.lines[i].asserts # "eq" THEN assertionsEqToInsert
       ELSE assertionsEqToInsert \cup SuggestSplitEqualityAssertion(i)

-----------------------------------------------------------------------------
(* dddiagnosticsOnCodePreprocessing: every load adds to the list.          *)

OnCodePreprocessing(p) ==
  assertionsToMove' =
    assertionsToMove
      \o SetToSortSeq(AssertionsToMove(Code[p]), LAMBDA m, k : m[1] < k[1])

-----------------------------------------------------------------------------

(* init; no load and no reset clears anything again.                       *)
DiagnosticsInit ==
  /\ actualQubits = {} /\ zeroControls = {} /\ nonZeroControls = {}
  /\ assertionsToMove = <<>>
  /\ assertionsEntToInsert = {} /\ assertionsEqToInsert = {}
  /\ acted = {}

(* The assertion the step has just found to fail.                          *)
FailsNow ==
  /\ lastFailedAssertion # currentInstruction
  /\ lastFailedAssertion' = currentInstruction

ObservedStepForward ==
  /\ StepForward
  /\ IF CanStepForward THEN OnStepForward ELSE UNCHANGED records
  /\ IF FailsNow THEN OnFailedAssertion(currentInstruction)
     ELSE UNCHANGED suggestions
  /\ UNCHANGED assertionsToMove

(* The history is one of the loaded program.                               *)
ObservedLoad(p) ==
  /\ Switching \/ prog \in {NoProgram, p}
  /\ Len(assertionsToMove) < MaxMovements
  /\ (p \in Programs /\ LoadCode(p)) \/ LoadRejected(p)
  /\ OnCodePreprocessing(p)
  /\ acted' = IF p = prog THEN acted ELSE {}
  /\ UNCHANGED <<actualQubits, zeroControls, nonZeroControls, suggestions>>

DInit == Init /\ DiagnosticsInit

DNext ==
  /\ Alive
  /\ \/ ObservedStepForward
     \/ \E p \in Programs \cup {NoProgram} : ObservedLoad(p)
     \/ StepBackward /\ UNCHANGED diagnostics
     \/ ResetSimulation /\ UNCHANGED diagnostics

DSpec == DInit /\ [][DNext]_dvars

-----------------------------------------------------------------------------
(* Properties.                                                             *)

(* A gate that is reported to have had only controls that were zero has    *)
(* never changed the state, in no call, not in an earlier run and not in a *)
(* run that was taken back: without it nothing would be different          *)
(* (getZeroControlInstructions and the causes made from it).               *)
ReportedGateNeverActed == GetZeroControlInstructions \cap acted = {}

(* The qubits that were recorded for a gate by resolving names through the *)
(* call stack are those of an operation the importer made of it, and every *)
(* operation behind the iterator was recorded.                             *)
RecordsMatchCircuit ==
  ready =>
    LET Placed(ks) == {<<Operation(k).at, Operation(k).gate[2]>> :
                        k \in {k \in ks : Operation(k).kind = "gate"}}
        kept == {<<r[1], r[2]>> :
                   r \in {r \in actualQubits :
                            \E k \in DOMAIN Code[circuit].ops :
                              Operation(k).at = r[1] /\ Operation(k).kind = "gate"}}
    IN  /\ Placed(1 .. iterator) \subseteq kept
        /\ kept \subseteq Placed(DOMAIN Code[circuit].ops)

(* Where an interaction is said to be missing at the failed assertion,     *)
(* there is no entanglement: docs/diagnosis.md:34, "clearly, no            *)
(* entanglement can be prepared".                                          *)
MissingInteractionIsReal ==
  ready =>
    \A cause \in {c \in PotentialErrorCauses : c[1] = "MissingInteraction"} :
      \A a, b \in cause[3] : a # b => ~AreQubitsEntangled(simulationState, a, b)

(* The pairs suggested for an assertion of two qubits that was reached in  *)
(* one way only connect its qubits: were all of them entangled one after   *)
(* the other, so would be the qubits of the assertion.                     *)
SuggestionsConnect ==
  ready =>
    \A r \in actualQubits :
      LET suggested == {s[2] : s \in {s \in assertionsEntToInsert : s[1] = r[1]}}
          reachedOnce == \A s \in actualQubits : s[1] = r[1] => s = r
      IN  suggested # {} /\ Len(r[2]) = 2 /\ reachedOnce =>
            NameOf(r[2][2]) \in Connected(suggested, NameOf(r[2][1]))

(* An assertion and the parts it is split into say the same of every state *)
(* (similarity 1, targets in order).                                       *)
Holds(assertion, v) ==
  CheckAssertion(assertion,
                 [m \in DOMAIN assertion.targets |->
                    Table.qubit[assertion.targets[m]]], v) = "holds"

Parts(i) == {s[2] : s \in {s \in assertionsEqToInsert : s[1] = i}}

SplitIsEquivalent ==
  [][\A i \in {s[1] : s \in assertionsEqToInsert' \ assertionsEqToInsert} :
       \A v \in QStates :
         Holds([Table.lines[i] EXCEPT !.targets = Table.targets[i]], v)
           <=> \A part \in Parts(i)' : Holds(part, v)]_dvars

=============================================================================
