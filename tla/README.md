# A TLA+ development of the MQT Debugger

The MQT Debugger steps through OpenQASM programs with assertions, forward and
backward, on a simulator, and serves IDEs over the Debug Adapter Protocol. This
directory holds TLA+ models of its parts, TLC configurations that check them on
small instances, and TLAPS proofs for every instance. Source paths are relative
to `src/`.

## 1. The system

| Component | State | Operations | Correct when |
|---|---|---|---|
| Preprocessor (`src/common/parsing/CodePreprocessing.cpp`, `DDSimDebug.cpp` 1779-1920) | tables of the loaded program: instruction types, successors, gate bodies | `preprocessCode`, `preprocessAssertionCode` | calls lead to bodies, every body ends in one RETURN, and running by the tables meets the operations of the flattened circuit in order |
| Simulation engine (`src/backend/dd/DDSimDebug.cpp`) | instruction pointer, three stacks (`previousInstructionStack`, `callReturnStack`, `restoreCallReturnStack`), circuit iterator, state vector, classical bits, breakpoints, two marks | `stepForward`, `stepBackward`, load, reset, breakpoints, edits | the call stack is the nesting of gate bodies; a step back undoes the step forward; the iterator stays at the instruction |
| Execution commands (same file, 877-979 and 1257-1339) | a loop's locals, `paused` | run, run back, runAll, step over, step out (both ways), pause | they end in the right frame, miss no breakpoint or failure, obey a pause, and return |
| Assertion evaluation | the map of assertions | `checkAssertion` | a failing assertion stops the program before it, once |
| Diagnostics (`DDSimDiagnostics.cpp`, `AssertionTools.cpp`) | recorded controls and qubits, suggested movements and new assertions | hooks in step, load and failing assertion; dependencies, interactions, error causes, suggestions | the cone of influence leaves out nothing that matters and nothing else than the past; interactions are complete; records fit the circuit; a reported cause is one; a suggested assertion claims what the failed one did |
| Assertion compiler (`compileStatisticalSlice`) | none between calls | `compile` | an assertion is cancelled only if others make it sure; every other one is measured in one slice, and reads there what it would read alone |
| DAP server (`python/mqt/debugger/dap/`) | socket buffers; engine; source file, `can_step_back`, `_prevent_exit`, `pending_highlights` | 25 requests, events after each | messages are handled once and in order; the client's picture of the engine is true; no reasonable request ends the session |
| Assertion checks and complex mathematics (`ComplexMathematics.cpp`, `AssertionParsing.cpp`) | none | verdict of an assertion, partial traces, implication | judged by the slices and the diagnostics, which rest on them |
| Front ends and helpers (CLI, bindings, string utilities, runtime check) | none, or that of the caller | forwarding, formatting | out of scope (section 8) |

**How they interact.** A front end (CLI, Python, DAP server) calls the C
interface of the engine synchronously. `loadCode` runs the preprocessor, which
fills the engine's tables, and the importer of MQT Core, which makes the
flattened circuit. From then on the engine keeps two positions that nothing
ties together: the instruction pointer with its stacks, and the iterator in the
circuit. A step checks assertions, records itself in the diagnostics, and
leaves marks (`lastFailedAssertion`, `lastMetBreakpoint`) that the commands and
the DAP server read afterwards. `paused` is the one variable another thread
writes.

**What is hard.** Stepping back is never told where it came from; it
reconstructs the call stack from a stack of returns. Measurements cut that
history. Failing assertions step forward and back in one call. Exceptions leave
steps half made. Commands decide to stop by stack depths and marks left by
single steps, under a pause that may come at any turn. Requests of a client
arrive in any order, in chunks of any size, and a failed call ends the session.
`PROJECT.json` lists these hazards with their lines and the properties that
address them.

## 2. The modules

    QuantumPrograms <- ControlFlow <- DDSimDebug <- DDSimHistory   (=> TimeTravel)
                                          ^
                                          +-- DDSimControl <- DAPServer
    CodePreprocessing <- PreprocessingCheck                    DAPFraming
         ^
         +-- QubitPrograms <- DataDependencies  <-+
                           <- AssertionMovement <-+-- StaticAnalysis <-+
    ComplexMathematics <- AssertionChecks <- AssertionSlices  <--------+-- SliceCheck
                                          QubitStates  <---------------+
    DDSimDebug, DataDependencies, AssertionMovement, AssertionChecks <- Diagnostics

- `QuantumPrograms`: the tables of a loaded program as a record, what the
  preprocessor promises of them (`WellFormed`), and the quantum data as
  constants: a set of states, gates that permute it, measurements that choose
  among outcomes. The reversibility of gates is an assumption
  (`GatesAreReversible`).
- `ControlFlow`: the pointer and stack part of `stepForward` and `stepBackward`
  as functions `Forward` and `Backward` on a flow record; `Nested` and `IsPath`
  say what a flow should be.
- `DDSimDebug`: the engine. One action per way a call of `stepForward` or
  `stepBackward` can go, the undefined ones included (`result = "CRASHED"`: a
  null assertion or the end iterator is dereferenced), and load, rejected load,
  reset, breakpoints and edits. A rejected load keeps exactly what the code
  keeps: circuit, iterator, state, marks, breakpoints.
- `DDSimHistory`: the engine with history variables for the places and states
  the client came through. `TimeTravel` is the abstract promise, a debugger that
  remembers its whole way, and `ImplementsTimeTravel` the refinement mapping.
- `DDSimControl`: the command loops, one action per turn, and
  `pauseSimulation` at any moment. The flag is read once per turn, so a turn is
  atomic with respect to it.
- `CodePreprocessing`: line numbering, definitions, RETURNs, successors,
  callees and instruction types as functions of abstract source statements;
  `PreprocessingCheck` writes every short program statement by statement.
- `DAPFraming`: the reading loop of `handle_client` on a stream of headers and
  bodies cut into arbitrary chunks.
- `DAPServer`: the requests. A request is a list of engine calls, the engine's
  actions of `DDSimControl`; an unhandled exception ends the session; then the
  response and events are derived from the engine as `handle_client` and
  `regular_checks` do. `handler` is the call being made, those still to make and
  whether the request was reasonable; `told` is what the client heard.
- `QubitPrograms`: source code that names qubits, and what loading computes
  because of the names: targets with registers unfolded, substitutions of
  calls, the data dependencies of single lines, and the flattened circuit with
  the qubits its operations act on.
- `DataDependencies`: `getDataDependencies` with its worklist over calls and
  callers, and `getInteractions`.
- `AssertionMovement`: the commutation rules of `AssertionTools.cpp` and the
  scan of `dddiagnosticsOnCodePreprocessing`.
- `StaticAnalysis`: writes every short program and compares these three with
  definitions that know nothing of lines: influence and interaction on the
  flattened operations, and the verdict of an assertion on quantum states.
- `ComplexMathematics`: the partial trace and the sub-state of
  `ComplexMathematics.cpp`, on amplitudes that are Gaussian integers up to a
  common factor. As in the code, the products of the trace are not conjugated.
- `AssertionChecks`: the verdict of each kind of assertion on such a state, and
  `implies`, including the comparison of two equalities that throws.
- `AssertionSlices`: `compile`. Each kept, cancelled or throwing assertion is
  one turn of the loop that builds a slice; a slice is the list of assertions
  it measures and of those it leaves out. `SliceCheck` executes programs and
  slices with all outcomes of measurements in parallel and compares them.
- `Diagnostics`: the engine with what the diagnostics record of it. Every action
  is an action of `DDSimDebug` with the hook it calls. `acted`, a history
  variable, holds the instructions that have changed the state.
- `QubitStates`: gates, measurements and projections on such states.
- `MC*`, `SmallQuantum`, `TwoQubits`, `ThreeQubits`, `FailingPrograms`: instances. `SmallQuantum` takes the six permutations of
  three points as states, so gates do not commute and applying, inverting or
  ordering them wrongly shows. `TwoQubits` has the 60 stabilizer states of two
  qubits, exactly, so superposition and entanglement are what they are; `ThreeQubits` the
  states three qubits reach by `h`, `x` and `cx`. `FailingPrograms` follows the
  programs of `test_diagnostics.cpp` and `test_assertion_creation.cpp`.
  `MCPrograms` writes the programs as source, after
  the repository's tests, and preprocesses them with `CodePreprocessing`.
- `*_proofs`: theorems and proofs, eight modules: `ControlFlow_proofs`,
  `PreprocessingCheck_proofs`, `SliceCheck_proofs`, `DDSimDebug_proofs`,
  `DDSimHistory_proofs`, `Diagnostics_proofs`, `DAPServer_proofs` (which begins
  with the commands of `DDSimControl`, the module the server extends) and
  `DAPFraming_proofs`. A proof about a module that extends another cites the
  invariants proved there.

Variables and actions keep the names of the code. Definitions marked `mutant`
are plausible mistakes, each kept beside the definition it replaces; they occur
in no specification and serve to confirm that the properties notice them.

## 3. Abstractions

- The state vector is one of finitely many states, in the
  engine an assertion is the set of states it holds in and the set in which its
  check throws (an equality assertion on an entangled sub-state). The decision
  itself is `AssertionChecks`; the diagnostics run takes the sets from there.
- Amplitudes are exact. Tolerances (`1e-6`, similarity rounded up from 0.99999)
  are taken for exact comparison.
- A source statement is a record naming what the preprocessor distinguishes.
  Names that the text-level code recognises wrongly are modelled by their
  effect: a call with angles is no call to the preprocessor and one to the
  importer (`anglecall`).
- A measured or reset qubit has a set of outcomes per state.
- A breakpoint is set at the instruction a source position resolves to.
- A DAP message is its header and its body, a request its name and the
  arguments its handler branches on.

## 4. The runs

Passing runs:

| Run | Instance | Shows |
|---|---|---|
| `history` | five programs (failing assertions in nested gates, all kinds of operations, an assertion whose check throws, an unsupported condition, a constant), one breakpoint, edits of bits and amplitudes | `TypeOK`; the call stack is the nesting of gate bodies; the places kept are a path and a step back leads to the last of them; a step back restores the quantum state unless it was edited; the iterator is at the operation of the current instruction (`IteratorInStep`, for programs that follow their tables); the engine implements `TimeTravel` |
| `control` | failing assertions in gates called twice from inside another, edits, one breakpoint, one pause per command | the commands end in the frame they should, behind or at the call they should, miss no breakpoint or failing assertion, and obey a pause; `runAll` counts right; every command returns |
| `preprocessing` | all programs of up to four statements over two gates that may call each other | well-formed tables; the tables' execution order is that of the flattened circuit; back undoes forward everywhere |
| `framing` | three messages, chunks of up to 7 tokens, none ending in a header | each message is handled once, in order; none stays behind |
| `dap` | an assertion that fails on its second pass, two calls deep, one breakpoint, one pause, any requests, a fair server | what the client was told stays true; the failure mark is never stale; the end of the program is announced; a reasonable request of a stopped client never ends the session (stepping, running, looking, setting a variable, restarting the frame of a gate, and running back where there is a way back: see section 6 for the others); `restartFrame` arrives; every request is answered or ends the session |
| `static` | all programs of up to four statements over two qubits, a bit and three gates, of which one calls the other two | the cone of influence contains all that influences an instruction within its scope (`ConeIsFound`) and only what was executed before it (`ConeIsPast`); interactions are complete up to the nearest definition; no suggested movement leaves its gate or changes a verdict, for any state, placement of the gate's parameters, outcome of a condition |
| `slices` | all programs of up to four statements on two qubits: gates, a call, a measurement, a condition and eight assertions of every kind, some implying others | every assertion that is not cancelled is measured once, in order, at each optimization level; one that is cancelled cannot fail when the others hold, unless an equality below full similarity is wrongly taken to imply it or another (section 6); what is read for an assertion in a slice is what is read for it alone (`SlicesReadTrue`) |
| `diagnostics` | nine programs on three qubits whose assertions fail, hold or throw, stepped in both directions, reset and loaded again | a gate reported as never active never was, in any run; the recorded qubits are those of the circuit; where an interaction is reported missing there is no entanglement; the pairs suggested for a failed assertion connect its qubits; a split equality means what the whole did |

Why the bounds are enough: the programs have calls nested three deep, the same
gate called from two places, forward references, two assertions in a row, one
that fails only on its second pass, and every kind of operation; a client's
sequence of steps is not bounded at all, since the state space is finite. One
breakpoint is enough for a property about "the next" breakpoint; two would only
add stops. One pause per command reaches every turn of every loop. Four
statements allow two definitions that call each other and two uses, or a
definition, an assertion and two instructions to move over. Two qubits make the
smallest state with entanglement; a gate on three parameters that is never
called makes interactions that need two passes. Four statements of `slices` are two
assertions and what lies between and before them, or three and one operation.
The programs of `diagnostics` are three qubits wide because an indirect
interaction needs a third; they are loaded up to three times (`MaxMovements`),
so records of a run meet those of the next, and one program at a time
(`Switching` is `FALSE`: see section 6). The program sizes are small
because the stacks carry the whole history. `MCHistory` assumes, and TLC so
evaluates, that the model steps through `complex-jumps.qasm` in the order
`test_simulation.cpp` expects.

Runs that refute a statement of the repository are in section 6.

## 5. Fairness

`CFairSpec` assumes weak fairness of the turn of a running command: the thread
in the loop keeps being scheduled. `DFairSpec` assumes the same of the server's
one thread while a request is under way, and `DAPFraming` of the reading loop.
No fairness is assumed of a client: it may never send, pause or continue. The
liveness results are conditional on the engine not having crashed (`Alive`).

## 6. Disagreements between the code and what the repository says

| Run | Statement | What the code does |
|---|---|---|
| `lost_assertion` | the map holds "all assertion" instructions | a check that throws leaves a null entry; the next check of it crashes |
| `pause_run_all` | a paused execution "will stop as soon as possible" (`debug.h`) | `runAll` restarts the inner run |
| `framing_split` | `handle_client` handles incoming messages | a chunk that ends in or right behind a header is taken for a message, and the JSON parser ends the server |
| `circuit_slices` | slices collect assertions "with measurements that do not interfere with each other" (`docs/runtime_verification.md`, line 21) | a circuit assertion joins a slice that has measured its qubits already, and reads what that measurement left: only operations between two assertions are looked at |

Met while modelling, described here and checked by no run:

- a call of a custom gate with angles is one SIMULATE instruction and several
  operations, so the iterator and the instruction drift apart, though the
  iterator is "the current instruction in the simulation" (`DDSimDebug.hpp`);
- with `includeCallers`, "all possible callers of the custom gate will also be
  included" (`diagnostics.h`), but callers are added only when the search visits
  the first line of the gate's body;
- a condition other than equality throws after the step was recorded and before
  the iterator moved, so the two drift apart as well;
- a reset "will reset measured variables" (`debug.h`), but the classical bits
  keep their values;
- `reverseContinue` runs back without asking whether there is a way back
  (`reverse_continue_dap_message.py:46`; `stepBack` asks first). At the entry of a
  program, or behind a measurement or a reset, the engine refuses
  (`DDSimDebug.cpp:1301`), the binding raises and the session of a stopped client
  ends, although `"supportsStepBack": True` was announced to it
  (`messages/utils.py:30`). The capabilities event of `regular_checks` that would
  withdraw this for the while is built and never sent;
- restarting the frame of main, which the stack trace lists, runs back to the
  start, fails there and ends the session; so does a request for the stack
  after a rejected launch;
- `getInteractions`, behind a definition, reads the lines of its body as if
  they were executed and the positions of its parameters as qubits;
- a gate parameter with the name of a register finds uses of the register at
  the top level, even below a call; `ConeIsPast` is about programs without such
  names;
- `docs/assertion_refinement.md` lets superposition assertions move over `cz`;
  no rule does.
- the diagnostics forget nothing: `init` clears three of six records and is
  called once. After the load of another program the records name instructions
  of the first, and every load appends the suggested movements again;
- `findUniquePath` leaves its loop at the end of the path, so that whether a
  second way is noticed depends on the numbers of the qubits;
- interactions are counted from barriers and from gates whose condition was not
  met; a gate of which one of two controls was active is not reported for the
  other;
- `potentialErrorCauses` after a rejected load, or after the check of the flagged
  assertion has thrown, follows a null assertion;
- the partial trace multiplies amplitudes without conjugating one of them, so a
  state with imaginary amplitudes may be taken for impure and an equality
  assertion on part of it throws; for the same reason the split of an equality
  whose vector has the global phase i finds no eigenvector and throws ("No valid
  index found"), a path the model does not have;
- two assertions on registers and on single qubits of them are compared by name
  (`areAssertionsIndependent`), and any assertion with a circuit counts as
  independent of all that follow;
- the circuit of a projective measurement is applied backwards but its gates are
  not inverted, which matters for gates that are not self-inverse;
- an equality implies that a qubit is in superposition whenever its target state
  has it so, whatever its similarity threshold (`AssertionParsing.cpp:265`):
  `assert-eq 0.5, q[0] { 0.707, 0.707 }` cancels `assert-sup q[0]`, and the state of
  all zeros satisfies the one and fails the other. Only the rule for entanglement
  looks at the threshold;
- implications between equalities multiply thresholds, which is not sound
  below one, and ignore the order of targets; a sub-state that is
  not pure makes `compile` throw.

## 7. What is proved

All theorems hold for every value of the constants that satisfies the named
assumptions of the modules:

- `GatesAreReversible`: what unitary means here;
- `CodeIsWellFormed` (`DDSimDebug`): every program that can be loaded is
  `WellFormed`. For its control flow this is what `TablesCorrect` proves of the
  preprocessor's output;
- `CircuitIsExpansion` (`DDSimDebug`): the circuit of a program that follows its
  tables is the one their execution meets, in at most `MaxSteps` steps. This is
  about the importer; `ProgramsAreExpanded` proves it of the preprocessor's
  tables and the importer as `Circuit` models it. `FollowsTables` excludes the
  two instructions that make circuit and code drift apart: a call with angles,
  which is one instruction and several operations, and an unsupported condition;
- `StatementShapes` (`PreprocessingCheck`): a gate body is a sequence of
  statements that define no gates, as in the grammar of OpenQASM;
- `GatesDoNotRecurse` (`DDSimControl`): no gate calls itself, directly or through
  others, as `Accepted` demands of the source: the importer could not inline it;
- `ControlsDecide` (`Diagnostics`): a controlled gate whose control is zero in
  the whole state leaves the state alone. `CircuitNamesQubits`: in a program that
  follows its tables, the importer makes one kind of gate of an instruction, in
  whatever calls, and a call is inlined by renaming, so that the gate acts on the
  qubits its targets name there, or leaves the state alone when its condition is
  not met. `TargetsAreQubits`: the operations and assertions of such a program name its
  qubits, as the loader demands;
- `EntanglementNeedsGates` (`Diagnostics`): what a state is made of. If the qubits
  fall into two parts, the initial state is a product of two, and only a gate
  with qubits of both parts makes or takes apart a product; a measurement or a
  reset never entangles, and `areQubitsEntangled` is false across a product. This
  is the mathematics of the engine's states, which the model leaves to tables; TLC
  evaluates it for every state of the run;
- `BodiesAreObjects` (`DAPFraming`): the braces of a body balance at its end and
  not before. A body with a brace inside a string may violate it; the loop,
  which counts braces, then waits for the next message.

From the source to the tables:

- `PreprocessingCheck_proofs`: `TablesCorrect` (`Spec => []TablesWellFormed`),
  for programs of any length. Line numbers, the concatenated list of
  instructions and the journey of a program are defined by recursion.
  `RecursionUnique` (in `ControlFlow_proofs`) says that a recursively defined
  function is the one its steps describe, by the least argument at which they
  differ. A
  table `at` of starting lines then places every instruction (`Laid`), and each
  row is looked at by the kind of its line: a definition's, one inside a gate, a
  RETURN, any other. `BackwardCorrect` follows with `BackwardUndoesForward`:
  every place of the journey is a nested flow.
  `ProgramsAreExpanded` and `ExpansionCorrect` compare the two recursions the
  engine keeps in step: the importer inlines bodies into bodies (`Circuit`), the
  tables are followed step by step (`Journey`). `Leads(p, f, g, ops)` says that
  execution goes from place `f` to place `g` and meets `ops` on the way; such
  stretches join (`LeadsOn`, in `ControlFlow_proofs`). `BodyLeads` says of a gate
  that from its first line, under whatever pending calls, execution returns to
  the innermost of them and meets the gate's inlined operations with those calls
  before their own. It is shown by induction over the depth of inlining: the
  ranks that `Accepted` gives the gates fall along calls, and no gate ranks
  higher than there are definitions, the depth at which the importer's
  recursion is read. Along a body and along the program the stretches are laid
  end to end as `FlattenSeq` concatenates their operations (`FlattenFolds`). So
  every accepted program ends, with no call pending, however long it is;
  `ExpansionCorrect` needs `MaxSteps` to be large enough, as it is in the run.
  The hypothesis `OneOpEach` is the one of the engine's `FollowsTables` for
  source code: no constants and no calls with angles, which the debugger counts
  as one operation and the importer does not. The run's programs all satisfy it.
- `ControlFlow_proofs`: `ForwardIsNested` and `BackwardUndoesForward` for every
  nested flow. The second is the heart: the last return on `restore` is the one
  to re-enter exactly when the position is behind its call, because a nested
  flow that has just not returned cannot stand there with that return pending.

The engine:

- `DDSimDebug_proofs`: `CallStackCorrect` (`Spec => []CallStackIsNesting`),
  `TypeCorrect` (`Spec => []TypeOK`) and `FailureFlagCorrect`
  (`Spec => []FailureFlagIsTrue`). Nesting alone is not inductive: stepping
  back pops stacks about which nesting says nothing. `FlowInv` adds that *some*
  path of forward steps leads to the present flow (`\E h : IsPath(Table, h,
  Flow)`); forward steps extend the path, backward steps shorten it by
  `BackwardUndoesForward`, measurements, loads and resets start an empty one.
  `FlagInv` speaks of the flag wherever it points, not only at the present
  instruction: a flag survives a step only if the step leaves the state alone.
  `IteratorCorrect` (`Spec => []IteratorInStep`): that the
  iterator is right *here* says nothing of where a step back leads. `WayInStep`
  therefore places the whole way back in the execution of `CircuitIsExpansion`:
  the places passed are a stretch of it (`Along`), the engine stands where the
  stretch ends, and the iterator is as far as the execution was there. A
  measurement cuts the stretch; it happens outside gates, where the call stack
  is empty.
- `DDSimHistory_proofs`: `PastCorrect`, `StepBackCorrect`,
  `TimeTravelImplemented` and `StepBackRestores`. `HInv` gives the path of
  `FlowInv` its name: it is the history variable. Every engine step maps to a
  step of `TimeTravel` or a stutter. For the data, `DataAreATrail` says that
  each remembered state and iterator lead to the next by what the step made of
  them with the classical bits *as they are now*; a step back reads the last
  link backward. Measurements and edits, which change bits, empty the trail.
- `DAPServer_proofs`, first part: the invariants and action properties of the
  commands of `DDSimControl`, without a server (`CSpec`). A loop remembers a depth and not a call. `CommandFrames` names the
  call that is pending just above that depth: the one step over started at, or
  the one that led to the RETURN a backward step over re-entered. The call stack
  moves by one place at a time (`Climbs`), so the loop cannot get below its
  frame without passing the place where it stops. The forward step over ends at
  any RETURN to its call; that this is the one in its own frame (`StepOverCorrect`)
  needs that no call is pending twice (`PendingOnce`): the ranks that
  `GatesDoNotRecurse` gives the gates fall from each pending call to the next. A
  step out and the way back rely on depths and hold of recursive gates too.
  `RunAllCounts` also needs that the failure flag lies behind (`FlagIsBehind`):
  otherwise an instruction arrived at could be taken for one that failed, and
  counted.

The diagnostics:

- `Diagnostics_proofs`: `ReportsCorrect` and `RecordsCorrect`, that
  `ReportedGateNeverActed` and `RecordsMatchCircuit` hold of every program that
  follows its tables. Neither is inductive: that a reported gate never acted
  says nothing of a gate not reported, and a set of qubits recorded for a gate
  may yet grow. `RecordsInv` explains each record by an operation of
  the circuit (`ZerosAreControls`, `RecordsAreOperations`) and each change of the
  state by an operation without control or by a control that was not zero
  (`ActedHasReason`); every operation behind the iterator is recorded
  (`BehindIsRecorded`), which a step back keeps because records are never taken
  back. It rests on `IteratorInStep`: a control is looked up under the iterator,
  a name in the call stack. Both theorems assume `~Switching`, one program after
  the start: records of another program outlive its replacement (section 6).
- `MissingInteractionCorrect` (`MissingInteractionIsReal`) needs no such
  hypothesis: records of other programs can only add interactions. The qubits
  found by the loop in `suggestBasedOnFailedAssertion` are closed under the
  recorded interactions (`ConnectedIsClosed`): each round adds a qubit or is the
  last, and there are only so many. `InteractionInv` carries what follows:
  every operation behind the iterator is recorded (`BehindIsRecorded`, here also
  of `if` operations) with the qubits its instruction names, so no gate so far
  had qubits both in a closed set and outside it, and the state is a product
  of the two (`UninvolvedApart`). That the iterator points to an operation of the
  *instruction* passed (`InStepOnJourney`) ties the operation to the names the
  record was made from.

- `SuggestionsCorrect` (`SuggestionsConnect`), again with `~Switching`. That the
  loop in `findUniquePath` which follows `predecessors` from the end comes to the
  start at all is not written anywhere in it: `Reached` says that whatever
  waits in `toVisit` has a predecessor or is the start, so that every qubit can be
  given a rank above its predecessor's (`LeadBack`), which every turn of the search
  keeps (`ReachesLeadBack`, `SearchLeadsBack`). The way back is then a chain of
  edges (`TrailFollows`) that no set of qubits around the start can be left by
  (`TrailConnects`). `SuggestionInv` carries it through the run: a suggestion
  belongs to an assertion that was reached, so the first record made of an
  assertion is older than its suggestions, and later failures only add to them.

The server:

- `DAPServer_proofs`, second part: every safety property of `DAPServer`. Each server step is a
  step of a command, a look at the engine or its destruction, so what is
  proved of the engine holds under the server as well (`EngineServed`).
  `Stages` lists how far the calls of each kind of request can have come, and
  the other invariants say what holds of the engine there:
  - `MarksAreCleared`: a rejected program keeps the marks of the one before
    until the reset that the handler makes next, so that what was told stays
    true (`ToldInv`, `StopReasonCorrect`);
  - `EndInv`: a request that does not move the engine leaves a finished program
    announced; it needs `HighlightsInv`, that errors are pending only while
    nothing is loaded (`ProgramEndCorrect`);
  - `FrameInv`: between the calls of `restartFrame` the call stack is at least as
    deep as the frame, or the engine is at its call (`RestartFrameCorrect`);
  - `OwedInv`: what a request that was reasonable when it arrived can still rely
    on before each of its calls (`StoppedClientCorrect`). `handler.owed`
    remembers that it was. For running back it is `CanStepBackward`: the loop
    ends before the engine would refuse. `Reasonable` excludes what the code
    really does not serve, whether or not the client can know: running back
    without a way back and restarting the frame of main (both announced to the client, and both
    end the session: section 6), programs that may drift, equality assertions on
    entangled qubits, whose check throws, and a program without instructions,
    which is at its end from the start and never announced as exited
    (`dap_server.py:286`).
- `DAPFraming_proofs`: `FramingTypeCorrect` and, when no chunk ends in or right
  behind a header (`~SplitHeaders`), `HandlingCorrect`
  (`Spec => []HandledInOrder`). The stream is the messages laid end to end, with
  a table of where each ends (`Laid`). `StreamInv` says that what is still to be
  read is what lies behind a place of that table (`Behind`), the buffer holding
  the piece between; `EndsInBody`, that no piece ends in a header, makes the
  brace count decide. `OrderInv` adds that the messages handled are the
  first ones written; the place is the end of the last of them. Without the hypothesis the property is false: `framing_split`.

The assertion compiler:

- `SliceCheck_proofs`: `SlicesCorrect` (`Spec => []EveryAssertionIsMeasured`). Slice
  `k` is found by a loop of its own, from the first line, that counts down from
  `k`; nothing in the code says that the loops for `k` and `k + 1` agree on where a
  slice ends. `Divided` is the invariant of all these loops side by side, line by
  line: the assertions kept so far are divided into closed groups and an open
  one (`groups`, `open`); the loop for a closed group has ended with exactly that
  group, every other holds the open group and the number of slices still to come.
  An assertion that cannot join closes the open group for the one loop that has
  counted down to it and begins the next for all later ones (`KeptDivides`).
  The groups laid end to end list the kept assertions in order (`Lists`), and no
  closed group is empty, so asking ends right behind the last slice
  (`UntilNoneAre`). Nothing is assumed of independence or implication: the
  theorem holds whatever `AreIndependent` and `Cancellation` answer, at every
  optimization level. The assumption `SourceShapes` says that programs and gate
  bodies are sequences.

Only model-checked:

- of the static analyses `ConeIsFound`, `ConeIsPast`, `InteractionsAreFound` and
  `MovementIsHarmless`: worklists compared with a search of the expanded
  circuit, both of them functions of a whole program, and a movement compared on states;
- of the slices `CancelledCannotFail` and `SlicesReadTrue`: they compare
  executions with all their outcomes, and depend on what the gates and the
  verdicts of an instance are;
- of the diagnostics `SplitIsEquivalent`: amplitudes that TLC computes;
- all liveness (`CommandsReturn`, `EverythingHandled`, `RequestsAnswered`), which
  is out of the prover's reach.

## 8. Not modelled, and why

- In `AssertionSlices`: assertions in gate bodies, operations on whole registers
  between assertions, targets out of order, gates that are not self-inverse. Except for the first, which
  needs names of two scopes, the code is wrong there (section 6), and a property
  could only repeat what it does.
- In `Diagnostics`: breakpoints and edits, which the hooks do not see; equality
  assertions of similarity below one or with targets out of order.
- Equalities below full similarity, and what they imply, are in the model and the
  run of `AssertionSlices`; `CancelledCannotFail` makes no claim of a program in
  which one of them implies an assertion that fails where it holds itself.
- In `DAPServer`: edits together with failing assertions (the run has none).
- Bits of `if` blocks with several operations, and broadcasts of a gate over two
  registers: the static analyses are checked with one operation per statement.
- Decision-diagram arithmetic, tolerances, statistics of the runtime check:
  floating point without control state.
- Text handling of the preprocessor: comments, blocks, tokens, validation of
  targets, positions in the source.
- CLI, bindings, string utilities, message formatting: they forward, format and
  keep no state. Since the bindings hold the interpreter's lock during a call,
  the concurrent pause of `DDSimControl` is that of a client of the C interface;
  in the DAP server a pause is an ordinary request (`DAPServer`).
- `initialize` is the initial state of `DAPServer`; `threads`, `scopes`,
  `variables`, `configurationDone` and `setExceptionBreakpoints` only read or
  acknowledge.

## 9. Plan

1. Two breakpoints per request and changed source files in `DAPServer`; the
   runtime check's preparation of slices.
2. Proofs: what the static analyses promise (`ConeIsFound` first: a worklist
   over callers and dependencies against the expanded circuit), and what a
   cancelled assertion says of states.
