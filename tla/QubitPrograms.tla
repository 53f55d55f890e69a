--------------------------- MODULE QubitPrograms ---------------------------
(***************************************************************************)
(* Source code that names qubits, and what loading adds to the tables of   *)
(* CodePreprocessing because of the names: the targets of instructions,    *)
(* the substitutions of calls, the data dependencies (the loop at the end  *)
(* of preprocessCode, CodePreprocessing.cpp) and the flattened circuit     *)
(* with the qubits its operations act on.                                  *)
(***************************************************************************)
EXTENDS CodePreprocessing

(* A variable is <<register, index>> or a name alone: a gate parameter or  *)
(* a whole register.                                                       *)
IsElement(v) == Len(v) = 2

VariablesEqual(v, w) ==
  IF IsElement(v) /\ IsElement(w) THEN v = w ELSE v[1] = w[1]

(* Statements that name their targets; those of a definition are its       *)
(* parameters, those of a call its arguments.                              *)
On(st, targets) == [targets |-> targets] @@ st
Asserting(kind, targets, claim) ==
  [is |-> "assert", asserts |-> kind, targets |-> targets, claim |-> claim]
DeclareQubits(register, size) ==
  [register |-> register, size |-> size, targets |-> << <<register, size>> >>]
    @@ Declare({})

LOCAL DeclaresQubits(st) == "register" \in DOMAIN st

Registers(src) == SelectSeq(src, DeclaresQubits)

(* All elements of a register, in order.                                   *)
ElementsOf(register) ==
  [k \in 1 .. register.size |-> <<register.register, k - 1>>]

(* A whole register among targets stands for its elements, unless it is a  *)
(* parameter of the gate around it (getTargetVariables,                    *)
(* unfoldAssertionTargetRegisters).                                        *)
Unfolded(registers, parameters, targets) ==
  LET Unfold(v) ==
        LET declared == SelectInSeq(registers, LAMBDA r : r.register = v[1])
        IN  IF IsElement(v) \/ v \in Range(parameters) \/ declared = 0
            THEN <<v>> ELSE ElementsOf(registers[declared])
  IN  FlattenSeq([j \in DOMAIN targets |-> Unfold(targets[j])])

(* The global number of a qubit (variableToQubit, without calls).          *)
QubitOf(registers) ==
  LET Names == FlattenSeq([r \in DOMAIN registers |-> ElementsOf(registers[r])])
  IN  [v \in Range(Names) |-> SelectInSeq(Names, LAMBDA w : w = v) - 1]

-----------------------------------------------------------------------------
(* The statement of every instruction, and the gate parameters in scope.   *)

ReturnStatement(definition) == [is |-> "return", targets |-> definition.targets]

Lines(src) ==
  FlattenSeq([k \in DOMAIN src |->
    IF src[k].is = "def"
    THEN <<src[k]>> \o src[k].body \o <<ReturnStatement(src[k])>>
    ELSE <<src[k]>>])

(* parseParameters of an instruction's code.                               *)
Parameters(st) == IF st.is = "return" THEN <<>> ELSE st.targets

(* The lines of one scope (a gate body or the top level) whose variables   *)
(* count as used: no definition, no assertion, no RETURN.                  *)
Usages(lines, body, scope) ==
  {k \in DOMAIN lines : body[k] = scope
                        /\ lines[k].is \notin {"def", "assert", "return"}}

(* The targets of line k that are among the open variables.                *)
UsesOf(lines, k, open) ==
  {<<k, m>> : m \in {j \in DOMAIN lines[k].targets :
                       \E v \in open : VariablesEqual(v, lines[k].targets[j])}}

(* Upward from an instruction, the nearest uses of its variables: a        *)
(* variable is found once a line uses exactly it.                          *)
DependenciesWithin(lines, usages, i) ==
  LET before == {k \in usages : k < i}
      Open(k) == Range(Parameters(lines[i]))
                   \ UNION {Range(lines[j].targets) :
                              j \in {j \in before : j > k}}
  IN  UNION {UsesOf(lines, k, Open(k)) : k \in before}

(* The body of a gate is searched on its own, and everything once more     *)
(* with the uses at the top level.                                         *)
DataDependencies(lines, body) ==
  [i \in DOMAIN lines |->
     UNION {DependenciesWithin(lines, Usages(lines, body, scope), i) :
              scope \in {body[i], TopLevel}}]

-----------------------------------------------------------------------------
(* The importer again, with names: what a gate does to its parameters it   *)
(* does to the arguments of the call.                                      *)

Substitution(parameters, arguments) ==
  [v \in Range(parameters) |->
     arguments[SelectInSeq(parameters, LAMBDA w : w = v)]]

Renamed(substitution, names) ==
  [j \in DOMAIN names |->
     IF names[j] \in DOMAIN substitution THEN substitution[names[j]]
                                         ELSE names[j]]

(* The operations of the program (0) and of the body of each definition.   *)
Expansions(src) ==
  LET Defs == {k \in DOMAIN src : src[k].is = "def"}
      Under(call, line, parameters, ops) ==
        [m \in DOMAIN ops |->
           [ops[m] EXCEPT
              !.frames = <<line>> \o @,
              !.names = Renamed(Substitution(parameters, call.targets), @)]]
      OpsOf(st, line, bodies) ==
        CASE st.is = "op" ->
               << [of |-> st, at |-> line, frames |-> <<>>,
                   names |-> st.targets] >>
          [] st.is = "call" ->
               LET k == DefinitionOf(src, st.name)
               IN  Under(st, line, src[k].targets, bodies[k])
          [] OTHER -> <<>>
      Bodies[d \in Nat] ==
        [k \in Defs |->
           IF d = 0 THEN <<>>
           ELSE FlattenSeq([j \in DOMAIN src[k].body |->
                  OpsOf(src[k].body[j], LineOf(src, k) + j, Bodies[d - 1])])]
      Expand(bodies) ==
        [k \in Defs \cup {0} |->
           IF k # 0 THEN bodies[k]
           ELSE FlattenSeq([j \in DOMAIN src |->
                  OpsOf(src[j], LineOf(src, j), bodies)])]
  IN  Expand(Bodies[Cardinality(Defs)])

(* A gate of the circuit is its name and the qubits it acts on.            *)
PlacedOp(registers, qubitOf, op) ==
  LET names == Unfolded(registers, <<>>, op.names)
      Placed(gate) == <<gate, [j \in DOMAIN names |-> qubitOf[names[j]]]>>
  IN  [CircuitOp(op.of, op.at, op.frames) EXCEPT
         !.gate = IF op.of.kind \in {"gate", "if"} THEN Placed(@) ELSE Identity,
         !.otherwise = Identity]

PlacedCircuit(registers, ops, qubitOf) ==
  [m \in DOMAIN ops |-> PlacedOp(registers, qubitOf, ops[m])]

-----------------------------------------------------------------------------

(* The tables of a loaded program (plain), with everything that depends on *)
(* names: operations act on qubits.                                        *)
NamedTables(src, plain, registers, lineOf, expansions) ==
  LET n == plain.n
      lines == [i \in 0 .. n - 1 |-> lineOf[i + 1]]
      body == [i \in 0 .. n - 1 |-> plain.body[i]]
      Scope(i) == IF body[i] = TopLevel THEN <<>> ELSE lines[body[i]].targets
      Callee1(i) == LineOf(src, DefinitionOf(src, lines[i].name))
      calls == {i \in 0 .. n - 1 : lines[i].is = "call"}
  IN  [n |-> n, type |-> plain.type, succ |-> plain.succ, body |-> plain.body,
       claim |-> plain.claim, bits |-> plain.bits,
       lines |-> lines,
       targets |-> [i \in 0 .. n - 1 |->
                      Unfolded(registers, Scope(i), lines[i].targets)],
       definitions |-> {i \in 0 .. n - 1 : lines[i].is = "def"},
       dependencies |-> DataDependencies(lines, body),
       callers |-> [i \in 0 .. n - 1 |-> {c \in calls : Callee1(c) = i}],
       substitution |-> [c \in calls |->
                           Substitution(lines[Callee1(c)].targets,
                                        lines[c].targets)],
       registers |-> registers,
       qubit |-> QubitOf(registers),
       expansion |-> [i \in {j \in 0 .. n - 1 : lines[j].is = "def"}
                             \cup {TopLevel} |->
                        expansions[IF i = TopLevel THEN 0
                                   ELSE DefinitionOf(src, lines[i].name)]],
       ops |-> PlacedCircuit(registers, expansions[0], QubitOf(registers))]

PreprocessNamed(src) ==
  NamedTables(src, Preprocess(src), Registers(src), Lines(src), Expansions(src))

=============================================================================
