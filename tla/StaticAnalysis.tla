-------------------------- MODULE StaticAnalysis --------------------------
(***************************************************************************)
(* The static analyses on every short program: what influences an          *)
(* instruction, which qubits interact, where an assertion may move. A      *)
(* program grows statement by statement; the properties are about those    *)
(* whose calls are all defined.                                            *)
(***************************************************************************)
EXTENDS DataDependencies, AssertionMovement

CONSTANTS
  Preamble,       \* the declarations a program starts with
  Statements,     \* the statements programs are made of
  MaxStatements,  \* bound on the statements behind the preamble
  Verdict(_, _, _) \* what an assertion of a kind on qubits says in a state

(* Programs and gate bodies are sequences of statements.                   *)
ASSUME SourceShapes ==
  /\ Preamble \in Seq(Range(Preamble))
  /\ \A st \in Statements \cup Range(Preamble) :
       st.is = "def" => st.body \in Seq(Range(st.body))

VARIABLES
  src,      \* the program written so far
  tables    \* its tables, once every gate it calls is defined

(* The gates of an instance call each other in one direction only.         *)
Accepted(source) ==
  LET called == UNION {IF st.is = "call" THEN {st}
                       ELSE IF st.is = "def"
                       THEN {inner \in Range(st.body) : inner.is = "call"}
                       ELSE {} : st \in Range(source)}
  IN  \A st \in called : DefinitionOf(source, st.name) # 0

Loaded(source) == IF Accepted(source) THEN {PreprocessNamed(source)} ELSE {}

Init == src = Preamble /\ tables = Loaded(Preamble)

Write(st) ==
  /\ Len(src) < Len(Preamble) + MaxStatements
  /\ st.is = "def" => DefinitionOf(src, st.name) = 0
  /\ src' = Append(src, st)
  /\ tables' = Loaded(src')

Next == \E st \in Statements : Write(st)

Spec == Init /\ [][Next]_<<src, tables>>

-----------------------------------------------------------------------------
(* Influence, defined on flattened operations: backward from the targets   *)
(* of an instruction, an operation that touches a live variable influences *)
(* it and makes all its variables live.                                    *)

Scopes(p) == p.definitions \cup {TopLevel}

InScope(p, scope) ==
  {i \in DOMAIN p.type : p.body[i] = scope
                         /\ p.type[i] \in {"SIMULATE", "CALL", "ASSERTION"}}

VariablesOf(p, scope, names) ==
  Unfolded(p.registers,
           IF scope = TopLevel THEN <<>> ELSE p.targets[scope], names)

(* The line of its scope an operation was made from.                       *)
RootOf(op) == IF op.frames = <<>> THEN op.at ELSE op.frames[1]

InfluencesOn(p, scope, ops, targets) ==
  LET touched == [m \in DOMAIN ops |-> Range(VariablesOf(p, scope, ops[m].names))]
      Live[m \in 1 .. Len(ops) + 1] ==
        IF m = Len(ops) + 1 THEN Range(targets)
        ELSE IF touched[m] \cap Live[m + 1] = {} THEN Live[m + 1]
        ELSE touched[m] \cup Live[m + 1]
  IN  UNION {{ops[m].at} \cup Range(ops[m].frames) :
               m \in {k \in DOMAIN ops : touched[k] \cap Live[k + 1] # {}}}

Influences(p, i) ==
  InfluencesOn(p, p.body[i],
               SelectSeq(p.expansion[p.body[i]], LAMBDA op : RootOf(op) < i),
               p.targets[i])

(* Everything that influences an instruction within its scope is among its *)
(* data dependencies: the operation, and each call it was reached through. *)
(* The cone of influence the error causes are searched in leaves nothing   *)
(* out (docs/diagnosis.md:18-19), through nested gates and registers.      *)
ConeIsFoundIn(p) ==
  \A scope \in Scopes(p) : \A i \in InScope(p, scope) :
    Influences(p, i) \subseteq GetDataDependencies(p, i, FALSE)

ConeIsFound == \A p \in tables : ConeIsFoundIn(p)

(* What an instruction depends on was executed before it: it is a line     *)
(* above it in its scope or a line of a gate called from there. The cone   *)
(* cuts off the part of the program that cannot have caused the error.     *)
ConeIsPastIn(p) ==
  LET Past(i) ==
        LET Entered[r \in 0 .. Cardinality(p.definitions)] ==
              IF r = 0 THEN {k \in 0 .. i - 1 : p.body[k] = p.body[i]}
              ELSE LET S == Entered[r - 1]
                       gates == {Callee(p, c) : c \in S \cap CallLines(p)}
                   IN  S \cup {k \in DOMAIN p.type : p.body[k] \in gates}
        IN  Entered[Cardinality(p.definitions)]
  IN  \A scope \in Scopes(p) : \A i \in InScope(p, scope) :
        GetDataDependencies(p, i, FALSE) \subseteq {i} \cup Past(i)

ConeIsPast == \A p \in tables : ConeIsPastIn(p)

-----------------------------------------------------------------------------
(* Interaction: who has met one qubit of an operation has met them all.    *)

(* As long as no definition lies in between, the interactions found for a  *)
(* qubit contain every qubit that operations of the scope, through calls   *)
(* and registers, connect it to (getInteractions, diagnostics.h:126-139,   *)
(* "will be set to true if the qubit interacts with the given qubit"; the  *)
(* error causes use what was recorded instead). Behind a definition the    *)
(* loop reads the lines of its body as if they were executed and stops     *)
(* there: what it finds is another set.                                    *)
InteractionsAreFoundIn(p) ==
  \A scope \in Scopes(p) : \A i \in InScope(p, scope) :
    LET ops == SelectSeq(p.expansion[scope], LAMBDA op : RootOf(op) < i)
        groups == {{QubitAt(p, i, v) : v \in Range(VariablesOf(p, scope,
                                                             ops[m].names))} :
                     m \in DOMAIN ops}
        qubits == UNION groups \cup {QubitAt(p, i, v) : v \in Range(p.targets[i])}
        IsComplete(found) == \A g \in groups : g \cap found = {} \/ g \subseteq found
    IN  (\A d \in p.definitions : d <= scope \/ d > i) =>
          \A q \in qubits : /\ q \in GetInteractions(p, i, q)
                             /\ IsComplete(GetInteractions(p, i, q))

InteractionsAreFound == \A p \in tables : InteractionsAreFoundIn(p)

-----------------------------------------------------------------------------
(* Movement, defined on states.                                            *)

(* The qubits the variables of a scope may stand for.                      *)
Placements(p, scope) ==
  IF scope = TopLevel THEN {p.qubit}
  ELSE {f \in [Range(p.targets[scope]) -> Range(p.qubit)] : IsInjective(f)}

(* What an operation may make of a state; met says whether the conditions  *)
(* of ifs are met.                                                         *)
Outcome(op, qubits, met, s) ==
  CASE op.kind \in {"measure", "reset"} -> {o.state : o \in op.collapse[s]}
    [] op.kind = "barrier" \/ (op.kind = "if" /\ ~met) -> {s}
    [] OTHER -> {Act[<<op.gate, qubits>>][s]}

(* An assertion says of a state at the place it should move to what it     *)
(* says, where it is, of the states the operations in between lead to:     *)
(* whichever state, qubits and outcomes; and it stays in its gate. (docs/  *)
(* assertion_refinement.md: movement "utilizes commutation rules".)        *)
MovementIsHarmlessIn(p) ==
  \A move \in AssertionsToMove(p) :
    LET i == move[1]
        scope == p.body[i]
        crossed == SelectSeq(p.expansion[scope],
                             LAMBDA op : RootOf(op) \in move[2] .. i - 1)
        variables == [m \in DOMAIN crossed |->
                        VariablesOf(p, scope, crossed[m].names)]
    IN  /\ p.body[move[2]] = scope
        /\ \A place \in Placements(p, scope), met \in BOOLEAN, s \in QStates :
             LET Ends[m \in 0 .. Len(crossed)] ==
                   IF m = 0 THEN {s}
                   ELSE UNION {Outcome(crossed[m].of,
                                       [k \in DOMAIN variables[m] |->
                                          place[variables[m][k]]], met, t) :
                                 t \in Ends[m - 1]}
                 Says(t) == Verdict(p.lines[i].asserts,
                                    {place[v] : v \in Range(p.targets[i])}, t)
             IN  \A t \in Ends[Len(crossed)] : Says(t) = Says(s)

MovementIsHarmless == \A p \in tables : MovementIsHarmlessIn(p)

=============================================================================
