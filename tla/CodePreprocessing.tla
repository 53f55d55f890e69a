------------------------ MODULE CodePreprocessing ------------------------
(***************************************************************************)
(* From source code to the tables of QuantumPrograms: the numbering of     *)
(* instructions and their successors (src/src/common/parsing/              *)
(* CodePreprocessing.cpp), their classification (preprocessAssertionCode   *)
(* in DDSimDebug.cpp) and, outside the repository, the flattened circuit   *)
(* the OpenQASM importer makes of the same code.                           *)
(*                                                                         *)
(* Source code is a sequence of statements; the body of a gate definition  *)
(* is a sequence of statements that are no definitions.                    *)
(***************************************************************************)
EXTENDS QuantumPrograms, SequencesExt

-----------------------------------------------------------------------------
(* Statements.                                                             *)

NoClaim == [holds |-> {}, entangled |-> {}]

(* OpenQASM 3's const: the debugger takes it for an operation, the         *)
(* importer makes none of it.                                              *)
Constant == [is |-> "const"]
Declare(bits) == [is |-> "decl", bits |-> bits]
DefineGate(name, body) == [is |-> "def", name |-> name, body |-> body]
Call(name) == [is |-> "call", name |-> name]
(* A call of a gate that takes angles, as in my_gate(0.5) q[0].            *)
CallWithAngles(name) == [is |-> "anglecall", name |-> name]
Claim(holds, entangled) ==
  [is |-> "assert", claim |-> [holds |-> holds, entangled |-> entangled]]

LOCAL Op(kind, gate, otherwise, cond, supported, collapse) ==
  [is |-> "op", kind |-> kind, gate |-> gate, otherwise |-> otherwise,
   cond |-> cond, supported |-> supported, collapse |-> collapse]
LOCAL NoCollapse == [s \in QStates |-> {}]
NoCondition == <<>>

ApplyGate(g) == Op("gate", g, Identity, NoCondition, TRUE, NoCollapse)
Barrier == Op("barrier", Identity, Identity, NoCondition, TRUE, NoCollapse)
Measure(collapse) ==
  Op("measure", Identity, Identity, NoCondition, TRUE, collapse)
Reset(collapse) == Op("reset", Identity, Identity, NoCondition, TRUE, collapse)
If(cond, g, otherwise) == Op("if", g, otherwise, cond, TRUE, NoCollapse)
IfUnequal(cond, g) == Op("if", g, Identity, cond, FALSE, NoCollapse)

-----------------------------------------------------------------------------
(* preprocessCode: line numbers, successors and gate bodies.               *)

(* A definition takes its own line, one per statement and the RETURN.      *)
Width(st) == IF st.is = "def" THEN Len(st.body) + 2 ELSE 1

LineOf(src, k) ==
  LET At[j \in 1 .. k] == IF j = 1 THEN 0 ELSE At[j - 1] + Width(src[j - 1])
  IN  At[k]

DefinitionOf(src, name) ==
  SelectInSeq(src, LAMBDA st : st.is = "def" /\ st.name = name)

FunctionHeaderLine(src, name) ==                     \* mutant
  LineOf(src, DefinitionOf(src, name))

FunctionFirstLine(src, name) == LineOf(src, DefinitionOf(src, name)) + 1

(* The type preprocessAssertionCode gives a statement.                     *)
ClassifyDeclarations(st) ==                          \* mutant
  CASE st.is = "assert" -> "ASSERTION"
    [] st.is = "def" -> "NOP"
    [] st.is = "call" -> "CALL"
    [] OTHER -> "SIMULATE"

Classify(st) ==
  CASE st.is = "assert" -> "ASSERTION"
    [] st.is \in {"def", "decl"} -> "NOP"
    [] st.is = "call" -> "CALL"
    [] OTHER -> "SIMULATE"

Instruction(src, st, line, body) ==
  [type |-> Classify(st),
   succ |-> CASE st.is = "def" -> line + Width(st)
              [] st.is = "call" -> FunctionFirstLine(src, st.name)
              [] OTHER -> line + 1,
   body |-> body,
   claim |-> IF st.is = "assert" THEN st.claim ELSE NoClaim]

ReturnOf(line) ==
  [type |-> "RETURN", succ |-> 0, body |-> line, claim |-> NoClaim]

(* A definition is followed by its body and the RETURN.                    *)
InstructionsOf(src, st, line) ==
  <<Instruction(src, st, line, TopLevel)>> \o
    IF st.is # "def" THEN <<>>
    ELSE [j \in 1 .. Len(st.body) |->
            Instruction(src, st.body[j], line + j, line)]
         \o <<ReturnOf(line)>>

Instructions(src) ==
  FlattenSeq([k \in 1 .. Len(src) |->
                InstructionsOf(src, src[k], LineOf(src, k))])

-----------------------------------------------------------------------------
(* The importer: custom gates are inlined, with or without angles; every   *)
(* other operation stays one operation.                                    *)

CircuitOp(st, line, frames) ==
  [kind |-> st.kind, at |-> line, frames |-> frames, gate |-> st.gate,
   otherwise |-> st.otherwise, cond |-> st.cond,
   supported |-> st.supported, collapse |-> st.collapse]

(* Operations met through further calls, outermost first.                  *)
Through(calls, ops) ==
  [m \in 1 .. Len(ops) |-> [ops[m] EXCEPT !.frames = calls \o @]]

(* The operations of a call with angles count as made of the call, which   *)
(* is all the debugger sees of it.                                         *)
MadeOf(line, ops) ==
  [m \in 1 .. Len(ops) |-> [ops[m] EXCEPT !.at = line, !.frames = <<>>]]

(* The operations of one statement, given those of the gate bodies.        *)
StatementOps(src, st, line, inlined) ==
  CASE st.is = "op" -> <<CircuitOp(st, line, <<>>)>>
    [] st.is = "call" ->
         Through(<<line>>, inlined[DefinitionOf(src, st.name)])
    [] st.is = "anglecall" ->
         MadeOf(line, inlined[DefinitionOf(src, st.name)])
    [] OTHER -> <<>>

Definitions(src) == {k \in 1 .. Len(src) : src[k].is = "def"}

(* Inlined(src)[d][k] is the body of definition k, calls nested at most d  *)
(* deep, with frames relative to the caller. Definitions nest no deeper    *)
(* than there are any.                                                     *)
Inlined(src) ==
  LET Body[d \in 0 .. Cardinality(Definitions(src))] ==
        [k \in Definitions(src) |->
           IF d = 0 THEN <<>>
           ELSE FlattenSeq([j \in 1 .. Len(src[k].body) |->
                  StatementOps(src, src[k].body[j], LineOf(src, k) + j,
                               Body[d - 1])])]
  IN  Body

Circuit(src) ==
  LET bodies == Inlined(src)[Cardinality(Definitions(src))]
  IN  FlattenSeq([k \in 1 .. Len(src) |->
        StatementOps(src, src[k], LineOf(src, k), bodies)])

-----------------------------------------------------------------------------

(* Everything loadCode derives from accepted source code.                  *)
TablesOf(src, instructions) ==
  LET n == Len(instructions)
      Column(field) == [i \in 0 .. n - 1 |-> instructions[i + 1][field]]
  IN  [n |-> n,
       type |-> Column("type"),
       succ |-> Column("succ"),
       body |-> [i \in 0 .. n |-> IF i = n THEN TopLevel
                                           ELSE instructions[i + 1].body],
       claim |-> Column("claim"),
       ops |-> Circuit(src),
       bits |-> UNION {src[k].bits : k \in
                         {j \in 1 .. Len(src) : src[j].is = "decl"}}]

Preprocess(src) == TablesOf(src, Instructions(src))

=============================================================================
