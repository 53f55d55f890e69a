------------------------ MODULE PreprocessingCheck ------------------------
(***************************************************************************)
(* The preprocessor on every short program. A program grows statement by   *)
(* statement; the properties are about those the debugger accepts, and     *)
(* include what the engine assumes of its tables (CodeIsWellFormed).       *)
(***************************************************************************)
EXTENDS CodePreprocessing, ControlFlow

CONSTANTS
  Statements,     \* the statements programs are made of
  MaxStatements   \* bound on the length of a program

(* The body of a gate definition holds no definitions.                     *)
ASSUME StatementShapes ==
  \A st \in Statements :
    st.is = "def" =>
      /\ st.body \in Seq(Range(st.body))
      /\ \A inner \in Range(st.body) : inner.is # "def"

VARIABLE src

Init == src = <<>>

Write(st) ==
  /\ Len(src) < MaxStatements
  /\ st.is = "def" => DefinitionOf(src, st.name) = 0
  /\ src' = Append(src, st)

Next == \E st \in Statements : Write(st)

Spec == Init /\ [][Next]_src

-----------------------------------------------------------------------------

IsCall(st) == st.is \in {"call", "anglecall"}

CallsIn(body) == {st.name : st \in {c \in Range(body) : IsCall(c)}}

DefinedNames == {st.name : st \in {d \in Range(src) : d.is = "def"}}

(* Every called gate is defined somewhere, and none calls itself, directly *)
(* or through others.                                                      *)
Accepted ==
  /\ \A st \in Range(src) :
       /\ IsCall(st) => st.name \in DefinedNames
       /\ st.is = "def" => CallsIn(st.body) \subseteq DefinedNames
  /\ \E rank \in [DefinedNames -> 1 .. Cardinality(DefinedNames)] :
       \A st \in Range(src) :
         st.is = "def" => \A called \in CallsIn(st.body) :
                            rank[called] < rank[st.name]

Tables == Preprocess(src)

MaxSteps == 64   \* no program of MaxStatements statements takes more
JourneyOf(p) == Journey(p, MaxSteps)

(* The tables of an accepted program have the shape the engine relies on:  *)
(* calls lead to a first body line, a RETURN ends every body and nothing   *)
(* else leaves it.                                                         *)
TablesWellFormed == Accepted => WellFormedFlow(Tables)

(* Running the program by its tables meets the operations of the flattened *)
(* circuit, each once, in order and through the same calls, and ends with  *)
(* every call returned: the two executions the engine keeps in step        *)
(* (instruction pointer and iterator) come from one order.                 *)
ExecutionIsExpansion ==
  Accepted => /\ IsExpanded(Tables, MaxSteps)
              /\ JourneyOf(Tables)[MaxSteps].calls = <<>>

(* At every place of that execution, stepping forward and back again leads *)
(* to the same instruction with the same three stacks.                     *)
BackUndoesForward ==
  Accepted =>
    \A k \in 0 .. MaxSteps :
      LET f == JourneyOf(Tables)[k]
      IN  f.pos < Tables.n => Backward(Forward(Tables, f)) = f

=============================================================================
