------------------------- MODULE QuantumPrograms -------------------------
(***************************************************************************)
(* The tables the debugger builds when it loads an OpenQASM program, and   *)
(* the shape the preprocessor promises for them.                           *)
(*                                                                         *)
(* A loaded program p is a record                                          *)
(*   n      number of instructions (instructionTypes.size())               *)
(*   type   [0..n-1 -> InstructionType]                                    *)
(*   succ   [0..n-1 -> 0..n], 0 meaning "pop the call stack"               *)
(*   body   [0..n -> -1..n-1], the gate definition an instruction lies in  *)
(*   claim  what the assertion at an instruction says of a quantum state   *)
(*   ops    the flattened circuit, in execution order                      *)
(*   bits   the declared classical bits                                    *)
(* An operation of ops remembers the instruction it was made from and the  *)
(* calls it was inlined through.                                           *)
(***************************************************************************)
EXTENDS Integers, Sequences

CONSTANTS
  QStates,    \* the quantum states the instance distinguishes
  ZeroState,  \* the state |0...0> a simulation starts from
  Gates,      \* the unitaries that occur in the programs
  Identity,   \* the gate that changes nothing
  Act,        \* Act[g][s]: the state gate g makes of state s
  Bits        \* all classical bits

(* Unitaries are reversible: this is what makes stepping back possible.    *)
ASSUME GatesAreReversible ==
  /\ ZeroState \in QStates /\ Identity \in Gates
  /\ Act \in [Gates -> [QStates -> QStates]]
  /\ \A g \in Gates : \A s, t \in QStates : Act[g][s] = Act[g][t] => s = t
  /\ \A g \in Gates : \A s \in QStates : \E t \in QStates : Act[g][t] = s
  /\ \A s \in QStates : Act[Identity][s] = s

(* dd::getInverseDD applied to a state.                                    *)
UndoApplies(g, s) == Act[g][s]                       \* mutant

Undo(g, s) == CHOOSE t \in QStates : Act[g][t] = s

InstructionTypes == {"NOP", "SIMULATE", "ASSERTION", "CALL", "RETURN"}

OpKinds == {"gate", "measure", "reset", "barrier", "if"}

TopLevel == -1

-----------------------------------------------------------------------------

(* The gate a call instruction jumps into, named by its definition.        *)
Callee(p, call) == p.succ[call] - 1

(* Control flow of a preprocessed program. A call is the only instruction  *)
(* that leaves its body, a RETURN (and nothing else) pops, the             *)
(* instruction after a call is reached by returning from it only, and      *)
(* every other instruction leads ahead.                                    *)
WellFormedFlow(p) ==
  /\ p.n \in Nat
  /\ p.type \in [0 .. p.n - 1 -> InstructionTypes]
  /\ p.succ \in [0 .. p.n - 1 -> 0 .. p.n]
  /\ p.body \in [0 .. p.n -> -1 .. p.n - 1]
  /\ p.body[0] = TopLevel
  /\ p.body[p.n] = TopLevel
  /\ \A i \in 0 .. p.n - 1 :
       /\ p.type[i] = "RETURN" <=> p.succ[i] = 0
       /\ p.type[i] = "RETURN" => p.body[i] # TopLevel
       /\ p.type[i] = "CALL" =>
            /\ p.succ[i] < p.n
            /\ p.body[p.succ[i]] = Callee(p, i)
            /\ p.type[Callee(p, i)] = "NOP"
            /\ p.body[i + 1] = p.body[i]
       /\ p.type[i] \notin {"CALL", "RETURN"} =>
            /\ p.succ[i] > i
            /\ p.body[p.succ[i]] = p.body[i]
            /\ p.type[p.succ[i] - 1] # "CALL"

(* Values of some of the classical bits: the content of the C++ variable    *)
(* map, an outcome of a measurement, or the condition of an if.            *)
Valuations == UNION {[B -> BOOLEAN] : B \in SUBSET Bits}

(* What a collapsing measurement may leave: bits read and state after.     *)
Outcomes == [bits : Valuations, state : QStates]

(* One operation of the flattened circuit. A gate and a met condition apply *)
(* gate, an unmet one applies otherwise; collapse lists the outcomes of a  *)
(* measurement or a reset; supported says that the condition is an         *)
(* equality.                                                               *)
Operations ==
  [kind : OpKinds, at : Nat, frames : Seq(Nat), gate : Gates,
   otherwise : Gates, cond : Valuations, supported : BOOLEAN,
   collapse : [QStates -> SUBSET Outcomes]]

(* A gate definition of OpenQASM applies gates and barriers only: what      *)
(* collapses the state is never made through a call.                       *)
WellFormedData(p) ==
  /\ p.bits \subseteq Bits
  /\ p.ops \in Seq(Operations)
  /\ \A k \in 1 .. Len(p.ops) :
       /\ DOMAIN p.ops[k].cond \subseteq p.bits
       /\ p.ops[k].kind \in {"measure", "reset"} => p.ops[k].frames = <<>>
  /\ p.claim \in [0 .. p.n - 1 -> [holds : SUBSET QStates,
                                   entangled : SUBSET QStates]]

WellFormed(p) == WellFormedFlow(p) /\ WellFormedData(p)

=============================================================================
