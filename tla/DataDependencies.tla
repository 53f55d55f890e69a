-------------------------- MODULE DataDependencies --------------------------
(***************************************************************************)
(* The static half of the diagnostics (src/src/backend/dd/                 *)
(* DDSimDiagnostics.cpp): which instructions influence an instruction, and *)
(* which qubits interact before one. p stands for the tables of a loaded   *)
(* program as QubitPrograms makes them.                                    *)
(***************************************************************************)
EXTENDS QubitPrograms, FiniteSetsExt

CallLines(p) == DOMAIN p.substitution

-----------------------------------------------------------------------------
(* getDataDependencies.                                                    *)

BodyLines(p, definition) ==
  {k \in 0 .. p.n - 1 : p.body[k] = definition /\ p.type[k] # "RETURN"}

(* Mutant: the first use of the parameter, not the last.                   *)
FirstUse(p, definition, name) ==
  {Min(S) : S \in {S \in {{k \in BodyLines(p, definition) :
                             name \in Range(p.targets[k])}} : S # {}}}

(* The last line of a gate body that names a parameter, if any does.       *)
LastUse(p, definition, name) ==
  {Max(S) : S \in {S \in {{k \in BodyLines(p, definition) :
                             name \in Range(p.targets[k])}} : S # {}}}

(* visitCall: the last line of the called gate that uses the parameter     *)
(* behind an argument, and on through the calls among these lines.         *)
VisitCall(p, call, argument) ==
  LET Visit[c \in CallLines(p), m \in Nat] ==
        LET definition == Callee(p, c)
            name == p.targets[definition][m]
        IN  UNION {{k} \cup
                     IF p.type[k] # "CALL" THEN {}
                     ELSE Visit[k, SelectInSeq(p.targets[k],
                                               LAMBDA v : v = name)] :
                     k \in LastUse(p, definition, name)}
  IN  Visit[call, argument]

(* getUnknownCallers: the definition around an instruction, those around   *)
(* its callers, and so on.                                                 *)
UnknownCallers(p, i) ==
  LET Around(S) == {p.body[k] : k \in S} \ {TopLevel}
      Found[r \in 0 .. Cardinality(p.definitions)] ==
        IF r = 0 THEN Around({i})
        ELSE Found[r - 1]
               \cup Around(UNION {p.callers[d] : d \in Found[r - 1]})
  IN  Found[Cardinality(p.definitions)]

(* Mutant of Visits: callers are added whether asked for or not.           *)
VisitsWithCallers(p, unknownCallers, current) ==
  LET found == {d \in p.dependencies[current] : p.type[d[1]] # "NOP"}
  IN  {d[1] : d \in found}
        \cup UNION {VisitCall(p, d[1], d[2]) :
                      d \in {d \in found : p.type[d[1]] = "CALL"}}
        \cup IF current - 1 \in p.definitions THEN p.callers[current - 1]
                                              ELSE {}

(* What the search adds when it visits an instruction. The callers of a    *)
(* gate are added at the first line of its body only.                      *)
Visits(p, unknownCallers, current) ==
  LET found == {d \in p.dependencies[current] : p.type[d[1]] # "NOP"}
  IN  {d[1] : d \in found}
        \cup UNION {VisitCall(p, d[1], d[2]) :
                      d \in {d \in found : p.type[d[1]] = "CALL"}}
        \cup IF current - 1 \in unknownCallers THEN p.callers[current - 1]
                                               ELSE {}

(* The worklist: the order in which it is emptied does not matter.         *)
Closure(p, unknownCallers, i) ==
  LET Within[r \in 0 .. p.n] ==
        IF r = 0 THEN {i}
        ELSE LET S == Within[r - 1]
             IN  S \cup UNION {Visits(p, unknownCallers, k) : k \in S}
  IN  Within[p.n]

GetDataDependencies(p, i, includeCallers) ==
  Closure(p, IF includeCallers THEN UnknownCallers(p, i) ELSE {}, i)

-----------------------------------------------------------------------------
(* getInteractions.                                                        *)

(* variableToQubitAt: behind a RETURN or at the top the global qubit, in a *)
(* gate body the position among its parameters.                            *)
QubitAt(p, i, v) ==
  IF p.body[i] = TopLevel THEN p.qubit[v]
  ELSE SelectInSeq(p.targets[p.body[i]], LAMBDA w : w = v) - 1

(* The lines the loop looks at: upward to the nearest definition.          *)
Searched(p, before) ==
  {k \in 0 .. before - 1 :
     /\ \A d \in p.definitions : d >= before \/ d < k
     /\ p.type[k] \in {"SIMULATE", "CALL"}}

(* Mutant of GetInteractions: only the partners of the qubit itself.       *)
GetPartners(p, before, qubit) ==
  {qubit} \cup
    UNION {g \in {{QubitAt(p, k, v) : v \in Range(p.targets[k])} :
                    k \in Searched(p, before)} : qubit \in g}

(* What groups of qubits that act together connect a qubit to.             *)
Connected(groups, qubit) ==
  LET Within[r \in 0 .. Cardinality(groups)] ==
        IF r = 0 THEN {qubit}
        ELSE LET S == Within[r - 1]
             IN  S \cup UNION {g \in groups : g \cap S # {}}
  IN  Within[Cardinality(groups)]

GetInteractions(p, before, qubit) ==
  LET QubitsAt(k) == {QubitAt(p, k, v) : v \in Range(p.targets[k])}
  IN  Connected({QubitsAt(k) : k \in Searched(p, before)}, qubit)

=============================================================================
