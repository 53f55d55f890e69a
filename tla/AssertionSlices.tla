-------------------------- MODULE AssertionSlices --------------------------
(***************************************************************************)
(* The assertion compiler (compileStatisticalSlice in                      *)
(* src/src/backend/dd/DDSimDebug.cpp): a program with assertions becomes   *)
(* slices, programs that measure the targets of some of its assertions.    *)
(* p stands for the tables QubitPrograms makes; optimization level 1       *)
(* cancels assertions others imply, level 2 puts several into one slice.   *)
(***************************************************************************)
EXTENDS AssertionMovement, AssertionChecks

Assertions(p) == {i \in DOMAIN p.type : p.type[i] = "ASSERTION"}
AssertionAt(p, i) == [p.lines[i] EXCEPT !.targets = p.targets[i]]

-----------------------------------------------------------------------------
(* tryCancelAssertion: upward past what the assertion commutes with, to    *)
(* the nearest assertion that implies it. Instruction 0 is never looked    *)
(* at; comparing two equality assertions may throw.                        *)

(* Mutant of Commutes: every instruction is passed.                        *)
CommutesAlways(p, i, k) == TRUE

Commutes(p, i, k) == DoesCommute(p, i, k)

Stops(p, i) ==
  {k \in 1 .. i - 1 :
     IF p.type[k] # "ASSERTION" THEN ~Commutes(p, i, k)
     ELSE \/ ImpliesThrows(AssertionAt(p, k), AssertionAt(p, i))
          \/ Implies(AssertionAt(p, k), AssertionAt(p, i))}

CancelledBy(p, i, stops) ==
  LET stop == Max(stops)
  IN  CASE stops = {} \/ p.type[stop] # "ASSERTION" -> "kept"
        [] ImpliesThrows(AssertionAt(p, stop), AssertionAt(p, i)) -> "throws"
        [] OTHER -> "cancelled"

Cancellation(p, i) == CancelledBy(p, i, Stops(p, i))

(* Mutant of IndependentOf: the instruction right behind the earlier       *)
(* assertion is not looked at.                                             *)
IndependentBehindNext(p, previous, next) ==
  \/ p.lines[previous].asserts = "circ"
  \/ \A k \in previous + 2 .. next - 1 :
       p.type[k] # "ASSERTION" =>
         Range(p.lines[k].targets) \cap Range(p.targets[next]) = {}

(* areAssertionsIndependent: nothing since the earlier assertion names a   *)
(* target of the later one. A whole register is another name.              *)
IndependentOf(p, previous, next) ==
  \/ p.lines[previous].asserts = "circ"
  \/ \A k \in previous + 1 .. next - 1 :
       p.type[k] # "ASSERTION" =>
         Range(p.lines[k].targets) \cap Range(p.targets[next]) = {}

AreIndependent(p, previous, next) ==
  \A m \in DOMAIN previous : IndependentOf(p, previous[m], next)

-----------------------------------------------------------------------------
(* The loop that finds the assertions of a slice, one turn for each of the *)
(* instructions that is an assertion: skipped are those seen so far, whose *)
(* text the slice leaves out.                                              *)

Fates(p, opt) ==
  [i \in Assertions(p) |-> IF opt = 0 THEN "kept" ELSE Cancellation(p, i)]

(* Mutant of NextSlice: the assertion that ends a slice is not the first   *)
(* of the next.                                                            *)
NextSliceWithoutFirst(opt, s, i) ==
  IF s.index = 0
  THEN [s EXCEPT !.ended = TRUE, !.cover = IF opt < 2 THEN <<i>> ELSE @]
  ELSE [s EXCEPT !.index = @ - 1, !.cover = <<>>]

(* An assertion that cannot join the slice ends it or begins the next.     *)
NextSlice(opt, s, i) ==
  IF s.index = 0
  THEN [s EXCEPT !.ended = TRUE, !.cover = IF opt < 2 THEN <<i>> ELSE @]
  ELSE [s EXCEPT !.index = @ - 1, !.cover = IF opt < 2 THEN <<>> ELSE <<i>>]

Turn(p, opt, fate, s, i) ==
  LET seen == [s EXCEPT !.skipped = @ \cup {i}]
  IN  CASE s.ended -> s
        [] ~s.ended /\ fate = "throws" ->
             [seen EXCEPT !.ended = TRUE, !.thrown = TRUE]
        [] ~s.ended /\ fate = "cancelled" -> seen
        [] ~s.ended /\ fate = "kept" ->
             IF opt >= 2 /\ AreIndependent(p, s.cover, i)
             THEN [seen EXCEPT !.cover = Append(@, i)]
             ELSE NextSlice(opt, seen, i)

Compiled(p, opt, fates, sliceIndex) ==
  LET Before[i \in 0 .. p.n] ==
        IF i = 0
        THEN [index |-> sliceIndex, cover |-> <<>>, skipped |-> {},
              ended |-> FALSE, thrown |-> FALSE]
        ELSE IF i - 1 \in DOMAIN fates
        THEN Turn(p, opt, fates[i - 1], Before[i - 1], i - 1)
        ELSE Before[i - 1]
  IN  Before[p.n]

(* compile returns 0 when there is no such slice.                          *)
IsSlice(s) == ~s.thrown /\ s.index = 0 /\ s.cover # <<>>

(* The slices a client gets when it asks for one after the other until     *)
(* there is none.                                                          *)
UntilNone(compiled) ==
  LET count == Max({n \in DOMAIN compiled :
                      \A k \in 0 .. n - 1 : IsSlice(compiled[k])})
  IN  [k \in 1 .. count |-> compiled[k - 1]]

SlicesOf(p, opt, fates) ==
  UntilNone([k \in 0 .. Cardinality(DOMAIN fates) |-> Compiled(p, opt, fates, k)])

Slices(p, opt) == SlicesOf(p, opt, Fates(p, opt))

-----------------------------------------------------------------------------
(* What a slice does: the operations before its last assertion, with       *)
(* measurements of the targets where the covered assertions were.          *)

(* compileProjectiveMeasurement: the circuit backwards, the measurements,  *)
(* the circuit forwards. The operations themselves are not inverted.       *)
Measurements(p, i) ==
  LET assertion == AssertionAt(p, i)
      qubits == [m \in DOMAIN assertion.targets |-> p.qubit[assertion.targets[m]]]
      Place(op) == [is |-> "gate",
                    gate |-> <<op[1], [m \in DOMAIN op[2] |-> qubits[op[2][m] + 1]]>>]
      Placed(ops) == [m \in DOMAIN ops |-> Place(ops[m])]
      readings == [m \in DOMAIN qubits |->
                     [is |-> "read", for |-> i, qubit |-> qubits[m]]]
  IN  IF assertion.asserts = "circ"
      THEN Placed(Reverse(assertion.code)) \o readings \o Placed(assertion.code)
      ELSE readings

CircuitSteps(p, first, end) ==
  LET ops == SelectSeq(p.ops, LAMBDA op :
               LET root == IF op.frames = <<>> THEN op.at ELSE op.frames[1]
               IN  root \in first .. end - 1)
  IN  [m \in DOMAIN ops |-> [is |-> "op", op |-> ops[m]]]

(* The steps of the program with some assertions measured, up to one.      *)
Instrumented(p, cover, end) ==
  FlattenSeq([k \in 1 .. end |->
    CircuitSteps(p, k - 1, k)
      \o IF k < end /\ k \in Range(cover) THEN Measurements(p, k) ELSE <<>>])

SliceSteps(p, slice) == Instrumented(p, slice.cover, Max(slice.skipped) + 1)

=============================================================================
