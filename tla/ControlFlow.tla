---------------------------- MODULE ControlFlow ----------------------------
(***************************************************************************)
(* How one step moves through a preprocessed program: the parts of         *)
(* stepForward and stepBackward (DDSimDebug.cpp) that deal with the        *)
(* instruction pointer and the three stacks, as functions of a flow        *)
(* [pos, prev, calls, restore].                                            *)
(***************************************************************************)
EXTENDS QuantumPrograms, SequencesExt

CallsOf(p) == {i \in 0 .. p.n - 1 : p.type[i] = "CALL"}

Flows(p) ==
  [pos : 0 .. p.n,
   prev : Seq(0 .. p.n - 1),
   calls : Seq(CallsOf(p)),
   restore : Seq({<<c + 1, c>> : c \in CallsOf(p)})]

FlowStart == [pos |-> 0, prev |-> <<>>, calls |-> <<>>, restore |-> <<>>]

(* The instruction, the return and the call part of stepForward.           *)
Forward(p, f) ==
  LET i == f.pos
      returns == p.succ[i] = 0
      caller == Last(f.calls)
  IN  [pos |-> IF returns THEN caller + 1 ELSE p.succ[i],
       prev |-> Append(f.prev, i),
       calls |-> CASE returns -> Front(f.calls)
                   [] p.type[i] = "CALL" -> Append(f.calls, i)
                   [] OTHER -> f.calls,
       restore |-> IF returns THEN Append(f.restore, <<caller + 1, caller>>)
                              ELSE f.restore]

(* A measurement or a reset forgets the way back.                          *)
ClosedKeepsWay(f) == [f EXCEPT !.restore = <<>>]     \* mutant

Closed(f) == [f EXCEPT !.prev = <<>>, !.restore = <<>>]

Reenters(f) == f.restore # <<>> /\ f.pos = Last(f.restore)[1]

(* Mutants of Backward: the pending return is kept, the call is not left.  *)
BackwardKeepsReturn(f) ==
  LET entered == IF Reenters(f) THEN Append(f.calls, Last(f.restore)[2])
                                ELSE f.calls
      i == Last(f.prev)
      leaves == entered # <<>> /\ i = Last(entered)
  IN  [pos |-> i, prev |-> Front(f.prev),
       calls |-> IF leaves THEN Front(entered) ELSE entered,
       restore |-> f.restore]

BackwardStaysInGate(f) ==
  [pos |-> Last(f.prev),
   prev |-> Front(f.prev),
   calls |-> IF Reenters(f) THEN Append(f.calls, Last(f.restore)[2])
                            ELSE f.calls,
   restore |-> IF Reenters(f) THEN Front(f.restore) ELSE f.restore]

(* The same part of stepBackward: it re-enters a gate when the position is *)
(* the one the last return led to, and leaves one when it comes back to    *)
(* the innermost pending call.                                             *)
Backward(f) ==
  LET entered == IF Reenters(f) THEN Append(f.calls, Last(f.restore)[2])
                                ELSE f.calls
      i == Last(f.prev)
      leaves == entered # <<>> /\ i = Last(entered)
  IN  [pos |-> i,
       prev |-> Front(f.prev),
       calls |-> IF leaves THEN Front(entered) ELSE entered,
       restore |-> IF Reenters(f) THEN Front(f.restore) ELSE f.restore]

-----------------------------------------------------------------------------

(* The gates that are called, each named by the place its body starts at.  *)
GatesOf(p) == {Callee(p, i) : i \in CallsOf(p)}

(* No gate calls itself, directly or through others.                       *)
NeverRecursive(p) ==
  \E rank \in [GatesOf(p) -> 0 .. p.n] :
    \A i \in CallsOf(p) :
      p.body[i] \in GatesOf(p) => rank[Callee(p, i)] < rank[p.body[i]]

(* The gate body the innermost pending call entered.                       *)
EnteredBody(p, calls) ==
  IF calls = <<>> THEN TopLevel ELSE Callee(p, Last(calls))

(* The pending calls are the nesting of gate bodies the position lies in:  *)
(* each was made from the body the one below it entered, and the position  *)
(* is in the body the innermost one entered.                               *)
Nested(p, f) ==
  /\ p.body[f.pos] = EnteredBody(p, f.calls)
  /\ \A k \in 1 .. Len(f.calls) :
       p.body[f.calls[k]] = EnteredBody(p, SubSeq(f.calls, 1, k - 1))

(* The places a program leads through in so many steps by its tables       *)
(* alone, operations and assertions left out.                              *)
Journey(p, steps) ==
  LET At[k \in 0 .. steps] ==
        IF k = 0 THEN FlowStart
        ELSE LET f == At[k - 1]
             IN  IF f.pos = p.n THEN f ELSE Forward(p, f)
  IN  At

(* m steps lead through p by its tables, at[k] being the place after k of   *)
(* them and done[k] the operations of the circuit met by then. Every       *)
(* SIMULATE instruction meets the next operation, made from it and inlined *)
(* through the calls pending, and at the end of the program none is left.  *)
Executes(p, m, at, done) ==
  /\ done \in [0 .. m -> Nat]
  /\ at[0] = FlowStart /\ done[0] = 0
  /\ at[m].pos = p.n /\ done[m] = Len(p.ops)
  /\ \A k \in 0 .. m - 1 :
       /\ at[k].pos < p.n
       /\ at[k + 1] = Forward(p, at[k])
       /\ IF p.type[at[k].pos] = "SIMULATE"
          THEN /\ done[k] < Len(p.ops) /\ done[k + 1] = done[k] + 1
               /\ p.ops[done[k] + 1].at = at[k].pos
               /\ p.ops[done[k] + 1].frames = at[k].calls
          ELSE done[k + 1] = done[k]

(* The circuit of p is what an execution of at most so many steps meets.   *)
IsExpanded(p, steps) ==
  LET at == Journey(p, steps)
      Met(k) == {j \in 0 .. k - 1 : p.type[at[j].pos] = "SIMULATE"}
  IN  \E m \in 0 .. steps :
        /\ at[m].pos = p.n /\ \A k \in 0 .. m - 1 : at[k].pos < p.n
        /\ Executes(p, m, at, [k \in 0 .. m |-> Cardinality(Met(k))])

(* h lists the flows that f was stepped from, oldest first.                *)
IsPath(p, h, f) ==
  /\ h \in Seq(Flows(p))
  /\ Len(h) = Len(f.prev)
  /\ \A k \in 1 .. Len(h) :
       /\ h[k].pos < p.n
       /\ Nested(p, h[k])
       /\ Forward(p, h[k]) = IF k = Len(h) THEN f ELSE h[k + 1]

=============================================================================
