------------------------ MODULE ControlFlow_proofs ------------------------
(***************************************************************************)
(* One step forward keeps the call stack a nesting of gate bodies, and one *)
(* step backward undoes it, in every well-formed program.                  *)
(***************************************************************************)
EXTENDS ControlFlow, SequenceTheorems, WellFoundedInduction, TLAPS

(* Pushing on a stack, and popping what was pushed.                        *)
LEMMA PushPop ==
  ASSUME NEW S, NEW s \in Seq(S), NEW e \in S
  PROVE  /\ Append(s, e) \in Seq(S)
         /\ Append(s, e) # <<>>
         /\ Len(Append(s, e)) = Len(s) + 1
         /\ Last(Append(s, e)) = e
         /\ Front(Append(s, e)) = s
  BY DEF Last, Front

(* Popping a stack that is not empty, and pushing it back.                 *)
LEMMA PopPush ==
  ASSUME NEW S, NEW s \in Seq(S), s # <<>>
  PROVE  /\ Len(s) \in Nat /\ Len(s) > 0
         /\ Last(s) \in S
         /\ Last(s) = s[Len(s)]
         /\ Front(s) \in Seq(S)
         /\ Len(Front(s)) = Len(s) - 1
         /\ \A k \in 1 .. Len(s) - 1 : Front(s)[k] = s[k]
         /\ Append(Front(s), Last(s)) = s
<1>1. Len(s) \in Nat /\ Len(s) > 0
  BY EmptySeq
<1>2. Last(s) \in S /\ Last(s) = s[Len(s)]
  BY <1>1, ElementOfSeq DEF Last
<1>3. /\ Front(s) \in Seq(S)
      /\ Len(Front(s)) = Len(s) - 1
      /\ \A k \in 1 .. Len(s) - 1 : Front(s)[k] = s[k]
  <2>1. \A i \in 1 .. Len(s) - 1 : s[i] \in S
    BY <1>1, ElementOfSeq
  <2>2. PICK m \in Nat : m = Len(s) - 1
    BY <1>1
  <2>3. /\ SubSeq(s, 1, m) \in Seq(S)
        /\ Len(SubSeq(s, 1, m)) = m
        /\ \A k \in 1 .. m : SubSeq(s, 1, m)[k] = s[k]
    BY <2>1, <2>2, SubSeqProperties
  <2> QED
    BY <2>2, <2>3 DEF Front
<1>4. Append(Front(s), Last(s)) = s
  <2>1. /\ Append(Front(s), Last(s)) \in Seq(S)
        /\ Len(Append(Front(s), Last(s))) = Len(s)
        /\ \A i \in 1 .. Len(s) : Append(Front(s), Last(s))[i] = s[i]
    BY <1>1, <1>2, <1>3, AppendProperties
  <2> QED
    BY <2>1, SeqEqual
<1> QED
  BY <1>1, <1>2, <1>3, <1>4

(* What lies below an element of a stack does not change when the stack is *)
(* pushed on or popped above it.                                           *)
LEMMA PrefixOfPush ==
  ASSUME NEW S, NEW s \in Seq(S), NEW e \in S,
         NEW k \in 1 .. Len(s) + 1
  PROVE  SubSeq(Append(s, e), 1, k - 1) = SubSeq(s, 1, k - 1)
<1>1. Len(s) \in Nat
  BY LenProperties
<1>2. \A i \in 1 .. k - 1 : s[i] \in S /\ Append(s, e)[i] = s[i]
  BY <1>1, ElementOfSeq, AppendProperties
<1>3. /\ SubSeq(s, 1, k - 1) \in Seq(S)
      /\ SubSeq(Append(s, e), 1, k - 1) \in Seq(S)
      /\ Len(SubSeq(s, 1, k - 1)) = Len(SubSeq(Append(s, e), 1, k - 1))
      /\ Len(SubSeq(s, 1, k - 1)) = k - 1
      /\ \A i \in 1 .. k - 1 :
           SubSeq(s, 1, k - 1)[i] = SubSeq(Append(s, e), 1, k - 1)[i]
  BY <1>1, <1>2, SubSeqProperties
<1> QED
  BY <1>3, SeqEqual

LEMMA PrefixOfPop ==
  ASSUME NEW S, NEW s \in Seq(S), s # <<>>, NEW k \in 1 .. Len(s)
  PROVE  SubSeq(s, 1, k - 1) = SubSeq(Front(s), 1, k - 1)
<1>1. /\ Front(s) \in Seq(S) /\ Last(s) \in S
      /\ Append(Front(s), Last(s)) = s
      /\ k \in 1 .. Len(Front(s)) + 1
  BY PopPush
<1> QED
  BY <1>1, PrefixOfPush

-----------------------------------------------------------------------------

(* What the lemmas below assume: a place of a well-formed program with an  *)
(* instruction left to execute.                                            *)
Ahead(p, f) ==
  WellFormedFlow(p) /\ f \in Flows(p) /\ Nested(p, f) /\ f.pos < p.n

LEMMA FlowTypes ==
  ASSUME NEW p, NEW f, Ahead(p, f)
  PROVE  /\ p.n \in Nat
         /\ f.pos \in 0 .. p.n - 1
         /\ f.prev \in Seq(0 .. p.n - 1)
         /\ f.calls \in Seq(CallsOf(p))
         /\ f.restore \in Seq({<<c + 1, c>> : c \in CallsOf(p)})
         /\ f = [pos |-> f.pos, prev |-> f.prev, calls |-> f.calls,
                 restore |-> f.restore]
  BY DEF Ahead, WellFormedFlow, Flows

(* The innermost pending call, when there is one: the position lies in the *)
(* body it entered, and the instruction behind it in the one it was made   *)
(* from.                                                                   *)
LEMMA InnermostCall ==
  ASSUME NEW p, NEW f, Ahead(p, f), f.calls # <<>>
  PROVE  /\ Last(f.calls) \in CallsOf(p)
         /\ p.body[Last(f.calls) + 1] = EnteredBody(p, Front(f.calls))
<1>1. /\ Len(f.calls) \in Nat /\ Len(f.calls) > 0
      /\ Last(f.calls) \in CallsOf(p)
      /\ Last(f.calls) = f.calls[Len(f.calls)]
      /\ SubSeq(f.calls, 1, Len(f.calls) - 1) = Front(f.calls)
  BY FlowTypes, PopPush DEF Front
<1>2. p.body[f.calls[Len(f.calls)]] = EnteredBody(p, Front(f.calls))
  <2>1. \A k \in 1 .. Len(f.calls) :
          p.body[f.calls[k]] = EnteredBody(p, SubSeq(f.calls, 1, k - 1))
    BY DEF Ahead, Nested
  <2>2. Len(f.calls) \in 1 .. Len(f.calls)
    BY <1>1
  <2>3. p.body[f.calls[Len(f.calls)]]
          = EnteredBody(p, SubSeq(f.calls, 1, Len(f.calls) - 1))
    BY <2>1, <2>2
  <2> QED
    BY <1>1, <2>3
<1>3. p.body[Last(f.calls) + 1] = p.body[Last(f.calls)]
  BY <1>1 DEF Ahead, WellFormedFlow, CallsOf
<1> QED
  BY <1>1, <1>2, <1>3

(* A RETURN is never met with an empty call stack.                         *)
LEMMA ReturnHasCaller ==
  ASSUME NEW p, NEW f, Ahead(p, f), p.succ[f.pos] = 0
  PROVE  f.calls # <<>>
<1>1. f.pos \in 0 .. p.n - 1
  BY FlowTypes
<1>2. p.type[f.pos] = "RETURN" /\ p.body[f.pos] # TopLevel
  BY <1>1 DEF Ahead, WellFormedFlow
<1> QED
  BY <1>2 DEF Ahead, Nested, EnteredBody

(* One step forward stays in the program and keeps the call stack a        *)
(* nesting.                                                                *)
LEMMA ForwardIsNested ==
  ASSUME NEW p, NEW f, Ahead(p, f)
  PROVE  Forward(p, f) \in Flows(p) /\ Nested(p, Forward(p, f))
<1> DEFINE g == Forward(p, f)
           i == f.pos
<1>1. /\ p.n \in Nat /\ i \in 0 .. p.n - 1
      /\ f.prev \in Seq(0 .. p.n - 1) /\ f.calls \in Seq(CallsOf(p))
      /\ f.restore \in Seq({<<c + 1, c>> : c \in CallsOf(p)})
      /\ Append(f.prev, i) \in Seq(0 .. p.n - 1)
  BY FlowTypes, PushPop
<1>2. p.body[i] = EnteredBody(p, f.calls)
  BY DEF Ahead, Nested
<1>3. \A k \in 1 .. Len(f.calls) :
        p.body[f.calls[k]] = EnteredBody(p, SubSeq(f.calls, 1, k - 1))
  BY DEF Ahead, Nested
<1>4. CASE p.succ[i] = 0
  <2> DEFINE caller == Last(f.calls)
  <2>1. /\ f.calls # <<>> /\ caller \in CallsOf(p)
        /\ p.body[caller + 1] = EnteredBody(p, Front(f.calls))
    BY <1>4, ReturnHasCaller, InnermostCall
  <2>2. g = [pos |-> caller + 1, prev |-> Append(f.prev, i),
             calls |-> Front(f.calls),
             restore |-> Append(f.restore, <<caller + 1, caller>>)]
    <3>1. p.type[i] # "CALL"
      BY <1>1, <1>4 DEF Ahead, WellFormedFlow
    <3> QED
      BY <1>4, <3>1 DEF Forward
  <2>3. /\ Front(f.calls) \in Seq(CallsOf(p))
        /\ Append(f.restore, <<caller + 1, caller>>)
             \in Seq({<<c + 1, c>> : c \in CallsOf(p)})
        /\ caller + 1 \in 0 .. p.n
    <3>1. <<caller + 1, caller>> \in {<<c + 1, c>> : c \in CallsOf(p)}
      BY <2>1
    <3>2. Append(f.restore, <<caller + 1, caller>>)
            \in Seq({<<c + 1, c>> : c \in CallsOf(p)})
      BY <1>1, <3>1, PushPop
    <3>3. caller + 1 \in 0 .. p.n
      BY <1>1, <2>1 DEF CallsOf
    <3> QED
      BY <1>1, <2>1, <3>2, <3>3, PopPush
  <2>4. g \in Flows(p)
    BY <1>1, <2>2, <2>3 DEF Flows
  <2>5. \A k \in 1 .. Len(Front(f.calls)) :
          p.body[Front(f.calls)[k]]
            = EnteredBody(p, SubSeq(Front(f.calls), 1, k - 1))
    <3> SUFFICES ASSUME NEW k \in 1 .. Len(Front(f.calls))
                 PROVE  p.body[Front(f.calls)[k]]
                          = EnteredBody(p, SubSeq(Front(f.calls), 1, k - 1))
      OBVIOUS
    <3>1. k \in 1 .. Len(f.calls) /\ Front(f.calls)[k] = f.calls[k]
      <4>1. /\ Len(f.calls) \in Nat /\ Len(Front(f.calls)) = Len(f.calls) - 1
            /\ \A j \in 1 .. Len(f.calls) - 1 : Front(f.calls)[j] = f.calls[j]
        BY <1>1, <2>1, PopPush
      <4> QED
        BY <4>1
    <3>2. SubSeq(f.calls, 1, k - 1) = SubSeq(Front(f.calls), 1, k - 1)
      BY <1>1, <2>1, <3>1, PrefixOfPop
    <3> QED
      BY <1>3, <3>1, <3>2
  <2> QED
    BY <2>1, <2>2, <2>4, <2>5 DEF Nested
<1>5. CASE p.succ[i] # 0 /\ p.type[i] = "CALL"
  <2>1. g = [pos |-> p.succ[i], prev |-> Append(f.prev, i),
             calls |-> Append(f.calls, i), restore |-> f.restore]
    BY <1>5 DEF Forward
  <2>2. i \in CallsOf(p) /\ p.succ[i] \in 0 .. p.n
        /\ p.body[p.succ[i]] = Callee(p, i)
    BY <1>1, <1>5 DEF Ahead, WellFormedFlow, CallsOf
  <2>3. /\ Append(f.calls, i) \in Seq(CallsOf(p))
        /\ Append(f.calls, i) # <<>>
        /\ Last(Append(f.calls, i)) = i
        /\ Len(Append(f.calls, i)) = Len(f.calls) + 1
        /\ Append(f.calls, i)[Len(f.calls) + 1] = i
        /\ \A k \in 1 .. Len(f.calls) : Append(f.calls, i)[k] = f.calls[k]
        /\ Len(f.calls) \in Nat
    BY <1>1, <2>2, PushPop, AppendProperties, LenProperties
  <2>4. g \in Flows(p)
    BY <1>1, <2>1, <2>2, <2>3 DEF Flows
  <2>5. p.body[g.pos] = EnteredBody(p, g.calls)
    BY <2>1, <2>2, <2>3 DEF EnteredBody
  <2>6. ASSUME NEW k \in 1 .. Len(Append(f.calls, i))
        PROVE  p.body[Append(f.calls, i)[k]]
                 = EnteredBody(p, SubSeq(Append(f.calls, i), 1, k - 1))
    <3>1. SubSeq(Append(f.calls, i), 1, k - 1) = SubSeq(f.calls, 1, k - 1)
      BY <1>1, <2>2, <2>3, PrefixOfPush
    <3>2. CASE k \in 1 .. Len(f.calls)
      BY <1>3, <2>3, <3>1, <3>2
    <3>3. CASE k = Len(f.calls) + 1
      <4>1. SubSeq(f.calls, 1, k - 1) = f.calls
        BY <1>1, <2>3, <3>3
      <4> QED
        BY <1>2, <2>3, <3>1, <3>3, <4>1
    <3> QED
      BY <2>3, <3>2, <3>3
  <2> QED
    BY <2>1, <2>4, <2>5, <2>6 DEF Nested
<1>6. CASE p.succ[i] # 0 /\ p.type[i] # "CALL"
  <2>1. g = [pos |-> p.succ[i], prev |-> Append(f.prev, i),
             calls |-> f.calls, restore |-> f.restore]
    BY <1>6 DEF Forward
  <2>2. p.succ[i] \in 0 .. p.n /\ p.body[p.succ[i]] = p.body[i]
    BY <1>1, <1>6 DEF Ahead, WellFormedFlow
  <2>3. g \in Flows(p)
    BY <1>1, <2>1, <2>2 DEF Flows
  <2>4. p.body[g.pos] = EnteredBody(p, g.calls) /\ g.calls = f.calls
    BY <1>2, <2>1, <2>2
  <2> QED
    BY <1>3, <2>3, <2>4 DEF Nested
<1> QED
  BY <1>4, <1>5, <1>6

(* What stepping backward into a gate restores.                            *)
LEMMA BackwardIntoGate ==
  ASSUME NEW g, NEW calls,
         g.restore # <<>>, g.pos = Last(g.restore)[1],
         calls = Append(g.calls, Last(g.restore)[2]),
         ~(calls # <<>> /\ Last(g.prev) = Last(calls))
  PROVE  Backward(g) = [pos |-> Last(g.prev), prev |-> Front(g.prev),
                        calls |-> calls, restore |-> Front(g.restore)]
  BY Zenon DEF Backward, Reenters

(* One step backward undoes one step forward, whichever instruction was    *)
(* stepped over: it takes a position for the target of a return only when  *)
(* the last return led there, and an instruction for a pending call only   *)
(* when it is the innermost one.                                           *)
LEMMA BackwardUndoesForward ==
  ASSUME NEW p, NEW f, Ahead(p, f)
  PROVE  Backward(Forward(p, f)) = f
<1> DEFINE g == Forward(p, f)
           i == f.pos
<1>1. /\ p.n \in Nat /\ i \in 0 .. p.n - 1
      /\ f.prev \in Seq(0 .. p.n - 1) /\ f.calls \in Seq(CallsOf(p))
      /\ f.restore \in Seq({<<c + 1, c>> : c \in CallsOf(p)})
      /\ f = [pos |-> i, prev |-> f.prev, calls |-> f.calls,
              restore |-> f.restore]
  BY FlowTypes
<1>2. Last(Append(f.prev, i)) = i /\ Front(Append(f.prev, i)) = f.prev
  BY <1>1, PushPop
<1>3. ASSUME i \notin CallsOf(p)
      PROVE  ~(f.calls # <<>> /\ i = Last(f.calls))
  BY <1>1, <1>3, PopPush
<1>4. ASSUME p.succ[i] # 0, p.type[i] # "RETURN"
      PROVE  ~(f.restore # <<>> /\ p.succ[i] = Last(f.restore)[1])
  <2> SUFFICES ASSUME f.restore # <<>>, p.succ[i] = Last(f.restore)[1]
               PROVE  FALSE
    OBVIOUS
  <2>1. Last(f.restore) \in {<<c + 1, c>> : c \in CallsOf(p)}
    BY <1>1, PopPush
  <2>2. PICK c \in CallsOf(p) : Last(f.restore) = <<c + 1, c>>
    BY <2>1
  <2>3. p.succ[i] = c + 1 /\ c \in 0 .. p.n - 1 /\ p.type[c] = "CALL"
    BY <2>2 DEF CallsOf
  <2>4. p.type[p.succ[i] - 1] # "CALL"
    BY <1>1, <1>4, <2>3 DEF Ahead, WellFormedFlow, Callee
  <2> QED
    BY <2>3, <2>4
<1>5. CASE p.succ[i] = 0
  <2> DEFINE caller == Last(f.calls)
  <2>1. /\ f.calls # <<>> /\ caller \in CallsOf(p)
        /\ p.type[i] = "RETURN"
    <3>1. f.calls # <<>> /\ caller \in CallsOf(p)
      BY <1>5, ReturnHasCaller, InnermostCall
    <3>2. p.type[i] = "RETURN"
      BY <1>1, <1>5 DEF Ahead, WellFormedFlow
    <3> QED
      BY <3>1, <3>2
  <2>2. g = [pos |-> caller + 1, prev |-> Append(f.prev, i),
             calls |-> Front(f.calls),
             restore |-> Append(f.restore, <<caller + 1, caller>>)]
    BY <1>5, <2>1 DEF Forward
  <2>3. <<caller + 1, caller>> \in {<<c + 1, c>> : c \in CallsOf(p)}
    BY <2>1
  <2>4. /\ g.restore # <<>> /\ Last(g.restore) = <<caller + 1, caller>>
        /\ Front(g.restore) = f.restore
    <3>1. g.restore = Append(f.restore, <<caller + 1, caller>>)
      BY <2>2
    <3> QED
      BY <1>1, <2>3, <3>1, PushPop
  <2>5. Append(g.calls, caller) = f.calls
    BY <1>1, <2>1, <2>2, PopPush
  <2>6. ~(f.calls # <<>> /\ i = Last(f.calls))
    BY <1>3, <2>1 DEF CallsOf
  <2>7. g.pos = caller + 1 /\ g.prev = Append(f.prev, i)
    BY <2>2
  <2>8. /\ g.restore # <<>> /\ g.pos = Last(g.restore)[1]
        /\ Append(g.calls, Last(g.restore)[2]) = f.calls
    BY <2>4, <2>5, <2>7
  <2>9. Last(g.prev) = i /\ Front(g.prev) = f.prev
    BY <1>2, <2>7
  <2> HIDE DEF g, i
  <2>10. Backward(g) = [pos |-> i, prev |-> f.prev, calls |-> f.calls,
                        restore |-> f.restore]
    BY <2>4, <2>6, <2>8, <2>9, BackwardIntoGate
  <2> QED
    BY <1>1, <2>10 DEF g
<1>6. CASE p.succ[i] # 0 /\ p.type[i] = "CALL"
  <2>1. g = [pos |-> p.succ[i], prev |-> Append(f.prev, i),
             calls |-> Append(f.calls, i), restore |-> f.restore]
    BY <1>6 DEF Forward
  <2>2. /\ g.calls # <<>> /\ Last(g.calls) = i /\ Front(g.calls) = f.calls
    <3>1. g.calls = Append(f.calls, i) /\ i \in CallsOf(p)
      BY <1>1, <1>6, <2>1 DEF CallsOf
    <3> QED
      BY <1>1, <3>1, PushPop
  <2>3. ~(g.restore # <<>> /\ g.pos = Last(g.restore)[1])
    BY <1>4, <1>6, <2>1
  <2>4. g.prev = Append(f.prev, i) /\ g.restore = f.restore
    BY <2>1
  <2> QED
    BY <1>1, <1>2, <2>2, <2>3, <2>4 DEF Backward, Reenters
<1>7. CASE p.succ[i] # 0 /\ p.type[i] # "CALL"
  <2>1. g = [pos |-> p.succ[i], prev |-> Append(f.prev, i),
             calls |-> f.calls, restore |-> f.restore]
    BY <1>7 DEF Forward
  <2>2. p.type[i] # "RETURN"
    BY <1>1, <1>7 DEF Ahead, WellFormedFlow
  <2>3. ~(g.restore # <<>> /\ g.pos = Last(g.restore)[1])
    BY <1>4, <1>7, <2>1, <2>2
  <2>4. ~(g.calls # <<>> /\ i = Last(g.calls))
    BY <1>3, <1>7, <2>1 DEF CallsOf
  <2>5. /\ g.prev = Append(f.prev, i) /\ g.restore = f.restore
        /\ g.calls = f.calls
    BY <2>1
  <2> QED
    BY <1>1, <1>2, <2>3, <2>4, <2>5 DEF Backward, Reenters
<1> QED
  BY <1>5, <1>6, <1>7

-----------------------------------------------------------------------------

(* A flow with nothing to step back to has the empty path.                 *)
LEMMA PathStart ==
  ASSUME NEW p, NEW f, f.prev = <<>>
  PROVE  IsPath(p, <<>>, f)
  BY EmptySeq DEF IsPath

(* A step forward adds the place it leaves to the path.                    *)
LEMMA PathForward ==
  ASSUME NEW p, NEW f, Ahead(p, f), NEW h, IsPath(p, h, f)
  PROVE  IsPath(p, Append(h, f), Forward(p, f))
<1> DEFINE hf == Append(h, f)
           m == Len(h)
<1>1. /\ h \in Seq(Flows(p)) /\ f \in Flows(p)
      /\ m = Len(f.prev) /\ m \in Nat
  BY LenProperties DEF IsPath, Ahead
<1>2. /\ hf \in Seq(Flows(p)) /\ Len(hf) = m + 1
      /\ hf[m + 1] = f /\ \A k \in 1 .. m : hf[k] = h[k]
  BY <1>1, AppendProperties
<1>3. Len(Forward(p, f).prev) = m + 1
  <2>1. /\ f.pos \in 0 .. p.n - 1 /\ f.prev \in Seq(0 .. p.n - 1)
        /\ Forward(p, f).prev = Append(f.prev, f.pos)
    BY FlowTypes DEF Forward
  <2> QED
    BY <1>1, <2>1, PushPop
<1>4. ASSUME NEW k \in 1 .. m + 1
      PROVE  /\ hf[k].pos < p.n /\ Nested(p, hf[k])
             /\ Forward(p, hf[k]) = IF k = m + 1 THEN Forward(p, f)
                                                 ELSE hf[k + 1]
  <2>1. CASE k = m + 1
    BY <1>2, <2>1 DEF Ahead
  <2>2. CASE k \in 1 .. m
    <3>1. /\ h[k].pos < p.n /\ Nested(p, h[k])
          /\ Forward(p, h[k]) = IF k = m THEN f ELSE h[k + 1]
      BY <2>2 DEF IsPath
    <3>2. CASE k = m
      BY <1>1, <1>2, <2>2, <3>1, <3>2
    <3>3. CASE k \in 1 .. m - 1
      BY <1>1, <1>2, <2>2, <3>1, <3>3
    <3> QED
      BY <1>1, <2>2, <3>2, <3>3
  <2> QED
    BY <1>1, <2>1, <2>2
<1> HIDE DEF hf
<1> QED
  BY <1>2, <1>3, <1>4 DEF IsPath, hf

(* A step backward leads to the last place of the path, and the places     *)
(* before it are the path there.                                           *)
LEMMA PathBackward ==
  ASSUME NEW p, WellFormedFlow(p), NEW f, f \in Flows(p), f.prev # <<>>,
         NEW h, IsPath(p, h, f)
  PROVE  /\ h # <<>> /\ Backward(f) = Last(h) /\ Ahead(p, Last(h))
         /\ IsPath(p, Front(h), Last(h))
<1> DEFINE m == Len(h)
<1>1. f.prev \in Seq(0 .. p.n - 1) /\ h \in Seq(Flows(p)) /\ m = Len(f.prev)
  BY DEF Flows, IsPath
<1>2. m \in Nat /\ m > 0 /\ h # <<>>
  BY <1>1, EmptySeq
<1>3. /\ Last(h) \in Flows(p) /\ Last(h) = h[m]
      /\ Front(h) \in Seq(Flows(p)) /\ Len(Front(h)) = m - 1
      /\ \A k \in 1 .. m - 1 : Front(h)[k] = h[k]
  BY <1>1, <1>2, PopPush
<1>4. \A k \in 1 .. m : /\ h[k].pos < p.n /\ Nested(p, h[k])
                        /\ Forward(p, h[k]) = IF k = m THEN f ELSE h[k + 1]
  BY DEF IsPath
<1>5. Ahead(p, Last(h)) /\ Forward(p, Last(h)) = f
  BY <1>2, <1>3, <1>4 DEF Ahead
<1>6. Backward(f) = Last(h)
  BY <1>5, BackwardUndoesForward
<1>7. Len(Last(h).prev) = m - 1
  <2>1. /\ Last(h).pos \in 0 .. p.n - 1 /\ Last(h).prev \in Seq(0 .. p.n - 1)
        /\ f.prev = Append(Last(h).prev, Last(h).pos)
    BY <1>5, FlowTypes DEF Forward
  <2>2. /\ Len(f.prev) = Len(Last(h).prev) + 1
        /\ Len(Last(h).prev) \in Nat
    BY <2>1, PushPop, LenProperties
  <2> QED
    BY <1>1, <2>2
<1>8. ASSUME NEW k \in 1 .. m - 1
      PROVE  /\ Front(h)[k].pos < p.n /\ Nested(p, Front(h)[k])
             /\ Forward(p, Front(h)[k])
                  = IF k = m - 1 THEN Last(h) ELSE Front(h)[k + 1]
  <2>1. /\ k \in 1 .. m /\ k # m /\ Front(h)[k] = h[k]
        /\ k = m - 1 => k + 1 = m
        /\ k # m - 1 => Front(h)[k + 1] = h[k + 1]
    BY <1>2, <1>3
  <2> QED
    BY <1>3, <1>4, <2>1
<1> HIDE DEF m
<1> QED
  BY <1>2, <1>3, <1>5, <1>6, <1>7, <1>8 DEF IsPath

-----------------------------------------------------------------------------

(* What a step does to the calls pending, whichever way it is made.        *)
Moves(p, f, g) ==
  /\ p.type[f.pos] = "CALL" => g.calls = Append(f.calls, f.pos)
  /\ p.type[f.pos] = "RETURN" =>
       /\ f.calls # <<>>
       /\ g.calls = Front(f.calls)
       /\ g.pos = Last(f.calls) + 1
  /\ p.type[f.pos] \notin {"CALL", "RETURN"} =>
       g.calls = f.calls /\ g.pos > f.pos

LEMMA ForwardMoves ==
  ASSUME NEW p, NEW f, Ahead(p, f)
  PROVE  Moves(p, f, Forward(p, f))
<1>1. f.pos \in 0 .. p.n - 1 /\ (p.type[f.pos] = "RETURN" <=> p.succ[f.pos] = 0)
  BY FlowTypes DEF Ahead, WellFormedFlow
<1>2. p.type[f.pos] \notin {"CALL", "RETURN"} => p.succ[f.pos] > f.pos
  BY <1>1 DEF Ahead, WellFormedFlow
<1>3. p.succ[f.pos] = 0 => f.calls # <<>>
  BY ReturnHasCaller
<1> QED
  BY <1>1, <1>2, <1>3 DEF Moves, Forward

-----------------------------------------------------------------------------
(* The least of some numbers: what induction over an interval is made of.  *)
LEMMA LeastNumber ==
  ASSUME NEW T \in SUBSET Nat, T # {}
  PROVE  \E x \in T : \A y \in T : x <= y
<1> DEFINE R == OpToRel(<, Nat)
<1>1. IsWellFoundedOn(R, Nat)
  BY NatLessThanWellFounded
<1> HIDE DEF R
<1>2. PICK x \in T : \A y \in T : ~ (<<y, x>> \in R)
  BY <1>1, WFMin
<1>3. ASSUME NEW y \in T
      PROVE  x <= y
  <2>1. x \in Nat /\ y \in Nat
    OBVIOUS
  <2>2. ~(y < x)
    BY <1>2, <2>1 DEF R, OpToRel
  <2> QED
    BY <2>1, <2>2
<1> QED
  BY <1>3

-----------------------------------------------------------------------------
(* Induction and recursion over an interval.                               *)

LEMMA IntervalInduction ==
  ASSUME NEW a \in Nat, NEW n \in Nat, a <= n, NEW T,
         a \in T, \A j \in a .. n : j \in T /\ j + 1 <= n => j + 1 \in T
  PROVE  \A j \in a .. n : j \in T
<1> SUFFICES ASSUME ~ \A j \in a .. n : j \in T
             PROVE  FALSE
  OBVIOUS
<1> DEFINE U == (a .. n) \ T
<1>1. U \in SUBSET Nat /\ U # {}
  OBVIOUS
<1>2. PICK u \in U : \A y \in U : u <= y
  <2> HIDE DEF U
  <2> QED
    BY <1>1, LeastNumber
<1>3. u \in a .. n /\ u \notin T /\ u # a
  OBVIOUS
<1>4. u - 1 \in a .. n /\ (u - 1) + 1 = u /\ ~(u <= u - 1)
  BY <1>3
<1>5. u - 1 \in T
  BY <1>2, <1>4
<1> QED
  BY <1>3, <1>4, <1>5

(* A function over a .. n is given by its first value and its steps.       *)
Recursion(S, x, a, n, step) ==
  /\ x \in S /\ a \in Nat /\ n \in Nat /\ a <= n
  /\ step \in [a + 1 .. n -> [S -> S]]

Follows(S, x, a, n, step, f) ==
  /\ f \in [a .. n -> S] /\ f[a] = x
  /\ \A j \in a + 1 .. n : f[j] = step[j][f[j - 1]]

FollowsWhileTyped(S, x, a, n, step, g) ==
  /\ g[a] = x
  /\ \A j \in a + 1 .. n : g[j - 1] \in S => g[j] = step[j][g[j - 1]]

LEMMA RecursionExists ==
  ASSUME NEW S, NEW x, NEW a, NEW n, NEW step, Recursion(S, x, a, n, step)
  PROVE  \E f : Follows(S, x, a, n, step, f)
<1>0. /\ x \in S /\ a \in Nat /\ n \in Nat /\ a <= n
      /\ step \in [a + 1 .. n -> [S -> S]]
  BY DEF Recursion
<1> USE <1>0
<1> DEFINE Made(m, f) ==
             /\ f \in [a .. m -> S] /\ f[a] = x
             /\ \A j \in a + 1 .. m : f[j] = step[j][f[j - 1]]
           T == {m \in a .. n : \E f : Made(m, f)}
<1>1. a \in T
  <2> DEFINE f == [j \in a .. a |-> x]
  <2>1. f \in [a .. a -> S] /\ f[a] = x /\ a + 1 .. a = {}
    OBVIOUS
  <2>2. Made(a, f)
    BY <2>1
  <2> HIDE DEF Made
  <2> QED
    BY <2>2
<1>2. ASSUME NEW m \in a .. n, m \in T, m + 1 <= n
      PROVE  m + 1 \in T
  <2>1. PICK f : Made(m, f)
    BY <1>2
  <2> DEFINE g == [j \in a .. m + 1 |-> IF j = m + 1 THEN step[m + 1][f[m]]
                                                    ELSE f[j]]
  <2>2. m \in a .. m /\ m + 1 \in a + 1 .. n /\ m + 1 \in a .. n
    BY <1>2
  <2>3. f \in [a .. m -> S] /\ f[a] = x
        /\ \A j \in a + 1 .. m : f[j] = step[j][f[j - 1]]
    BY <2>1
  <2>4. step[m + 1][f[m]] \in S
    <3>1. f[m] \in S /\ step[m + 1] \in [S -> S]
      BY <2>2, <2>3
    <3> QED
      BY <3>1
  <2>5. g \in [a .. m + 1 -> S]
    <3> SUFFICES ASSUME NEW j \in a .. m + 1
                 PROVE  (IF j = m + 1 THEN step[m + 1][f[m]] ELSE f[j]) \in S
      OBVIOUS
    <3>1. CASE j = m + 1
      BY <2>4, <3>1
    <3>2. CASE j # m + 1
      <4>1. j \in a .. m
        BY <3>2
      <4> QED
        BY <2>3, <3>2, <4>1
    <3> QED
      BY <3>1, <3>2
  <2>6. g[m + 1] = step[m + 1][f[m]] /\ \A j \in a .. m : g[j] = f[j]
    OBVIOUS
  <2> HIDE DEF g
  <2>7. g[a] = x
    BY <2>2, <2>3, <2>6
  <2>8. ASSUME NEW j \in a + 1 .. m + 1
        PROVE  g[j] = step[j][g[j - 1]]
    <3>1. CASE j = m + 1
      <4>1. j - 1 = m
        BY <3>1
      <4> QED
        BY <2>2, <2>6, <3>1, <4>1
    <3>2. CASE j # m + 1
      <4>1. j \in a + 1 .. m /\ j \in a .. m /\ j - 1 \in a .. m
        BY <3>2
      <4> QED
        BY <2>3, <2>6, <4>1
    <3> QED
      BY <3>1, <3>2
  <2>9. Made(m + 1, g)
    BY <2>5, <2>7, <2>8
  <2> HIDE DEF Made
  <2> QED
    BY <2>2, <2>9
<1>3. n \in T
  <2>1. n \in a .. n
    OBVIOUS
  <2> HIDE DEF T
  <2> QED
    BY <1>1, <1>2, <2>1, IntervalInduction
<1> QED
  BY <1>3 DEF Follows

LEMMA RecursionUnique ==
  ASSUME NEW S, NEW x, NEW a, NEW n, NEW step, Recursion(S, x, a, n, step),
         NEW f, Follows(S, x, a, n, step, f),
         NEW g, FollowsWhileTyped(S, x, a, n, step, g)
  PROVE  \A j \in a .. n : g[j] = f[j]
<1>0. /\ x \in S /\ a \in Nat /\ n \in Nat /\ a <= n
      /\ step \in [a + 1 .. n -> [S -> S]] /\ f \in [a .. n -> S]
      /\ f[a] = x /\ g[a] = x
      /\ \A j \in a + 1 .. n : f[j] = step[j][f[j - 1]]
      /\ \A j \in a + 1 .. n : g[j - 1] \in S => g[j] = step[j][g[j - 1]]
  BY DEF Recursion, Follows, FollowsWhileTyped
<1> USE <1>0
<1> DEFINE T == {j \in a .. n : g[j] = f[j]}
<1>1. a \in T
  OBVIOUS
<1>2. ASSUME NEW j \in a .. n, j \in T, j + 1 <= n
      PROVE  j + 1 \in T
  <2>1. j + 1 \in a + 1 .. n /\ (j + 1) - 1 = j /\ j + 1 \in a .. n
    BY <1>2
  <2>2. g[j] = f[j] /\ f[j] \in S
    BY <1>2
  <2>3. f[j + 1] = step[j + 1][f[j]] /\ g[j + 1] = step[j + 1][g[j]]
    BY <2>1, <2>2
  <2> QED
    BY <2>1, <2>2, <2>3
<1> HIDE DEF T
<1>3. \A j \in a .. n : j \in T
  BY <1>1, <1>2, IntervalInduction
<1> QED
  BY <1>3 DEF T

-----------------------------------------------------------------------------
(* Sequences laid end to end.                                              *)

LEMMA ConcatNumbers ==
  ASSUME NEW a \in Seq(Nat), NEW b \in Seq(Nat), NEW c \in Seq(Nat)
  PROVE  a \o (b \o c) = (a \o b) \o c
<1> DEFINE N == Nat
<1>1. a \in Seq(N) /\ b \in Seq(N) /\ c \in Seq(N)
  OBVIOUS
<1> HIDE DEF N
<1> QED
  BY <1>1, ConcatAssociative

LEMMA FunctionIsSequence ==
  ASSUME NEW S, NEW n \in Nat, NEW f \in [1 .. n -> S]
  PROVE  f \in Seq(S) /\ Len(f) = n
<1>1. f \in Seq(S)
  BY SeqDef
<1>2. DOMAIN f = 1 .. n /\ DOMAIN f = 1 .. Len(f) /\ Len(f) \in Nat
  BY <1>1, LenProperties
<1> QED
  BY <1>1, <1>2

(* Put together one by one.                                                *)
Folds(X, seqs, f) ==
  /\ f \in [0 .. Len(seqs) -> Seq(X)] /\ f[0] = <<>>
  /\ \A j \in 1 .. Len(seqs) : f[j] = f[j - 1] \o seqs[j]

LEMMA FlattenFolds ==
  ASSUME NEW X, NEW seqs \in Seq(Seq(X))
  PROVE  \E f : Folds(X, seqs, f) /\ f[Len(seqs)] = FlattenSeq(seqs)
<1> DEFINE I == FlattenSeq(seqs)
<1>1. PICK N \in Nat : N = Len(seqs)
  BY LenProperties
<1>2. \A k \in 1 .. N : seqs[k] \in Seq(X)
  BY <1>1, ElementOfSeq
<1>3. <<>> \in Seq(X)
  BY EmptySeq
<1>4. CASE N = 0
  <2>1. I = seqs /\ seqs = <<>>
    BY <1>1, <1>4, EmptySeq DEF FlattenSeq
  <2> DEFINE f == [j \in 0 .. 0 |-> <<>>]
  <2>2. f \in [0 .. 0 -> Seq(X)] /\ f[0] = <<>> /\ 1 .. 0 = {}
    BY <1>3
  <2> HIDE DEF f
  <2>3. Folds(X, seqs, f) /\ f[Len(seqs)] = I
    BY <1>1, <1>4, <2>1, <2>2 DEF Folds
  <2> QED
    BY <2>3
<1>5. CASE N # 0
  <2> DEFINE S == Seq(X)
             x == seqs[1]
             A == CHOOSE g : g = [i \in 1 .. N |-> IF i = 1 THEN seqs[i]
                                                   ELSE g[i - 1] \o seqs[i]]
             step == [j \in 1 + 1 .. N |-> [s \in S |-> s \o seqs[j]]]
  <2>1. I = A[N]
    BY <1>1, <1>5 DEF FlattenSeq
  <2>2. Recursion(S, x, 1, N, step)
    <3>1. x \in S /\ 1 <= N
      BY <1>2, <1>5
    <3>2. step \in [1 + 1 .. N -> [S -> S]]
      <4> SUFFICES ASSUME NEW j \in 1 + 1 .. N, NEW s \in S
                   PROVE  s \o seqs[j] \in S
        OBVIOUS
      <4>1. seqs[j] \in Seq(X)
        BY <1>2
      <4> QED
        BY <4>1, ConcatProperties
    <3> HIDE DEF S, x, step
    <3> QED
      BY <1>1, <3>1, <3>2 DEF Recursion
  <2>3. \A j \in 1 + 1 .. N : \A s \in S : step[j][s] = s \o seqs[j]
    OBVIOUS
  <2> HIDE DEF step
  <2>4. PICK f : Follows(S, x, 1, N, step, f)
    <3> HIDE DEF S, x
    <3> QED
      BY <2>2, RecursionExists
  <2>5. /\ f \in [1 .. N -> S] /\ f[1] = seqs[1]
        /\ \A j \in 1 + 1 .. N : f[j] = step[j][f[j - 1]]
    BY <2>4 DEF Follows
  <2>6. ASSUME NEW j \in 1 + 1 .. N
        PROVE  f[j] = f[j - 1] \o seqs[j] /\ f[j - 1] \in S
    <3>1. j - 1 \in 1 .. N
      OBVIOUS
    <3>2. f[j - 1] \in S
      BY <2>5, <3>1
    <3> HIDE DEF S
    <3> QED
      BY <2>3, <2>5, <3>2
  <2>7. f = [i \in 1 .. N |-> IF i = 1 THEN seqs[i] ELSE f[i - 1] \o seqs[i]]
    <3>1. ASSUME NEW i \in 1 .. N
          PROVE  f[i] = IF i = 1 THEN seqs[i] ELSE f[i - 1] \o seqs[i]
      <4>1. CASE i = 1
        BY <2>5, <4>1
      <4>2. CASE i # 1
        <5>1. i \in 1 + 1 .. N
          BY <4>2
        <5> QED
          BY <2>6, <4>2, <5>1
      <4> QED
        BY <4>1, <4>2
    <3> HIDE DEF S
    <3> QED
      BY <2>5, <3>1
  <2>8. A = [i \in 1 .. N |-> IF i = 1 THEN seqs[i] ELSE A[i - 1] \o seqs[i]]
    BY <2>7
  <2> HIDE DEF A
  <2>9. FollowsWhileTyped(S, x, 1, N, step, A)
    <3>1. A[1] = x
      BY <1>5, <2>8
    <3>2. ASSUME NEW j \in 1 + 1 .. N, A[j - 1] \in S
          PROVE  A[j] = step[j][A[j - 1]]
      <4>1. j \in 1 .. N /\ j # 1
        OBVIOUS
      <4>2. A[j] = A[j - 1] \o seqs[j]
        BY <2>8, <4>1
      <4> HIDE DEF S
      <4> QED
        BY <2>3, <3>2, <4>2
    <3> HIDE DEF S, x
    <3> QED
      BY <3>1, <3>2 DEF FollowsWhileTyped
  <2>10. \A j \in 1 .. N : A[j] = f[j]
    <3> HIDE DEF S, x
    <3> QED
      BY <2>2, <2>4, <2>9, RecursionUnique
  <2>11. N \in 1 .. N /\ I = f[N]
    BY <1>5, <2>1, <2>10
  <2> DEFINE h == [j \in 0 .. N |-> IF j = 0 THEN <<>> ELSE f[j]]
  <2>12. h[0] = <<>> /\ \A j \in 1 .. N : h[j] = f[j]
    BY <1>5
  <2>13. h \in [0 .. N -> Seq(X)]
    <3> SUFFICES ASSUME NEW j \in 0 .. N
                 PROVE  (IF j = 0 THEN <<>> ELSE f[j]) \in Seq(X)
      OBVIOUS
    <3>1. j # 0 => j \in 1 .. N
      OBVIOUS
    <3> QED
      BY <1>3, <2>5, <3>1
  <2> HIDE DEF h, I
  <2>14. ASSUME NEW j \in 1 .. N
         PROVE  h[j] = h[j - 1] \o seqs[j]
    <3>1. CASE j = 1
      <4>1. h[j] = seqs[j] /\ h[j - 1] = <<>> /\ seqs[j] \in Seq(X)
        BY <1>2, <2>5, <2>12, <3>1
      <4> QED
        BY <4>1, ConcatEmptySeq
    <3>2. CASE j # 1
      <4>1. j \in 1 + 1 .. N /\ j - 1 \in 1 .. N
        BY <3>2
      <4>2. f[j] = f[j - 1] \o seqs[j]
        BY <2>6, <4>1
      <4> QED
        BY <2>12, <4>1, <4>2
    <3> QED
      BY <3>1, <3>2
  <2>15. Folds(X, seqs, h) /\ h[Len(seqs)] = I
    BY <1>1, <2>11, <2>12, <2>13, <2>14 DEF Folds
  <2> QED
    BY <2>15 DEF I
<1> QED
  BY <1>4, <1>5

LEMMA FlattenIsSequence ==
  ASSUME NEW X, NEW seqs \in Seq(Seq(X))
  PROVE  FlattenSeq(seqs) \in Seq(X)
<1>1. PICK f : Folds(X, seqs, f) /\ f[Len(seqs)] = FlattenSeq(seqs)
  BY FlattenFolds
<1>2. f \in [0 .. Len(seqs) -> Seq(X)] /\ Len(seqs) \in Nat
  BY <1>1, LenProperties DEF Folds
<1>3. Len(seqs) \in 0 .. Len(seqs)
  BY <1>2
<1> QED
  BY <1>1, <1>2, <1>3

-----------------------------------------------------------------------------
(* Stretches of an execution: places of a program, each stepped from the   *)
(* one before, and the operations met on the way.                          *)

PlacesOf(p) == {f \in Flows(p) : Nested(p, f)}

LEMMA NextPlace ==
  ASSUME NEW p, WellFormedFlow(p), NEW f \in PlacesOf(p), f.pos < p.n
  PROVE  /\ f.pos \in 0 .. p.n - 1 /\ p.n \in Nat
         /\ f.calls \in Seq(Nat) /\ f.calls \in Seq(CallsOf(p))
         /\ Forward(p, f) \in PlacesOf(p)
         /\ Moves(p, f, Forward(p, f))
         /\ p.type[f.pos] # "RETURN" => Forward(p, f).pos = p.succ[f.pos]
<1>1. Ahead(p, f)
  BY DEF Ahead, PlacesOf
<1>2. /\ f.pos \in 0 .. p.n - 1 /\ f.calls \in Seq(CallsOf(p)) /\ p.n \in Nat
  BY <1>1, FlowTypes
<1>3. f.calls \in Seq(Nat)
  <2>1. CallsOf(p) \subseteq Nat
    BY <1>2 DEF CallsOf
  <2> QED
    BY <1>2, <2>1, SeqMonotonic
<1>4. Forward(p, f) \in PlacesOf(p)
  BY <1>1, ForwardIsNested DEF PlacesOf
<1>5. p.type[f.pos] # "RETURN" => Forward(p, f).pos = p.succ[f.pos]
  <2>1. p.type[f.pos] = "RETURN" <=> p.succ[f.pos] = 0
    BY <1>2 DEF WellFormedFlow
  <2> QED
    BY <2>1 DEF Forward
<1> QED
  BY <1>1, <1>2, <1>3, <1>4, <1>5, ForwardMoves

MeetsNext(p, ops, f, g, d, e) ==
  /\ f.pos < p.n /\ g = Forward(p, f)
  /\ IF p.type[f.pos] = "SIMULATE"
     THEN /\ d < Len(ops) /\ e = d + 1
          /\ ops[d + 1].at = f.pos /\ ops[d + 1].frames = f.calls
     ELSE e = d

Meets(p, ops, m, at, done) ==
  /\ m \in Nat /\ at \in [0 .. m -> PlacesOf(p)] /\ done \in [0 .. m -> Nat]
  /\ done[0] = 0 /\ done[m] = Len(ops)
  /\ \A k \in 0 .. m - 1 :
       MeetsNext(p, ops, at[k], at[k + 1], done[k], done[k + 1])

Leads(p, f, g, ops) ==
  \E m, at, done : Meets(p, ops, m, at, done) /\ at[0] = f /\ at[m] = g

LEMMA LeadsNowhere ==
  ASSUME NEW p, NEW f \in PlacesOf(p)
  PROVE  Leads(p, f, f, <<>>)
<1> DEFINE at == [k \in 0 .. 0 |-> f]
           done == [k \in 0 .. 0 |-> 0]
<1>1. at \in [0 .. 0 -> PlacesOf(p)] /\ done \in [0 .. 0 -> Nat]
      /\ at[0] = f /\ done[0] = 0
  OBVIOUS
<1> HIDE DEF at, done
<1>2. Len(<<>>) = 0 /\ 0 .. 0 - 1 = {} /\ 0 \in Nat
  BY EmptySeq
<1>3. Meets(p, <<>>, 0, at, done)
  BY <1>1, <1>2 DEF Meets
<1> QED
  BY <1>1, <1>3 DEF Leads

LEMMA LeadsOneStep ==
  ASSUME NEW p, NEW X, NEW ops \in Seq(X), NEW f \in PlacesOf(p),
         Forward(p, f) \in PlacesOf(p),
         MeetsNext(p, ops, f, Forward(p, f), 0, Len(ops))
  PROVE  Leads(p, f, Forward(p, f), ops)
<1> DEFINE g == Forward(p, f)
           at == [k \in 0 .. 1 |-> IF k = 0 THEN f ELSE g]
           done == [k \in 0 .. 1 |-> IF k = 0 THEN 0 ELSE Len(ops)]
<1>1. Len(ops) \in Nat
  BY LenProperties
<1>2. at \in [0 .. 1 -> PlacesOf(p)] /\ done \in [0 .. 1 -> Nat]
      /\ at[0] = f /\ at[1] = g /\ done[0] = 0 /\ done[1] = Len(ops)
  BY <1>1
<1> HIDE DEF at, done, g
<1>3. MeetsNext(p, ops, f, g, 0, Len(ops))
  BY DEF g
<1>4. ASSUME NEW k \in 0 .. 1 - 1
      PROVE  MeetsNext(p, ops, at[k], at[k + 1], done[k], done[k + 1])
  <2>1. k = 0 /\ k + 1 = 1
    OBVIOUS
  <2> QED
    BY <1>2, <1>3, <2>1
<1>5. Meets(p, ops, 1, at, done)
  BY <1>2, <1>4 DEF Meets
<1> QED
  BY <1>2, <1>5 DEF Leads, g

(* One stretch behind another.                                             *)
LEMMA LeadsOn ==
  ASSUME NEW p, NEW X, NEW a \in Seq(X), NEW b \in Seq(X),
         NEW f, NEW g, NEW h, Leads(p, f, g, a), Leads(p, g, h, b)
  PROVE  Leads(p, f, h, a \o b)
<1>1. PICK m, at, done : Meets(p, a, m, at, done) /\ at[0] = f /\ at[m] = g
  BY DEF Leads
<1>2. PICK n, bt, dn : Meets(p, b, n, bt, dn) /\ bt[0] = g /\ bt[n] = h
  BY DEF Leads
<1>3. /\ m \in Nat /\ at \in [0 .. m -> PlacesOf(p)] /\ done \in [0 .. m -> Nat]
      /\ done[0] = 0 /\ done[m] = Len(a)
      /\ \A k \in 0 .. m - 1 :
           MeetsNext(p, a, at[k], at[k + 1], done[k], done[k + 1])
  BY <1>1 DEF Meets
<1>4. /\ n \in Nat /\ bt \in [0 .. n -> PlacesOf(p)] /\ dn \in [0 .. n -> Nat]
      /\ dn[0] = 0 /\ dn[n] = Len(b)
      /\ \A k \in 0 .. n - 1 :
           MeetsNext(p, b, bt[k], bt[k + 1], dn[k], dn[k + 1])
  BY <1>2 DEF Meets
<1>5. PICK y \in Nat, z \in Nat : y = Len(a) /\ z = Len(b)
  BY LenProperties
<1> DEFINE ops == a \o b
<1>6. /\ Len(ops) = y + z
      /\ \A i \in 1 .. y : ops[i] = a[i]
      /\ \A i \in 1 .. z : ops[y + i] = b[i]
  <2>1. /\ Len(ops) = y + z
        /\ \A i \in 1 .. y + z : ops[i] = IF i <= y THEN a[i] ELSE b[i - y]
    BY <1>5, ConcatProperties
  <2>2. ASSUME NEW i \in 1 .. z
        PROVE  ops[y + i] = b[i]
    <3>1. y + i \in 1 .. y + z /\ ~(y + i <= y) /\ (y + i) - y = i
      OBVIOUS
    <3> HIDE DEF ops
    <3> QED
      BY <2>1, <3>1
  <2> HIDE DEF ops
  <2> QED
    BY <2>1, <2>2
<1> HIDE DEF ops
<1> DEFINE ct == [k \in 0 .. m + n |-> IF k <= m THEN at[k] ELSE bt[k - m]]
           dt == [k \in 0 .. m + n |-> IF k <= m THEN done[k] ELSE y + dn[k - m]]
<1>7. \A k \in 0 .. m : k \in 0 .. m + n /\ ct[k] = at[k] /\ dt[k] = done[k]
  BY <1>3, <1>4
<1>8. ASSUME NEW k \in 0 .. n
      PROVE  m + k \in 0 .. m + n /\ ct[m + k] = bt[k] /\ dt[m + k] = y + dn[k]
  <2>1. CASE k = 0
    <3>1. m + k = m /\ m \in 0 .. m
      BY <1>3, <2>1
    <3> HIDE DEF ct, dt
    <3> QED
      BY <1>1, <1>2, <1>3, <1>4, <1>5, <1>7, <2>1, <3>1
  <2>2. CASE k # 0
    <3>1. m + k \in 0 .. m + n /\ ~(m + k <= m) /\ (m + k) - m = k
      BY <1>3, <1>4, <2>2
    <3> QED
      BY <3>1
  <2> QED
    BY <2>1, <2>2
<1>9. ct \in [0 .. m + n -> PlacesOf(p)] /\ dt \in [0 .. m + n -> Nat]
  <2> SUFFICES ASSUME NEW k \in 0 .. m + n
               PROVE  /\ (IF k <= m THEN at[k] ELSE bt[k - m]) \in PlacesOf(p)
                      /\ (IF k <= m THEN done[k] ELSE y + dn[k - m]) \in Nat
    OBVIOUS
  <2>1. CASE k <= m
    <3>1. k \in 0 .. m
      BY <1>3, <2>1
    <3> QED
      BY <1>3, <2>1, <3>1
  <2>2. CASE ~(k <= m)
    <3>1. k - m \in 0 .. n
      BY <1>3, <1>4, <2>2
    <3>2. bt[k - m] \in PlacesOf(p) /\ dn[k - m] \in Nat
      BY <1>4, <3>1
    <3> QED
      BY <2>2, <3>2
  <2> QED
    BY <2>1, <2>2
<1> HIDE DEF ct, dt
<1>10. ASSUME NEW k \in 0 .. (m + n) - 1
       PROVE  MeetsNext(p, ops, ct[k], ct[k + 1], dt[k], dt[k + 1])
  <2>1. CASE k < m
    <3>1. k \in 0 .. m - 1 /\ k \in 0 .. m /\ k + 1 \in 0 .. m
      BY <1>3, <2>1
    <3>2. /\ MeetsNext(p, a, at[k], at[k + 1], done[k], done[k + 1])
          /\ ct[k] = at[k] /\ ct[k + 1] = at[k + 1]
          /\ dt[k] = done[k] /\ dt[k + 1] = done[k + 1] /\ done[k] \in Nat
      BY <1>3, <1>7, <3>1
    <3>3. done[k] < y => /\ done[k] < y + z /\ done[k] + 1 \in 1 .. y
                         /\ ops[done[k] + 1] = a[done[k] + 1]
      BY <1>6, <3>2
    <3> QED
      BY <1>5, <1>6, <3>2, <3>3 DEF MeetsNext
  <2>2. CASE ~(k < m)
    <3>1. PICK i \in Nat : i = k - m
      BY <1>3, <2>2
    <3>2. /\ i \in 0 .. n - 1 /\ i \in 0 .. n /\ i + 1 \in 0 .. n
          /\ k = m + i /\ k + 1 = m + (i + 1)
      BY <1>3, <1>4, <3>1
    <3>3. /\ MeetsNext(p, b, bt[i], bt[i + 1], dn[i], dn[i + 1])
          /\ ct[k] = bt[i] /\ ct[k + 1] = bt[i + 1]
          /\ dt[k] = y + dn[i] /\ dt[k + 1] = y + dn[i + 1] /\ dn[i] \in Nat
      BY <1>4, <1>8, <3>2
    <3>4. dn[i] < z => /\ y + dn[i] < y + z /\ dn[i] + 1 \in 1 .. z
                       /\ (y + dn[i]) + 1 = y + (dn[i] + 1)
                       /\ ops[(y + dn[i]) + 1] = b[dn[i] + 1]
      <4>1. PICK e \in Nat : e = dn[i]
        BY <3>3
      <4>2. e < z => /\ y + e < y + z /\ e + 1 \in 1 .. z
                     /\ (y + e) + 1 = y + (e + 1)
        OBVIOUS
      <4>3. e < z => ops[(y + e) + 1] = b[e + 1]
        BY <1>6, <4>2
      <4> QED
        BY <4>1, <4>2, <4>3
    <3> QED
      BY <1>5, <1>6, <3>3, <3>4 DEF MeetsNext
  <2> QED
    BY <2>1, <2>2
<1>11. /\ ct[0] = f /\ ct[m + n] = h /\ dt[0] = 0 /\ dt[m + n] = Len(ops)
       /\ m + n \in Nat
  <2>1. 0 \in 0 .. m /\ n \in 0 .. n /\ m + n \in Nat
    BY <1>3, <1>4
  <2> QED
    BY <1>1, <1>2, <1>3, <1>4, <1>5, <1>6, <1>7, <1>8, <2>1
<1>12. Meets(p, ops, m + n, ct, dt)
  BY <1>9, <1>10, <1>11 DEF Meets
<1> QED
  BY <1>11, <1>12 DEF Leads, ops

-----------------------------------------------------------------------------
(* The operations an execution meets are made of SIMULATE instructions:    *)
(* the j-th is met in the step that first brings their number to j.        *)
LEMMA ExecutedAreSimulated ==
  ASSUME NEW p, NEW m \in Nat, NEW at, NEW done, Executes(p, m, at, done),
         NEW j \in 1 .. Len(p.ops), Len(p.ops) \in Nat
  PROVE  p.type[p.ops[j].at] = "SIMULATE" /\ p.ops[j].at < p.n
<1> DEFINE T == {k \in 0 .. m : done[k] >= j}
<1>1. /\ done \in [0 .. m -> Nat] /\ done[0] = 0 /\ done[m] = Len(p.ops)
      /\ \A k \in 0 .. m - 1 : at[k].pos < p.n
      /\ \A k \in 0 .. m - 1 :
           IF p.type[at[k].pos] = "SIMULATE"
           THEN done[k + 1] = done[k] + 1 /\ p.ops[done[k] + 1].at = at[k].pos
           ELSE done[k + 1] = done[k]
  BY DEF Executes
<1>2. T \in SUBSET Nat /\ m \in T
  BY <1>1
<1>3. PICK x \in T : \A y \in T : x <= y
  <2> HIDE DEF T
  <2> QED
    BY <1>2, LeastNumber
<1>4. x \in 0 .. m /\ done[x] >= j /\ x # 0
  BY <1>1
<1> DEFINE k == x - 1
<1>5. k \in 0 .. m - 1 /\ k \in 0 .. m /\ k + 1 = x /\ ~(x <= k)
  BY <1>4
<1>6. done[k] \in Nat /\ ~(done[k] >= j)
  BY <1>1, <1>3, <1>5
<1> HIDE DEF k, T
<1>7. /\ p.type[at[k].pos] = "SIMULATE" /\ at[k].pos < p.n
      /\ done[k + 1] = done[k] + 1 /\ p.ops[done[k] + 1].at = at[k].pos
  BY <1>1, <1>4, <1>5, <1>6
<1>8. done[k] + 1 = j
  BY <1>4, <1>5, <1>6, <1>7
<1> QED
  BY <1>7, <1>8

-----------------------------------------------------------------------------
(* The call a prefix of a call stack ends in.                              *)
LEMMA LastOfPrefix ==
  ASSUME NEW S, NEW s \in Seq(S), NEW k \in 1 .. Len(s)
  PROVE  SubSeq(s, 1, k) # <<>> /\ Last(SubSeq(s, 1, k)) = s[k]
<1>1. Len(s) \in Nat /\ k \in Nat /\ 1 <= k /\ k <= Len(s)
  BY LenProperties
<1>2. Len(SubSeq(s, 1, k)) = k /\ SubSeq(s, 1, k)[k] = s[k]
  BY <1>1, SubSeqProperties
<1>3. SubSeq(s, 1, k) # <<>>
  BY <1>1, <1>2, EmptySeq
<1> QED
  BY <1>2, <1>3 DEF Last

(* No call is pending twice where no gate calls itself: the ranks of the   *)
(* gates entered fall all the way in.                                      *)
LEMMA PendingOnce ==
  ASSUME NEW p, NEW f \in Flows(p), Nested(p, f), NeverRecursive(p),
         p.n \in Nat,
         NEW j \in 1 .. Len(f.calls), NEW k \in 1 .. Len(f.calls), j < k
  PROVE  f.calls[j] # f.calls[k]
<1> DEFINE c == f.calls
<1>1. c \in Seq(CallsOf(p)) /\ Len(c) \in Nat
  BY DEF Flows
<1>2. \A m \in 1 .. Len(c) : c[m] \in CallsOf(p)
  BY <1>1, ElementOfSeq
<1>3. PICK rank \in [GatesOf(p) -> 0 .. p.n] :
        \A i \in CallsOf(p) :
          p.body[i] \in GatesOf(p) => rank[Callee(p, i)] < rank[p.body[i]]
  BY DEF NeverRecursive
<1> DEFINE r(m) == rank[Callee(p, c[m])]
<1>4. \A m \in 1 .. Len(c) : r(m) \in Nat
  <2>1. \A m \in 1 .. Len(c) : Callee(p, c[m]) \in GatesOf(p)
    BY <1>2 DEF GatesOf
  <2> QED
    BY <1>3, <2>1
<1>5. ASSUME NEW m \in 2 .. Len(c)
      PROVE  r(m) < r(m - 1)
  <2>1. m \in 1 .. Len(c) /\ m - 1 \in 1 .. Len(c)
    BY <1>1
  <2>2. p.body[c[m]] = EnteredBody(p, SubSeq(c, 1, m - 1))
    BY <2>1 DEF Nested
  <2>3. /\ SubSeq(c, 1, m - 1) # <<>>
        /\ Last(SubSeq(c, 1, m - 1)) = c[m - 1]
    BY <1>1, <2>1, LastOfPrefix
  <2>4. p.body[c[m]] = Callee(p, c[m - 1])
    BY <2>2, <2>3 DEF EnteredBody
  <2>5. c[m] \in CallsOf(p) /\ Callee(p, c[m - 1]) \in GatesOf(p)
    BY <1>2, <2>1 DEF GatesOf
  <2> QED
    BY <1>3, <2>4, <2>5
<1> DEFINE T == {m \in j + 1 .. Len(c) : ~(r(m) < r(j))}
<1>6. T = {}
  <2> SUFFICES ASSUME T # {}
               PROVE  FALSE
    OBVIOUS
  <2>1. PICK m \in T : \A y \in T : m <= y
    <3>1. T \in SUBSET Nat
      BY <1>1
    <3> HIDE DEF T
    <3> QED
      BY <3>1, LeastNumber
  <2>2. /\ m \in 2 .. Len(c) /\ m \in Int /\ j \in Int /\ m >= j + 1
        /\ m - 1 \in 1 .. Len(c) /\ m \in 1 .. Len(c) /\ ~(r(m) < r(j))
    BY <1>1
  <2>3. r(m) < r(m - 1) /\ r(m) \in Nat /\ r(m - 1) \in Nat /\ r(j) \in Nat
    BY <1>4, <1>5, <2>2
  <2>4. m - 1 # j
    BY <2>2, <2>3
  <2>5. m - 1 \in j + 1 .. Len(c) /\ m - 1 \notin T
    BY <1>1, <2>1, <2>2, <2>4
  <2>6. r(m - 1) < r(j)
    BY <2>5
  <2> HIDE DEF r, T
  <2> QED
    BY <2>2, <2>3, <2>6
<1>7. r(k) < r(j)
  BY <1>1, <1>6
<1>8. r(j) \in Nat
  BY <1>4
<1> QED
  BY <1>7, <1>8

=============================================================================
