--------------------- MODULE PreprocessingCheck_proofs ---------------------
(***************************************************************************)
(* The tables of every accepted program are well formed: what the proofs   *)
(* about the engine assume of the loaded code is what the preprocessor     *)
(* delivers. And wherever such a program leads, a step back undoes the     *)
(* step forward.                                                           *)
(*                                                                         *)
(* Line numbers, the list of instructions and the journey of a program are *)
(* defined by recursion. Each is shown to be the function its steps        *)
(* describe; induction is by a least counterexample.                       *)
(***************************************************************************)
EXTENDS PreprocessingCheck, ControlFlow_proofs, FiniteSetTheorems

-----------------------------------------------------------------------------
(* Where the statements of a program start.                                *)

Starts(program, at) ==
  /\ at \in [1 .. Len(program) + 1 -> Nat] /\ at[1] = 0
  /\ \A k \in 1 .. Len(program) : at[k + 1] = at[k] + Width(program[k])

LEMMA BodyOfDefinition ==
  ASSUME NEW st \in Statements, st.is = "def"
  PROVE  /\ Len(st.body) \in Nat
         /\ \A j \in 1 .. Len(st.body) : st.body[j].is # "def"
<1>1. st.body \in Seq(Range(st.body))
  BY StatementShapes
<1>2. /\ Len(st.body) \in Nat
      /\ \A j \in 1 .. Len(st.body) : st.body[j] \in Range(st.body)
  <2> DEFINE S == Range(st.body)
  <2> HIDE DEF S
  <2>1. st.body \in Seq(S)
    BY <1>1 DEF S
  <2> QED
    BY <2>1, LenProperties, ElementOfSeq DEF S
<1> QED
  BY <1>2, StatementShapes

LEMMA WidthIsPositive ==
  ASSUME NEW st \in Statements
  PROVE  Width(st) \in Nat \ {0}
  BY BodyOfDefinition DEF Width

LEMMA LinesFollow ==
  ASSUME NEW program \in Seq(Statements)
  PROVE  \E at : /\ Starts(program, at)
                 /\ \A k \in 1 .. Len(program) : LineOf(program, k) = at[k]
<1> DEFINE N == Len(program)
<1>1. N \in Nat
  BY LenProperties
<1>2. \A k \in 1 .. N : Width(program[k]) \in Nat
  BY ElementOfSeq, WidthIsPositive
<1> DEFINE step == [j \in 1 + 1 .. N + 1 |-> [y \in Nat |-> y + Width(program[j - 1])]]
<1>3. step \in [1 + 1 .. N + 1 -> [Nat -> Nat]]
  <2> SUFFICES ASSUME NEW j \in 1 + 1 .. N + 1, NEW y \in Nat
               PROVE  y + Width(program[j - 1]) \in Nat
    OBVIOUS
  <2>1. j - 1 \in 1 .. N
    BY <1>1
  <2> QED
    BY <1>2, <2>1
<1>4. \A j \in 1 + 1 .. N + 1 : \A y \in Nat :
        step[j][y] = y + Width(program[j - 1])
  OBVIOUS
<1> HIDE DEF step
<1>5. PICK at \in [1 .. N + 1 -> Nat] :
        at[1] = 0 /\ \A j \in 1 + 1 .. N + 1 : at[j] = step[j][at[j - 1]]
  <2>1. Recursion(Nat, 0, 1, N + 1, step)
    <3>1. 1 \in Nat /\ N + 1 \in Nat /\ 1 <= N + 1
      BY <1>1
    <3> HIDE DEF N
    <3> QED
      BY <1>3, <3>1 DEF Recursion
  <2>2. PICK f : Follows(Nat, 0, 1, N + 1, step, f)
    <3> HIDE DEF N
    <3> QED
      BY <2>1, RecursionExists
  <2> QED
    BY <2>2 DEF Follows
<1>6. Starts(program, at)
  <2> SUFFICES ASSUME NEW k \in 1 .. N
               PROVE  at[k + 1] = at[k] + Width(program[k])
    BY <1>5 DEF Starts
  <2>1. k + 1 \in 1 + 1 .. N + 1 /\ (k + 1) - 1 = k /\ k \in 1 .. N + 1
    BY <1>1
  <2>2. at[k] \in Nat
    BY <2>1
  <2> QED
    BY <1>4, <1>5, <2>1, <2>2
<1>7. ASSUME NEW k \in 1 .. N
      PROVE  LineOf(program, k) = at[k]
  <2> DEFINE A == CHOOSE g :
               g = [j \in 1 .. k |-> IF j = 1 THEN 0
                                     ELSE g[j - 1] + Width(program[j - 1])]
             f == [j \in 1 .. k |-> at[j]]
             part == [j \in 1 + 1 .. k |-> step[j]]
  <2>1. LineOf(program, k) = A[k]
    BY DEF LineOf
  <2>2. k \in Nat /\ 1 <= k /\ 1 .. k \subseteq 1 .. N + 1
        /\ 1 + 1 .. k \subseteq 1 + 1 .. N + 1
    BY <1>1
  <2>3. /\ f \in [1 .. k -> Nat] /\ part \in [1 + 1 .. k -> [Nat -> Nat]]
        /\ \A j \in 1 .. k : f[j] = at[j]
        /\ \A j \in 1 + 1 .. k : part[j] = step[j]
    BY <1>3, <1>5, <2>2
  <2> HIDE DEF f, part
  <2>4. f[1] = 0 /\ \A j \in 1 + 1 .. k : f[j] = part[j][f[j - 1]]
    <3>1. f[1] = 0
      BY <1>5, <2>2, <2>3
    <3>2. ASSUME NEW j \in 1 + 1 .. k
          PROVE  f[j] = part[j][f[j - 1]]
      <4>1. j \in 1 .. k /\ j - 1 \in 1 .. k
        BY <2>2
      <4> QED
        BY <1>5, <2>2, <2>3, <4>1
    <3> QED
      BY <3>1, <3>2
  <2>5. \A j \in 1 + 1 .. k : \A y \in Nat : part[j][y] = y + Width(program[j - 1])
    <3> SUFFICES ASSUME NEW j \in 1 + 1 .. k, NEW y \in Nat
                 PROVE  part[j][y] = y + Width(program[j - 1])
      OBVIOUS
    <3>1. j \in 1 + 1 .. N + 1 /\ part[j] = step[j]
      <4>1. j \in 1 + 1 .. N + 1
        BY <1>1
      <4> QED
        BY <2>3, <4>1
    <3> QED
      BY <1>4, <3>1
  <2>6. f = [j \in 1 .. k |-> IF j = 1 THEN 0
                              ELSE f[j - 1] + Width(program[j - 1])]
    <3>1. ASSUME NEW j \in 1 .. k
          PROVE  f[j] = IF j = 1 THEN 0 ELSE f[j - 1] + Width(program[j - 1])
      <4>1. CASE j = 1
        BY <2>4, <4>1
      <4>2. CASE j # 1
        <5>1. j \in 1 + 1 .. k /\ j - 1 \in 1 .. k
          BY <2>2, <4>2
        <5>2. f[j - 1] \in Nat
          BY <2>3, <5>1
        <5> QED
          BY <2>4, <2>5, <4>2, <5>1, <5>2
      <4> QED
        BY <4>1, <4>2
    <3> QED
      BY <2>3, <3>1
  <2>7. A = [j \in 1 .. k |-> IF j = 1 THEN 0
                              ELSE A[j - 1] + Width(program[j - 1])]
    BY <2>6
  <2> HIDE DEF A
  <2>8. A[1] = f[1]
    BY <2>2, <2>4, <2>7
  <2>9. \A j \in 1 + 1 .. k : A[j - 1] \in Nat => A[j] = part[j][A[j - 1]]
    <3> SUFFICES ASSUME NEW j \in 1 + 1 .. k, A[j - 1] \in Nat
                 PROVE  A[j] = part[j][A[j - 1]]
      OBVIOUS
    <3>1. j \in 1 .. k /\ j # 1
      BY <2>2
    <3>2. A[j] = A[j - 1] + Width(program[j - 1])
      BY <2>7, <3>1
    <3> QED
      BY <2>5, <3>2
  <2>10. \A j \in 1 .. k : A[j] = f[j]
    <3>1. Recursion(Nat, 0, 1, k, part)
      BY <2>2, <2>3 DEF Recursion
    <3>2. Follows(Nat, 0, 1, k, part, f)
      BY <2>3, <2>4 DEF Follows
    <3>3. FollowsWhileTyped(Nat, 0, 1, k, part, A)
      BY <2>4, <2>8, <2>9 DEF FollowsWhileTyped
    <3> QED
      BY <3>1, <3>2, <3>3, RecursionUnique
  <2> QED
    BY <2>1, <2>2, <2>3, <2>10
<1> QED
  BY <1>6, <1>7

-----------------------------------------------------------------------------
(* Sequences put one behind the other.                                     *)

Abut(seqs, at) ==
  /\ at \in [1 .. Len(seqs) + 1 -> Nat] /\ at[1] = 0
  /\ \A k \in 1 .. Len(seqs) : at[k + 1] = at[k] + Len(seqs[k])

FoundIn(whole, seqs, at) ==
  /\ Len(whole) = at[Len(seqs) + 1]
  /\ \A k \in 1 .. Len(seqs) :
       /\ at[k] + Len(seqs[k]) <= Len(whole)
       /\ \A j \in 1 .. Len(seqs[k]) : whole[at[k] + j] = seqs[k][j]

(* Each of them is found at its place.                                     *)
LEMMA FlattenPlaces ==
  ASSUME NEW X, NEW seqs \in Seq(Seq(X)), NEW at, Abut(seqs, at)
  PROVE  FoundIn(FlattenSeq(seqs), seqs, at)
<1> DEFINE I == FlattenSeq(seqs)
<1>1. PICK N \in Nat : N = Len(seqs)
  BY LenProperties
<1>2. \A k \in 1 .. N : seqs[k] \in Seq(X) /\ Len(seqs[k]) \in Nat
  BY <1>1, ElementOfSeq, LenProperties
<1>3. /\ at \in [1 .. N + 1 -> Nat] /\ at[1] = 0
      /\ \A k \in 1 .. N : at[k + 1] = at[k] + Len(seqs[k])
  BY <1>1 DEF Abut
<1>4. PICK f : Folds(X, seqs, f) /\ f[N] = I
  BY <1>1, FlattenFolds
<1>5. /\ f \in [0 .. N -> Seq(X)] /\ f[0] = <<>>
      /\ \A j \in 1 .. N : f[j] = f[j - 1] \o seqs[j]
  BY <1>1, <1>4 DEF Folds
<1> DEFINE Placed(m) ==
             /\ Len(f[m]) = at[m + 1]
             /\ \A k \in 1 .. m :
                  /\ at[k] + Len(seqs[k]) <= at[m + 1]
                  /\ \A j \in 1 .. Len(seqs[k]) : f[m][at[k] + j] = seqs[k][j]
           T == {m \in 0 .. N : Placed(m)}
<1>6. 0 \in T
  <2>1. f[0] = <<>> /\ Len(<<>>) = 0 /\ at[0 + 1] = 0 /\ 1 .. 0 = {}
    BY <1>3, <1>5, EmptySeq
  <2> QED
    BY <2>1
<1>7. ASSUME NEW m \in 0 .. N, m \in T, m + 1 <= N
      PROVE  m + 1 \in T
  <2>1. /\ m + 1 \in 1 .. N /\ (m + 1) - 1 = m /\ m + 1 \in 0 .. N
        /\ m + 1 \in 1 .. N + 1
    BY <1>7
  <2>2. f[m + 1] = f[m] \o seqs[m + 1] /\ f[m] \in Seq(X)
    BY <1>5, <2>1
  <2>3. Placed(m)
    BY <1>7
  <2>4. PICK y \in Nat, z \in Nat :
          y = at[m + 1] /\ z = Len(seqs[m + 1]) /\ at[(m + 1) + 1] = y + z
    BY <1>2, <1>3, <2>1
  <2>5. /\ Len(f[m + 1]) = y + z
        /\ \A i \in 1 .. y + z :
             f[m + 1][i] = IF i <= y THEN f[m][i] ELSE seqs[m + 1][i - y]
    <3>1. seqs[m + 1] \in Seq(X) /\ Len(f[m]) = y
      BY <1>2, <2>1, <2>3, <2>4
    <3>2. /\ Len(f[m] \o seqs[m + 1]) = Len(f[m]) + Len(seqs[m + 1])
          /\ \A i \in 1 .. Len(f[m]) + Len(seqs[m + 1]) :
               (f[m] \o seqs[m + 1])[i] =
                 IF i <= Len(f[m]) THEN f[m][i]
                                   ELSE seqs[m + 1][i - Len(f[m])]
      <4> DEFINE front == f[m]
                 back == seqs[m + 1]
      <4>1. front \in Seq(X) /\ back \in Seq(X)
        BY <2>2, <3>1
      <4> HIDE DEF front, back
      <4>2. /\ Len(front \o back) = Len(front) + Len(back)
            /\ \A i \in 1 .. Len(front) + Len(back) :
                 (front \o back)[i] = IF i <= Len(front) THEN front[i]
                                       ELSE back[i - Len(front)]
        BY <4>1, ConcatProperties
      <4> QED
        BY <4>2 DEF front, back
    <3> QED
      BY <2>2, <2>4, <3>1, <3>2
  <2>6. ASSUME NEW k \in 1 .. m + 1
        PROVE  /\ at[k] + Len(seqs[k]) <= at[(m + 1) + 1]
               /\ \A j \in 1 .. Len(seqs[k]) : f[m + 1][at[k] + j] = seqs[k][j]
    <3>1. CASE k = m + 1
      <4>1. at[k] = y /\ Len(seqs[k]) = z
        BY <2>4, <3>1
      <4>2. ASSUME NEW j \in 1 .. z
            PROVE  f[m + 1][y + j] = seqs[k][j]
        <5>1. y + j \in 1 .. y + z /\ ~(y + j <= y) /\ (y + j) - y = j
          OBVIOUS
        <5> QED
          BY <2>5, <3>1, <5>1
      <4>3. at[k] + Len(seqs[k]) <= at[(m + 1) + 1]
        BY <2>4, <4>1
      <4> QED
        BY <4>1, <4>2, <4>3
    <3>2. CASE k # m + 1
      <4>1. k \in 1 .. m /\ k \in 1 .. N /\ k \in 1 .. N + 1
        BY <2>1, <3>2
      <4>2. PICK u \in Nat, v \in Nat : u = at[k] /\ v = Len(seqs[k])
        BY <1>2, <1>3, <4>1
      <4>3. u + v <= y /\ \A j \in 1 .. v : f[m][u + j] = seqs[k][j]
        BY <2>3, <2>4, <4>1, <4>2
      <4>4. ASSUME NEW j \in 1 .. v
            PROVE  f[m + 1][u + j] = seqs[k][j]
        <5>1. u + j \in 1 .. y + z /\ u + j <= y
          BY <4>3
        <5> QED
          BY <2>5, <4>3, <5>1
      <4>5. u + v <= y + z
        BY <4>3
      <4> QED
        BY <2>4, <4>2, <4>4, <4>5
    <3> QED
      BY <3>1, <3>2
  <2> QED
    BY <2>1, <2>4, <2>5, <2>6
<1>8. N \in T
  <2>1. 0 \in Nat /\ 0 <= N /\ N \in 0 .. N
    OBVIOUS
  <2> HIDE DEF T
  <2> QED
    BY <1>6, <1>7, <2>1, IntervalInduction
<1>9. Len(I) = at[N + 1]
      /\ \A k \in 1 .. N :
           /\ at[k] + Len(seqs[k]) <= at[N + 1]
           /\ \A j \in 1 .. Len(seqs[k]) : I[at[k] + j] = seqs[k][j]
  BY <1>4, <1>8
<1> HIDE DEF I
<1> QED
  BY <1>1, <1>9 DEF I, FoundIn

-----------------------------------------------------------------------------
(* The instructions of a program.                                          *)

(* What the lines of the statement at number k are, the first being line.  *)
HeadLine(program, st, line) == Instruction(program, st, line, TopLevel)
InnerLine(program, st, line, j) == Instruction(program, st.body[j], line + j, line)

LinesOf(program, st, line, b) ==
  /\ Len(b) = Width(st) /\ b[1] = HeadLine(program, st, line)
  /\ st.is = "def" =>
       /\ \A j \in 1 .. Len(st.body) : b[1 + j] = InnerLine(program, st, line, j)
       /\ b[Len(st.body) + 2] = ReturnOf(line)

LEMMA BlockOfStatement ==
  ASSUME NEW program, NEW st \in Statements, NEW line \in Nat, NEW X,
         HeadLine(program, st, line) \in X,
         st.is = "def" =>
           /\ ReturnOf(line) \in X
           /\ \A j \in 1 .. Len(st.body) : InnerLine(program, st, line, j) \in X
  PROVE  /\ InstructionsOf(program, st, line) \in Seq(X)
         /\ LinesOf(program, st, line, InstructionsOf(program, st, line))
<1> DEFINE h == HeadLine(program, st, line)
           b == InstructionsOf(program, st, line)
<1>1. /\ <<h>> \in Seq(X) /\ Len(<<h>>) = 1 /\ <<h>>[1] = h
  <2>1. h \in X
    OBVIOUS
  <2> HIDE DEF h
  <2> QED
    BY <2>1
<1>2. CASE st.is # "def"
  <2>1. b = <<h>> \o <<>>
    BY <1>2 DEF InstructionsOf, HeadLine
  <2>2. b = <<h>>
    BY <1>1, <2>1, ConcatEmptySeq
  <2>3. Width(st) = 1
    BY <1>2 DEF Width
  <2> QED
    BY <1>1, <1>2, <2>2, <2>3 DEF LinesOf
<1>3. CASE st.is = "def"
  <2>1. PICK c \in Nat : c = Len(st.body)
    BY <1>3, BodyOfDefinition
  <2> DEFINE F == [j \in 1 .. c |-> InnerLine(program, st, line, j)]
             r == ReturnOf(line)
             tail == F \o <<r>>
  <2>2. b = <<h>> \o tail
    BY <1>3, <2>1 DEF InstructionsOf, HeadLine, InnerLine
  <2>3. F \in Seq(X) /\ Len(F) = c
    <3>1. F \in [1 .. c -> X]
      BY <1>3, <2>1
    <3> HIDE DEF F
    <3> QED
      BY <3>1, FunctionIsSequence
  <2>4. \A j \in 1 .. c : F[j] = InnerLine(program, st, line, j)
    OBVIOUS
  <2>5. <<r>> \in Seq(X) /\ Len(<<r>>) = 1 /\ <<r>>[1] = r
    <3>1. r \in X
      BY <1>3
    <3> HIDE DEF r
    <3> QED
      BY <3>1
  <2> HIDE DEF F, r, h
  <2>6. /\ tail \in Seq(X) /\ Len(tail) = c + 1
        /\ \A j \in 1 .. c : tail[j] = F[j]
        /\ tail[c + 1] = r
    <3>1. /\ tail \in Seq(X) /\ Len(tail) = Len(F) + Len(<<r>>)
          /\ \A i \in 1 .. Len(F) + Len(<<r>>) :
               tail[i] = IF i <= Len(F) THEN F[i] ELSE <<r>>[i - Len(F)]
      BY <2>3, <2>5, ConcatProperties
    <3>2. /\ Len(tail) = c + 1
          /\ \A i \in 1 .. c + 1 : tail[i] = IF i <= c THEN F[i] ELSE <<r>>[i - c]
      BY <2>3, <2>5, <3>1
    <3>3. \A j \in 1 .. c : j \in 1 .. c + 1 /\ j <= c
      OBVIOUS
    <3>4. c + 1 \in 1 .. c + 1 /\ ~(c + 1 <= c) /\ (c + 1) - c = 1
      OBVIOUS
    <3> HIDE DEF tail
    <3> QED
      BY <2>5, <3>1, <3>2, <3>3, <3>4
  <2> HIDE DEF tail
  <2>7. /\ b \in Seq(X) /\ Len(b) = c + 2 /\ b[1] = h
        /\ \A j \in 1 .. c + 1 : b[1 + j] = tail[j]
    <3>1. /\ b \in Seq(X) /\ Len(b) = Len(<<h>>) + Len(tail)
          /\ \A i \in 1 .. Len(<<h>>) + Len(tail) :
               b[i] = IF i <= Len(<<h>>) THEN <<h>>[i] ELSE tail[i - Len(<<h>>)]
      BY <1>1, <2>2, <2>6, ConcatProperties
    <3>2. /\ Len(b) = 1 + (c + 1)
          /\ \A i \in 1 .. 1 + (c + 1) : b[i] = IF i <= 1 THEN <<h>>[i] ELSE tail[i - 1]
      BY <1>1, <2>6, <3>1
    <3>3. ASSUME NEW j \in 1 .. c + 1
          PROVE  b[1 + j] = tail[j]
      <4>1. 1 + j \in 1 .. 1 + (c + 1) /\ ~(1 + j <= 1) /\ (1 + j) - 1 = j
        OBVIOUS
      <4> HIDE DEF b
      <4> QED
        BY <3>2, <4>1
    <3>4. b[1] = h
      <4>1. 1 \in 1 .. 1 + (c + 1)
        OBVIOUS
      <4> HIDE DEF b
      <4> QED
        BY <1>1, <3>2, <4>1
    <3> HIDE DEF b
    <3> QED
      BY <3>1, <3>2, <3>3, <3>4
  <2> HIDE DEF b
  <2>8. \A j \in 1 .. c : b[1 + j] = InnerLine(program, st, line, j)
    <3>1. \A j \in 1 .. c : j \in 1 .. c + 1
      OBVIOUS
    <3> QED
      BY <2>4, <2>6, <2>7, <3>1
  <2>9. b[c + 2] = r
    <3>1. c + 1 \in 1 .. c + 1 /\ 1 + (c + 1) = c + 2
      OBVIOUS
    <3> QED
      BY <2>6, <2>7, <3>1
  <2>10. Width(st) = c + 2
    BY <1>3, <2>1 DEF Width
  <2> QED
    BY <2>1, <2>7, <2>8, <2>9, <2>10 DEF LinesOf, b, r, h
<1> QED
  BY <1>2, <1>3

ProgramLines(program, at) ==
  /\ Len(Instructions(program)) = at[Len(program) + 1]
  /\ \A k \in 1 .. Len(program) :
       /\ at[k + 1] <= Len(Instructions(program))
       /\ \E b : /\ LinesOf(program, program[k], at[k], b)
                 /\ \A j \in 1 .. Len(b) : Instructions(program)[at[k] + j] = b[j]

LEMMA InstructionsArePlaced ==
  ASSUME NEW program \in Seq(Statements), NEW at, Starts(program, at),
         \A k \in 1 .. Len(program) : LineOf(program, k) = at[k]
  PROVE  ProgramLines(program, at)
<1>1. PICK N \in Nat : N = Len(program)
  BY LenProperties
<1>2. /\ at \in [1 .. N + 1 -> Nat] /\ at[1] = 0
      /\ \A k \in 1 .. N : at[k + 1] = at[k] + Width(program[k])
  BY <1>1 DEF Starts
<1>3. \A k \in 1 .. N : program[k] \in Statements /\ at[k] \in Nat
  BY <1>1, <1>2, ElementOfSeq
<1> DEFINE X == {HeadLine(program, program[k], at[k]) : k \in 1 .. N}
                  \cup {ReturnOf(at[k]) : k \in 1 .. N}
                  \cup {InnerLine(program, program[k], at[k], j) :
                          k \in 1 .. N, j \in Nat}
           seqs == [k \in 1 .. N |-> InstructionsOf(program, program[k], at[k])]
<1>4. ASSUME NEW k \in 1 .. N
      PROVE  /\ InstructionsOf(program, program[k], at[k]) \in Seq(X)
             /\ LinesOf(program, program[k], at[k],
                        InstructionsOf(program, program[k], at[k]))
  <2>1. program[k] \in Statements /\ at[k] \in Nat
    BY <1>3
  <2>2. HeadLine(program, program[k], at[k]) \in X /\ ReturnOf(at[k]) \in X
    OBVIOUS
  <2>3. \A j \in Nat : InnerLine(program, program[k], at[k], j) \in X
    OBVIOUS
  <2>4. \A j \in 1 .. Len(program[k].body) :
          InnerLine(program, program[k], at[k], j) \in X
    BY <2>3
  <2> HIDE DEF X
  <2> QED
    BY <2>1, <2>2, <2>4, BlockOfStatement
<1> HIDE DEF X
<1>5. seqs \in Seq(Seq(X)) /\ Len(seqs) = N
  <2>1. seqs \in [1 .. N -> Seq(X)]
    BY <1>4
  <2> HIDE DEF seqs
  <2> QED
    BY <2>1, FunctionIsSequence
<1>6. Instructions(program) = FlattenSeq(seqs)
  <2>1. seqs = [k \in 1 .. Len(program) |->
                  InstructionsOf(program, program[k], LineOf(program, k))]
    BY <1>1
  <2> QED
    BY <2>1 DEF Instructions
<1>7. \A k \in 1 .. N : seqs[k] = InstructionsOf(program, program[k], at[k])
  OBVIOUS
<1> HIDE DEF seqs
<1>8. \A k \in 1 .. N : LinesOf(program, program[k], at[k], seqs[k])
  BY <1>4, <1>7
<1>9. \A k \in 1 .. N : Len(seqs[k]) = Width(program[k])
  BY <1>8 DEF LinesOf
<1>10. \A k \in 1 .. N : at[k + 1] = at[k] + Len(seqs[k])
  BY <1>2, <1>9
<1>11. Abut(seqs, at)
  BY <1>2, <1>5, <1>10 DEF Abut
<1>12. FoundIn(FlattenSeq(seqs), seqs, at)
  BY <1>5, <1>11, FlattenPlaces
<1> QED
  BY <1>1, <1>5, <1>6, <1>8, <1>10, <1>12 DEF ProgramLines, FoundIn

(* Every line belongs to a statement.                                      *)
LEMMA LineHasStatement ==
  ASSUME NEW program \in Seq(Statements), NEW at, Starts(program, at),
         NEW i \in Nat, i < at[Len(program) + 1]
  PROVE  \E k \in 1 .. Len(program) : at[k] <= i /\ i < at[k + 1]
<1>1. PICK N \in Nat : N = Len(program)
  BY LenProperties
<1>2. at \in [1 .. N + 1 -> Nat] /\ at[1] = 0
  BY <1>1 DEF Starts
<1> DEFINE Below(m) == i < at[m] => \E k \in 1 .. N : at[k] <= i /\ i < at[k + 1]
           T == {m \in 1 .. N + 1 : Below(m)}
<1>3. 1 \in T
  BY <1>2
<1>4. ASSUME NEW m \in 1 .. N + 1, m \in T, m + 1 <= N + 1
      PROVE  m + 1 \in T
  <2>1. m \in 1 .. N /\ m + 1 \in 1 .. N + 1 /\ Below(m)
    BY <1>4
  <2>2. at[m] \in Nat
    BY <1>2
  <2>3. Below(m + 1)
    BY <2>1, <2>2
  <2> QED
    BY <2>1, <2>3
<1>5. N + 1 \in T
  <2>1. 1 \in Nat /\ N + 1 \in Nat /\ 1 <= N + 1 /\ N + 1 \in 1 .. N + 1
    OBVIOUS
  <2> HIDE DEF T
  <2> QED
    BY <1>3, <1>4, <2>1, IntervalInduction
<1> QED
  BY <1>1, <1>5

RowOf(p, i, line) ==
  p.type[i] = line.type /\ p.succ[i] = line.succ /\ p.body[i] = line.body

Columns(p, n) ==
  /\ p.n = n
  /\ p.type = [i \in 0 .. n - 1 |-> p.type[i]]
  /\ p.succ = [i \in 0 .. n - 1 |-> p.succ[i]]
  /\ p.body = [i \in 0 .. n |-> p.body[i]]
  /\ p.body[n] = TopLevel

LEMMA TablesHaveRows ==
  ASSUME NEW program, NEW n \in Nat, n = Len(Instructions(program)),
         NEW p, p = Preprocess(program)
  PROVE  /\ Columns(p, n)
         /\ \A i \in 0 .. n - 1 : RowOf(p, i, Instructions(program)[i + 1])
<1> DEFINE I == Instructions(program)
<1> HIDE DEF I
<1>1. /\ p.n = n
      /\ p.type = [i \in 0 .. n - 1 |-> I[i + 1]["type"]]
      /\ p.succ = [i \in 0 .. n - 1 |-> I[i + 1]["succ"]]
      /\ p.body = [i \in 0 .. n |-> IF i = n THEN TopLevel ELSE I[i + 1].body]
  BY DEF Preprocess, TablesOf, I
<1>2. /\ p.body = [i \in 0 .. n |-> p.body[i]]
      /\ p.body[n] = TopLevel
      /\ \A i \in 0 .. n - 1 : p.body[i] = I[i + 1].body
  BY <1>1
<1>3. \A i \in 0 .. n - 1 : RowOf(p, i, I[i + 1])
  BY <1>1, <1>2 DEF RowOf
<1> QED
  BY <1>1, <1>2, <1>3 DEF I, Columns

LEMMA Classified ==
  ASSUME NEW st
  PROVE  /\ Classify(st) \in InstructionTypes \ {"RETURN"}
         /\ Classify(st) = "CALL" <=> st.is = "call"
         /\ st.is = "def" => Classify(st) = "NOP"
<1>1. CASE st.is = "assert"
  BY <1>1 DEF Classify, InstructionTypes
<1>2. CASE st.is = "def"
  BY <1>2 DEF Classify, InstructionTypes
<1>3. CASE st.is = "decl"
  BY <1>3 DEF Classify, InstructionTypes
<1>4. CASE st.is = "call"
  BY <1>4 DEF Classify, InstructionTypes
<1>5. CASE st.is \notin {"assert", "def", "decl", "call"}
  BY <1>5 DEF Classify, InstructionTypes
<1> QED
  BY <1>1, <1>2, <1>3, <1>4, <1>5

(* The rows of a program's tables.                                         *)
Rows(p, program, at) ==
  \A k \in 1 .. Len(program) :
    /\ RowOf(p, at[k], HeadLine(program, program[k], at[k]))
    /\ program[k].is = "def" =>
         /\ \A j \in 1 .. Len(program[k].body) :
              RowOf(p, at[k] + j, InnerLine(program, program[k], at[k], j))
         /\ RowOf(p, at[k] + Len(program[k].body) + 1, ReturnOf(at[k]))

LEMMA TablesHaveLines ==
  ASSUME NEW program \in Seq(Statements), NEW at, Starts(program, at),
         ProgramLines(program, at), NEW p, p = Preprocess(program)
  PROVE  Rows(p, program, at)
<1> DEFINE I == Instructions(program)
<1>1. PICK N \in Nat : N = Len(program)
  BY LenProperties
<1>2. at \in [1 .. N + 1 -> Nat] /\ Len(I) = at[N + 1] /\ N + 1 \in 1 .. N + 1
  BY <1>1 DEF Starts, ProgramLines
<1>3. PICK n \in Nat : n = Len(I)
  BY <1>2
<1>4. \A i \in 0 .. n - 1 : RowOf(p, i, I[i + 1])
  BY <1>3, TablesHaveRows
<1> SUFFICES ASSUME NEW k \in 1 .. N
             PROVE  /\ RowOf(p, at[k], HeadLine(program, program[k], at[k]))
                    /\ program[k].is = "def" =>
                         /\ \A j \in 1 .. Len(program[k].body) :
                              RowOf(p, at[k] + j,
                                    InnerLine(program, program[k], at[k], j))
                         /\ RowOf(p, at[k] + Len(program[k].body) + 1,
                                  ReturnOf(at[k]))
  BY <1>1 DEF Rows
<1>5. PICK b : /\ LinesOf(program, program[k], at[k], b)
               /\ \A j \in 1 .. Len(b) : I[at[k] + j] = b[j]
  BY <1>1 DEF ProgramLines
<1>6. PICK l \in Nat, w \in Nat \ {0} :
        l = at[k] /\ w = Width(program[k]) /\ l + w <= n
  <2>1. program[k] \in Statements /\ at[k] \in Nat /\ at[k + 1] \in Nat
    BY <1>1, <1>2, ElementOfSeq
  <2>2. at[k + 1] = at[k] + Width(program[k]) /\ at[k + 1] <= n
    BY <1>1, <1>3 DEF Starts, ProgramLines
  <2>3. Width(program[k]) \in Nat \ {0}
    BY <2>1, WidthIsPositive
  <2> QED
    BY <2>1, <2>2, <2>3
<1> HIDE DEF I
<1>7. ASSUME NEW j \in 1 .. w
      PROVE  RowOf(p, l + (j - 1), b[j])
  <2>1. l + (j - 1) \in 0 .. n - 1 /\ (l + (j - 1)) + 1 = l + j
    BY <1>6
  <2>2. Len(b) = w
    BY <1>5, <1>6 DEF LinesOf
  <2>3. I[l + j] = b[j]
    BY <1>5, <1>6, <2>2
  <2>4. RowOf(p, l + (j - 1), I[(l + (j - 1)) + 1])
    BY <1>4, <2>1
  <2> QED
    BY <2>1, <2>3, <2>4
<1>8. RowOf(p, at[k], HeadLine(program, program[k], at[k]))
  <2>1. 1 \in 1 .. w /\ l + (1 - 1) = l
    BY <1>6
  <2>2. RowOf(p, l + (1 - 1), b[1])
    BY <1>7, <2>1
  <2> QED
    BY <1>5, <1>6, <2>1, <2>2 DEF LinesOf
<1>9. ASSUME program[k].is = "def"
      PROVE  /\ \A j \in 1 .. Len(program[k].body) :
                  RowOf(p, at[k] + j, InnerLine(program, program[k], at[k], j))
             /\ RowOf(p, at[k] + Len(program[k].body) + 1, ReturnOf(at[k]))
  <2>1. PICK c \in Nat : c = Len(program[k].body) /\ w = c + 2
    <3>1. program[k] \in Statements
      BY <1>1, ElementOfSeq
    <3>2. Len(program[k].body) \in Nat
      BY <1>9, <3>1, BodyOfDefinition
    <3> QED
      BY <1>6, <1>9, <3>2 DEF Width
  <2>2. ASSUME NEW j \in 1 .. c
        PROVE  RowOf(p, l + j, InnerLine(program, program[k], l, j))
    <3>1. 1 + j \in 1 .. w /\ l + ((1 + j) - 1) = l + j
      BY <2>1
    <3>2. RowOf(p, l + ((1 + j) - 1), b[1 + j])
      BY <1>7, <3>1
    <3>3. b[1 + j] = InnerLine(program, program[k], l, j)
      BY <1>5, <1>6, <1>9, <2>1 DEF LinesOf
    <3> QED
      BY <3>1, <3>2, <3>3
  <2>3. RowOf(p, l + c + 1, ReturnOf(l))
    <3>1. c + 2 \in 1 .. w /\ l + ((c + 2) - 1) = l + c + 1
      BY <2>1
    <3>2. RowOf(p, l + ((c + 2) - 1), b[c + 2])
      BY <1>7, <3>1
    <3>3. b[c + 2] = ReturnOf(l)
      BY <1>5, <1>6, <1>9, <2>1 DEF LinesOf
    <3> QED
      BY <3>1, <3>2, <3>3
  <2> QED
    BY <1>6, <2>1, <2>2, <2>3
<1> QED
  BY <1>8, <1>9

-----------------------------------------------------------------------------
(* What a program laid out in lines says of its tables p.                  *)

Laid(p, program, at) ==
  /\ program \in Seq(Statements) /\ Starts(program, at)
  /\ \A k \in 1 .. Len(program) : LineOf(program, k) = at[k]
  /\ Columns(p, at[Len(program) + 1])
  /\ Rows(p, program, at)

LEMMA ProgramIsLaid ==
  ASSUME NEW program \in Seq(Statements), NEW p, p = Preprocess(program)
  PROVE  \E at : Laid(p, program, at)
<1>1. PICK at : /\ Starts(program, at)
                /\ \A k \in 1 .. Len(program) : LineOf(program, k) = at[k]
  BY LinesFollow
<1>2. ProgramLines(program, at)
  BY <1>1, InstructionsArePlaced
<1>3. Rows(p, program, at)
  BY <1>1, <1>2, TablesHaveLines
<1>4. PICK n \in Nat : n = Len(Instructions(program)) /\ n = at[Len(program) + 1]
  <2>1. PICK N \in Nat : N = Len(program)
    BY LenProperties
  <2>2. at[N + 1] \in Nat
    BY <1>1, <2>1 DEF Starts
  <2> QED
    BY <1>2, <2>1, <2>2 DEF ProgramLines
<1>5. Columns(p, n)
  BY <1>4, TablesHaveRows
<1> QED
  BY <1>1, <1>3, <1>4, <1>5 DEF Laid

(* The size of the program and of its statements, in numbers.              *)
LEMMA LaidSizes ==
  ASSUME NEW p, NEW program, NEW at, Laid(p, program, at),
         NEW k \in 1 .. Len(program)
  PROVE  /\ Len(program) \in Nat /\ p.n \in Nat
         /\ program[k] \in Statements
         /\ at[k] \in Nat /\ at[k + 1] \in Nat
         /\ Width(program[k]) \in Nat \ {0}
         /\ at[k + 1] = at[k] + Width(program[k])
         /\ at[k + 1] <= p.n
<1>1. PICK N \in Nat : N = Len(program)
  BY LenProperties DEF Laid
<1>2. /\ at \in [1 .. N + 1 -> Nat]
      /\ \A j \in 1 .. N : at[j + 1] = at[j] + Width(program[j])
      /\ p.n = at[N + 1] /\ p.n \in Nat
  BY <1>1 DEF Laid, Starts, Columns
<1>3. \A j \in 1 .. N : program[j] \in Statements /\ Width(program[j]) \in Nat \ {0}
  BY <1>1, ElementOfSeq, WidthIsPositive DEF Laid
<1>4. k \in 1 .. N /\ k + 1 \in 1 .. N + 1
  BY <1>1
<1>5. at[k + 1] <= at[N + 1]
  <2> DEFINE T == {m \in k + 1 .. N + 1 : at[k + 1] <= at[m]}
  <2>1. k + 1 \in T
    BY <1>2, <1>4
  <2>2. ASSUME NEW m \in k + 1 .. N + 1, m \in T, m + 1 <= N + 1
        PROVE  m + 1 \in T
    <3>1. m \in 1 .. N /\ m + 1 \in 1 .. N + 1 /\ m + 1 \in k + 1 .. N + 1
      BY <1>4, <2>2
    <3>2. at[m + 1] = at[m] + Width(program[m]) /\ at[m] \in Nat
          /\ Width(program[m]) \in Nat /\ at[k + 1] \in Nat
      BY <1>2, <1>3, <1>4, <3>1
    <3>3. at[k + 1] <= at[m + 1]
      BY <2>2, <3>2
    <3> QED
      BY <3>1, <3>3
  <2>3. k + 1 \in Nat /\ N + 1 \in Nat /\ k + 1 <= N + 1 /\ N + 1 \in k + 1 .. N + 1
    BY <1>4
  <2>4. N + 1 \in T
    <3> HIDE DEF T
    <3> QED
      BY <2>1, <2>2, <2>3, IntervalInduction
  <2> QED
    BY <2>4
<1> QED
  BY <1>1, <1>2, <1>3, <1>4, <1>5

Spans(p, program, at, k, l, c, n) ==
  /\ l \in Nat /\ c \in Nat /\ n \in Nat
  /\ l = at[k] /\ c = Len(program[k].body) /\ n = p.n
  /\ Width(program[k]) = c + 2
  /\ at[k + 1] = l + (c + 2) /\ l + (c + 2) <= n
  /\ \A m \in 1 .. c : program[k].body[m].is # "def"

LEMMA DefinitionSizes ==
  ASSUME NEW p, NEW program, NEW at, Laid(p, program, at),
         NEW k \in 1 .. Len(program), program[k].is = "def"
  PROVE  Spans(p, program, at, k, at[k], Len(program[k].body), p.n)
<1>1. /\ program[k] \in Statements /\ at[k] \in Nat /\ p.n \in Nat
      /\ at[k + 1] = at[k] + Width(program[k]) /\ at[k + 1] <= p.n
  BY LaidSizes
<1>2. /\ Len(program[k].body) \in Nat
      /\ \A m \in 1 .. Len(program[k].body) : program[k].body[m].is # "def"
  BY <1>1, BodyOfDefinition
<1>3. Width(program[k]) = Len(program[k].body) + 2
  BY DEF Width
<1> QED
  BY <1>1, <1>2, <1>3 DEF Spans

(* Where a statement ends the next one, or the program's end, is reached:  *)
(* no gate body. A definition ends with its RETURN.                        *)
LEMMA StatementEnds ==
  ASSUME NEW p, NEW program, NEW at, Laid(p, program, at),
         NEW k \in 1 .. Len(program)
  PROVE  /\ p.body[at[k]] = TopLevel
         /\ p.body[at[k + 1]] = TopLevel
         /\ program[k].is = "def" => p.type[at[k + 1] - 1] = "RETURN"
<1>1. PICK N \in Nat : N = Len(program)
  BY LaidSizes
<1>2. \A j \in 1 .. N : p.body[at[j]] = TopLevel
  BY <1>1 DEF Laid, Rows, RowOf, HeadLine, Instruction
<1>3. p.body[at[k + 1]] = TopLevel
  <2>1. CASE k = N
    BY <1>1, <2>1 DEF Laid, Columns
  <2>2. CASE k # N
    <3>1. k + 1 \in 1 .. N
      BY <1>1, <2>2
    <3> QED
      BY <1>2, <3>1
  <2> QED
    BY <2>1, <2>2
<1>4. ASSUME program[k].is = "def"
      PROVE  p.type[at[k + 1] - 1] = "RETURN"
  <2>1. PICK l \in Nat, c \in Nat :
          l = at[k] /\ c = Len(program[k].body) /\ at[k + 1] = l + (c + 2)
    <3>1. PICK l, c, n : Spans(p, program, at, k, l, c, n)
      BY <1>4, DefinitionSizes
    <3> QED
      BY <3>1 DEF Spans
  <2>2. at[k + 1] - 1 = l + c + 1
    <3>1. (l + (c + 2)) - 1 = l + c + 1
      OBVIOUS
    <3> QED
      BY <2>1, <3>1
  <2>3. RowOf(p, l + c + 1, ReturnOf(l))
    BY <1>4, <2>1 DEF Laid, Rows
  <2> QED
    BY <2>2, <2>3 DEF RowOf, ReturnOf
<1> QED
  BY <1>1, <1>2, <1>3, <1>4

(* A call of a gate leads to the first line of its body, or to the RETURN  *)
(* of an empty one.                                                        *)
LEMMA CallLeads ==
  ASSUME NEW p, NEW program, NEW at, Laid(p, program, at),
         NEW d \in 1 .. Len(program), program[d].is = "def"
  PROVE  /\ at[d] + 1 \in 1 .. p.n - 1
         /\ p.body[at[d] + 1] = at[d]
         /\ p.type[at[d]] = "NOP"
<1>1. PICK l \in Nat, c \in Nat, n \in Nat :
        l = at[d] /\ c = Len(program[d].body) /\ n = p.n /\ l + (c + 2) <= n
  <2>1. PICK l, c, n : Spans(p, program, at, d, l, c, n)
    BY DefinitionSizes
  <2> QED
    BY <2>1 DEF Spans
<1>2. at[d] + 1 \in 1 .. p.n - 1
  <2>1. l + 1 \in 1 .. n - 1
    BY <1>1
  <2> QED
    BY <1>1, <2>1
<1>3. p.type[at[d]] = "NOP"
  BY Classified DEF Laid, Rows, RowOf, HeadLine, Instruction
<1>4. p.body[l + 1] = l
  <2>1. CASE c = 0
    <3>1. l + c + 1 = l + 1
      BY <2>1
    <3>2. RowOf(p, l + c + 1, ReturnOf(l))
      BY <1>1 DEF Laid, Rows
    <3> QED
      BY <3>1, <3>2 DEF RowOf, ReturnOf
  <2>2. CASE c # 0
    <3>1. 1 \in 1 .. c
      BY <2>2
    <3>2. RowOf(p, l + 1, InnerLine(program, program[d], l, 1))
      BY <1>1, <3>1 DEF Laid, Rows
    <3> QED
      BY <3>2 DEF RowOf, InnerLine, Instruction
  <2> QED
    BY <2>1, <2>2
<1> QED
  BY <1>1, <1>2, <1>3, <1>4

(* What the preprocessor looks up is the first definition of the name.     *)
LEMMA DefinitionFound ==
  ASSUME NEW program \in Seq(Statements), NEW name,
         \E k \in 1 .. Len(program) :
           program[k].is = "def" /\ program[k].name = name
  PROVE  /\ DefinitionOf(program, name) \in 1 .. Len(program)
         /\ program[DefinitionOf(program, name)].is = "def"
         /\ program[DefinitionOf(program, name)].name = name
<1> DEFINE I == {i \in 1 .. Len(program) :
                   program[i].is = "def" /\ program[i].name = name}
<1>1. I \in SUBSET Nat /\ I # {}
  BY LenProperties
<1>2. DefinitionOf(program, name) = CHOOSE x \in I : \A y \in I : x <= y
  BY <1>1 DEF DefinitionOf, SelectInSeq, Min
<1> HIDE DEF I
<1>3. \E x \in I : \A y \in I : x <= y
  BY <1>1, LeastNumber
<1>4. DefinitionOf(program, name) \in I
  BY <1>2, <1>3
<1> QED
  BY <1>4 DEF I

-----------------------------------------------------------------------------
(* The rows of the tables, statement by statement.                         *)

Defines(program, name) ==
  /\ DefinitionOf(program, name) \in 1 .. Len(program)
  /\ program[DefinitionOf(program, name)].is = "def"

Resolved(program) ==
  \A k \in 1 .. Len(program) :
    /\ program[k].is = "call" => Defines(program, program[k].name)
    /\ program[k].is = "def" =>
         \A j \in 1 .. Len(program[k].body) :
           program[k].body[j].is = "call" =>
             Defines(program, program[k].body[j].name)

RowIsTyped(p, i) ==
  /\ p.type[i] \in InstructionTypes
  /\ p.succ[i] \in 0 .. p.n
  /\ p.body[i] \in -1 .. p.n - 1

(* What WellFormedFlow says of one instruction.                            *)
RowIsWellFormed(p, i) ==
  /\ p.type[i] = "RETURN" <=> p.succ[i] = 0
  /\ p.type[i] = "RETURN" => p.body[i] # TopLevel
  /\ p.type[i] = "CALL" =>
       /\ p.succ[i] < p.n
       /\ p.body[p.succ[i]] = Callee(p, i)
       /\ p.type[Callee(p, i)] = "NOP"
       /\ p.body[i + 1] = p.body[i]
  /\ p.type[i] \notin {"CALL", "RETURN"} =>
       /\ p.succ[i] > i
       /\ p.body[p.succ[i]] = p.body[i]
       /\ p.type[p.succ[i] - 1] # "CALL"

GoodRow(p, i) == RowIsTyped(p, i) /\ RowIsWellFormed(p, i)

(* A call, wherever it stands.                                             *)
LEMMA CallRow ==
  ASSUME NEW p, NEW program, NEW at, Laid(p, program, at),
         NEW st, st.is = "call", Defines(program, st.name),
         NEW i \in Nat, i < p.n, NEW body \in -1 .. p.n - 1,
         RowOf(p, i, Instruction(program, st, i, body)),
         p.body[i + 1] = body
  PROVE  GoodRow(p, i)
<1> DEFINE d == DefinitionOf(program, st.name)
<1>1. d \in 1 .. Len(program) /\ program[d].is = "def"
  BY DEF Defines
<1>2. FunctionFirstLine(program, st.name) = at[d] + 1
  BY <1>1 DEF FunctionFirstLine, Laid
<1>3. /\ p.type[i] = Classify(st) /\ p.body[i] = body
      /\ p.succ[i] = FunctionFirstLine(program, st.name)
  BY DEF RowOf, Instruction
<1> HIDE DEF d
<1>4. PICK l \in Nat : l = at[d]
  BY <1>1, LaidSizes
<1>5. /\ l + 1 \in 1 .. p.n - 1 /\ p.body[l + 1] = l /\ p.type[l] = "NOP"
  BY <1>1, <1>4, CallLeads
<1>6. p.succ[i] = l + 1 /\ Callee(p, i) = l /\ p.type[i] = "CALL"
  BY <1>2, <1>3, <1>4, Classified DEF Callee
<1>7. p.n \in Nat
  BY <1>1, LaidSizes
<1>8. RowIsTyped(p, i)
  BY <1>3, <1>5, <1>6, <1>7 DEF RowIsTyped, InstructionTypes
<1>9. RowIsWellFormed(p, i)
  BY <1>3, <1>5, <1>6, <1>7 DEF RowIsWellFormed
<1> QED
  BY <1>8, <1>9 DEF GoodRow

(* Any other statement that is no definition.                              *)
LEMMA PlainRow ==
  ASSUME NEW p, p.n \in Nat, NEW program, NEW st, st.is \notin {"call", "def"},
         NEW i \in Nat, i < p.n, NEW body \in -1 .. p.n - 1,
         RowOf(p, i, Instruction(program, st, i, body)),
         p.body[i + 1] = body
  PROVE  GoodRow(p, i)
<1>1. /\ p.type[i] = Classify(st) /\ p.body[i] = body /\ p.succ[i] = i + 1
  BY DEF RowOf, Instruction
<1>2. p.type[i] \in InstructionTypes \ {"CALL", "RETURN"}
  BY <1>1, Classified
<1>3. RowIsTyped(p, i)
  BY <1>1, <1>2 DEF RowIsTyped
<1>4. p.type[p.succ[i] - 1] = p.type[i]
  BY <1>1
<1>5. RowIsWellFormed(p, i)
  BY <1>1, <1>2, <1>4 DEF RowIsWellFormed
<1> QED
  BY <1>3, <1>5 DEF GoodRow

(* The line of a definition leads past its body.                           *)
LEMMA DefinitionRow ==
  ASSUME NEW p, NEW program, NEW at, Laid(p, program, at),
         NEW k \in 1 .. Len(program), program[k].is = "def"
  PROVE  GoodRow(p, at[k])
<1>1. PICK l \in Nat, w \in Nat \ {0}, n \in Nat :
        /\ l = at[k] /\ w = Width(program[k]) /\ n = p.n
        /\ at[k + 1] = l + w /\ l + w <= n
  <2>1. /\ at[k] \in Nat /\ Width(program[k]) \in Nat \ {0} /\ p.n \in Nat
        /\ at[k + 1] = at[k] + Width(program[k]) /\ at[k + 1] <= p.n
    BY LaidSizes
  <2> QED
    BY <2>1
<1>2. /\ p.type[l] = "NOP" /\ p.body[l] = TopLevel /\ p.succ[l] = l + w
  BY <1>1, Classified DEF Laid, Rows, RowOf, HeadLine, Instruction
<1>3. p.body[l + w] = TopLevel /\ p.type[(l + w) - 1] = "RETURN"
  BY <1>1, StatementEnds
<1>4. RowIsTyped(p, l)
  BY <1>1, <1>2 DEF RowIsTyped, InstructionTypes, TopLevel
<1>5. RowIsWellFormed(p, l)
  BY <1>1, <1>2, <1>3 DEF RowIsWellFormed
<1> QED
  BY <1>1, <1>4, <1>5 DEF GoodRow

LEMMA HeadRow ==
  ASSUME NEW p, NEW program, NEW at, Laid(p, program, at), Resolved(program),
         NEW k \in 1 .. Len(program)
  PROVE  GoodRow(p, at[k])
<1>1. CASE program[k].is = "def"
  BY <1>1, DefinitionRow
<1>2. CASE program[k].is # "def"
  <2>1. PICK i \in Nat : /\ i = at[k] /\ at[k + 1] = i + 1
                         /\ p.n \in Nat /\ i < p.n
    <3>1. /\ at[k] \in Nat /\ p.n \in Nat /\ at[k + 1] <= p.n
          /\ at[k + 1] = at[k] + Width(program[k])
      BY LaidSizes
    <3> QED
      BY <1>2, <3>1 DEF Width
  <2>2. TopLevel \in -1 .. p.n - 1 /\ p.body[i + 1] = TopLevel
    BY <2>1, StatementEnds DEF TopLevel
  <2>3. RowOf(p, i, Instruction(program, program[k], i, TopLevel))
    BY <2>1 DEF Laid, Rows, HeadLine
  <2>4. CASE program[k].is = "call"
    <3>1. Defines(program, program[k].name)
      BY <2>4 DEF Resolved
    <3> QED
      BY <2>1, <2>2, <2>3, <2>4, <3>1, CallRow
  <2>5. CASE program[k].is # "call"
    BY <1>2, <2>1, <2>2, <2>3, <2>5, PlainRow
  <2> QED
    BY <2>4, <2>5
<1> QED
  BY <1>1, <1>2

LEMMA InnerRow ==
  ASSUME NEW p, NEW program, NEW at, Laid(p, program, at), Resolved(program),
         NEW k \in 1 .. Len(program), program[k].is = "def",
         NEW j \in 1 .. Len(program[k].body)
  PROVE  GoodRow(p, at[k] + j)
<1>1. PICK l \in Nat, c \in Nat, n \in Nat :
        /\ l = at[k] /\ c = Len(program[k].body) /\ n = p.n /\ l + (c + 2) <= n
        /\ \A m \in 1 .. c : program[k].body[m].is # "def"
  <2>1. PICK l, c, n : Spans(p, program, at, k, l, c, n)
    BY DefinitionSizes
  <2> QED
    BY <2>1 DEF Spans
<1>2. /\ \A m \in 1 .. c : RowOf(p, l + m, InnerLine(program, program[k], l, m))
      /\ RowOf(p, l + c + 1, ReturnOf(l))
  BY <1>1 DEF Laid, Rows
<1>3. PICK i \in Nat : i = l + j /\ i < n /\ l \in -1 .. n - 1 /\ j \in 1 .. c
  <2>1. j \in 1 .. c /\ l + (c + 2) <= n
    BY <1>1
  <2> QED
    BY <2>1
<1> DEFINE st == program[k].body[j]
<1>4. RowOf(p, i, Instruction(program, st, i, l))
  BY <1>2, <1>3 DEF InnerLine
<1>5. p.body[i + 1] = l
  <2>1. CASE j = c
    <3>1. l + c + 1 = i + 1
      BY <1>3, <2>1
    <3> QED
      BY <1>2, <3>1 DEF RowOf, ReturnOf
  <2>2. CASE j # c
    <3>1. j + 1 \in 1 .. c /\ l + (j + 1) = i + 1
      BY <1>3, <2>2
    <3> QED
      BY <1>2, <3>1 DEF RowOf, InnerLine, Instruction
  <2> QED
    BY <2>1, <2>2
<1>6. st.is # "def"
  BY <1>1, <1>3
<1>7. CASE st.is = "call"
  <2>1. Defines(program, st.name)
    BY <1>7 DEF Resolved
  <2> HIDE DEF st
  <2>2. GoodRow(p, i)
    BY <1>1, <1>3, <1>4, <1>5, <1>7, <2>1, CallRow
  <2> QED
    BY <1>1, <1>3, <2>2
<1>8. CASE st.is # "call"
  <2> HIDE DEF st
  <2>1. GoodRow(p, i)
    BY <1>1, <1>3, <1>4, <1>5, <1>6, <1>8, PlainRow
  <2> QED
    BY <1>1, <1>3, <2>1
<1> QED
  BY <1>7, <1>8

LEMMA ReturnRow ==
  ASSUME NEW p, NEW program, NEW at, Laid(p, program, at),
         NEW k \in 1 .. Len(program), program[k].is = "def"
  PROVE  GoodRow(p, at[k] + Len(program[k].body) + 1)
<1>1. PICK l \in Nat, c \in Nat, n \in Nat :
        l = at[k] /\ c = Len(program[k].body) /\ n = p.n /\ l + (c + 2) <= n
  <2>1. PICK l, c, n : Spans(p, program, at, k, l, c, n)
    BY DefinitionSizes
  <2> QED
    BY <2>1 DEF Spans
<1> DEFINE i == l + c + 1
<1>2. p.type[i] = "RETURN" /\ p.succ[i] = 0 /\ p.body[i] = l
  BY <1>1 DEF Laid, Rows, RowOf, ReturnOf
<1> HIDE DEF i
<1>3. RowIsTyped(p, i)
  BY <1>1, <1>2 DEF RowIsTyped, InstructionTypes
<1>4. RowIsWellFormed(p, i)
  BY <1>1, <1>2 DEF RowIsWellFormed, TopLevel
<1> QED
  BY <1>1, <1>3, <1>4 DEF GoodRow, i

LEMMA EveryRow ==
  ASSUME NEW p, NEW program, NEW at, Laid(p, program, at), Resolved(program),
         NEW i \in Nat, i < p.n
  PROVE  GoodRow(p, i)
<1>1. program \in Seq(Statements) /\ Starts(program, at)
      /\ i < at[Len(program) + 1]
  BY DEF Laid, Columns
<1>2. PICK k \in 1 .. Len(program) : at[k] <= i /\ i < at[k + 1]
  BY <1>1, LineHasStatement
<1>3. PICK l \in Nat, w \in Nat \ {0} :
        /\ l = at[k] /\ w = Width(program[k]) /\ l <= i /\ i < l + w
  BY <1>2, LaidSizes
<1>4. CASE i = l
  BY <1>3, <1>4, HeadRow
<1>5. CASE i # l
  <2>1. program[k].is = "def"
    BY <1>3, <1>5 DEF Width
  <2>2. PICK c \in Nat : c = Len(program[k].body) /\ w = c + 2
    <3>1. PICK m, c, n : Spans(p, program, at, k, m, c, n)
      BY <2>1, DefinitionSizes
    <3> QED
      BY <1>3, <3>1 DEF Spans
  <2>3. CASE i = l + c + 1
    BY <1>3, <2>1, <2>2, <2>3, ReturnRow
  <2>4. CASE i # l + c + 1
    <3>1. PICK j \in 1 .. c : i = l + j
      <4>1. l < i /\ i < l + (c + 2) /\ i # l + c + 1
        BY <1>3, <1>5, <2>2, <2>4
      <4>2. PICK j \in Nat : j = i - l
        BY <4>1
      <4>3. i = l + j /\ j \in 1 .. c
        BY <4>1, <4>2
      <4> QED
        BY <4>3
    <3>2. GoodRow(p, at[k] + j)
      BY <2>1, <2>2, InnerRow
    <3> QED
      BY <1>3, <3>1, <3>2
  <2> QED
    BY <2>3, <2>4
<1> QED
  BY <1>4, <1>5

LEMMA TablesAreWellFormed ==
  ASSUME NEW program \in Seq(Statements), Resolved(program),
         NEW p, p = Preprocess(program)
  PROVE  WellFormedFlow(p)
<1>1. PICK at : Laid(p, program, at)
  BY ProgramIsLaid
<1>2. PICK n \in Nat : /\ n = p.n /\ n = at[Len(program) + 1]
                       /\ Columns(p, n) /\ p.body[0] = TopLevel
  <2>1. PICK N \in Nat : N = Len(program)
    BY LenProperties
  <2>2. at[N + 1] \in Nat /\ at[1] = 0
    BY <1>1, <2>1 DEF Laid, Starts
  <2>3. Columns(p, at[N + 1]) /\ p.n = at[N + 1]
    BY <1>1, <2>1 DEF Laid, Columns
  <2>4. p.body[0] = TopLevel
    <3>1. CASE N = 0
      BY <2>2, <2>3, <3>1 DEF Columns
    <3>2. CASE N # 0
      <4>1. 1 \in 1 .. Len(program)
        BY <2>1, <3>2
      <4> QED
        BY <1>1, <2>2, <4>1, StatementEnds
    <3> QED
      BY <3>1, <3>2
  <2> QED
    BY <2>1, <2>2, <2>3, <2>4
<1>3. \A i \in 0 .. n - 1 : GoodRow(p, i)
  <2> SUFFICES ASSUME NEW i \in 0 .. n - 1
               PROVE  GoodRow(p, i)
    OBVIOUS
  <2>1. i \in Nat /\ i < p.n
    BY <1>2
  <2> QED
    BY <1>1, <2>1, EveryRow
<1>4. /\ \A i \in 0 .. n - 1 : RowIsTyped(p, i)
      /\ \A i \in 0 .. n - 1 : RowIsWellFormed(p, i)
  BY <1>3 DEF GoodRow
<1>5. p.type \in [0 .. p.n - 1 -> InstructionTypes]
  <2>1. \A i \in 0 .. n - 1 : p.type[i] \in InstructionTypes
    BY <1>4 DEF RowIsTyped
  <2> QED
    BY <1>2, <2>1 DEF Columns
<1>6. p.succ \in [0 .. p.n - 1 -> 0 .. p.n]
  <2>1. \A i \in 0 .. n - 1 : p.succ[i] \in 0 .. p.n
    BY <1>4 DEF RowIsTyped
  <2> QED
    BY <1>2, <2>1 DEF Columns
<1>7. p.body \in [0 .. p.n -> -1 .. p.n - 1]
  <2>1. \A i \in 0 .. n : p.body[i] \in -1 .. p.n - 1
    <3> SUFFICES ASSUME NEW i \in 0 .. n
                 PROVE  p.body[i] \in -1 .. p.n - 1
      OBVIOUS
    <3>1. CASE i = n
      BY <1>2, <3>1 DEF Columns, TopLevel
    <3>2. CASE i # n
      <4>1. i \in 0 .. n - 1
        BY <3>2
      <4> QED
        BY <1>4, <4>1 DEF RowIsTyped
    <3> QED
      BY <3>1, <3>2
  <2> QED
    BY <1>2, <2>1 DEF Columns
<1>8. p.n \in Nat /\ p.body[0] = TopLevel /\ p.body[p.n] = TopLevel
  BY <1>2 DEF Columns
<1>9. \A i \in 0 .. p.n - 1 : RowIsWellFormed(p, i)
  BY <1>2, <1>4
<1> QED
  BY <1>5, <1>6, <1>7, <1>8, <1>9 DEF WellFormedFlow, RowIsWellFormed

-----------------------------------------------------------------------------
(* Every reachable program.                                                *)

(* Programs are sequences of statements.                                   *)
LEMMA ProgramsAreTyped == Spec => [](src \in Seq(Statements))
<1>1. Init => src \in Seq(Statements)
  BY DEF Init
<1>2. src \in Seq(Statements) /\ [Next]_src => (src \in Seq(Statements))'
  BY AppendProperties DEF Next, Write
<1> QED
  BY <1>1, <1>2, PTL DEF Spec

LEMMA AcceptedIsResolved ==
  ASSUME src \in Seq(Statements), Accepted
  PROVE  Resolved(src)
<1>1. ASSUME NEW name \in DefinedNames
      PROVE  Defines(src, name)
  <2>1. PICK st \in Range(src) : st.is = "def" /\ st.name = name
    BY <1>1 DEF DefinedNames
  <2>2. PICK k \in 1 .. Len(src) : src[k] = st
    BY <2>1, LenProperties DEF Range
  <2> QED
    BY <2>1, <2>2, DefinitionFound DEF Defines
<1>2. \A k \in 1 .. Len(src) : src[k] \in Range(src) /\ src[k] \in Statements
  BY LenProperties, ElementOfSeq DEF Range
<1>3. ASSUME NEW k \in 1 .. Len(src), src[k].is = "call"
      PROVE  Defines(src, src[k].name)
  BY <1>1, <1>2, <1>3 DEF Accepted, IsCall
<1>4. ASSUME NEW k \in 1 .. Len(src), src[k].is = "def",
             NEW j \in 1 .. Len(src[k].body), src[k].body[j].is = "call"
      PROVE  Defines(src, src[k].body[j].name)
  <2> DEFINE st == src[k]
             inner == st.body[j]
             S == Range(st.body)
  <2>1. st \in Range(src) /\ st \in Statements
    BY <1>2
  <2>2. st.body \in Seq(S)
    BY <1>4, <2>1, StatementShapes
  <2>3. inner \in S
    <3> HIDE DEF S, st
    <3>1. j \in 1 .. Len(st.body)
      BY DEF st
    <3> QED
      BY <2>2, <3>1, ElementOfSeq
  <2>4. inner.name \in CallsIn(st.body)
    BY <1>4, <2>3 DEF CallsIn, IsCall
  <2>5. CallsIn(st.body) \subseteq DefinedNames
    BY <1>4, <2>1 DEF Accepted
  <2> QED
    BY <1>1, <2>4, <2>5
<1> QED
  BY <1>3, <1>4 DEF Resolved

(* The tables of every program the debugger accepts have the shape its     *)
(* control flow relies on (preprocessCode, CodePreprocessing.cpp).         *)
THEOREM TablesCorrect == Spec => []TablesWellFormed
<1>1. src \in Seq(Statements) => TablesWellFormed
  BY AcceptedIsResolved, TablesAreWellFormed DEF TablesWellFormed, Tables
<1> QED
  BY <1>1, ProgramsAreTyped, PTL

-----------------------------------------------------------------------------
(* Every place a program leads through.                                    *)

LEMMA JourneyFollows ==
  ASSUME NEW p, WellFormedFlow(p), NEW steps \in Nat
  PROVE  /\ Journey(p, steps)[0] = FlowStart
         /\ \A k \in 0 .. steps : Journey(p, steps)[k] \in PlacesOf(p)
         /\ \A k \in 0 .. steps - 1 :
              Journey(p, steps)[k + 1] =
                IF Journey(p, steps)[k].pos = p.n THEN Journey(p, steps)[k]
                ELSE Forward(p, Journey(p, steps)[k])
<1> DEFINE S == PlacesOf(p)
           Go(f) == IF f.pos = p.n THEN f ELSE Forward(p, f)
           step == [j \in 0 + 1 .. steps |-> [f \in S |-> Go(f)]]
           A == CHOOSE g : g = [j \in 0 .. steps |->
                                  IF j = 0 THEN FlowStart
                                  ELSE LET f == g[j - 1]
                                       IN  IF f.pos = p.n THEN f
                                                          ELSE Forward(p, f)]
<1>1. Journey(p, steps) = A
  BY DEF Journey
<1>2. FlowStart \in S
  BY DEF WellFormedFlow, PlacesOf, Flows, FlowStart, Nested, EnteredBody
<1>3. ASSUME NEW f \in S
      PROVE  Go(f) \in S
  <2>1. CASE f.pos = p.n
    BY <2>1
  <2>2. CASE f.pos # p.n
    <3>1. f.pos < p.n
      BY <2>2 DEF WellFormedFlow, PlacesOf, Flows
    <3> QED
      BY <2>2, <3>1, NextPlace
  <2> QED
    BY <2>1, <2>2
<1>4. /\ step \in [0 + 1 .. steps -> [S -> S]]
      /\ \A j \in 0 + 1 .. steps : \A f \in S : step[j][f] = Go(f)
  <2> HIDE DEF Go, S
  <2> QED
    BY <1>3
<1> HIDE DEF step, S
<1>5. Recursion(S, FlowStart, 0, steps, step)
  BY <1>2, <1>4 DEF Recursion
<1>6. PICK g : Follows(S, FlowStart, 0, steps, step, g)
  BY <1>5, RecursionExists
<1>7. g \in [0 .. steps -> S] /\ g[0] = FlowStart
      /\ \A j \in 0 + 1 .. steps : g[j] = Go(g[j - 1])
  <2>1. g \in [0 .. steps -> S] /\ g[0] = FlowStart
        /\ \A j \in 0 + 1 .. steps : g[j] = step[j][g[j - 1]]
    BY <1>6 DEF Follows
  <2>2. ASSUME NEW j \in 0 + 1 .. steps
        PROVE  g[j] = Go(g[j - 1])
    <3>1. j - 1 \in 0 .. steps
      OBVIOUS
    <3>2. g[j - 1] \in S
      BY <2>1, <3>1
    <3> HIDE DEF Go
    <3> QED
      BY <1>4, <2>1, <3>2
  <2> QED
    BY <2>1, <2>2
<1>8. g = [j \in 0 .. steps |-> IF j = 0 THEN FlowStart ELSE Go(g[j - 1])]
  <2> HIDE DEF Go
  <2>1. ASSUME NEW j \in 0 .. steps
        PROVE  g[j] = IF j = 0 THEN FlowStart ELSE Go(g[j - 1])
    <3>1. CASE j = 0
      BY <1>7, <3>1
    <3>2. CASE j # 0
      <4>1. j \in 0 + 1 .. steps
        BY <3>2
      <4> QED
        BY <1>7, <3>2, <4>1
    <3> QED
      BY <3>1, <3>2
  <2> QED
    BY <1>7, <2>1
<1>9. A = [j \in 0 .. steps |-> IF j = 0 THEN FlowStart ELSE Go(A[j - 1])]
  BY <1>8
<1> HIDE DEF A
<1>10. FollowsWhileTyped(S, FlowStart, 0, steps, step, A)
  <2> HIDE DEF Go
  <2>1. A[0] = FlowStart
    <3>1. 0 \in 0 .. steps
      OBVIOUS
    <3> QED
      BY <1>9, <3>1
  <2>2. ASSUME NEW j \in 0 + 1 .. steps, A[j - 1] \in S
        PROVE  A[j] = step[j][A[j - 1]]
    <3>1. j \in 0 .. steps /\ j # 0
      OBVIOUS
    <3>2. A[j] = Go(A[j - 1])
      BY <1>9, <3>1
    <3> QED
      BY <1>4, <2>2, <3>2
  <2> QED
    BY <2>1, <2>2 DEF FollowsWhileTyped
<1>11. \A k \in 0 .. steps : A[k] = g[k]
  BY <1>5, <1>6, <1>10, RecursionUnique
<1>12. ASSUME NEW k \in 0 .. steps - 1
       PROVE  A[k + 1] = Go(A[k])
  <2>1. k + 1 \in 0 + 1 .. steps /\ (k + 1) - 1 = k /\ k \in 0 .. steps
        /\ k + 1 \in 0 .. steps
    OBVIOUS
  <2> HIDE DEF Go
  <2> QED
    BY <1>7, <1>11, <2>1
<1>13. A[0] = FlowStart /\ \A k \in 0 .. steps : A[k] \in S
  <2>1. 0 \in 0 .. steps
    OBVIOUS
  <2> QED
    BY <1>7, <1>11, <2>1
<1> QED
  BY <1>1, <1>12, <1>13 DEF S

(* Wherever a program leads, a step back undoes the step forward, with the *)
(* same three stacks (stepForward and stepBackward, DDSimDebug.cpp).       *)
THEOREM BackwardCorrect == Spec => []BackUndoesForward
<1>1. TablesWellFormed => BackUndoesForward
  <2> SUFFICES ASSUME TablesWellFormed, Accepted, NEW k \in 0 .. MaxSteps
               PROVE  LET f == JourneyOf(Tables)[k]
                      IN  f.pos < Tables.n => Backward(Forward(Tables, f)) = f
    BY DEF BackUndoesForward
  <2> DEFINE p == Tables
             f == JourneyOf(Tables)[k]
  <2>1. WellFormedFlow(p)
    BY DEF TablesWellFormed
  <2>2. f \in Flows(p) /\ Nested(p, f)
    <3> HIDE DEF p
    <3>1. MaxSteps \in Nat
      BY DEF MaxSteps
    <3> QED
      BY <2>1, <3>1, JourneyFollows DEF JourneyOf, PlacesOf, p
  <2>3. ASSUME f.pos < p.n
        PROVE  Backward(Forward(p, f)) = f
    <3>1. Ahead(p, f)
      BY <2>1, <2>2, <2>3 DEF Ahead
    <3> QED
      BY <3>1, BackwardUndoesForward
  <2> QED
    BY <2>3
<1> QED
  BY <1>1, TablesCorrect, PTL

-----------------------------------------------------------------------------
(* The operations of the importer.                                         *)

SourceStatements ==
  Statements \cup UNION {Range(st.body) : st \in {d \in Statements : d.is = "def"}}

CircuitOps ==
  {CircuitOp(st, line, frames) :
     st \in SourceStatements, line \in Nat, frames \in Seq(Nat)}

(* Met through further calls.                                              *)
Framed(op, calls) == [op EXCEPT !.frames = calls \o @]

LEMMA FramedOp ==
  ASSUME NEW st, NEW line, NEW frames, NEW calls
  PROVE  Framed(CircuitOp(st, line, frames), calls) =
           CircuitOp(st, line, calls \o frames)
<1> DEFINE op == CircuitOp(st, line, frames)
           f == calls \o frames
<1>1. op.frames = frames
  BY DEF CircuitOp
<1>2. calls \o op.frames = f
  BY <1>1
<1>3. [op EXCEPT !.frames = f] = CircuitOp(st, line, f)
  <2> HIDE DEF f
  <2> QED
    BY DEF CircuitOp
<1> HIDE DEF f
<1>4. Framed(op, calls) = [op EXCEPT !.frames = f]
  <2> HIDE DEF op
  <2> QED
    BY <1>2 DEF Framed
<1> QED
  BY <1>3, <1>4 DEF f

LEMMA FramesJoin ==
  ASSUME NEW op \in CircuitOps, NEW calls \in Seq(Nat), NEW outer \in Seq(Nat)
  PROVE  /\ Framed(op, calls) \in CircuitOps
         /\ Framed(op, <<>>) = op
         /\ Framed(Framed(op, calls), outer) = Framed(op, outer \o calls)
<1>1. PICK st \in SourceStatements, line \in Nat, frames \in Seq(Nat) :
        op = CircuitOp(st, line, frames)
  BY DEF CircuitOps
<1>2. outer \o (calls \o frames) = (outer \o calls) \o frames
  BY ConcatNumbers
<1> DEFINE f == calls \o frames
           both == outer \o calls
<1>3. f \in Seq(Nat)
  BY ConcatProperties
<1>4. <<>> \o frames = frames
  BY ConcatEmptySeq
<1>5. \A more : Framed(op, more) = CircuitOp(st, line, more \o frames)
  BY <1>1, FramedOp, Zenon
<1>6. Framed(op, <<>>) = op
  <2>1. Framed(op, <<>>) = CircuitOp(st, line, <<>> \o frames)
    BY <1>5, Zenon
  <2> QED
    BY <1>1, <1>4, <2>1, Zenon
<1>7. Framed(op, both) = CircuitOp(st, line, both \o frames)
  BY <1>5, Zenon
<1>8. Framed(op, calls) = CircuitOp(st, line, f)
  BY <1>5, Zenon
<1> HIDE DEF f, both
<1>9. Framed(CircuitOp(st, line, f), outer) = CircuitOp(st, line, outer \o f)
  BY FramedOp, Zenon
<1>10. CircuitOp(st, line, f) \in CircuitOps
  BY <1>3 DEF CircuitOps
<1>11. Framed(Framed(op, calls), outer) = Framed(op, both)
  BY <1>2, <1>7, <1>8, <1>9 DEF f, both
<1> QED
  BY <1>6, <1>8, <1>10, <1>11 DEF both

LEMMA ThroughPlaces ==
  ASSUME NEW ops \in Seq(CircuitOps), NEW calls \in Seq(Nat)
  PROVE  /\ Through(calls, ops) \in Seq(CircuitOps)
         /\ Len(Through(calls, ops)) = Len(ops)
         /\ \A i \in 1 .. Len(ops) :
              Through(calls, ops)[i] = Framed(ops[i], calls)
<1> DEFINE t == Through(calls, ops)
<1>1. PICK n \in Nat : n = Len(ops)
  BY LenProperties
<1>2. \A i \in 1 .. n : ops[i] \in CircuitOps
  BY <1>1, ElementOfSeq
<1>3. t = [i \in 1 .. n |-> Framed(ops[i], calls)]
  BY <1>1 DEF Through, Framed
<1>4. \A i \in 1 .. n : Framed(ops[i], calls) \in CircuitOps
  BY <1>2, FramesJoin
<1> HIDE DEF t
<1>5. t \in [1 .. n -> CircuitOps]
  BY <1>3, <1>4
<1>6. t \in Seq(CircuitOps) /\ Len(t) = n
  BY <1>5, FunctionIsSequence
<1> QED
  BY <1>1, <1>3, <1>6 DEF t

LEMMA ThroughNone ==
  ASSUME NEW ops \in Seq(CircuitOps)
  PROVE  Through(<<>>, ops) = ops
<1> DEFINE t == Through(<<>>, ops)
<1>1. <<>> \in Seq(Nat)
  BY EmptySeq
<1>2. /\ t \in Seq(CircuitOps) /\ Len(t) = Len(ops)
      /\ \A i \in 1 .. Len(ops) : t[i] = Framed(ops[i], <<>>)
  BY <1>1, ThroughPlaces
<1>3. \A i \in 1 .. Len(ops) : Framed(ops[i], <<>>) = ops[i]
  BY <1>1, ElementOfSeq, FramesJoin
<1> HIDE DEF t
<1>4. t = ops
  BY <1>2, <1>3, SeqEqual
<1> QED
  BY <1>4 DEF t

LEMMA ThroughNothing ==
  ASSUME NEW calls \in Seq(Nat)
  PROVE  Through(calls, <<>>) = <<>>
<1> DEFINE t == Through(calls, <<>>)
<1>1. <<>> \in Seq(CircuitOps) /\ Len(<<>>) = 0
  BY EmptySeq
<1>2. t \in Seq(CircuitOps) /\ Len(t) = 0
  BY <1>1, ThroughPlaces
<1> HIDE DEF t
<1>3. t = <<>>
  BY <1>2
<1> QED
  BY <1>3 DEF t

LEMMA ThroughJoins ==
  ASSUME NEW a \in Seq(CircuitOps), NEW b \in Seq(CircuitOps),
         NEW calls \in Seq(Nat)
  PROVE  Through(calls, a \o b) = Through(calls, a) \o Through(calls, b)
<1> DEFINE op(o) == Framed(o, calls)
           ab == a \o b
           ta == Through(calls, a)
           tb == Through(calls, b)
           t == Through(calls, ab)
<1>1. PICK y \in Nat, z \in Nat : y = Len(a) /\ z = Len(b)
  BY LenProperties
<1>2. /\ ab \in Seq(CircuitOps) /\ Len(ab) = y + z
      /\ \A i \in 1 .. y + z : ab[i] = IF i <= y THEN a[i] ELSE b[i - y]
  BY <1>1, ConcatProperties
<1> HIDE DEF ab, op
<1>3. /\ ta \in Seq(CircuitOps) /\ Len(ta) = y
      /\ \A i \in 1 .. y : ta[i] = op(a[i])
  BY <1>1, ThroughPlaces DEF op
<1>4. /\ tb \in Seq(CircuitOps) /\ Len(tb) = z
      /\ \A i \in 1 .. z : tb[i] = op(b[i])
  BY <1>1, ThroughPlaces DEF op
<1>5. /\ t \in Seq(CircuitOps) /\ Len(t) = y + z
      /\ \A i \in 1 .. y + z : t[i] = op(ab[i])
  BY <1>2, ThroughPlaces DEF op
<1> HIDE DEF ta, tb, t
<1>6. /\ ta \o tb \in Seq(CircuitOps) /\ Len(ta \o tb) = y + z
      /\ \A i \in 1 .. y + z :
           (ta \o tb)[i] = IF i <= y THEN ta[i] ELSE tb[i - y]
  BY <1>3, <1>4, ConcatProperties
<1>7. ASSUME NEW i \in 1 .. y + z
      PROVE  t[i] = (ta \o tb)[i]
  <2>1. CASE i <= y
    <3>1. i \in 1 .. y
      BY <2>1
    <3> QED
      BY <1>2, <1>3, <1>5, <1>6, <2>1, <3>1
  <2>2. CASE ~(i <= y)
    <3>1. i - y \in 1 .. z
      BY <2>2
    <3>2. t[i] = op(b[i - y]) /\ (ta \o tb)[i] = tb[i - y]
      BY <1>2, <1>5, <1>6, <2>2
    <3>3. tb[i - y] = op(b[i - y])
      BY <1>4, <3>1
    <3> QED
      BY <3>2, <3>3
  <2> QED
    BY <2>1, <2>2
<1>8. t = ta \o tb
  BY <1>5, <1>6, <1>7, SeqEqual
<1> QED
  BY <1>8 DEF t, ta, tb, ab

LEMMA ThroughThrough ==
  ASSUME NEW ops \in Seq(CircuitOps), NEW outer \in Seq(Nat), NEW calls \in Seq(Nat)
  PROVE  Through(outer, Through(calls, ops)) = Through(outer \o calls, ops)
<1> DEFINE inner == Through(calls, ops)
           s == Through(outer, inner)
           both == outer \o calls
           t == Through(both, ops)
<1>0. both \in Seq(Nat)
  BY ConcatProperties
<1>1. /\ inner \in Seq(CircuitOps) /\ Len(inner) = Len(ops)
      /\ \A i \in 1 .. Len(ops) : inner[i] = Framed(ops[i], calls)
  BY ThroughPlaces
<1> HIDE DEF inner, both
<1>2. /\ s \in Seq(CircuitOps) /\ Len(s) = Len(ops)
      /\ \A i \in 1 .. Len(ops) : s[i] = Framed(inner[i], outer)
  BY <1>1, ThroughPlaces
<1>3. /\ t \in Seq(CircuitOps) /\ Len(t) = Len(ops)
      /\ \A i \in 1 .. Len(ops) : t[i] = Framed(ops[i], both)
  BY <1>0, ThroughPlaces
<1> HIDE DEF s, t
<1>4. ASSUME NEW i \in 1 .. Len(ops)
      PROVE  s[i] = t[i]
  <2> DEFINE o == ops[i]
  <2>1. o \in CircuitOps
    BY ElementOfSeq
  <2> HIDE DEF o
  <2>2. Framed(Framed(o, calls), outer) =
        Framed(o, both)
    BY <2>1, FramesJoin DEF both
  <2>3. inner[i] = Framed(o, calls)
    BY <1>1 DEF o
  <2>4. s[i] = Framed(inner[i], outer)
    BY <1>2
  <2>5. t[i] = Framed(o, both)
    BY <1>3 DEF o
  <2> QED
    BY <2>2, <2>3, <2>4, <2>5
<1>5. s = t
  BY <1>2, <1>3, <1>4, SeqEqual
<1> QED
  BY <1>5 DEF s, t, inner, both

-----------------------------------------------------------------------------
(* The bodies of the gates, inlined to any depth.                          *)

(* Every statement the debugger takes for an operation is one of the       *)
(* circuit: there are no constants and no calls with angles.               *)
OneOpEach(program) ==
  \A k \in 1 .. Len(program) :
    /\ program[k].is \in {"op", "decl", "def", "call", "assert"}
    /\ program[k].is = "def" =>
         \A j \in 1 .. Len(program[k].body) :
           program[k].body[j].is \in {"op", "decl", "call", "assert"}

Bodies(program) == [Definitions(program) -> Seq(CircuitOps)]

BodyOps(program, k, bodies) ==
  [j \in 1 .. Len(program[k].body) |->
     StatementOps(program, program[k].body[j], LineOf(program, k) + j, bodies)]

LEMMA StatementOpsTypes ==
  ASSUME NEW program, NEW st \in SourceStatements, st.is # "anglecall",
         st.is = "call" => Defines(program, st.name), NEW line \in Nat,
         NEW bodies \in Bodies(program)
  PROVE  StatementOps(program, st, line, bodies) \in Seq(CircuitOps)
<1>0. <<>> \in Seq(CircuitOps) /\ <<>> \in Seq(Nat)
  BY EmptySeq
<1>1. CASE st.is = "op"
  <2>1. StatementOps(program, st, line, bodies) = <<CircuitOp(st, line, <<>>)>>
    BY <1>1 DEF StatementOps
  <2>2. CircuitOp(st, line, <<>>) \in CircuitOps
    <3> DEFINE none == <<>>
    <3>1. none \in Seq(Nat)
      BY <1>0
    <3> HIDE DEF none
    <3>2. CircuitOp(st, line, none) \in CircuitOps
      BY <3>1 DEF CircuitOps
    <3> QED
      BY <3>2 DEF none
  <2> QED
    BY <2>1, <2>2
<1>2. CASE st.is = "call"
  <2> DEFINE d == DefinitionOf(program, st.name)
  <2>1. StatementOps(program, st, line, bodies) = Through(<<line>>, bodies[d])
    BY <1>2 DEF StatementOps
  <2>2. d \in Definitions(program)
    BY <1>2 DEF Defines, Definitions
  <2>3. bodies[d] \in Seq(CircuitOps) /\ <<line>> \in Seq(Nat)
    BY <2>2 DEF Bodies
  <2> QED
    BY <2>1, <2>3, ThroughPlaces
<1>3. CASE st.is \notin {"op", "call"}
  <2>1. StatementOps(program, st, line, bodies) = <<>>
    BY <1>3 DEF StatementOps
  <2> QED
    BY <1>0, <2>1
<1> QED
  BY <1>1, <1>2, <1>3

LEMMA DefinitionsAreFinite ==
  ASSUME NEW program \in Seq(Statements)
  PROVE  /\ IsFiniteSet(Definitions(program))
         /\ Cardinality(Definitions(program)) \in Nat
<1>1. Len(program) \in Nat
  BY LenProperties
<1>2. IsFiniteSet(1 .. Len(program))
  BY <1>1, FS_Interval
<1>3. Definitions(program) \in SUBSET (1 .. Len(program))
  BY DEF Definitions
<1>4. IsFiniteSet(Definitions(program))
  BY <1>2, <1>3, FS_Subset
<1> QED
  BY <1>4, FS_CardinalityType

LEMMA StatementIsSource ==
  ASSUME NEW program \in Seq(Statements), NEW k \in 1 .. Len(program)
  PROVE  /\ program[k] \in SourceStatements
         /\ program[k].is = "def" =>
              /\ Len(program[k].body) \in Nat
              /\ \A j \in 1 .. Len(program[k].body) :
                   program[k].body[j] \in SourceStatements
<1>1. program[k] \in Statements
  BY ElementOfSeq
<1>2. ASSUME program[k].is = "def"
      PROVE  /\ Len(program[k].body) \in Nat
             /\ \A j \in 1 .. Len(program[k].body) :
                  program[k].body[j] \in SourceStatements
  <2> DEFINE st == program[k]
             S == Range(st.body)
  <2>1. st.body \in Seq(S)
    BY <1>1, <1>2, StatementShapes
  <2>2. S \subseteq SourceStatements
    BY <1>1, <1>2 DEF SourceStatements
  <2> HIDE DEF S
  <2>3. Len(st.body) \in Nat /\ \A j \in 1 .. Len(st.body) : st.body[j] \in S
    BY <2>1, LenProperties, ElementOfSeq
  <2> QED
    BY <2>2, <2>3
<1> QED
  BY <1>1, <1>2 DEF SourceStatements

LEMMA BodyOpsTypes ==
  ASSUME NEW program \in Seq(Statements), OneOpEach(program), Resolved(program),
         \A k \in 1 .. Len(program) : LineOf(program, k) \in Nat,
         NEW k \in Definitions(program), NEW bodies \in Bodies(program)
  PROVE  /\ BodyOps(program, k, bodies) \in Seq(Seq(CircuitOps))
         /\ Len(BodyOps(program, k, bodies)) = Len(program[k].body)
         /\ FlattenSeq(BodyOps(program, k, bodies)) \in Seq(CircuitOps)
<1>1. k \in 1 .. Len(program) /\ program[k].is = "def"
  BY DEF Definitions
<1>2. PICK n \in Nat : n = Len(program[k].body)
  BY <1>1, StatementIsSource
<1>3. PICK l \in Nat : l = LineOf(program, k)
  BY <1>1
<1> DEFINE b == BodyOps(program, k, bodies)
<1>4. b = [j \in 1 .. n |-> StatementOps(program, program[k].body[j], l + j, bodies)]
  BY <1>2, <1>3 DEF BodyOps
<1>5. ASSUME NEW j \in 1 .. n
      PROVE  StatementOps(program, program[k].body[j], l + j, bodies)
               \in Seq(CircuitOps)
  <2> DEFINE st == program[k].body[j]
  <2>1. st \in SourceStatements
    BY <1>1, <1>2, StatementIsSource
  <2>2. st.is # "anglecall"
    BY <1>1, <1>2 DEF OneOpEach
  <2>3. st.is = "call" => Defines(program, st.name)
    BY <1>1, <1>2 DEF Resolved
  <2>4. l + j \in Nat
    OBVIOUS
  <2> HIDE DEF st
  <2>5. StatementOps(program, st, l + j, bodies) \in Seq(CircuitOps)
    BY <2>1, <2>2, <2>3, <2>4, StatementOpsTypes
  <2> QED
    BY <2>5 DEF st
<1> HIDE DEF b
<1>6. b \in [1 .. n -> Seq(CircuitOps)]
  BY <1>4, <1>5
<1>7. b \in Seq(Seq(CircuitOps)) /\ Len(b) = n
  BY <1>6, FunctionIsSequence
<1>8. FlattenSeq(b) \in Seq(CircuitOps)
  BY <1>7, FlattenIsSequence
<1> QED
  BY <1>2, <1>7, <1>8 DEF b

(* What is inlined one level deeper is made of what is inlined so far.     *)
LEMMA InlinedFollows ==
  ASSUME NEW program \in Seq(Statements), OneOpEach(program), Resolved(program),
         \A k \in 1 .. Len(program) : LineOf(program, k) \in Nat,
         NEW D, D = Cardinality(Definitions(program))
  PROVE  \A d \in 0 .. D :
           /\ Inlined(program)[d] \in Bodies(program)
           /\ d # 0 => \A k \in Definitions(program) :
                         Inlined(program)[d][k] =
                           FlattenSeq(BodyOps(program, k, Inlined(program)[d - 1]))
<1> DEFINE S == Bodies(program)
           Defs == Definitions(program)
           Go(bodies) == [k \in Defs |-> FlattenSeq(BodyOps(program, k, bodies))]
           Nothing == [k \in Defs |-> <<>>]
           step == [j \in 0 + 1 .. D |-> [bodies \in S |-> Go(bodies)]]
           A == CHOOSE g : g = [d \in 0 .. D |->
                  [k \in Defs |->
                     IF d = 0 THEN <<>>
                     ELSE FlattenSeq([j \in 1 .. Len(program[k].body) |->
                            StatementOps(program, program[k].body[j],
                                         LineOf(program, k) + j, g[d - 1])])]]
<1>0. D \in Nat
  BY DefinitionsAreFinite
<1>1. Inlined(program) = A
  BY DEF Inlined
<1>2. A = CHOOSE g : g = [d \in 0 .. D |->
            [k \in Defs |-> IF d = 0 THEN <<>>
                            ELSE FlattenSeq(BodyOps(program, k, g[d - 1]))]]
  BY DEF BodyOps
<1>3. Nothing \in S
  BY EmptySeq DEF Bodies
<1>4. ASSUME NEW bodies \in S
      PROVE  Go(bodies) \in S
  BY BodyOpsTypes DEF Bodies
<1>5. /\ step \in [0 + 1 .. D -> [S -> S]]
      /\ \A j \in 0 + 1 .. D : \A bodies \in S : step[j][bodies] = Go(bodies)
  <2> HIDE DEF Go, S
  <2> QED
    BY <1>4
<1> HIDE DEF step, A, S
<1>6. Recursion(S, Nothing, 0, D, step)
  <2> HIDE DEF Nothing
  <2> QED
    BY <1>0, <1>3, <1>5 DEF Recursion
<1>7. PICK f : Follows(S, Nothing, 0, D, step, f)
  <2> HIDE DEF Nothing
  <2> QED
    BY <1>6, RecursionExists
<1>8. f \in [0 .. D -> S] /\ f[0] = Nothing
      /\ \A j \in 0 + 1 .. D : f[j] = Go(f[j - 1])
  <2> HIDE DEF Nothing
  <2>1. f \in [0 .. D -> S] /\ f[0] = Nothing
        /\ \A j \in 0 + 1 .. D : f[j] = step[j][f[j - 1]]
    BY <1>7 DEF Follows
  <2>2. ASSUME NEW j \in 0 + 1 .. D
        PROVE  f[j] = Go(f[j - 1])
    <3>1. j - 1 \in 0 .. D
      BY <1>0
    <3>2. f[j - 1] \in S
      BY <2>1, <3>1
    <3> HIDE DEF Go
    <3> QED
      BY <1>5, <2>1, <3>2
  <2> QED
    BY <2>1, <2>2
<1> DEFINE Deeper(g, d) ==
             [k \in Defs |-> IF d = 0 THEN <<>>
                             ELSE FlattenSeq(BodyOps(program, k, g[d - 1]))]
<1>9. \A g, d : Deeper(g, d) = IF d = 0 THEN Nothing ELSE Go(g[d - 1])
  OBVIOUS
<1>10. A = CHOOSE g : g = [d \in 0 .. D |-> Deeper(g, d)]
  BY <1>2
<1> HIDE DEF Deeper, Go, Nothing
<1>11. f = [d \in 0 .. D |-> Deeper(f, d)]
  <2>1. ASSUME NEW d \in 0 .. D
        PROVE  f[d] = Deeper(f, d)
    <3>1. d # 0 => d \in 0 + 1 .. D
      BY <1>0
    <3> QED
      BY <1>8, <1>9, <3>1
  <2> QED
    BY <1>8, <2>1
<1>12. A = [d \in 0 .. D |-> Deeper(A, d)]
  BY <1>10, <1>11
<1>13. FollowsWhileTyped(S, Nothing, 0, D, step, A)
  <2>1. A[0] = Nothing
    <3>1. 0 \in 0 .. D
      BY <1>0
    <3> QED
      BY <1>9, <1>12, <3>1
  <2>2. ASSUME NEW j \in 0 + 1 .. D, A[j - 1] \in S
        PROVE  A[j] = step[j][A[j - 1]]
    <3>1. j \in 0 .. D /\ j # 0
      BY <1>0
    <3>2. A[j] = Go(A[j - 1])
      BY <1>9, <1>12, <3>1
    <3> QED
      BY <1>5, <2>2, <3>2
  <2> QED
    BY <2>1, <2>2 DEF FollowsWhileTyped
<1>14. \A d \in 0 .. D : A[d] = f[d]
  BY <1>6, <1>7, <1>13, RecursionUnique
<1>15. ASSUME NEW d \in 0 .. D
       PROVE  /\ A[d] \in S
              /\ d # 0 => A[d] = Go(A[d - 1])
  <2>1. A[d] \in S
    BY <1>8, <1>14
  <2>2. ASSUME d # 0
        PROVE  A[d] = Go(A[d - 1])
    BY <1>9, <1>12, <2>2
  <2> QED
    BY <2>1, <2>2
<1>16. ASSUME NEW d \in 0 .. D, d # 0, NEW k \in Defs
       PROVE  A[d][k] = FlattenSeq(BodyOps(program, k, A[d - 1]))
  <2>1. A[d] = Go(A[d - 1])
    BY <1>15, <1>16
  <2> QED
    BY <2>1 DEF Go
<1>17. \A d \in 0 .. D : A[d] \in Bodies(program)
  BY <1>15 DEF S
<1> HIDE DEF Go, S
<1> QED
  BY <1>1, <1>16, <1>17

-----------------------------------------------------------------------------
(* Running a statement, a gate body and a program.                         *)

(* Entered at its first line, the body of definition k returns to the      *)
(* innermost call, having met its operations.                              *)
BodyLeads(p, at, bodies, k) ==
  \A f \in PlacesOf(p) :
    f.pos = at[k] + 1 /\ f.calls # <<>> =>
      \E g \in PlacesOf(p) :
        /\ g.pos = Last(f.calls) + 1 /\ g.calls = Front(f.calls)
        /\ Leads(p, f, g, Through(f.calls, bodies[k]))

(* A statement that is no definition leads to the next line.               *)
StatementLeads(p, f, g, ops) ==
  g.pos = f.pos + 1 /\ g.calls = f.calls /\ Leads(p, f, g, Through(f.calls, ops))

LEMMA OperationLeads ==
  ASSUME NEW p, WellFormedFlow(p), NEW program, NEW bodies,
         NEW st \in SourceStatements, st.is = "op",
         NEW f \in PlacesOf(p), f.pos < p.n, NEW body,
         RowOf(p, f.pos, Instruction(program, st, f.pos, body))
  PROVE  \E g \in PlacesOf(p) :
           StatementLeads(p, f, g, StatementOps(program, st, f.pos, bodies))
<1> DEFINE g == Forward(p, f)
           op == CircuitOp(st, f.pos, f.calls)
<1>1. /\ f.pos \in Nat /\ f.calls \in Seq(Nat) /\ g \in PlacesOf(p)
      /\ Moves(p, f, g)
      /\ p.type[f.pos] # "RETURN" => g.pos = p.succ[f.pos]
  BY NextPlace
<1>2. p.type[f.pos] = "SIMULATE" /\ p.succ[f.pos] = f.pos + 1
  BY DEF RowOf, Instruction, Classify
<1> HIDE DEF g
<1>3. g.pos = f.pos + 1 /\ g.calls = f.calls
  BY <1>1, <1>2 DEF Moves
<1>4. Through(f.calls, StatementOps(program, st, f.pos, bodies)) = <<op>>
  <2> DEFINE rel == CircuitOp(st, f.pos, <<>>)
  <2>1. StatementOps(program, st, f.pos, bodies) = <<rel>>
    BY DEF StatementOps
  <2>2. rel \in CircuitOps
    <3> DEFINE none == <<>>
    <3>1. none \in Seq(Nat)
      BY EmptySeq
    <3> HIDE DEF none
    <3>2. CircuitOp(st, f.pos, none) \in CircuitOps
      BY <1>1, <3>1 DEF CircuitOps
    <3> QED
      BY <3>2 DEF none
  <2>3. f.calls \o <<>> = f.calls
    BY <1>1, ConcatEmptySeq
  <2>4. Framed(rel, f.calls) = op
    <3>1. Framed(rel, f.calls) = CircuitOp(st, f.pos, f.calls \o <<>>)
      BY FramedOp, Zenon
    <3> QED
      BY <2>3, <3>1
  <2> HIDE DEF rel, op
  <2>5. <<rel>> \in Seq(CircuitOps) /\ Len(<<rel>>) = 1 /\ <<rel>>[1] = rel
    BY <2>2
  <2> DEFINE one == <<rel>>
             t == Through(f.calls, one)
  <2>6. one \in Seq(CircuitOps) /\ Len(one) = 1 /\ one[1] = rel
    BY <2>5
  <2> HIDE DEF one
  <2>7. t \in Seq(CircuitOps) /\ Len(t) = 1 /\ t[1] = Framed(one[1], f.calls)
    BY <1>1, <2>6, ThroughPlaces
  <2> HIDE DEF t
  <2>8. t = <<op>>
    BY <2>4, <2>6, <2>7
  <2> QED
    BY <2>1, <2>8 DEF t, one
<1>5. op.at = f.pos /\ op.frames = f.calls
  BY DEF CircuitOp
<1>6. op \in CircuitOps
  BY <1>1 DEF CircuitOps
<1> HIDE DEF op
<1>7. <<op>> \in Seq(CircuitOps) /\ Len(<<op>>) = 1 /\ <<op>>[0 + 1] = op
  BY <1>6
<1>8. MeetsNext(p, <<op>>, f, g, 0, Len(<<op>>))
  BY <1>2, <1>5, <1>7 DEF MeetsNext, g
<1>9. Leads(p, f, g, <<op>>)
  BY <1>1, <1>7, <1>8, LeadsOneStep DEF g
<1> QED
  BY <1>1, <1>3, <1>4, <1>9 DEF StatementLeads

(* One step to a place with no operation met.                              *)
LEMMA StepLeads ==
  ASSUME NEW p, WellFormedFlow(p), NEW f \in PlacesOf(p), f.pos < p.n,
         p.type[f.pos] # "SIMULATE"
  PROVE  Leads(p, f, Forward(p, f), <<>>)
<1>1. Forward(p, f) \in PlacesOf(p) /\ <<>> \in Seq(Nat) /\ Len(<<>>) = 0
  BY NextPlace, EmptySeq
<1>2. MeetsNext(p, <<>>, f, Forward(p, f), 0, Len(<<>>))
  BY <1>1 DEF MeetsNext
<1> QED
  BY <1>1, <1>2, LeadsOneStep

LEMMA SilentLeads ==
  ASSUME NEW p, WellFormedFlow(p), NEW program, NEW bodies,
         NEW st, st.is = "decl" \/ st.is = "assert",
         NEW f \in PlacesOf(p), f.pos < p.n, NEW body,
         RowOf(p, f.pos, Instruction(program, st, f.pos, body))
  PROVE  \E g \in PlacesOf(p) :
           StatementLeads(p, f, g, StatementOps(program, st, f.pos, bodies))
<1> DEFINE g == Forward(p, f)
<1>1. /\ f.pos \in Nat /\ f.calls \in Seq(Nat) /\ g \in PlacesOf(p)
      /\ Moves(p, f, g)
      /\ p.type[f.pos] # "RETURN" => g.pos = p.succ[f.pos]
  BY NextPlace
<1>2. p.type[f.pos] \in {"NOP", "ASSERTION"} /\ p.succ[f.pos] = f.pos + 1
  BY DEF RowOf, Instruction, Classify
<1>3. Leads(p, f, g, <<>>)
  BY <1>2, StepLeads
<1> HIDE DEF g
<1>4. g.pos = f.pos + 1 /\ g.calls = f.calls
  BY <1>1, <1>2 DEF Moves
<1>5. StatementOps(program, st, f.pos, bodies) = <<>>
  BY DEF StatementOps
<1>6. Through(f.calls, <<>>) = <<>>
  BY <1>1, ThroughNothing
<1> QED
  BY <1>1, <1>3, <1>4, <1>5, <1>6 DEF StatementLeads

LEMMA CallStatementLeads ==
  ASSUME NEW p, WellFormedFlow(p), NEW program, NEW at, Laid(p, program, at),
         NEW bodies \in Bodies(program),
         NEW st, st.is = "call", Defines(program, st.name),
         BodyLeads(p, at, bodies, DefinitionOf(program, st.name)),
         NEW f \in PlacesOf(p), f.pos < p.n, NEW body,
         RowOf(p, f.pos, Instruction(program, st, f.pos, body))
  PROVE  \E g \in PlacesOf(p) :
           StatementLeads(p, f, g, StatementOps(program, st, f.pos, bodies))
<1> DEFINE e == Forward(p, f)
           c == DefinitionOf(program, st.name)
           l == f.pos
<1>1. /\ l \in Nat /\ f.calls \in Seq(Nat) /\ e \in PlacesOf(p)
      /\ Moves(p, f, e)
      /\ p.type[l] # "RETURN" => e.pos = p.succ[l]
  BY NextPlace
<1>2. c \in 1 .. Len(program) /\ program[c].is = "def" /\ c \in Definitions(program)
  BY DEF Defines, Definitions
<1>3. p.type[l] = "CALL" /\ p.succ[l] = at[c] + 1
  <2>1. p.type[l] = "CALL" /\ p.succ[l] = FunctionFirstLine(program, st.name)
    BY DEF RowOf, Instruction, Classify
  <2> QED
    BY <1>2, <2>1 DEF FunctionFirstLine, Laid
<1>4. Leads(p, f, e, <<>>)
  BY <1>3, StepLeads
<1> HIDE DEF e, c
<1>5. e.pos = at[c] + 1 /\ e.calls = Append(f.calls, l)
  BY <1>1, <1>3 DEF Moves
<1>6. /\ e.calls # <<>> /\ Last(e.calls) = l /\ Front(e.calls) = f.calls
      /\ e.calls \in Seq(Nat)
  BY <1>1, <1>5, PushPop
<1>7. PICK g \in PlacesOf(p) : /\ g.pos = l + 1 /\ g.calls = f.calls
                             /\ Leads(p, e, g, Through(e.calls, bodies[c]))
  BY <1>1, <1>5, <1>6 DEF BodyLeads, c
<1> DEFINE t == Through(e.calls, bodies[c])
<1>8. t \in Seq(CircuitOps) /\ bodies[c] \in Seq(CircuitOps)
  BY <1>2, <1>6, ThroughPlaces DEF Bodies
<1>9. Through(f.calls, StatementOps(program, st, l, bodies)) = t
  <2>1. StatementOps(program, st, l, bodies) = Through(<<l>>, bodies[c])
    BY DEF StatementOps, c
  <2>2. e.calls = f.calls \o <<l>> /\ <<l>> \in Seq(Nat)
    <3>1. \A s \in Seq(Nat), i \in Nat : Append(s, i) = s \o <<i>>
      BY AppendIsConcat
    <3> DEFINE fc == f.calls
    <3>2. fc \in Seq(Nat) /\ l \in Nat
      BY <1>1
    <3> HIDE DEF fc, l
    <3>3. Append(fc, l) = fc \o <<l>> /\ <<l>> \in Seq(Nat)
      BY <3>1, <3>2
    <3> QED
      BY <1>5, <3>3 DEF fc
  <2>3. Through(f.calls, Through(<<l>>, bodies[c])) =
          Through(f.calls \o <<l>>, bodies[c])
    BY <1>1, <1>8, <2>2, ThroughThrough
  <2> QED
    BY <2>1, <2>2, <2>3
<1> HIDE DEF t
<1>10. Leads(p, f, g, t)
  <2>1. <<>> \in Seq(CircuitOps) /\ <<>> \o t = t
    BY <1>8, EmptySeq, ConcatEmptySeq
  <2>2. Leads(p, e, g, t)
    BY <1>7 DEF t
  <2>3. Leads(p, f, g, <<>> \o t)
    BY <1>4, <1>8, <2>1, <2>2, LeadsOn
  <2> QED
    BY <2>1, <2>3
<1> QED
  BY <1>7, <1>9, <1>10 DEF StatementLeads

LEMMA AnyStatementLeads ==
  ASSUME NEW p, WellFormedFlow(p), NEW program, NEW at, Laid(p, program, at),
         NEW bodies \in Bodies(program), NEW st \in SourceStatements,
         st.is \in {"op", "decl", "call", "assert"},
         st.is = "call" =>
           /\ Defines(program, st.name)
           /\ BodyLeads(p, at, bodies, DefinitionOf(program, st.name)),
         NEW f \in PlacesOf(p), f.pos < p.n, NEW body,
         RowOf(p, f.pos, Instruction(program, st, f.pos, body))
  PROVE  \E g \in PlacesOf(p) :
           StatementLeads(p, f, g, StatementOps(program, st, f.pos, bodies))
<1>1. CASE st.is = "op"
  BY <1>1, OperationLeads
<1>2. CASE st.is = "decl" \/ st.is = "assert"
  BY <1>2, SilentLeads
<1>3. CASE st.is = "call"
  BY <1>3, CallStatementLeads
<1> QED
  BY <1>1, <1>2, <1>3

(* The next statement's operations come behind those met so far.           *)
LEMMA LeadsThrough ==
  ASSUME NEW p, NEW a \in Seq(CircuitOps), NEW b \in Seq(CircuitOps),
         NEW calls \in Seq(Nat), NEW f, NEW g, NEW h,
         Leads(p, f, g, Through(calls, a)), Leads(p, g, h, Through(calls, b))
  PROVE  Leads(p, f, h, Through(calls, a \o b))
<1> DEFINE ta == Through(calls, a)
           tb == Through(calls, b)
<1>1. ta \in Seq(CircuitOps) /\ tb \in Seq(CircuitOps)
  BY ThroughPlaces
<1>2. Through(calls, a \o b) = ta \o tb
  BY ThroughJoins
<1>3. Leads(p, f, g, ta) /\ Leads(p, g, h, tb)
  OBVIOUS
<1> HIDE DEF ta, tb
<1> QED
  BY <1>1, <1>2, <1>3, LeadsOn

LEMMA BodyLeadsDeeper ==
  ASSUME NEW p, WellFormedFlow(p), NEW program, NEW at, Laid(p, program, at),
         OneOpEach(program), Resolved(program),
         NEW k \in Definitions(program),
         NEW bodies \in Bodies(program), NEW deeper,
         deeper[k] = FlattenSeq(BodyOps(program, k, bodies)),
         \A j \in 1 .. Len(program[k].body) :
           program[k].body[j].is = "call" =>
             BodyLeads(p, at, bodies, DefinitionOf(program, program[k].body[j].name))
  PROVE  BodyLeads(p, at, deeper, k)
<1> SUFFICES ASSUME NEW f \in PlacesOf(p), f.pos = at[k] + 1, f.calls # <<>>
             PROVE  \E g \in PlacesOf(p) :
                      /\ g.pos = Last(f.calls) + 1 /\ g.calls = Front(f.calls)
                      /\ Leads(p, f, g, Through(f.calls, deeper[k]))
  BY DEF BodyLeads
<1>1. k \in 1 .. Len(program) /\ program[k].is = "def" /\ program \in Seq(Statements)
  BY DEF Definitions, Laid
<1>2. PICK l \in Nat, c \in Nat, n \in Nat :
        l = at[k] /\ c = Len(program[k].body) /\ n = p.n /\ l + (c + 2) <= n
  <2>1. PICK l, c, n : Spans(p, program, at, k, l, c, n)
    BY <1>1, DefinitionSizes
  <2> QED
    BY <2>1 DEF Spans
<1> DEFINE seqs == BodyOps(program, k, bodies)
<1>3. seqs \in Seq(Seq(CircuitOps)) /\ Len(seqs) = c
  <2>1. \A i \in 1 .. Len(program) : LineOf(program, i) \in Nat
    BY LaidSizes DEF Laid
  <2> QED
    BY <1>1, <1>2, <2>1, BodyOpsTypes
<1>4. ASSUME NEW j \in 1 .. c
      PROVE  seqs[j] = StatementOps(program, program[k].body[j], l + j, bodies)
  <2>1. LineOf(program, k) = l
    BY <1>1, <1>2 DEF Laid
  <2> QED
    BY <1>2, <2>1 DEF BodyOps
<1>5. deeper[k] = FlattenSeq(seqs)
  OBVIOUS
<1> HIDE DEF seqs
<1>6. PICK F : Folds(CircuitOps, seqs, F) /\ F[c] = deeper[k]
  BY <1>3, <1>5, FlattenFolds
<1>7. /\ F \in [0 .. c -> Seq(CircuitOps)] /\ F[0] = <<>>
      /\ \A j \in 1 .. c : F[j] = F[j - 1] \o seqs[j]
  BY <1>3, <1>6 DEF Folds
<1>8. f.calls \in Seq(Nat)
  <2>1. f.pos < p.n
    BY <1>2
  <2> QED
    BY <2>1, NextPlace
<1> DEFINE Reached(j, g) ==
             /\ g.pos = l + (j + 1) /\ g.calls = f.calls
             /\ Leads(p, f, g, Through(f.calls, F[j]))
           T == {j \in 0 .. c : \E g \in PlacesOf(p) : Reached(j, g)}
<1>9. 0 \in T
  <2>1. Leads(p, f, f, Through(f.calls, F[0]))
    BY <1>7, <1>8, ThroughNothing, LeadsNowhere
  <2>2. Reached(0, f)
    BY <1>2, <2>1
  <2> HIDE DEF Reached
  <2> QED
    BY <2>2
<1>10. ASSUME NEW j \in 0 .. c, j \in T, j + 1 <= c
       PROVE  j + 1 \in T
  <2>1. PICK g \in PlacesOf(p) : Reached(j, g)
    BY <1>10
  <2>2. j + 1 \in 1 .. c /\ (j + 1) - 1 = j /\ j + 1 \in 0 .. c
    BY <1>10
  <2> DEFINE st == program[k].body[j + 1]
  <2>3. /\ g.pos = l + (j + 1) /\ g.calls = f.calls /\ g.pos < p.n
        /\ Leads(p, f, g, Through(f.calls, F[j]))
    BY <1>2, <2>1, <2>2
  <2>4. RowOf(p, g.pos, Instruction(program, st, g.pos, l))
    BY <1>1, <1>2, <2>2, <2>3 DEF Laid, Rows, InnerLine
  <2>5. st \in SourceStatements /\ st.is \in {"op", "decl", "call", "assert"}
    BY <1>1, <1>2, <2>2, StatementIsSource DEF OneOpEach
  <2>6. st.is = "call" => /\ Defines(program, st.name)
                          /\ BodyLeads(p, at, bodies, DefinitionOf(program, st.name))
    BY <1>1, <1>2, <2>2 DEF Resolved
  <2>7. seqs[j + 1] = StatementOps(program, st, g.pos, bodies)
    BY <1>4, <2>2, <2>3
  <2> HIDE DEF st
  <2>8. PICK h \in PlacesOf(p) : StatementLeads(p, g, h, seqs[j + 1])
    BY <2>3, <2>4, <2>5, <2>6, <2>7, AnyStatementLeads
  <2>9. /\ h.pos = l + ((j + 1) + 1) /\ h.calls = f.calls
        /\ Leads(p, g, h, Through(f.calls, seqs[j + 1]))
    <3>1. (l + (j + 1)) + 1 = l + ((j + 1) + 1)
      OBVIOUS
    <3> QED
      BY <2>3, <2>8, <3>1 DEF StatementLeads
  <2>10. Leads(p, f, h, Through(f.calls, F[j + 1]))
    <3>1. F[j] \in Seq(CircuitOps) /\ F[j + 1] = F[j] \o seqs[j + 1]
      BY <1>7, <2>2
    <3>2. seqs[j + 1] \in Seq(CircuitOps)
      BY <1>3, <2>2, ElementOfSeq
    <3> QED
      BY <1>8, <2>3, <2>9, <3>1, <3>2, LeadsThrough
  <2>11. Reached(j + 1, h)
    BY <2>9, <2>10
  <2> HIDE DEF Reached
  <2> QED
    BY <2>2, <2>11
<1>11. PICK g \in PlacesOf(p) : Reached(c, g)
  <2>1. c \in T
    <3>1. 0 \in Nat /\ 0 <= c /\ c \in 0 .. c
      OBVIOUS
    <3> HIDE DEF T
    <3> QED
      BY <1>9, <1>10, <3>1, IntervalInduction
  <2> QED
    BY <2>1
<1>12. /\ g.pos = l + (c + 1) /\ g.calls = f.calls /\ g.pos < p.n
       /\ Leads(p, f, g, Through(f.calls, deeper[k]))
  BY <1>2, <1>6, <1>11
<1>13. p.type[g.pos] = "RETURN"
  <2>1. l + c + 1 = l + (c + 1)
    OBVIOUS
  <2> QED
    BY <1>1, <1>2, <1>12, <2>1 DEF Laid, Rows, RowOf, ReturnOf
<1> DEFINE h == Forward(p, g)
           ops == deeper[k]
<1>14. /\ h \in PlacesOf(p) /\ h.pos = Last(f.calls) + 1 /\ h.calls = Front(f.calls)
       /\ Leads(p, g, h, <<>>)
  <2>1. h \in PlacesOf(p) /\ Moves(p, g, h)
    BY <1>12, NextPlace
  <2>2. Leads(p, g, h, <<>>)
    BY <1>12, <1>13, StepLeads
  <2> QED
    BY <1>12, <1>13, <2>1, <2>2 DEF Moves
<1>15. Leads(p, f, h, Through(f.calls, ops))
  <2>1. c \in 0 .. c
    OBVIOUS
  <2>2. ops \in Seq(CircuitOps) /\ <<>> \in Seq(CircuitOps)
    BY <1>6, <1>7, <2>1, EmptySeq
  <2> HIDE DEF ops, h
  <2>3. ops \o <<>> = ops
    BY <2>2, ConcatEmptySeq
  <2>4. Leads(p, g, h, Through(f.calls, <<>>)) /\ Leads(p, f, g, Through(f.calls, ops))
    BY <1>8, <1>12, <1>14, ThroughNothing DEF ops
  <2>5. Leads(p, f, h, Through(f.calls, ops \o <<>>))
    BY <1>8, <2>2, <2>4, LeadsThrough
  <2> QED
    BY <2>3, <2>5
<1> QED
  BY <1>14, <1>15

(* The ranks of the gates fall along the calls.                            *)
Ranked(program, rank, D) ==
  \A k \in Definitions(program) :
    /\ rank[program[k].name] \in 1 .. D
    /\ \A j \in 1 .. Len(program[k].body) :
         program[k].body[j].is = "call" =>
           rank[program[k].body[j].name] < rank[program[k].name]

LEMMA DefinesTheName ==
  ASSUME NEW program \in Seq(Statements), NEW name, Defines(program, name)
  PROVE  /\ DefinitionOf(program, name) \in Definitions(program)
         /\ program[DefinitionOf(program, name)].name = name
<1> DEFINE I == {i \in 1 .. Len(program) :
                   program[i].is = "def" /\ program[i].name = name}
<1>1. CASE I = {}
  <2>1. DefinitionOf(program, name) = 0
    BY <1>1 DEF DefinitionOf, SelectInSeq
  <2>2. Len(program) \in Nat
    BY LenProperties
  <2> QED
    BY <2>1, <2>2 DEF Defines
<1>2. CASE I # {}
  BY <1>2, DefinitionFound DEF Definitions
<1> QED
  BY <1>1, <1>2

(* A gate of rank d is inlined in full where calls nest d deep: there are  *)
(* no more ranks than definitions, so that every gate is in the end.       *)
LEMMA EveryBodyLeads ==
  ASSUME NEW p, WellFormedFlow(p), NEW program, NEW at, Laid(p, program, at),
         OneOpEach(program), Resolved(program),
         NEW D, D = Cardinality(Definitions(program)),
         NEW rank, Ranked(program, rank, D)
  PROVE  /\ Inlined(program)[D] \in Bodies(program)
         /\ \A k \in Definitions(program) :
              BodyLeads(p, at, Inlined(program)[D], k)
<1> DEFINE A == Inlined(program)
           r(k) == rank[program[k].name]
<1>1. program \in Seq(Statements) /\ D \in Nat
  BY DefinitionsAreFinite DEF Laid
<1>2. \A i \in 1 .. Len(program) : LineOf(program, i) \in Nat
  BY LaidSizes DEF Laid
<1>3. \A d \in 0 .. D :
        /\ A[d] \in Bodies(program)
        /\ d # 0 => \A k \in Definitions(program) :
                      A[d][k] = FlattenSeq(BodyOps(program, k, A[d - 1]))
  BY <1>1, <1>2, InlinedFollows
<1>4. \A k \in Definitions(program) : r(k) \in 1 .. D
  BY DEF Ranked
<1> HIDE DEF A
<1> DEFINE T == {d \in 0 .. D : \A k \in Definitions(program) :
                                  r(k) <= d => BodyLeads(p, at, A[d], k)}
<1>5. 0 \in T
  BY <1>1, <1>4
<1>6. ASSUME NEW d \in 0 .. D, d \in T, d + 1 <= D
      PROVE  d + 1 \in T
  <2>1. d + 1 \in 0 .. D /\ d + 1 # 0 /\ (d + 1) - 1 = d /\ d \in 0 .. D
    BY <1>1, <1>6
  <2>2. ASSUME NEW k \in Definitions(program), r(k) <= d + 1
        PROVE  BodyLeads(p, at, A[d + 1], k)
    <3>1. A[d + 1][k] = FlattenSeq(BodyOps(program, k, A[d])) /\ A[d] \in Bodies(program)
      BY <1>3, <2>1
    <3>2. ASSUME NEW j \in 1 .. Len(program[k].body),
                 program[k].body[j].is = "call"
          PROVE  BodyLeads(p, at, A[d],
                           DefinitionOf(program, program[k].body[j].name))
      <4> DEFINE name == program[k].body[j].name
                 c == DefinitionOf(program, name)
      <4>1. Defines(program, name)
        BY <3>2 DEF Resolved, Definitions
      <4>2. c \in Definitions(program) /\ program[c].name = name
        BY <1>1, <4>1, DefinesTheName
      <4>3. rank[name] < rank[program[k].name]
        BY <3>2 DEF Ranked
      <4>4. r(c) < r(k) /\ r(c) \in 1 .. D /\ r(k) \in 1 .. D
        BY <1>4, <4>2, <4>3
      <4> HIDE DEF c, r
      <4>5. r(c) <= d
        BY <1>1, <1>6, <2>2, <4>4
      <4>6. BodyLeads(p, at, A[d], c)
        BY <1>6, <4>2, <4>5
      <4> QED
        BY <4>6 DEF c
    <3> QED
      BY <3>1, <3>2, BodyLeadsDeeper
  <2> QED
    BY <2>1, <2>2
<1>7. D \in T
  <2>1. 0 \in Nat /\ 0 <= D /\ D \in 0 .. D
    BY <1>1
  <2> HIDE DEF T
  <2> QED
    BY <1>1, <1>5, <1>6, <2>1, IntervalInduction
<1>8. D \in 0 .. D
  BY <1>1
<1>9. ASSUME NEW k \in Definitions(program)
      PROVE  BodyLeads(p, at, A[D], k)
  <2>1. r(k) <= D
    BY <1>1, <1>4
  <2> QED
    BY <1>7, <2>1
<1> QED
  BY <1>3, <1>8, <1>9 DEF A

(* The circuit of a program is what its tables meet from its first line to *)
(* its last, with every call returned.                                     *)
LEMMA ProgramLeads ==
  ASSUME NEW p, WellFormedFlow(p), NEW program, NEW at, Laid(p, program, at),
         OneOpEach(program), Resolved(program), NEW bodies \in Bodies(program),
         \A k \in Definitions(program) : BodyLeads(p, at, bodies, k),
         bodies = Inlined(program)[Cardinality(Definitions(program))]
  PROVE  /\ Circuit(program) \in Seq(CircuitOps)
         /\ \E g \in PlacesOf(p) : /\ g.pos = p.n /\ g.calls = <<>>
                                 /\ Leads(p, FlowStart, g, Circuit(program))
<1>1. PICK N \in Nat : N = Len(program)
  BY LenProperties DEF Laid
<1>2. /\ at \in [1 .. N + 1 -> Nat] /\ at[1] = 0 /\ p.n = at[N + 1]
      /\ program \in Seq(Statements)
  BY <1>1 DEF Laid, Starts, Columns
<1> DEFINE seqs == [k \in 1 .. N |->
                      StatementOps(program, program[k], at[k], bodies)]
<1>3. Circuit(program) = FlattenSeq(seqs)
  <2>1. \A k \in 1 .. N : LineOf(program, k) = at[k]
    BY <1>1 DEF Laid
  <2>2. [k \in 1 .. N |-> StatementOps(program, program[k], LineOf(program, k), bodies)]
          = seqs
    BY <2>1
  <2> HIDE DEF seqs
  <2> QED
    BY <1>1, <2>2 DEF Circuit
<1>4. ASSUME NEW k \in 1 .. N
      PROVE  /\ seqs[k] = StatementOps(program, program[k], at[k], bodies)
             /\ seqs[k] \in Seq(CircuitOps)
             /\ program[k] \in SourceStatements
  <2>1. program[k] \in SourceStatements /\ at[k] \in Nat
    BY <1>1, <1>2, StatementIsSource
  <2>2. program[k].is # "anglecall"
        /\ (program[k].is = "call" => Defines(program, program[k].name))
    BY <1>1 DEF OneOpEach, Resolved
  <2>3. StatementOps(program, program[k], at[k], bodies) \in Seq(CircuitOps)
    BY <2>1, <2>2, StatementOpsTypes
  <2> QED
    BY <2>1, <2>3
<1>5. seqs \in Seq(Seq(CircuitOps)) /\ Len(seqs) = N
  <2>1. seqs \in [1 .. N -> Seq(CircuitOps)]
    BY <1>4
  <2> HIDE DEF seqs
  <2> QED
    BY <2>1, FunctionIsSequence
<1> HIDE DEF seqs
<1>6. PICK F : Folds(CircuitOps, seqs, F) /\ F[N] = Circuit(program)
  BY <1>3, <1>5, FlattenFolds
<1>7. /\ F \in [0 .. N -> Seq(CircuitOps)] /\ F[0] = <<>>
      /\ \A j \in 1 .. N : F[j] = F[j - 1] \o seqs[j]
  BY <1>5, <1>6 DEF Folds
<1>8. FlowStart \in PlacesOf(p) /\ FlowStart.pos = 0 /\ FlowStart.calls = <<>>
  BY DEF PlacesOf, WellFormedFlow, Flows, FlowStart, Nested, EnteredBody
<1>9. <<>> \in Seq(Nat)
  BY EmptySeq
<1> DEFINE Reached(j, g) ==
             /\ g.pos = at[j + 1] /\ g.calls = <<>>
             /\ Leads(p, FlowStart, g, F[j])
           T == {j \in 0 .. N : \E g \in PlacesOf(p) : Reached(j, g)}
<1>10. 0 \in T
  <2>1. Reached(0, FlowStart)
    BY <1>2, <1>7, <1>8, LeadsNowhere
  <2> HIDE DEF Reached
  <2> QED
    BY <1>8, <2>1
<1>11. ASSUME NEW j \in 0 .. N, j \in T, j + 1 <= N
       PROVE  j + 1 \in T
  <2>1. PICK g \in PlacesOf(p) : Reached(j, g)
    BY <1>11
  <2>2. j + 1 \in 1 .. N /\ (j + 1) - 1 = j /\ j + 1 \in 0 .. N
    BY <1>11
  <2> DEFINE st == program[j + 1]
             o == seqs[j + 1]
  <2>3. /\ g.pos = at[j + 1] /\ g.calls = <<>> /\ g.pos < p.n
        /\ Leads(p, FlowStart, g, F[j])
        /\ at[(j + 1) + 1] = g.pos + Width(st)
    <3>1. /\ at[j + 1] \in Nat /\ at[(j + 1) + 1] = at[j + 1] + Width(st)
          /\ at[(j + 1) + 1] <= p.n /\ Width(st) \in Nat \ {0} /\ p.n \in Nat
      <4> DEFINE k == j + 1
      <4>1. k \in 1 .. Len(program)
        BY <1>1, <2>2
      <4> HIDE DEF k
      <4>2. /\ at[k] \in Nat /\ at[k + 1] = at[k] + Width(program[k])
            /\ at[k + 1] <= p.n /\ Width(program[k]) \in Nat \ {0} /\ p.n \in Nat
        BY <4>1, LaidSizes
      <4> QED
        BY <4>2 DEF k
    <3> QED
      BY <2>1, <3>1
  <2>4. RowOf(p, g.pos, Instruction(program, st, g.pos, TopLevel))
    BY <1>1, <2>2, <2>3 DEF Laid, Rows, HeadLine
  <2>5. st \in SourceStatements /\ o \in Seq(CircuitOps)
        /\ o = StatementOps(program, st, g.pos, bodies)
        /\ st.is \in {"op", "decl", "def", "call", "assert"}
        /\ F[j] \in Seq(CircuitOps) /\ F[j + 1] = F[j] \o o
    BY <1>1, <1>4, <1>7, <2>2, <2>3 DEF OneOpEach
  <2>6. st.is = "call" => /\ Defines(program, st.name)
                          /\ BodyLeads(p, at, bodies, DefinitionOf(program, st.name))
    BY <1>1, <1>2, <2>2, DefinesTheName DEF Resolved
  <2> HIDE DEF st, o
  <2>7. PICK h \in PlacesOf(p) : /\ h.pos = at[(j + 1) + 1] /\ h.calls = <<>>
                               /\ Leads(p, g, h, o)
    <3>1. CASE st.is = "def"
      <4> DEFINE h == Forward(p, g)
      <4>1. p.type[g.pos] = "NOP" /\ p.succ[g.pos] = g.pos + Width(st)
        BY <2>4, <3>1 DEF RowOf, Instruction, Classify
      <4>2. h \in PlacesOf(p) /\ Moves(p, g, h) /\ h.pos = p.succ[g.pos]
        BY <2>3, <4>1, NextPlace
      <4>3. o = <<>>
        BY <2>5, <3>1 DEF StatementOps
      <4>4. Leads(p, g, h, <<>>)
        BY <2>3, <4>1, StepLeads
      <4> QED
        BY <2>3, <4>1, <4>2, <4>3, <4>4 DEF Moves
    <3>2. CASE st.is # "def"
      <4>1. PICK h \in PlacesOf(p) : StatementLeads(p, g, h, o)
        BY <2>3, <2>4, <2>5, <2>6, <3>2, AnyStatementLeads
      <4>2. Width(st) = 1
        BY <3>2 DEF Width
      <4>3. Through(g.calls, o) = o
        BY <2>3, <2>5, ThroughNone
      <4> QED
        BY <2>3, <4>1, <4>2, <4>3 DEF StatementLeads
    <3> QED
      BY <3>1, <3>2
  <2>8. Leads(p, FlowStart, h, F[j + 1])
    BY <2>3, <2>5, <2>7, LeadsOn
  <2>9. Reached(j + 1, h)
    BY <2>7, <2>8
  <2> HIDE DEF Reached
  <2> QED
    BY <2>2, <2>9
<1>12. PICK g \in PlacesOf(p) : Reached(N, g)
  <2>1. N \in T
    <3>1. 0 \in Nat /\ 0 <= N /\ N \in 0 .. N
      OBVIOUS
    <3> HIDE DEF T
    <3> QED
      BY <1>10, <1>11, <3>1, IntervalInduction
  <2> QED
    BY <2>1
<1>13. Circuit(program) \in Seq(CircuitOps)
  <2>1. N \in 0 .. N
    OBVIOUS
  <2> QED
    BY <1>6, <1>7, <2>1
<1> QED
  BY <1>2, <1>6, <1>12, <1>13

-----------------------------------------------------------------------------
(* The importer's circuit and the execution by the tables are one order.   *)

LEMMA LeadsIsExpansion ==
  ASSUME NEW p, WellFormedFlow(p), NEW g \in PlacesOf(p), g.pos = p.n,
         Leads(p, FlowStart, g, p.ops)
  PROVE  \E m \in Nat : \A steps \in Nat :
           /\ m <= steps => IsExpanded(p, steps) /\ Journey(p, steps)[steps] = g
           /\ m > steps => Journey(p, steps)[steps].pos # p.n
<1>1. PICK m, at, done : Meets(p, p.ops, m, at, done) /\ at[0] = FlowStart /\ at[m] = g
  BY DEF Leads
<1>2. /\ m \in Nat /\ at \in [0 .. m -> PlacesOf(p)] /\ done \in [0 .. m -> Nat]
      /\ done[0] = 0 /\ done[m] = Len(p.ops)
      /\ \A k \in 0 .. m - 1 :
           MeetsNext(p, p.ops, at[k], at[k + 1], done[k], done[k + 1])
  BY <1>1 DEF Meets
<1>3. \A k \in 0 .. m - 1 : at[k].pos < p.n /\ at[k + 1] = Forward(p, at[k])
  BY <1>2 DEF MeetsNext
<1>4. p.n \in Nat
  BY DEF WellFormedFlow
<1> SUFFICES ASSUME NEW steps \in Nat
             PROVE  /\ m <= steps => /\ IsExpanded(p, steps)
                                     /\ Journey(p, steps)[steps] = g
                    /\ m > steps => Journey(p, steps)[steps].pos # p.n
  BY <1>2
<1> DEFINE J == Journey(p, steps)
<1>5. /\ J[0] = FlowStart
      /\ \A k \in 0 .. steps - 1 :
           J[k + 1] = IF J[k].pos = p.n THEN J[k] ELSE Forward(p, J[k])
  BY JourneyFollows
<1> HIDE DEF J
<1>6. \A k \in 0 .. steps : J[k] = IF k <= m THEN at[k] ELSE g
  <2> DEFINE T == {k \in 0 .. steps : J[k] = IF k <= m THEN at[k] ELSE g}
  <2>1. 0 \in T
    BY <1>1, <1>2, <1>5
  <2>2. ASSUME NEW k \in 0 .. steps, k \in T, k + 1 <= steps
        PROVE  k + 1 \in T
    <3>1. k \in 0 .. steps - 1 /\ k + 1 \in 0 .. steps
      BY <2>2
    <3>2. CASE k < m
      <4>1. k \in 0 .. m - 1 /\ k <= m /\ k + 1 <= m
        BY <1>2, <3>2
      <4>2. J[k] = at[k] /\ at[k].pos < p.n /\ at[k + 1] = Forward(p, at[k])
        BY <1>3, <2>2, <4>1
      <4>3. at[k].pos # p.n
        <5>1. at[k].pos \in Nat
          <6>1. at[k] \in Flows(p)
            BY <1>2, <4>1 DEF PlacesOf
          <6> QED
            BY <1>4, <6>1 DEF Flows
        <5> QED
          BY <1>4, <4>2, <5>1
      <4> QED
        BY <1>5, <3>1, <4>1, <4>2, <4>3
    <3>3. CASE ~(k < m)
      <4>1. J[k] = g /\ ~(k + 1 <= m)
        BY <1>1, <1>2, <2>2, <3>3
      <4>2. J[k + 1] = g
        BY <1>5, <3>1, <4>1
      <4> QED
        BY <3>1, <4>1, <4>2
    <3> QED
      BY <3>2, <3>3
  <2>3. 0 \in Nat /\ 0 <= steps
    OBVIOUS
  <2> HIDE DEF T
  <2>4. \A k \in 0 .. steps : k \in T
    BY <2>1, <2>2, <2>3, IntervalInduction
  <2> QED
    BY <2>4 DEF T
<1>7. ASSUME m <= steps
      PROVE  IsExpanded(p, steps) /\ J[steps] = g
  <2>1. /\ m \in 0 .. steps /\ \A k \in 0 .. m : k \in 0 .. steps /\ J[k] = at[k]
        /\ J[steps] = g
    BY <1>1, <1>2, <1>6, <1>7
  <2> DEFINE Met(k) == {j \in 0 .. k - 1 : p.type[J[j].pos] = "SIMULATE"}
             T == {k \in 0 .. m : IsFiniteSet(Met(k)) /\ Cardinality(Met(k)) = done[k]}
  <2>2. 0 \in T
    <3>1. Met(0) = {}
      OBVIOUS
    <3> QED
      BY <1>2, <3>1, FS_EmptySet
  <2>3. ASSUME NEW k \in 0 .. m, k \in T, k + 1 <= m
        PROVE  k + 1 \in T
    <3>1. k \in 0 .. m - 1 /\ k + 1 \in 0 .. m /\ J[k] = at[k]
      BY <1>2, <2>1, <2>3
    <3>2. \A j \in Int : j \in 0 .. (k + 1) - 1 <=> j \in 0 .. k - 1 \/ j = k
      BY <3>1
    <3>3. CASE p.type[at[k].pos] = "SIMULATE"
      <4>1. Met(k + 1) = Met(k) \cup {k} /\ k \notin Met(k)
        BY <3>1, <3>2, <3>3
      <4>2. done[k + 1] = done[k] + 1
        BY <1>2, <3>1, <3>3 DEF MeetsNext
      <4> HIDE DEF Met
      <4>3. IsFiniteSet(Met(k)) /\ Cardinality(Met(k)) = done[k]
        BY <2>3
      <4>4. IsFiniteSet(Met(k + 1)) /\ Cardinality(Met(k + 1)) = done[k] + 1
        BY <4>1, <4>3, FS_AddElement
      <4> QED
        BY <3>1, <4>2, <4>4
    <3>4. CASE p.type[at[k].pos] # "SIMULATE"
      <4>1. Met(k + 1) = Met(k)
        BY <3>1, <3>2, <3>4
      <4>2. done[k + 1] = done[k]
        BY <1>2, <3>1, <3>4 DEF MeetsNext
      <4> HIDE DEF Met
      <4> QED
        BY <2>3, <3>1, <4>1, <4>2
    <3> QED
      BY <3>3, <3>4
  <2>4. \A k \in 0 .. m : Cardinality(Met(k)) = done[k]
    <3>1. 0 \in Nat /\ 0 <= m
      BY <1>2
    <3> HIDE DEF T
    <3>2. \A k \in 0 .. m : k \in T
      BY <1>2, <2>2, <2>3, <3>1, IntervalInduction
    <3> QED
      BY <3>2 DEF T
  <2>5. [k \in 0 .. m |-> Cardinality(Met(k))] = done
    <3> HIDE DEF Met
    <3> QED
      BY <1>2, <2>4
  <2>6. \A k \in 0 .. m - 1 :
          /\ J[k].pos < p.n
          /\ J[k + 1] = Forward(p, J[k])
          /\ IF p.type[J[k].pos] = "SIMULATE"
             THEN /\ done[k] < Len(p.ops) /\ done[k + 1] = done[k] + 1
                  /\ p.ops[done[k] + 1].at = J[k].pos
                  /\ p.ops[done[k] + 1].frames = J[k].calls
             ELSE done[k + 1] = done[k]
    <3> SUFFICES ASSUME NEW k \in 0 .. m - 1
                 PROVE  /\ J[k].pos < p.n
                        /\ J[k + 1] = Forward(p, J[k])
                        /\ IF p.type[J[k].pos] = "SIMULATE"
                           THEN /\ done[k] < Len(p.ops) /\ done[k + 1] = done[k] + 1
                                /\ p.ops[done[k] + 1].at = J[k].pos
                                /\ p.ops[done[k] + 1].frames = J[k].calls
                           ELSE done[k + 1] = done[k]
      OBVIOUS
    <3>1. k \in 0 .. m /\ k + 1 \in 0 .. m
      BY <1>2
    <3>2. J[k] = at[k] /\ J[k + 1] = at[k + 1]
      BY <2>1, <3>1
    <3> QED
      BY <1>2, <3>2 DEF MeetsNext
  <2>7. J[0] = FlowStart /\ J[m].pos = p.n
    BY <1>1, <1>2, <1>5, <2>1
  <2>8. Executes(p, m, J, done)
    BY <1>2, <2>6, <2>7 DEF Executes
  <2>9. Executes(p, m, J, [k \in 0 .. m |-> Cardinality(Met(k))])
    <3> HIDE DEF Met
    <3> QED
      BY <2>5, <2>8
  <2>10. IsExpanded(p, steps)
    BY <2>1, <2>6, <2>7, <2>9 DEF IsExpanded, J
  <2> QED
    BY <2>1, <2>10
<1>8. ASSUME m > steps
      PROVE  J[steps].pos # p.n
  <2>1. steps \in 0 .. m - 1 /\ steps \in 0 .. steps /\ steps <= m /\ steps \in 0 .. m
    BY <1>2, <1>8
  <2>2. J[steps] = at[steps] /\ at[steps].pos < p.n
    BY <1>3, <1>6, <2>1
  <2>3. at[steps] \in Flows(p)
    BY <1>2, <2>1 DEF PlacesOf
  <2>4. at[steps].pos \in Nat
    BY <1>4, <2>3 DEF Flows
  <2> QED
    BY <1>4, <2>2, <2>4
<1> QED
  BY <1>7, <1>8 DEF J

LEMMA AcceptedIsRanked ==
  ASSUME src \in Seq(Statements), Accepted, OneOpEach(src)
  PROVE  \E rank : Ranked(src, rank, Cardinality(Definitions(src)))
<1> DEFINE Defs == Definitions(src)
           name == [k \in Defs |-> src[k].name]
<1>1. \A k \in Defs : k \in 1 .. Len(src) /\ src[k].is = "def"
                      /\ src[k] \in Range(src) /\ src[k] \in Statements
  BY LenProperties, ElementOfSeq DEF Definitions, Range
<1>2. DefinedNames = {src[k].name : k \in Defs}
  <2>1. \A st \in Range(src) : \E k \in 1 .. Len(src) : src[k] = st
    BY LenProperties DEF Range
  <2> QED
    BY <1>1, <2>1 DEF DefinedNames, Definitions
<1>3. name \in Surjection(Defs, DefinedNames)
  <2>1. name \in [Defs -> DefinedNames]
    BY <1>2
  <2>2. \A n \in DefinedNames : \E k \in Defs : name[k] = n
    BY <1>2
  <2> HIDE DEF name, Defs
  <2> QED
    BY <2>1, <2>2 DEF Surjection
<1>4. IsFiniteSet(Defs) /\ Cardinality(Defs) \in Nat
  BY DefinitionsAreFinite
<1> HIDE DEF Defs
<1>5. /\ IsFiniteSet(DefinedNames)
      /\ Cardinality(DefinedNames) <= Cardinality(Defs)
      /\ Cardinality(DefinedNames) \in Nat
  <2> HIDE DEF name
  <2> QED
    BY <1>3, <1>4, FS_Surjection, FS_CardinalityType
<1>6. PICK rank \in [DefinedNames -> 1 .. Cardinality(DefinedNames)] :
        \A st \in Range(src) :
          st.is = "def" => \A called \in CallsIn(st.body) :
                             rank[called] < rank[st.name]
  BY DEF Accepted
<1>7. ASSUME NEW k \in Defs
      PROVE  /\ rank[src[k].name] \in 1 .. Cardinality(Defs)
             /\ \A j \in 1 .. Len(src[k].body) :
                  src[k].body[j].is = "call" =>
                    rank[src[k].body[j].name] < rank[src[k].name]
  <2>1. rank[src[k].name] \in 1 .. Cardinality(Defs)
    <3>1. src[k].name \in DefinedNames
      BY <1>2
    <3> QED
      BY <1>4, <1>5, <1>6, <3>1
  <2>2. ASSUME NEW j \in 1 .. Len(src[k].body), src[k].body[j].is = "call"
        PROVE  rank[src[k].body[j].name] < rank[src[k].name]
    <3> DEFINE st == src[k]
               inner == st.body[j]
               S == Range(st.body)
    <3>1. st \in Range(src) /\ st.is = "def" /\ st.body \in Seq(S)
      BY <1>1, StatementShapes
    <3>2. inner \in S
      <4> HIDE DEF S, st
      <4>1. j \in 1 .. Len(st.body)
        BY DEF st
      <4> QED
        BY <3>1, <4>1, ElementOfSeq
    <3>3. inner.name \in CallsIn(st.body)
      BY <2>2, <3>2 DEF CallsIn, IsCall
    <3> QED
      BY <1>6, <3>1, <3>3
  <2> QED
    BY <2>1, <2>2
<1>8. Ranked(src, rank, Cardinality(Defs))
  BY <1>7 DEF Ranked, Defs
<1> QED
  BY <1>8 DEF Defs

LEMMA AcceptedIsExpanded ==
  ASSUME src \in Seq(Statements), Accepted, OneOpEach(src)
  PROVE  \E m \in Nat : \A steps \in Nat :
           /\ m <= steps => /\ IsExpanded(Tables, steps)
                            /\ Journey(Tables, steps)[steps].calls = <<>>
           /\ m > steps => Journey(Tables, steps)[steps].pos # Tables.n
<1> DEFINE p == Tables
<1>1. Resolved(src)
  BY AcceptedIsResolved
<1>2. p = Preprocess(src) /\ p.ops = Circuit(src)
  BY DEF Tables, Preprocess, TablesOf
<1> HIDE DEF p
<1>3. WellFormedFlow(p)
  BY <1>1, <1>2, TablesAreWellFormed
<1>4. PICK at : Laid(p, src, at)
  BY <1>2, ProgramIsLaid
<1> DEFINE D == Cardinality(Definitions(src))
           bodies == Inlined(src)[D]
<1>5. PICK rank : Ranked(src, rank, D)
  BY AcceptedIsRanked
<1>6. bodies \in Bodies(src) /\ \A k \in Definitions(src) : BodyLeads(p, at, bodies, k)
  BY <1>1, <1>3, <1>4, <1>5, EveryBodyLeads
<1>7. PICK g \in PlacesOf(p) : /\ g.pos = p.n /\ g.calls = <<>>
                             /\ Leads(p, FlowStart, g, p.ops)
  BY <1>1, <1>2, <1>3, <1>4, <1>6, ProgramLeads
<1>8. PICK m \in Nat : \A steps \in Nat :
        /\ m <= steps => IsExpanded(p, steps) /\ Journey(p, steps)[steps] = g
        /\ m > steps => Journey(p, steps)[steps].pos # p.n
  BY <1>3, <1>7, LeadsIsExpansion
<1>9. \A steps \in Nat :
        /\ m <= steps => IsExpanded(p, steps) /\ Journey(p, steps)[steps].calls = <<>>
        /\ m > steps => Journey(p, steps)[steps].pos # p.n
  BY <1>7, <1>8
<1> QED
  BY <1>9 DEF p

(* Every accepted program comes to its end, and the circuit the importer   *)
(* makes of it is what its tables meet on the way: what the engine assumes *)
(* of the code it loads (CircuitIsExpansion), whatever its length.         *)
THEOREM ProgramsAreExpanded ==
  Spec => [](Accepted /\ OneOpEach(src) =>
               \E steps \in Nat : IsExpanded(Tables, steps))
<1>1. src \in Seq(Statements) =>
        (Accepted /\ OneOpEach(src) => \E steps \in Nat : IsExpanded(Tables, steps))
  <2> SUFFICES ASSUME src \in Seq(Statements), Accepted, OneOpEach(src)
               PROVE  \E steps \in Nat : IsExpanded(Tables, steps)
    OBVIOUS
  <2>1. PICK m \in Nat : \A steps \in Nat : m <= steps => IsExpanded(Tables, steps)
    BY AcceptedIsExpanded
  <2> QED
    BY <2>1
<1> QED
  BY <1>1, ProgramsAreTyped, PTL

(* Where MaxSteps steps are enough, this is what the run checks: each      *)
(* operation is met once, in order and through the same calls, and in the  *)
(* end every call has returned (preprocessCode and stepForward against the *)
(* flattened circuit).                                                     *)
THEOREM ExpansionCorrect ==
  Spec => [](OneOpEach(src) /\ JourneyOf(Tables)[MaxSteps].pos = Tables.n =>
               ExecutionIsExpansion)
<1>1. src \in Seq(Statements) =>
        (OneOpEach(src) /\ JourneyOf(Tables)[MaxSteps].pos = Tables.n =>
           ExecutionIsExpansion)
  <2> SUFFICES ASSUME src \in Seq(Statements), OneOpEach(src), Accepted,
                      JourneyOf(Tables)[MaxSteps].pos = Tables.n
               PROVE  /\ IsExpanded(Tables, MaxSteps)
                      /\ JourneyOf(Tables)[MaxSteps].calls = <<>>
    BY DEF ExecutionIsExpansion
  <2>1. PICK m \in Nat : \A steps \in Nat :
          /\ m <= steps => /\ IsExpanded(Tables, steps)
                           /\ Journey(Tables, steps)[steps].calls = <<>>
          /\ m > steps => Journey(Tables, steps)[steps].pos # Tables.n
    BY AcceptedIsExpanded
  <2>2. MaxSteps \in Nat
    BY DEF MaxSteps
  <2>3. ~(m > MaxSteps)
    BY <2>1, <2>2 DEF JourneyOf
  <2>4. m <= MaxSteps
    BY <2>2, <2>3
  <2> QED
    BY <2>1, <2>2, <2>4 DEF JourneyOf
<1> QED
  BY <1>1, ProgramsAreTyped, PTL

=============================================================================
