------------------------- MODULE SliceCheck_proofs -------------------------
(***************************************************************************)
(* The assertion compiler measures every assertion it has not cancelled,   *)
(* once and in order: in every program, at each optimization level and     *)
(* whichever assertions are independent of each other.                     *)
(*                                                                         *)
(* A client gets slices by asking for one after the other, and each is     *)
(* found by a loop of its own that counts down to it. What the loops have  *)
(* in common is a division of the assertions seen so far (Divided): the    *)
(* groups that are closed, and the one still open. The loop for slice k    *)
(* has ended with group k when that is closed, and else holds the open     *)
(* group and the number of groups still to come.                           *)
(***************************************************************************)
EXTENDS SliceCheck, ControlFlow_proofs, FiniteSetTheorems

-----------------------------------------------------------------------------
(* Sequences.                                                              *)

LEMMA FlattenAppend ==
  ASSUME NEW X, NEW seqs \in Seq(Seq(X)), NEW s \in Seq(X)
  PROVE  FlattenSeq(Append(seqs, s)) = FlattenSeq(seqs) \o s
<1> DEFINE longer == Append(seqs, s)
           one == FlattenSeq(seqs)
           other == FlattenSeq(longer)
<1>1. PICK n \in Nat : n = Len(seqs)
  BY LenProperties
<1>2. longer \in Seq(Seq(X)) /\ Len(longer) = n + 1
      /\ longer[n + 1] = s /\ \A j \in 1 .. n : longer[j] = seqs[j]
  BY <1>1
<1> HIDE DEF longer
<1>3. PICK f : Folds(X, seqs, f) /\ f[n] = one
  BY <1>1, FlattenFolds
<1>4. PICK g : Folds(X, longer, g) /\ g[n + 1] = other
  BY <1>2, FlattenFolds
<1>5. /\ f \in [0 .. n -> Seq(X)] /\ f[0] = <<>>
      /\ \A j \in 1 .. n : f[j] = f[j - 1] \o seqs[j]
      /\ g \in [0 .. n + 1 -> Seq(X)] /\ g[0] = <<>>
      /\ \A j \in 1 .. n + 1 : g[j] = g[j - 1] \o longer[j]
  BY <1>1, <1>2, <1>3, <1>4 DEF Folds
<1> HIDE DEF one, other
<1> DEFINE T == {j \in 0 .. n : f[j] = g[j]}
<1>6. 0 \in T
  BY <1>5
<1>7. ASSUME NEW j \in 0 .. n, j \in T, j + 1 <= n
      PROVE  j + 1 \in T
  <2>1. /\ j + 1 \in 0 .. n /\ j + 1 \in 1 .. n /\ j + 1 \in 1 .. n + 1
        /\ (j + 1) - 1 = j /\ f[j] = g[j]
    BY <1>7
  <2>2. f[j + 1] = f[j] \o seqs[j + 1] /\ g[j + 1] = g[j] \o longer[j + 1]
    BY <1>5, <2>1
  <2>3. longer[j + 1] = seqs[j + 1]
    BY <1>2, <2>1
  <2> QED
    BY <2>1, <2>2, <2>3
<1>8. n \in T
  <2>1. 0 \in Nat /\ 0 <= n /\ n \in 0 .. n
    OBVIOUS
  <2> HIDE DEF T
  <2> QED
    BY <1>6, <1>7, <2>1, IntervalInduction
<1>9. g[n + 1] = f[n] \o s
  <2>1. n + 1 \in 1 .. n + 1 /\ (n + 1) - 1 = n
    OBVIOUS
  <2> QED
    BY <1>2, <1>5, <1>8, <2>1
<1> QED
  BY <1>3, <1>4, <1>9 DEF one, other, longer

(* s lists the members of S in order.                                      *)
Lists(s, S) ==
  /\ s \in Seq(Nat)
  /\ \A j \in 1 .. Len(s) : s[j] \in S
  /\ \A x \in S : \E j \in 1 .. Len(s) : s[j] = x
  /\ \A j, k \in 1 .. Len(s) : j < k => s[j] < s[k]

LEMMA ListsMore ==
  ASSUME NEW s, NEW S, Lists(s, S), NEW i \in Nat, \A x \in S : x < i
  PROVE  Lists(s \o <<i>>, S \cup {i})
<1> DEFINE t == s \o <<i>>
           one == <<i>>
<1>1. PICK n \in Nat : n = Len(s)
  BY LenProperties DEF Lists
<1>2. /\ s \in Seq(Nat) /\ \A j \in 1 .. n : s[j] \in S /\ s[j] < i
      /\ \A x \in S : \E j \in 1 .. n : s[j] = x
      /\ \A j, k \in 1 .. n : j < k => s[j] < s[k]
  BY <1>1 DEF Lists
<1>3. one \in Seq(Nat) /\ Len(one) = 1 /\ one[1] = i
  OBVIOUS
<1> HIDE DEF one
<1>4. s \o one \in Seq(Nat) /\ Len(s \o one) = n + 1
      /\ \A j \in 1 .. n + 1 : (s \o one)[j] = IF j <= n THEN s[j] ELSE one[j - n]
  BY <1>1, <1>2, <1>3, ConcatProperties
<1>5. t = s \o one
  BY DEF one
<1> HIDE DEF t
<1>6. /\ t \in Seq(Nat) /\ Len(t) = n + 1 /\ t[n + 1] = i
      /\ \A j \in 1 .. n : t[j] = s[j]
  <2>1. n + 1 \in 1 .. n + 1 /\ ~(n + 1 <= n) /\ (n + 1) - n = 1
    OBVIOUS
  <2>2. \A j \in 1 .. n : j \in 1 .. n + 1 /\ j <= n
    OBVIOUS
  <2> QED
    BY <1>3, <1>4, <1>5, <2>1, <2>2
<1>7. \A j \in 1 .. n + 1 : j \in 1 .. n \/ j = n + 1
  OBVIOUS
<1>8. \A j \in 1 .. n + 1 : t[j] \in S \cup {i}
  BY <1>2, <1>6, <1>7
<1>9. \A x \in S \cup {i} : \E j \in 1 .. n + 1 : t[j] = x
  <2>1. n + 1 \in 1 .. n + 1 /\ \A j \in 1 .. n : j \in 1 .. n + 1
    OBVIOUS
  <2> QED
    BY <1>2, <1>6, <2>1
<1>10. \A j, k \in 1 .. n + 1 : j < k => t[j] < t[k]
  <2> SUFFICES ASSUME NEW j \in 1 .. n + 1, NEW k \in 1 .. n + 1, j < k
               PROVE  t[j] < t[k]
    OBVIOUS
  <2>1. j \in 1 .. n
    OBVIOUS
  <2>2. CASE k = n + 1
    BY <1>2, <1>6, <2>1, <2>2
  <2>3. CASE k \in 1 .. n
    BY <1>2, <1>6, <2>1, <2>3
  <2> QED
    BY <1>7, <2>2, <2>3
<1>11. Lists(t, S \cup {i})
  BY <1>6, <1>8, <1>9, <1>10 DEF Lists
<1> QED
  BY <1>11 DEF t

-----------------------------------------------------------------------------
(* One turn of the loop.                                                   *)

LoopStates ==
  [index : Nat, cover : Seq(Nat), skipped : SUBSET Nat, ended : BOOLEAN,
   thrown : {FALSE}]

LoopStart(k) ==
  [index |-> k, cover |-> <<>>, skipped |-> {}, ended |-> FALSE,
   thrown |-> FALSE]

LEMMA LoopStarts ==
  ASSUME NEW k \in Nat
  PROVE  LoopStart(k) \in LoopStates
  BY EmptySeq DEF LoopStart, LoopStates

LEMMA OneInSequence ==
  ASSUME NEW i \in Nat
  PROVE  /\ <<i>> \in Seq(Nat) /\ <<i>> # <<>> /\ <<>> \in Seq(Nat)
         /\ \A s \in Seq(Nat) : /\ Append(s, i) \in Seq(Nat) /\ Append(s, i) # <<>>
                                /\ Append(s, i) = s \o <<i>>
<1>1. <<i>> \in Seq(Nat) /\ <<i>> # <<>> /\ <<>> \in Seq(Nat)
  OBVIOUS
<1>2. ASSUME NEW s \in Seq(Nat)
      PROVE  /\ Append(s, i) \in Seq(Nat) /\ Append(s, i) # <<>>
             /\ Append(s, i) = s \o <<i>>
  <2> DEFINE N == Nat
  <2>1. s \in Seq(N) /\ i \in N
    OBVIOUS
  <2> HIDE DEF N
  <2>2. Append(s, i) = s \o <<i>>
    BY <2>1, AppendIsConcat
  <2> QED
    BY <2>2
<1> QED
  BY <1>1, <1>2

LEMMA CancelledTurn ==
  ASSUME NEW p, NEW opt, NEW i \in Nat, NEW s \in LoopStates
  PROVE  /\ Turn(p, opt, "cancelled", s, i) \in LoopStates
         /\ Turn(p, opt, "cancelled", s, i).index = s.index
         /\ Turn(p, opt, "cancelled", s, i).cover = s.cover
         /\ Turn(p, opt, "cancelled", s, i).ended = s.ended
<1>1. CASE s.ended
  BY <1>1 DEF Turn, LoopStates
<1>2. CASE ~s.ended
  <2>1. Turn(p, opt, "cancelled", s, i) = [s EXCEPT !.skipped = @ \cup {i}]
    BY <1>2 DEF Turn
  <2>2. s.skipped \cup {i} \in SUBSET Nat
    BY DEF LoopStates
  <2> QED
    BY <2>1, <2>2 DEF LoopStates
<1> QED
  BY <1>1, <1>2

Joins(p, opt, s, i) == opt >= 2 /\ AreIndependent(p, s.cover, i)

KeptStep(p, opt, i, s, t) ==
  /\ t \in LoopStates
  /\ s.ended => t = s
  /\ ~s.ended /\ Joins(p, opt, s, i) =>
       ~t.ended /\ t.index = s.index /\ t.cover = Append(s.cover, i)
  /\ ~s.ended /\ ~Joins(p, opt, s, i) /\ s.index = 0 =>
       t.ended /\ t.index = 0 /\ t.cover = IF opt < 2 THEN <<i>> ELSE s.cover
  /\ ~s.ended /\ ~Joins(p, opt, s, i) /\ s.index # 0 =>
       /\ ~t.ended /\ t.index = s.index - 1
       /\ t.cover = IF opt < 2 THEN <<>> ELSE <<i>>

LEMMA KeptTurn ==
  ASSUME NEW p, NEW opt \in 0 .. 2, NEW i \in Nat, NEW s \in LoopStates
  PROVE  KeptStep(p, opt, i, s, Turn(p, opt, "kept", s, i))
<1> SUFFICES ASSUME NEW t, t = Turn(p, opt, "kept", s, i)
             PROVE  KeptStep(p, opt, i, s, t)
  OBVIOUS
<1> DEFINE seen == [s EXCEPT !.skipped = @ \cup {i}]
<1>0. <<i>> \in Seq(Nat) /\ <<>> \in Seq(Nat) /\ Append(s.cover, i) \in Seq(Nat)
  BY OneInSequence DEF LoopStates
<1>1. /\ seen \in LoopStates /\ seen.cover = s.cover /\ seen.index = s.index
      /\ seen.ended = s.ended
  <2>1. s.skipped \cup {i} \in SUBSET Nat
    BY DEF LoopStates
  <2> QED
    BY <2>1 DEF LoopStates
<1>2. CASE s.ended
  BY <1>1, <1>2 DEF Turn, KeptStep
<1>3. CASE ~s.ended /\ Joins(p, opt, s, i)
  <2>1. t = [seen EXCEPT !.cover = Append(@, i)]
    BY <1>3 DEF Turn, Joins
  <2> HIDE DEF seen
  <2>2. t \in LoopStates
    BY <1>0, <1>1, <2>1 DEF LoopStates
  <2>3. t.cover = Append(s.cover, i) /\ t.index = s.index /\ t.ended = s.ended
    BY <1>1, <2>1 DEF LoopStates
  <2> QED
    BY <1>3, <2>2, <2>3 DEF KeptStep
<1>4. CASE ~s.ended /\ ~Joins(p, opt, s, i)
  <2>1. t = NextSlice(opt, seen, i)
    BY <1>4 DEF Turn, Joins
  <2> HIDE DEF seen
  <2> DEFINE first == IF opt < 2 THEN <<i>> ELSE seen.cover
             next == IF opt < 2 THEN <<>> ELSE <<i>>
  <2>2. first \in Seq(Nat) /\ next \in Seq(Nat)
    BY <1>0, <1>1 DEF LoopStates
  <2>3. CASE s.index = 0
    <3>1. t = [seen EXCEPT !.ended = TRUE, !.cover = first]
      BY <1>1, <2>1, <2>3 DEF NextSlice
    <3> HIDE DEF first
    <3>2. t \in LoopStates
      BY <1>1, <2>2, <3>1 DEF LoopStates
    <3>3. t.ended = TRUE /\ t.cover = first /\ t.index = seen.index
      BY <1>1, <3>1 DEF LoopStates
    <3>4. first = IF opt < 2 THEN <<i>> ELSE s.cover
      BY <1>1 DEF first
    <3> QED
      BY <1>1, <1>4, <2>3, <3>2, <3>3, <3>4 DEF KeptStep
  <2>4. CASE s.index # 0
    <3>1. t = [seen EXCEPT !.index = @ - 1, !.cover = next]
      BY <1>1, <2>1, <2>4 DEF NextSlice
    <3>2. seen.index - 1 \in Nat
      BY <1>1, <2>4 DEF LoopStates
    <3> HIDE DEF next
    <3>3. t \in LoopStates
      BY <1>1, <2>2, <3>1, <3>2 DEF LoopStates
    <3>4. t.ended = seen.ended /\ t.cover = next /\ t.index = seen.index - 1
      BY <1>1, <3>1 DEF LoopStates
    <3> QED
      BY <1>1, <1>4, <2>4, <3>3, <3>4 DEF next, KeptStep
  <2> QED
    BY <2>3, <2>4
<1> QED
  BY <1>2, <1>3, <1>4

-----------------------------------------------------------------------------
(* The division the loops agree on.                                        *)

(* Where the loop for slice k stands.                                      *)
StandsAt(s, k, groups, open) ==
  /\ k < Len(groups) => s.ended /\ s.index = 0 /\ s.cover = groups[k + 1]
  /\ k >= Len(groups) => ~s.ended /\ s.index = k - Len(groups) /\ s.cover = open

Divided(loops, opt, S, groups, open) ==
  /\ groups \in Seq(Seq(Nat)) /\ open \in Seq(Nat)
  /\ \A k \in Nat : StandsAt(loops[k], k, groups, open)
  /\ \A m \in 1 .. Len(groups) : groups[m] # <<>>
  /\ opt < 2 => open = <<>>
  /\ Lists(FlattenSeq(groups) \o open, S)
  /\ IsFiniteSet(S) /\ Cardinality(S) \in Nat
  /\ Len(groups) + (IF open = <<>> THEN 0 ELSE 1) <= Cardinality(S)

LEMMA GrownGroups ==
  ASSUME NEW groups \in Seq(Seq(Nat)), NEW group \in Seq(Nat), group # <<>>,
         \A m \in 1 .. Len(groups) : groups[m] # <<>>
  PROVE  /\ Append(groups, group) \in Seq(Seq(Nat))
         /\ Len(Append(groups, group)) = Len(groups) + 1 /\ Len(groups) \in Nat
         /\ Append(groups, group)[Len(groups) + 1] = group
         /\ \A m \in 1 .. Len(groups) : Append(groups, group)[m] = groups[m]
         /\ \A m \in 1 .. Len(groups) + 1 : Append(groups, group)[m] # <<>>
<1> DEFINE X == Seq(Nat)
<1>1. groups \in Seq(X) /\ group \in X
  OBVIOUS
<1> HIDE DEF X
<1>2. /\ Append(groups, group) \in Seq(X)
      /\ Len(Append(groups, group)) = Len(groups) + 1 /\ Len(groups) \in Nat
      /\ Append(groups, group)[Len(groups) + 1] = group
      /\ \A m \in 1 .. Len(groups) : Append(groups, group)[m] = groups[m]
  BY <1>1
<1>3. \A m \in 1 .. Len(groups) + 1 : m \in 1 .. Len(groups) \/ m = Len(groups) + 1
  BY <1>2
<1> QED
  BY <1>2, <1>3 DEF X

(* A kept assertion joins the open group, or closes it and opens the next; *)
(* below level 2 it is a group of its own.                                 *)
LEMMA KeptDivides ==
  ASSUME NEW p, NEW opt \in 0 .. 2, NEW i \in Nat,
         NEW loops \in [Nat -> LoopStates], NEW S, \A x \in S : x < i,
         NEW groups, NEW open, Divided(loops, opt, S, groups, open),
         NEW after, \A k \in Nat : after[k] = Turn(p, opt, "kept", loops[k], i)
  PROVE  \E closed, next : Divided(after, opt, S \cup {i}, closed, next)
<1>1. PICK n \in Nat : n = Len(groups)
  BY LenProperties DEF Divided
<1>2. /\ groups \in Seq(Seq(Nat)) /\ open \in Seq(Nat)
      /\ \A m \in 1 .. n : groups[m] # <<>>
      /\ opt < 2 => open = <<>>
      /\ Lists(FlattenSeq(groups) \o open, S)
      /\ IsFiniteSet(S) /\ Cardinality(S) \in Nat
      /\ n + (IF open = <<>> THEN 0 ELSE 1) <= Cardinality(S)
  BY <1>1 DEF Divided
<1>3. ASSUME NEW k \in Nat
      PROVE  /\ loops[k] \in LoopStates
             /\ k < n => /\ loops[k].ended /\ loops[k].index = 0
                         /\ loops[k].cover = groups[k + 1]
             /\ k >= n => /\ ~loops[k].ended /\ loops[k].index = k - n
                          /\ loops[k].cover = open
  BY <1>1 DEF Divided, StandsAt
<1> DEFINE flat == FlattenSeq(groups)
           joins == opt >= 2 /\ AreIndependent(p, open, i)
<1>4. flat \in Seq(Nat)
  BY <1>2, FlattenIsSequence
<1>5. i \notin S
  OBVIOUS
<1>6. IsFiniteSet(S \cup {i}) /\ Cardinality(S \cup {i}) = Cardinality(S) + 1
  BY <1>2, <1>5, FS_AddElement
<1>7. Lists((flat \o open) \o <<i>>, S \cup {i})
  BY <1>2, ListsMore
<1>8. /\ <<i>> \in Seq(Nat) /\ <<i>> # <<>> /\ <<>> \in Seq(Nat)
      /\ Append(open, i) \in Seq(Nat) /\ Append(open, i) # <<>>
      /\ Append(open, i) = open \o <<i>>
  BY <1>2, OneInSequence
<1> DEFINE one == <<i>>
<1> HIDE DEF flat
<1>9. ASSUME NEW k \in Nat
      PROVE  /\ k < n => after[k] = loops[k]
             /\ k >= n /\ joins =>
                  /\ ~after[k].ended /\ after[k].index = k - n
                  /\ after[k].cover = Append(open, i)
             /\ k = n /\ ~joins =>
                  /\ after[k].ended /\ after[k].index = 0
                  /\ after[k].cover = IF opt < 2 THEN one ELSE open
             /\ k > n /\ ~joins =>
                  /\ ~after[k].ended /\ after[k].index = k - (n + 1)
                  /\ after[k].cover = IF opt < 2 THEN <<>> ELSE one
  <2> DEFINE s == loops[k]
             t == after[k]
  <2>1. s \in LoopStates /\ t = Turn(p, opt, "kept", s, i)
    BY <1>3
  <2> HIDE DEF s, t, one
  <2>2. /\ s.ended => t = s
        /\ ~s.ended /\ Joins(p, opt, s, i) =>
             ~t.ended /\ t.index = s.index /\ t.cover = Append(s.cover, i)
        /\ ~s.ended /\ ~Joins(p, opt, s, i) /\ s.index = 0 =>
             t.ended /\ t.index = 0 /\ t.cover = IF opt < 2 THEN <<i>> ELSE s.cover
        /\ ~s.ended /\ ~Joins(p, opt, s, i) /\ s.index # 0 =>
             /\ ~t.ended /\ t.index = s.index - 1
             /\ t.cover = IF opt < 2 THEN <<>> ELSE <<i>>
    <3>1. KeptStep(p, opt, i, s, t)
      BY <2>1, KeptTurn
    <3> QED
      BY <3>1 DEF KeptStep
  <2>3. CASE k < n
    BY <1>3, <2>2, <2>3 DEF s, t
  <2>4. CASE k >= n
    <3>1. ~s.ended /\ s.index = k - n /\ s.cover = open
      BY <1>3, <2>4 DEF s
    <3>2. Joins(p, opt, s, i) <=> joins
      BY <3>1 DEF Joins
    <3> HIDE DEF joins
    <3>3. CASE joins
      BY <2>2, <2>4, <3>1, <3>2, <3>3 DEF t
    <3>4. CASE ~joins /\ k = n
      <4>1. s.index = 0
        BY <3>1, <3>4
      <4> QED
        BY <2>2, <3>1, <3>2, <3>4, <4>1 DEF t, one
    <3>5. CASE ~joins /\ k > n
      <4>1. s.index # 0 /\ s.index - 1 = k - (n + 1)
        BY <3>1, <3>5
      <4> QED
        BY <2>2, <3>1, <3>2, <3>5, <4>1 DEF t, one
    <3> QED
      BY <2>4, <3>3, <3>4, <3>5
  <2> QED
    BY <2>3, <2>4
<1> HIDE DEF one
<1>10. CASE joins
  <2> DEFINE next == Append(open, i)
  <2>1. next \in Seq(Nat) /\ next # <<>> /\ ~(opt < 2)
    BY <1>8, <1>10
  <2>2. flat \o next = (flat \o open) \o one
    <3>1. next = open \o one /\ one \in Seq(Nat)
      BY <1>8 DEF one
    <3>2. flat \o (open \o one) = (flat \o open) \o one
      BY <1>2, <1>4, <3>1, ConcatNumbers
    <3> QED
      BY <3>1, <3>2
  <2> HIDE DEF next, joins
  <2>3. ASSUME NEW k \in Nat
        PROVE  StandsAt(after[k], k, groups, next)
    BY <1>1, <1>3, <1>9, <1>10 DEF StandsAt, next
  <2>4. n + 1 <= Cardinality(S \cup {i}) /\ Cardinality(S \cup {i}) \in Nat
    BY <1>2, <1>6
  <2>5. Divided(after, opt, S \cup {i}, groups, next)
    BY <1>1, <1>2, <1>6, <1>7, <2>1, <2>2, <2>3, <2>4 DEF Divided, flat, one
  <2> QED
    BY <2>5
<1>11. CASE ~joins
  <2> DEFINE group == IF opt < 2 THEN one ELSE open
             next == IF opt < 2 THEN <<>> ELSE one
             closed == Append(groups, group)
  <2>1. opt >= 2 => open # <<>>
    <3> SUFFICES ASSUME open = <<>>
                 PROVE  AreIndependent(p, open, i)
      BY <1>11
    <3> QED
      BY DEF AreIndependent
  <2>2. group \in Seq(Nat) /\ group # <<>> /\ next \in Seq(Nat)
        /\ (opt < 2 => next = <<>>)
    BY <1>2, <1>8, <2>1 DEF one
  <2>3. (flat \o group) \o next = (flat \o open) \o one
    <3>1. CASE opt < 2
      <4>1. open = <<>> /\ flat \o open = flat
        BY <1>2, <1>4, <3>1, ConcatEmptySeq
      <4>2. group = one /\ next = <<>> /\ one \in Seq(Nat)
        BY <1>8, <3>1 DEF one
      <4>3. (flat \o one) \in Seq(Nat)
        BY <1>4, <4>2, ConcatProperties
      <4>4. (flat \o one) \o <<>> = flat \o one
        BY <4>3, ConcatEmptySeq
      <4> QED
        BY <4>1, <4>2, <4>4
    <3>2. CASE ~(opt < 2)
      BY <3>2
    <3> QED
      BY <3>1, <3>2
  <2> HIDE DEF group, next, joins
  <2>4. /\ closed \in Seq(Seq(Nat)) /\ Len(closed) = n + 1
        /\ closed[n + 1] = group
        /\ \A m \in 1 .. n : closed[m] = groups[m]
        /\ \A m \in 1 .. n + 1 : closed[m] # <<>>
    BY <1>1, <1>2, <2>2, GrownGroups
  <2>5. FlattenSeq(closed) = flat \o group
    BY <1>2, <2>2, FlattenAppend DEF flat
  <2> HIDE DEF closed
  <2>6. ASSUME NEW k \in Nat
        PROVE  StandsAt(after[k], k, closed, next)
    <3>1. CASE k < n
      <4>1. k + 1 \in 1 .. n /\ k < n + 1 /\ ~(k >= n + 1)
        BY <3>1
      <4>2. /\ after[k].ended /\ after[k].index = 0
            /\ after[k].cover = closed[k + 1]
        BY <1>3, <1>9, <2>4, <3>1, <4>1
      <4> QED
        BY <2>4, <4>1, <4>2 DEF StandsAt
    <3>2. CASE k = n
      <4>1. k < n + 1 /\ ~(k >= n + 1)
        BY <3>2
      <4>2. after[k].ended /\ after[k].index = 0 /\ after[k].cover = group
        BY <1>9, <1>11, <3>2 DEF group
      <4> QED
        BY <2>4, <3>2, <4>1, <4>2 DEF StandsAt
    <3>3. CASE k > n
      <4>1. k >= n + 1 /\ ~(k < n + 1)
        BY <3>3
      <4>2. ~after[k].ended /\ after[k].index = k - (n + 1) /\ after[k].cover = next
        BY <1>9, <1>11, <3>3 DEF next
      <4> QED
        BY <2>4, <4>1, <4>2 DEF StandsAt
    <3> QED
      BY <3>1, <3>2, <3>3
  <2>7. /\ Cardinality(S \cup {i}) \in Nat
        /\ (n + 1) + (IF next = <<>> THEN 0 ELSE 1) <= Cardinality(S \cup {i})
    <3>1. CASE opt < 2
      BY <1>2, <1>6, <2>2, <3>1
    <3>2. CASE ~(opt < 2)
      <4>1. open # <<>>
        BY <2>1, <3>2
      <4> QED
        BY <1>2, <1>6, <4>1
    <3> QED
      BY <3>1, <3>2
  <2>8. Lists(FlattenSeq(closed) \o next, S \cup {i})
    BY <1>7, <2>3, <2>5 DEF one
  <2>9. Divided(after, opt, S \cup {i}, closed, next)
    BY <1>6, <2>2, <2>4, <2>6, <2>7, <2>8 DEF Divided
  <2> QED
    BY <2>9
<1> QED
  BY <1>10, <1>11

LEMMA CancelledDivides ==
  ASSUME NEW p, NEW opt \in 0 .. 2, NEW i \in Nat,
         NEW loops \in [Nat -> LoopStates], NEW S,
         NEW groups, NEW open, Divided(loops, opt, S, groups, open),
         NEW after, \A k \in Nat : after[k] = Turn(p, opt, "cancelled", loops[k], i)
  PROVE  Divided(after, opt, S, groups, open)
<1>1. ASSUME NEW k \in Nat
      PROVE  StandsAt(after[k], k, groups, open)
  <2>1. /\ after[k].index = loops[k].index /\ after[k].cover = loops[k].cover
        /\ after[k].ended = loops[k].ended
    BY CancelledTurn
  <2>2. StandsAt(loops[k], k, groups, open)
    BY DEF Divided
  <2> QED
    BY <2>1, <2>2 DEF StandsAt
<1> QED
  BY <1>1 DEF Divided


-----------------------------------------------------------------------------
(* The loops run side by side.                                             *)

LoopStep(p, opt, fates, i, s) ==
  IF i \in DOMAIN fates THEN Turn(p, opt, fates[i], s, i) ELSE s

Decided(fates) == \A i \in DOMAIN fates : fates[i] \in {"kept", "cancelled"}

LEMMA LoopStepTypes ==
  ASSUME NEW p, NEW opt \in 0 .. 2, NEW fates, Decided(fates), NEW i \in Nat,
         NEW s \in LoopStates
  PROVE  LoopStep(p, opt, fates, i, s) \in LoopStates
<1>1. CASE i \in DOMAIN fates /\ fates[i] = "kept"
  BY <1>1, KeptTurn DEF LoopStep, KeptStep
<1>2. CASE i \in DOMAIN fates /\ fates[i] = "cancelled"
  BY <1>2, CancelledTurn DEF LoopStep
<1>3. CASE i \notin DOMAIN fates
  BY <1>3 DEF LoopStep
<1> QED
  BY <1>1, <1>2, <1>3 DEF Decided

(* f is the course of the loop for slice k.                                *)
Runs(p, opt, fates, k, f) ==
  /\ f \in [0 .. p.n -> LoopStates] /\ f[0] = LoopStart(k)
  /\ \A i \in 0 .. p.n - 1 : f[i + 1] = LoopStep(p, opt, fates, i, f[i])
  /\ Compiled(p, opt, fates, k) = f[p.n]

LEMMA LoopRuns ==
  ASSUME NEW p, p.n \in Nat, NEW opt \in 0 .. 2, NEW fates, Decided(fates),
         NEW k \in Nat
  PROVE  \E f : Runs(p, opt, fates, k, f)
<1> DEFINE n == p.n
           S == LoopStates
           x == LoopStart(k)
           Go(i, s) == LoopStep(p, opt, fates, i, s)
           step == [j \in 0 + 1 .. n |-> [s \in S |-> Go(j - 1, s)]]
           A == CHOOSE g : g = [i \in 0 .. p.n |->
                  IF i = 0
                  THEN [index |-> k, cover |-> <<>>, skipped |-> {},
                        ended |-> FALSE, thrown |-> FALSE]
                  ELSE IF i - 1 \in DOMAIN fates
                  THEN Turn(p, opt, fates[i - 1], g[i - 1], i - 1)
                  ELSE g[i - 1]]
           Later(g, i) == IF i = 0 THEN x ELSE Go(i - 1, g[i - 1])
<1>1. Compiled(p, opt, fates, k) = A[p.n]
  BY DEF Compiled
<1>2. A = CHOOSE g : g = [i \in 0 .. n |-> Later(g, i)]
  BY DEF LoopStep, LoopStart
<1>3. x \in S
  BY LoopStarts
<1>4. ASSUME NEW i \in Nat, NEW s \in S
      PROVE  Go(i, s) \in S
  BY LoopStepTypes
<1>5. \A g, i : Later(g, i) = IF i = 0 THEN x ELSE Go(i - 1, g[i - 1])
  OBVIOUS
<1> HIDE DEF A, Later, S, x, Go
<1>6. n \in Nat
  OBVIOUS
<1> HIDE DEF n
<1>7. /\ step \in [0 + 1 .. n -> [S -> S]]
      /\ \A j \in 0 + 1 .. n : \A s \in S : step[j][s] = Go(j - 1, s)
  <2>1. ASSUME NEW j \in 0 + 1 .. n, NEW s \in S
        PROVE  Go(j - 1, s) \in S
    <3>1. j - 1 \in Nat
      BY <1>6
    <3> QED
      BY <1>4, <3>1
  <2> QED
    BY <2>1
<1> HIDE DEF step
<1>8. Recursion(S, x, 0, n, step)
  BY <1>3, <1>6, <1>7 DEF Recursion
<1>9. PICK f : Follows(S, x, 0, n, step, f)
  BY <1>8, RecursionExists
<1>10. f \in [0 .. n -> S] /\ f[0] = x
       /\ \A j \in 0 + 1 .. n : f[j] = Go(j - 1, f[j - 1])
  <2>1. f \in [0 .. n -> S] /\ f[0] = x
        /\ \A j \in 0 + 1 .. n : f[j] = step[j][f[j - 1]]
    BY <1>9 DEF Follows
  <2>2. ASSUME NEW j \in 0 + 1 .. n
        PROVE  f[j] = Go(j - 1, f[j - 1])
    <3>1. j - 1 \in 0 .. n
      BY <1>6
    <3>2. f[j - 1] \in S
      BY <2>1, <3>1
    <3> QED
      BY <1>7, <2>1, <3>2
  <2> QED
    BY <2>1, <2>2
<1>11. f = [i \in 0 .. n |-> Later(f, i)]
  <2>1. ASSUME NEW i \in 0 .. n
        PROVE  f[i] = Later(f, i)
    <3>1. i # 0 => i \in 0 + 1 .. n
      BY <1>6
    <3> QED
      BY <1>5, <1>10, <3>1
  <2> QED
    BY <1>10, <2>1
<1>12. A = [i \in 0 .. n |-> Later(A, i)]
  BY <1>2, <1>11
<1>13. FollowsWhileTyped(S, x, 0, n, step, A)
  <2>1. A[0] = x
    <3>1. 0 \in 0 .. n
      BY <1>6
    <3> QED
      BY <1>5, <1>12, <3>1
  <2>2. ASSUME NEW j \in 0 + 1 .. n, A[j - 1] \in S
        PROVE  A[j] = step[j][A[j - 1]]
    <3>1. j \in 0 .. n /\ j # 0
      BY <1>6
    <3>2. A[j] = Go(j - 1, A[j - 1])
      BY <1>5, <1>12, <3>1
    <3> QED
      BY <1>7, <2>2, <3>2
  <2> QED
    BY <2>1, <2>2 DEF FollowsWhileTyped
<1>14. A[n] = f[n]
  <2>1. \A j \in 0 .. n : A[j] = f[j]
    BY <1>8, <1>9, <1>13, RecursionUnique
  <2>2. n \in 0 .. n
    BY <1>6
  <2> QED
    BY <2>1, <2>2
<1>15. \A i \in 0 .. n - 1 : f[i + 1] = Go(i, f[i])
  <2>1. ASSUME NEW i \in 0 .. n - 1
        PROVE  f[i + 1] = Go(i, f[i])
    <3>1. i + 1 \in 0 + 1 .. n /\ (i + 1) - 1 = i
      BY <1>6
    <3> QED
      BY <1>10, <3>1
  <2> QED
    BY <2>1
<1> QED
  BY <1>1, <1>10, <1>14, <1>15 DEF Runs, n, S, x, Go

Kept(fates, i) == {j \in DOMAIN fates : j < i /\ fates[j] = "kept"}

LEMMA KeptGrows ==
  ASSUME NEW fates, DOMAIN fates \subseteq Nat, NEW i \in Nat
  PROVE  /\ Kept(fates, 0) = {}
         /\ \A x \in Kept(fates, i) : x < i
         /\ i \in DOMAIN fates /\ fates[i] = "kept" =>
              Kept(fates, i + 1) = Kept(fates, i) \cup {i}
         /\ ~(i \in DOMAIN fates /\ fates[i] = "kept") =>
              Kept(fates, i + 1) = Kept(fates, i)
<1>1. \A j \in DOMAIN fates : ~(j < 0) /\ (j < i + 1 <=> j < i \/ j = i)
  OBVIOUS
<1> QED
  BY <1>1 DEF Kept

(* Before the first line no loop has seen anything.                        *)
LEMMA NothingDivides ==
  ASSUME NEW loops, \A k \in Nat : loops[k] = LoopStart(k), NEW opt
  PROVE  Divided(loops, opt, {}, <<>>, <<>>)
<1> DEFINE X == Seq(Nat)
           none == <<>>
<1>1. none \in Seq(X) /\ none \in Seq(Nat) /\ Len(none) = 0
  OBVIOUS
<1> HIDE DEF none, X
<1>2. ASSUME NEW k \in Nat
      PROVE  StandsAt(loops[k], k, none, none)
  <2>1. k >= 0 /\ ~(k < 0) /\ k - 0 = k
    OBVIOUS
  <2>2. loops[k].index = k /\ loops[k].cover = none /\ ~loops[k].ended
    <3>1. /\ LoopStart(k).index = k /\ LoopStart(k).cover = <<>>
          /\ ~LoopStart(k).ended
      BY DEF LoopStart
    <3>2. loops[k] = LoopStart(k)
      OBVIOUS
    <3> QED
      BY <3>1, <3>2 DEF none
  <2> QED
    BY <1>1, <2>1, <2>2 DEF StandsAt
<1>3. FlattenSeq(<<>>) \o <<>> = <<>>
  <2>1. PICK f : Folds(Nat, none, f) /\ f[0] = FlattenSeq(none)
    BY <1>1, FlattenFolds DEF X
  <2>2. FlattenSeq(none) = <<>>
    BY <1>1, <2>1 DEF Folds
  <2>3. none \o none = none
    BY DEF none
  <2> QED
    BY <2>2, <2>3 DEF none
<1>4. Lists(<<>>, {})
  <2>1. \A j : j \notin 1 .. 0
    OBVIOUS
  <2> QED
    BY <1>1, <2>1 DEF Lists, none
<1>5. IsFiniteSet({}) /\ Cardinality({}) = 0
  BY FS_EmptySet
<1>6. \A m \in 1 .. Len(none) : none[m] # <<>>
  BY <1>1
<1>7. Len(none) + (IF none = <<>> THEN 0 ELSE 1) <= Cardinality({})
  BY <1>1, <1>5 DEF none
<1>8. Divided(loops, opt, {}, none, none)
  BY <1>1, <1>2, <1>3, <1>4, <1>5, <1>6, <1>7 DEF Divided, X, none
<1> QED
  BY <1>8 DEF none

(* The loops in the course F agree on a division before every line.        *)
LEMMA LoopsDivide ==
  ASSUME NEW p, p.n \in Nat, NEW opt \in 0 .. 2, NEW fates, Decided(fates),
         DOMAIN fates \subseteq 0 .. p.n - 1,
         NEW F, \A k \in Nat : Runs(p, opt, fates, k, F[k])
  PROVE  \E groups, open :
           Divided([k \in Nat |-> F[k][p.n]], opt, Kept(fates, p.n), groups, open)
<1> DEFINE n == p.n
           At(i) == [k \in Nat |-> F[k][i]]
           T == {i \in 0 .. n : \E groups, open :
                   Divided(At(i), opt, Kept(fates, i), groups, open)}
<1>1. DOMAIN fates \subseteq Nat
  OBVIOUS
<1>2. ASSUME NEW k \in Nat
      PROVE  /\ F[k] \in [0 .. n -> LoopStates] /\ F[k][0] = LoopStart(k)
             /\ \A i \in 0 .. n - 1 : F[k][i + 1] = LoopStep(p, opt, fates, i, F[k][i])
  BY DEF Runs
<1>3. /\ \A i : \A k \in Nat : At(i)[k] = F[k][i]
      /\ \A i \in 0 .. n : At(i) \in [Nat -> LoopStates]
  BY <1>2
<1>4. n \in Nat
  OBVIOUS
<1> HIDE DEF At, n
<1>5. 0 \in T
  <2>1. \A k \in Nat : At(0)[k] = LoopStart(k)
    BY <1>2, <1>3
  <2>2. Divided(At(0), opt, {}, <<>>, <<>>)
    BY <2>1, NothingDivides
  <2>3. Kept(fates, 0) = {}
    BY <1>1, KeptGrows
  <2>4. \E groups, open : Divided(At(0), opt, Kept(fates, 0), groups, open)
    BY <2>2, <2>3
  <2> QED
    BY <1>4, <2>4
<1>6. ASSUME NEW i \in 0 .. n, i \in T, i + 1 <= n
      PROVE  i + 1 \in T
  <2>1. i \in 0 .. n - 1 /\ i \in Nat /\ i + 1 \in 0 .. n
    BY <1>4, <1>6
  <2>2. PICK groups, open : Divided(At(i), opt, Kept(fates, i), groups, open)
    BY <1>6
  <2> DEFINE loops == At(i)
             after == At(i + 1)
             S == Kept(fates, i)
  <2>3. loops \in [Nat -> LoopStates] /\ \A x \in S : x < i
    BY <1>1, <1>3, <2>1, KeptGrows
  <2>4. \A k \in Nat : after[k] = LoopStep(p, opt, fates, i, loops[k])
    BY <1>2, <1>3, <2>1
  <2>5. Divided(loops, opt, S, groups, open)
    BY <2>2
  <2> HIDE DEF loops, after
  <2>6. CASE i \in DOMAIN fates /\ fates[i] = "kept"
    <3>1. \A k \in Nat : after[k] = Turn(p, opt, "kept", loops[k], i)
      BY <2>4, <2>6 DEF LoopStep
    <3>2. Kept(fates, i + 1) = S \cup {i}
      BY <1>1, <2>1, <2>6, KeptGrows
    <3> HIDE DEF S
    <3>3. PICK closed, next : Divided(after, opt, S \cup {i}, closed, next)
      BY <2>1, <2>3, <2>5, <3>1, KeptDivides
    <3> QED
      BY <2>1, <3>2, <3>3 DEF after
  <2>7. CASE i \in DOMAIN fates /\ fates[i] = "cancelled"
    <3>1. \A k \in Nat : after[k] = Turn(p, opt, "cancelled", loops[k], i)
      BY <2>4, <2>7 DEF LoopStep
    <3>2. Kept(fates, i + 1) = S
      BY <1>1, <2>1, <2>7, KeptGrows
    <3> HIDE DEF S
    <3>3. Divided(after, opt, S, groups, open)
      BY <2>1, <2>3, <2>5, <3>1, CancelledDivides
    <3> QED
      BY <2>1, <3>2, <3>3 DEF after
  <2>8. CASE i \notin DOMAIN fates
    <3>1. \A k \in Nat : after[k] = loops[k]
      BY <2>4, <2>8 DEF LoopStep
    <3>2. Kept(fates, i + 1) = S
      BY <1>1, <2>1, <2>8, KeptGrows
    <3> HIDE DEF S
    <3>3. Divided(after, opt, S, groups, open)
      BY <2>5, <3>1 DEF Divided
    <3> QED
      BY <2>1, <3>2, <3>3 DEF after
  <2> QED
    BY <2>6, <2>7, <2>8 DEF Decided
<1>7. n \in T
  <2>1. 0 \in Nat /\ 0 <= n /\ n \in 0 .. n
    BY <1>4
  <2> HIDE DEF T
  <2> QED
    BY <1>4, <1>5, <1>6, <2>1, IntervalInduction
<1> QED
  BY <1>7 DEF At, n

-----------------------------------------------------------------------------
(* What a client gets.                                                     *)

(* The open group is the last slice there is.                              *)
LEMMA LastGroup ==
  ASSUME NEW loops \in [Nat -> LoopStates], NEW opt, NEW S, NEW groups, NEW open,
         Divided(loops, opt, S, groups, open)
  PROVE  \E slices \in Seq(Seq(Nat)) :
           /\ Lists(FlattenSeq(slices), S)
           /\ Len(slices) <= Cardinality(S)
           /\ \A k \in Nat : IsSlice(loops[k]) <=> k < Len(slices)
           /\ \A k \in 1 .. Len(slices) : loops[k - 1].cover = slices[k]
<1>1. PICK n \in Nat : n = Len(groups)
  BY LenProperties DEF Divided
<1>2. /\ groups \in Seq(Seq(Nat)) /\ open \in Seq(Nat)
      /\ \A m \in 1 .. n : groups[m] # <<>>
      /\ Lists(FlattenSeq(groups) \o open, S)
      /\ Cardinality(S) \in Nat
      /\ n + (IF open = <<>> THEN 0 ELSE 1) <= Cardinality(S)
  BY <1>1 DEF Divided
<1>3. ASSUME NEW k \in Nat
      PROVE  /\ loops[k].index \in Nat /\ ~loops[k].thrown
             /\ k < n => loops[k].index = 0 /\ loops[k].cover = groups[k + 1]
             /\ k >= n => loops[k].index = k - n /\ loops[k].cover = open
  <2>1. loops[k] \in LoopStates
    OBVIOUS
  <2>2. loops[k].index \in Nat /\ loops[k].thrown = FALSE
    BY <2>1 DEF LoopStates
  <2>3. StandsAt(loops[k], k, groups, open)
    BY DEF Divided
  <2> QED
    BY <1>1, <2>2, <2>3 DEF StandsAt
<1> DEFINE flat == FlattenSeq(groups)
<1>4. flat \in Seq(Nat)
  BY <1>2, FlattenIsSequence
<1>5. ASSUME NEW k \in Nat
      PROVE  IsSlice(loops[k]) <=> k < n \/ (k = n /\ open # <<>>)
  <2>1. CASE k < n
    <3>1. k + 1 \in 1 .. n
      BY <2>1
    <3> QED
      BY <1>2, <1>3, <2>1, <3>1 DEF IsSlice
  <2>2. CASE k = n
    BY <1>3, <2>2 DEF IsSlice
  <2>3. CASE k > n
    BY <1>3, <2>3 DEF IsSlice
  <2> QED
    BY <2>1, <2>2, <2>3
<1>6. ASSUME NEW k \in 1 .. n
      PROVE  loops[k - 1].cover = groups[k]
  <2>1. k - 1 \in Nat /\ k - 1 < n /\ (k - 1) + 1 = k
    OBVIOUS
  <2> QED
    BY <1>3, <2>1
<1> HIDE DEF flat
<1>7. CASE open = <<>>
  <2>1. flat \o open = flat
    BY <1>4, <1>7, ConcatEmptySeq
  <2> QED
    BY <1>1, <1>2, <1>5, <1>6, <1>7, <2>1 DEF flat
<1>8. CASE open # <<>>
  <2> DEFINE slices == Append(groups, open)
  <2>1. /\ slices \in Seq(Seq(Nat)) /\ Len(slices) = n + 1
        /\ slices[n + 1] = open
        /\ \A m \in 1 .. n : slices[m] = groups[m]
    BY <1>1, <1>2, <1>8, GrownGroups
  <2>2. FlattenSeq(slices) = flat \o open
    BY <1>2, FlattenAppend DEF flat
  <2> HIDE DEF slices
  <2>3. Len(slices) <= Cardinality(S)
    BY <1>2, <1>8, <2>1
  <2>4. \A k \in Nat : IsSlice(loops[k]) <=> k < Len(slices)
    BY <1>5, <1>8, <2>1
  <2>5. ASSUME NEW k \in 1 .. Len(slices)
        PROVE  loops[k - 1].cover = slices[k]
    <3>1. CASE k = n + 1
      <4>1. k - 1 = n /\ n >= n
        BY <3>1
      <4> QED
        BY <1>3, <2>1, <3>1, <4>1
    <3>2. CASE k \in 1 .. n
      BY <1>6, <2>1, <3>2
    <3> QED
      BY <2>1, <3>1, <3>2
  <2> QED
    BY <1>2, <2>1, <2>2, <2>3, <2>4, <2>5 DEF flat
<1> QED
  BY <1>7, <1>8

LEMMA UntilNoneAre ==
  ASSUME NEW c \in Nat, NEW n \in 0 .. c, NEW compiled, DOMAIN compiled = 0 .. c,
         \A k \in 0 .. c : IsSlice(compiled[k]) <=> k < n
  PROVE  UntilNone(compiled) = [k \in 1 .. n |-> compiled[k - 1]]
<1> DEFINE Counts == {m \in DOMAIN compiled :
                        \A k \in 0 .. m - 1 : IsSlice(compiled[k])}
<1>1. n \in Counts
  OBVIOUS
<1>2. ASSUME NEW m \in Counts
      PROVE  m <= n
  <2> SUFFICES ASSUME m > n
               PROVE  FALSE
    OBVIOUS
  <2>1. m \in 0 .. c /\ n \in 0 .. m - 1 /\ n \in 0 .. c
    OBVIOUS
  <2>2. IsSlice(compiled[n])
    BY <2>1
  <2> QED
    BY <2>1, <2>2
<1>3. \A m \in Counts : m \in Nat
  OBVIOUS
<1>4. UntilNone(compiled) = [k \in 1 .. Max(Counts) |-> compiled[k - 1]]
  BY DEF UntilNone
<1> HIDE DEF Counts
<1>5. Max(Counts) = n
  <2>1. Max(Counts) \in Counts /\ \A m \in Counts : Max(Counts) >= m
    BY <1>1, <1>2, <1>3 DEF Max
  <2>2. PICK top : top = Max(Counts)
    OBVIOUS
  <2>3. top \in Nat /\ top <= n /\ top >= n /\ n \in Nat
    BY <1>1, <1>2, <1>3, <2>1, <2>2
  <2>4. top = n
    BY <2>3
  <2> QED
    BY <2>2, <2>4
<1> QED
  BY <1>4, <1>5

LEMMA ListedIsMeasured ==
  ASSUME NEW s, NEW S, Lists(s, S)
  PROVE  Range(s) = S /\ \A a, b \in DOMAIN s : a < b => s[a] < s[b]
<1>1. DOMAIN s = 1 .. Len(s)
  BY LenProperties DEF Lists
<1>2. Range(s) = S
  BY <1>1 DEF Lists, Range
<1>3. \A a, b \in DOMAIN s : a < b => s[a] < s[b]
  BY <1>1 DEF Lists
<1> QED
  BY <1>2, <1>3

(* Whatever is decided of its assertions, the slices of a program measure  *)
(* those that are kept.                                                    *)
LEMMA SlicesMeasure ==
  ASSUME NEW p, p.n \in Nat, NEW opt \in 0 .. 2, NEW fates, Decided(fates),
         DOMAIN fates \subseteq 0 .. p.n - 1
  PROVE  MeasuredAreKept(SlicesOf(p, opt, fates), fates)
<1> DEFINE n == p.n
           S == Kept(fates, n)
           F == [k \in Nat |-> CHOOSE f : Runs(p, opt, fates, k, f)]
           loops == [k \in Nat |-> F[k][p.n]]
           c == Cardinality(DOMAIN fates)
           compiled == [k \in 0 .. c |-> Compiled(p, opt, fates, k)]
<1>1. \A k \in Nat : Runs(p, opt, fates, k, F[k])
  BY LoopRuns
<1>2. \A k \in Nat : loops[k] \in LoopStates /\ Compiled(p, opt, fates, k) = loops[k]
  <2>1. p.n \in 0 .. p.n
    OBVIOUS
  <2> QED
    BY <1>1, <2>1 DEF Runs
<1>3. loops \in [Nat -> LoopStates]
  BY <1>2
<1>4. S = {i \in DOMAIN fates : fates[i] = "kept"}
  BY DEF Kept
<1>5. IsFiniteSet(DOMAIN fates) /\ c \in Nat /\ Cardinality(S) <= c
  <2>1. 0 \in Int /\ n - 1 \in Int
    OBVIOUS
  <2>2. IsFiniteSet(0 .. n - 1)
    BY <2>1, FS_Interval
  <2>3. IsFiniteSet(DOMAIN fates)
    BY <2>2, FS_Subset
  <2>4. S \subseteq DOMAIN fates
    BY DEF Kept
  <2> QED
    BY <2>3, <2>4, FS_Subset, FS_CardinalityType
<1>6. PICK groups, open : Divided(loops, opt, S, groups, open)
  <2> HIDE DEF F
  <2> QED
    BY <1>1, LoopsDivide
<1> HIDE DEF loops, S, F
<1>7. PICK slices \in Seq(Seq(Nat)) :
        /\ Lists(FlattenSeq(slices), S)
        /\ Len(slices) <= Cardinality(S)
        /\ \A k \in Nat : IsSlice(loops[k]) <=> k < Len(slices)
        /\ \A k \in 1 .. Len(slices) : loops[k - 1].cover = slices[k]
  BY <1>3, <1>6, LastGroup
<1>8. PICK m \in Nat : m = Len(slices)
  BY LenProperties
<1>9. m \in 0 .. c
  <2>1. Cardinality(S) \in Nat
    BY <1>6 DEF Divided
  <2> QED
    BY <1>5, <1>7, <1>8, <2>1
<1>10. DOMAIN compiled = 0 .. c /\ \A k \in 0 .. c : compiled[k] = loops[k]
  BY <1>2, <1>5
<1>11. SlicesOf(p, opt, fates) = UntilNone(compiled)
  BY DEF SlicesOf
<1> HIDE DEF compiled, c
<1>12. \A k \in 0 .. c : IsSlice(compiled[k]) <=> k < m
  BY <1>5, <1>7, <1>8, <1>10
<1>13. UntilNone(compiled) = [k \in 1 .. m |-> compiled[k - 1]]
  BY <1>5, <1>9, <1>10, <1>12, UntilNoneAre
<1> DEFINE got == SlicesOf(p, opt, fates)
           measured == FlattenSeq([k \in DOMAIN got |-> got[k].cover])
<1>14. [k \in DOMAIN got |-> got[k].cover] = slices
  <2>1. got = [k \in 1 .. m |-> compiled[k - 1]]
    BY <1>11, <1>13
  <2> HIDE DEF got
  <2>2. DOMAIN got = 1 .. m
    BY <2>1
  <2>3. ASSUME NEW k \in 1 .. m
        PROVE  got[k].cover = slices[k]
    <3>1. k - 1 \in 0 .. c
      BY <1>5, <1>9
    <3> QED
      BY <1>7, <1>8, <1>10, <2>1, <3>1
  <2>4. slices = [k \in 1 .. m |-> slices[k]]
    BY <1>8, LenProperties
  <2> QED
    BY <2>2, <2>3, <2>4
<1>15. Lists(measured, S)
  BY <1>7, <1>14
<1> HIDE DEF measured
<1>16. Range(measured) = S
       /\ \A a, b \in DOMAIN measured : a < b => measured[a] < measured[b]
  BY <1>15, ListedIsMeasured
<1> QED
  BY <1>4, <1>16 DEF MeasuredAreKept, measured

(* The compiler decides each assertion of a program, or throws.            *)
LEMMA FatesAre ==
  ASSUME NEW p, NEW opt
  PROVE  /\ DOMAIN Fates(p, opt) = Assertions(p)
         /\ \A i \in DOMAIN Fates(p, opt) :
              Fates(p, opt)[i] \in {"kept", "cancelled", "throws"}
  BY DEF Fates, Cancellation, CancelledBy

LEMMA SlicesMeasureAll ==
  ASSUME NEW p, p.n \in Nat, DOMAIN p.type \subseteq 0 .. p.n - 1
  PROVE  EveryAssertionIsMeasuredIn(p)
<1> SUFFICES ASSUME NEW opt \in 0 .. 2
             PROVE  MeasuredAreKept(Slices(p, opt), Fates(p, opt))
  BY DEF EveryAssertionIsMeasuredIn
<1> DEFINE fates == Fates(p, opt)
<1>1. DOMAIN fates \subseteq 0 .. p.n - 1
  BY FatesAre DEF Assertions
<1>2. \A i \in DOMAIN fates : fates[i] \in {"kept", "cancelled", "throws"}
  BY FatesAre
<1>3. Slices(p, opt) = SlicesOf(p, opt, fates)
  BY DEF Slices
<1> HIDE DEF fates
<1>4. CASE \A i \in DOMAIN fates : fates[i] # "throws"
  <2>1. Decided(fates)
    BY <1>2, <1>4 DEF Decided
  <2>2. MeasuredAreKept(SlicesOf(p, opt, fates), fates)
    BY <1>1, <2>1, SlicesMeasure
  <2> QED
    BY <1>3, <2>2 DEF fates
<1>5. CASE ~(\A i \in DOMAIN fates : fates[i] # "throws")
  <2>1. MeasuredAreKept(SlicesOf(p, opt, fates), fates)
    BY <1>5 DEF MeasuredAreKept
  <2> QED
    BY <1>3, <2>1 DEF fates
<1> QED
  BY <1>4, <1>5

-----------------------------------------------------------------------------
(* The programs of the run.                                                *)

Sources == Statements \cup Range(Preamble)

LEMMA InstructionsAreSequence ==
  ASSUME NEW source \in Seq(Sources)
  PROVE  Instructions(source) \in Seq(UNION {Range(InstructionsOf(source, source[k],
                                                     LineOf(source, k))) :
                                               k \in 1 .. Len(source)})
<1> DEFINE Part(k) == InstructionsOf(source, source[k], LineOf(source, k))
           parts == [k \in 1 .. Len(source) |-> Part(k)]
           X == UNION {Range(Part(k)) : k \in 1 .. Len(source)}
<1>1. PICK n \in Nat : n = Len(source)
  BY LenProperties
<1>2. ASSUME NEW k \in 1 .. n
      PROVE  Part(k) \in Seq(Range(Part(k)))
  <2> DEFINE st == source[k]
             line == LineOf(source, k)
             first == Instruction(source, st, line, TopLevel)
             inner == [j \in 1 .. Len(st.body) |->
                         Instruction(source, st.body[j], line + j, line)]
             last == ReturnOf(line)
  <2>1. st \in Sources
    BY <1>1
  <2>2. st.is = "def" => Len(st.body) \in Nat
    BY <2>1, SourceShapes, LenProperties DEF Sources
  <2>3. Part(k) = <<first>> \o IF st.is # "def" THEN <<>> ELSE inner \o <<last>>
    BY DEF InstructionsOf
  <2> HIDE DEF first, inner, last, st, Part
  <2> DEFINE All == {first, last} \cup Range(inner)
  <2>4. first \in All /\ last \in All
    OBVIOUS
  <2>5. ASSUME st.is = "def"
        PROVE  inner \in Seq(All)
    <3>1. PICK m \in Nat : m = Len(st.body)
      BY <2>2, <2>5
    <3>2. DOMAIN inner = 1 .. m /\ inner = [j \in 1 .. m |-> inner[j]]
      BY <3>1 DEF inner
    <3> HIDE DEF inner
    <3>3. \A j \in 1 .. m : inner[j] \in All
      BY <3>2 DEF Range
    <3> HIDE DEF All
    <3> QED
      BY <3>2, <3>3, FunctionIsSequence
  <2> HIDE DEF All
  <2>6. Part(k) \in Seq(All)
    BY <2>3, <2>4, <2>5
  <2> QED
    BY <2>6 DEF Range
<1> HIDE DEF Part
<1>3. parts \in Seq(Seq(X))
  <2>1. ASSUME NEW k \in 1 .. n
        PROVE  Part(k) \in Seq(X)
    <3> DEFINE R == Range(Part(k))
    <3>1. R \subseteq X
      BY <1>1
    <3>2. Part(k) \in Seq(R)
      BY <1>2
    <3> HIDE DEF R, X
    <3> QED
      BY <3>1, <3>2
  <2> HIDE DEF X
  <2> QED
    BY <1>1, <2>1
<1> HIDE DEF X, parts
<1>4. FlattenSeq(parts) \in Seq(X)
  BY <1>3, FlattenIsSequence
<1> QED
  BY <1>4 DEF Instructions, parts, X, Part

LEMMA TablesAreNumbered ==
  ASSUME NEW source \in Seq(Sources), NEW p, p = PreprocessNamed(source)
  PROVE  p.n \in Nat /\ DOMAIN p.type \subseteq 0 .. p.n - 1
<1>1. p.n = Preprocess(source).n /\ p.type = Preprocess(source).type
  BY DEF PreprocessNamed, NamedTables
<1>2. /\ Preprocess(source).n = Len(Instructions(source))
      /\ DOMAIN Preprocess(source).type = 0 .. Preprocess(source).n - 1
  BY DEF Preprocess, TablesOf
<1>3. Len(Instructions(source)) \in Nat
  BY InstructionsAreSequence, LenProperties
<1> QED
  BY <1>1, <1>2, <1>3

SliceInv == /\ src \in Seq(Sources)
            /\ \A p \in tables : p.n \in Nat /\ DOMAIN p.type \subseteq 0 .. p.n - 1

LEMMA LoadedAreNumbered ==
  ASSUME NEW source \in Seq(Sources)
  PROVE  \A p \in Loaded(source) : p.n \in Nat /\ DOMAIN p.type \subseteq 0 .. p.n - 1
  BY TablesAreNumbered DEF Loaded

LEMMA ProgramsAreNumbered == Spec => []SliceInv
<1>1. Init => SliceInv
  <2> SUFFICES ASSUME Init
               PROVE  SliceInv
    OBVIOUS
  <2>1. Preamble \in Seq(Sources)
    <3> DEFINE R == Range(Preamble)
    <3>1. Preamble \in Seq(R) /\ R \subseteq Sources
      BY SourceShapes DEF Sources
    <3> HIDE DEF R
    <3> QED
      BY <3>1
  <2> QED
    BY <2>1, LoadedAreNumbered DEF Init, SliceInv
<1>2. SliceInv /\ [Next]_<<src, tables>> => SliceInv'
  <2> SUFFICES ASSUME SliceInv, [Next]_<<src, tables>>
               PROVE  SliceInv'
    OBVIOUS
  <2>1. ASSUME NEW st \in Statements, Write(st)
        PROVE  SliceInv'
    <3>1. src' = Append(src, st) /\ tables' = Loaded(src')
      BY <2>1 DEF Write
    <3>2. src \in Seq(Sources) /\ st \in Sources
      BY DEF SliceInv, Sources
    <3>3. Append(src, st) \in Seq(Sources)
      BY <3>2
    <3> QED
      BY <3>1, <3>3, LoadedAreNumbered DEF SliceInv
  <2>2. CASE UNCHANGED <<src, tables>>
    BY <2>2 DEF SliceInv
  <2> QED
    BY <2>1, <2>2 DEF Next
<1> QED
  BY <1>1, <1>2, PTL DEF Spec

(* Asked for slice after slice, the assertion compiler measures every      *)
(* assertion it has not cancelled, once and in order: in every program, at *)
(* each optimization level, whatever commutes and is independent.          *)
THEOREM SlicesCorrect == Spec => []EveryAssertionIsMeasured
<1>1. SliceInv => EveryAssertionIsMeasured
  BY SlicesMeasureAll DEF SliceInv, EveryAssertionIsMeasured
<1> QED
  BY <1>1, ProgramsAreNumbered, PTL

=============================================================================
