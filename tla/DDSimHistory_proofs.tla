------------------------ MODULE DDSimHistory_proofs ------------------------
(***************************************************************************)
(* Stepping back leads where the client came from, in every well-formed    *)
(* program: the stacks the code keeps determine the places it passed.      *)
(*                                                                         *)
(* The invariant is FlowInv with its path given a name: the history        *)
(* variable is the witness whose existence FlowInv states.                 *)
(***************************************************************************)
EXTENDS DDSimHistory, DDSimDebug_proofs

HInv == FlowInv /\ PastIsAPath

(* The history variables never get in the way of the engine.               *)
LEMMA EngineStep ==
  ASSUME [HNext]_historyVars
  PROVE  [Next]_vars
<1>1. CASE HNext
  BY <1>1 DEF HNext, Next, StepForward
<1>2. CASE UNCHANGED historyVars
  BY <1>2 DEF historyVars
<1> QED
  BY <1>1, <1>2

(* Forward steps that remember where they were made from.                  *)
LEMMA PastGrows ==
  ASSUME HInv, Advance, Remember
  PROVE  PastIsAPath' /\ Flow' = Forward(Table, Flow)
<1>1. Ahead(Table, Flow)
  BY FlowAhead DEF HInv, Advance
<1>2. Forward(Table, Flow) \in Flows(Table)
  BY <1>1, ForwardIsNested
<1>3. Flow' = Forward(Table, Flow) /\ Table' = Table
  BY <1>2, SetFlowSets DEF Advance, Table, code
<1>4. IsPath(Table, Append(past, Flow), Forward(Table, Flow))
  BY <1>1, PathForward DEF HInv, PastIsAPath
<1> QED
  BY <1>3, <1>4 DEF PastIsAPath, Remember

(* Backward steps lead to the last place remembered.                       *)
LEMMA PastShrinks ==
  ASSUME HInv, Retreat, past' = Front(past)
  PROVE  PastIsAPath' /\ Flow' = Last(past) /\ past # <<>>
<1>1. Flow.prev # <<>> /\ Flow \in Flows(Table)
  BY DEF Retreat, CanStepBackward, Flow, HInv, FlowInv
<1>2. /\ past # <<>> /\ Backward(Flow) = Last(past)
      /\ Ahead(Table, Last(past)) /\ IsPath(Table, Front(past), Last(past))
  BY <1>1, TableIsWellFormed, PathBackward DEF HInv, PastIsAPath
<1>3. Flow' = Last(past) /\ Table' = Table
  BY <1>2, SetFlowSets DEF Ahead, Retreat, Table, code
<1> QED
  BY <1>2, <1>3 DEF PastIsAPath

(* A way back that is closed is a path of no places.                       *)
LEMMA PastIsForgotten ==
  ASSUME past' = <<>>, previousInstructionStack' = <<>>
  PROVE  PastIsAPath'
<1>1. Flow'.prev = <<>>
  BY DEF Flow
<1> QED
  BY <1>1, PathStart DEF PastIsAPath

LEMMA PastIsKept ==
  ASSUME HInv, UNCHANGED <<prog, flow, past>>
  PROVE  PastIsAPath'
  BY DEF HInv, PastIsAPath, flow, Flow, Table

LEMMA RetreatsBack ==
  ASSUME StepBackward, CanStepBackward
  PROVE  Retreat
  BY DEF StepBackward, StepBackwardRefused, BackPastControl, BackPastBarrier,
         BackPastGate, BackUnsupportedThrows, BackRunsOffCircuit, BackOver

LEMMA StaysWhenRefused ==
  ASSUME StepBackward, ~CanStepBackward
  PROVE  UNCHANGED <<prog, flow>>
  BY DEF StepBackward, StepBackwardRefused, BackPastControl, BackPastBarrier,
         BackPastGate, BackUnsupportedThrows, BackRunsOffCircuit, BackOver,
         Retreat, code

(* Every step moves along the path in one of those ways.                   *)
LEMMA PathStep ==
  ASSUME HInv, [HNext]_historyVars
  PROVE  PastIsAPath'
<1>1. CASE Advance /\ Remember
  BY <1>1, PastGrows
<1>2. CASE StepCollapses /\ Forget
  <2>1. previousInstructionStack' = <<>> 
    BY <1>2 DEF StepCollapses, SetFlow, Forward, Closed
  <2> QED
    BY <1>2, <2>1, PastIsForgotten DEF Forget
<1>3. CASE StepStopsAtAssertion /\ Keep
  BY <1>3, FlowStops, PastIsKept DEF StepStopsAtAssertion, Keep, code, HInv
<1>4. CASE StepForwardRefused /\ Keep
  BY <1>4, PastIsKept DEF StepForwardRefused, Keep, code
<1>5. CASE StepBackward /\ IF CanStepBackward THEN Recall ELSE Keep
  <2>1. CASE CanStepBackward
    BY <1>5, <2>1, RetreatsBack, PastShrinks DEF Recall
  <2>2. CASE ~CanStepBackward
    BY <1>5, <2>2, StaysWhenRefused, PastIsKept DEF Keep
  <2> QED
    BY <2>1, <2>2
<1>6. CASE (\E p \in Programs : LoadCode(p)) /\ Forget
  BY <1>6, PastIsForgotten DEF LoadCode, Forget, SetFlow, FlowStart
<1>7. CASE (\E p \in Programs \cup {NoProgram} : LoadRejected(p)) /\ Forget
  BY <1>7, PastIsForgotten DEF LoadRejected, Forget, SetFlow, FlowStart
<1>8. CASE ResetSimulation /\ Forget
  BY <1>8, PastIsForgotten DEF ResetSimulation, Forget, SetFlow, FlowStart
<1>9. CASE (\E i \in 0 .. Table.n - 1 : SetBreakpoint(i)) /\ Keep
  BY <1>9, PastIsKept DEF SetBreakpoint, Keep, code
<1>10. CASE ClearBreakpoints /\ Keep
  BY <1>10, PastIsKept DEF ClearBreakpoints, Keep, code
<1>11. CASE Edit /\ KeepPlaces
  BY <1>11, PastIsKept DEF Edit, ChangeClassicalVariableValue,
                           ChangeAmplitudeValue, KeepPlaces, code
<1>12. CASE UNCHANGED historyVars
  BY <1>12, PastIsKept DEF historyVars, vars, code
<1> QED
  BY <1>1, <1>2, <1>3, <1>4, <1>5, <1>6, <1>7, <1>8, <1>9, <1>10, <1>11,
     <1>12
     DEF HNext, StepControl, StepPastAssertion, StepAssertionThrows,
         StepAssertionCrashes, StepBarrier, StepGate, StepUnsupportedThrows,
         StepRunsOffCircuit

LEMMA PastStep ==
  ASSUME HInv, [HNext]_historyVars
  PROVE  HInv'
<1>1. FlowInv'
  BY EngineStep, FlowStep DEF HInv
<1> QED
  BY <1>1, PathStep DEF HInv

LEMMA PastInit == HInit => HInv
<1> SUFFICES ASSUME HInit PROVE HInv
  OBVIOUS
<1>1. Flow.prev = <<>> /\ past = <<>>
  BY DEF HInit, Init, Flow
<1>2. PastIsAPath
  BY <1>1, PathStart DEF PastIsAPath
<1> QED
  BY <1>2, FlowInit DEF HInit, HInv

(* The places passed lead, one forward step each, to the present one.      *)
THEOREM PastCorrect == HSpec => []PastIsAPath
<1>1. HInv /\ [HNext]_historyVars => HInv'
  BY PastStep
<1>2. HInv => PastIsAPath
  BY DEF HInv
<1> QED
  BY PastInit, <1>1, <1>2, PTL DEF HSpec

(* A step back leads to the place the last forward step was made from,     *)
(* with its calls and its pending returns.                                 *)
THEOREM StepBackCorrect == HSpec => StepBackRestoresPlace
<1>1. HInv /\ [HNext]_historyVars => HInv'
  BY PastStep
<1>2. ASSUME HInv, [HNext]_historyVars
      PROVE  [StepBackward /\ CanStepBackward
                => Flow' = Last(past)]_historyVars
  <2> SUFFICES ASSUME StepBackward, CanStepBackward
               PROVE  Flow' = Last(past)
    OBVIOUS
  <2>1. Retreat
    BY RetreatsBack
  <2>2. Flow.prev # <<>> /\ Flow \in Flows(Table)
    BY <1>2 DEF CanStepBackward, Flow, HInv, FlowInv
  <2>3. Backward(Flow) = Last(past) /\ Ahead(Table, Last(past))
    BY <1>2, <2>2, TableIsWellFormed, PathBackward DEF HInv, PastIsAPath
  <2> QED
    BY <2>1, <2>3, SetFlowSets DEF Ahead, Retreat
<1> QED
  BY PastInit, <1>1, <1>2, PTL DEF HSpec, StepBackRestoresPlace

-----------------------------------------------------------------------------
(* The refinement.                                                         *)

(* The places of the flows passed.                                         *)
Places(h) == [k \in 1 .. Len(h) |-> Place(h[k])]

LEMMA PlacesGrow ==
  ASSUME NEW S, NEW h \in Seq(S), NEW f \in S
  PROVE  Places(Append(h, f)) = Append(Places(h), Place(f))
<1>1. Len(h) \in Nat /\ Places(h) \in Seq({Place(g) : g \in S})
  BY LenProperties, ElementOfSeq DEF Places
<1>2. Len(Places(h)) = Len(h)
  BY <1>1, LenProperties DEF Places
<1>3. /\ Len(Append(h, f)) = Len(h) + 1
      /\ \A k \in 1 .. Len(h) + 1 :
           Append(h, f)[k] = IF k = Len(h) + 1 THEN f ELSE h[k]
  BY <1>1, AppendProperties
<1> DEFINE a == Append(Places(h), Place(f))
           b == Places(Append(h, f))
           T == {Place(g) : g \in S}
<1>4. /\ a \in Seq(T) /\ Len(a) = Len(h) + 1
      /\ \A k \in 1 .. Len(h) + 1 :
           a[k] = IF k = Len(h) + 1 THEN Place(f) ELSE Place(h[k])
  BY <1>1, <1>2, AppendProperties DEF Places
<1>5. /\ b = [k \in 1 .. Len(h) + 1 |-> Place(Append(h, f)[k])]
      /\ \A k \in 1 .. Len(h) + 1 : Append(h, f)[k] \in S
  BY <1>1, <1>3, ElementOfSeq DEF Places
<1>6. /\ b \in Seq(T) /\ Len(b) = Len(h) + 1
      /\ \A k \in 1 .. Len(h) + 1 : b[k] = Place(Append(h, f)[k])
  BY <1>1, <1>5, LenProperties
<1>7. \A k \in 1 .. Len(h) + 1 : a[k] = b[k]
  BY <1>3, <1>4, <1>6
<1> QED
  BY <1>4, <1>6, <1>7, SeqEqual

LEMMA PlacesShrink ==
  ASSUME NEW S, NEW h \in Seq(S), h # <<>>
  PROVE  LET q == Places(h)
         IN  /\ q # <<>> /\ q[Len(q)] = Place(Last(h))
             /\ SubSeq(q, 1, Len(q) - 1) = Places(Front(h))
<1> DEFINE q == Places(h)
           T == {Place(g) : g \in S}
<1>1. /\ Front(h) \in Seq(S) /\ Last(h) \in S
      /\ Append(Front(h), Last(h)) = h
  BY PopPush
<1>2. q = Append(Places(Front(h)), Place(Last(h)))
  BY <1>1, PlacesGrow
<1>3. Places(Front(h)) \in Seq(T) /\ Place(Last(h)) \in T
  <2>1. Len(Front(h)) \in Nat
    BY <1>1, LenProperties
  <2>2. \A k \in 1 .. Len(Front(h)) : Front(h)[k] \in S
    BY <1>1, ElementOfSeq
  <2> QED
    BY <1>1, <2>1, <2>2 DEF Places
<1>4. q # <<>> /\ Last(q) = Place(Last(h)) /\ Front(q) = Places(Front(h))
  BY <1>2, <1>3, PushPop
<1> QED
  BY <1>4 DEF Last, Front

(* Where a forward step leads depends on the place alone.                  *)
LEMMA StepOfPlace ==
  StepPlace(prog, Place(Flow)) = Place(Forward(Table, Flow))
  BY DEF StepPlace, Place, Forward, Table, FlowStart

(* Each way the past changes is a step of the abstract debugger.           *)
LEMMA OnwardStep ==
  ASSUME HInv, Advance, Remember
  PROVE  Promise!Onward
<1>1. InsidePlace(prog, Place(Flow))
  BY DEF Advance, CanStepForward, InsidePlace, Place, Flow, Table
<1>2. Place(Flow)' = StepPlace(prog, Place(Flow)) /\ prog' = prog
  BY PastGrows, StepOfPlace DEF Advance, code, Place
<1>3. Places(past)' = Append(Places(past), Place(Flow))
  BY PlacesGrow DEF Remember, HInv, FlowInv, PastIsAPath, IsPath
<1> QED
  BY <1>1, <1>2, <1>3 DEF Promise!Onward, Places

LEMMA BackStep ==
  ASSUME HInv, Retreat, Recall
  PROVE  Promise!Back
<1>1. Flow' = Last(past) /\ past # <<>> /\ prog' = prog
  BY PastShrinks DEF Recall, Retreat, code
<1>2. past \in Seq(Flows(Table))
  BY DEF HInv, PastIsAPath, IsPath
<1>3. LET q == Places(past)
      IN  /\ q # <<>> /\ Place(Flow)' = q[Len(q)]
          /\ Places(past)' = SubSeq(q, 1, Len(q) - 1)
  BY <1>1, <1>2, PlacesShrink DEF Recall, Place
<1> QED
  BY <1>1, <1>3 DEF Promise!Back, Places

LEMMA CollapseStep ==
  ASSUME HInv, StepCollapses, Forget
  PROVE  Promise!OnwardForGood
<1> DEFINE f == Forward(Table, Flow)
           g == Closed(f)
<1>1. CanStepForward /\ SetFlow(g) /\ prog' = prog
  BY DEF StepCollapses, Simulates, code
<1>2. InsidePlace(prog, Place(Flow))
  BY <1>1 DEF CanStepForward, InsidePlace, Place, Flow, Table
<1>3. f \in Flows(Table)
  BY <1>1, FlowAhead, ForwardIsNested DEF HInv
<1> HIDE DEF f
<1>4. g \in Flows(Table) /\ g.pos = f.pos /\ g.calls = f.calls
  BY <1>3, EmptySeq DEF Flows, Closed
<1>5. Flow' = g
  BY <1>1, <1>4, SetFlowSets
<1>6. Place(Flow)' = StepPlace(prog, Place(Flow))
  BY <1>4, <1>5, StepOfPlace DEF Place, f
<1>7. Places(past)' = <<>>
  BY DEF Forget, Places
<1> QED
  BY <1>1, <1>2, <1>6, <1>7 DEF Promise!OnwardForGood, Places

LEMMA StartOverStep ==
  ASSUME SetFlow(FlowStart), Forget
  PROVE  Promise!StartOver
<1>1. Place(Flow)' = Place(FlowStart)
  BY DEF Place, SetFlow, FlowStart, Flow
<1>2. Places(past)' = <<>>
  BY DEF Forget, Places
<1> QED
  BY <1>1, <1>2 DEF Promise!StartOver, Places

LEMMA StutterStep ==
  ASSUME UNCHANGED <<prog, flow, past>>
  PROVE  UNCHANGED <<prog, Place(Flow), Places(past)>>
  BY DEF flow, Flow, Place, Places

LEMMA PromiseStep ==
  ASSUME HInv, [HNext]_historyVars
  PROVE  [Promise!Next]_<<prog, Place(Flow), Places(past)>>
<1>1. CASE Advance /\ Remember
  BY <1>1, OnwardStep DEF Promise!Next
<1>2. CASE StepCollapses /\ Forget
  BY <1>2, CollapseStep DEF Promise!Next
<1>3. CASE StepStopsAtAssertion /\ Keep
  BY <1>3, FlowStops, StutterStep DEF StepStopsAtAssertion, Keep, code, HInv
<1>4. CASE StepForwardRefused /\ Keep
  BY <1>4, StutterStep DEF StepForwardRefused, Keep, code
<1>5. CASE StepBackward /\ IF CanStepBackward THEN Recall ELSE Keep
  <2>1. CASE CanStepBackward
    BY <1>5, <2>1, RetreatsBack, BackStep DEF Promise!Next
  <2>2. CASE ~CanStepBackward
    BY <1>5, <2>2, StaysWhenRefused, StutterStep DEF Keep
  <2> QED
    BY <2>1, <2>2
<1>6. CASE (\E p \in Programs : LoadCode(p)) /\ Forget
  BY <1>6, StartOverStep DEF LoadCode, Promise!Next
<1>7. CASE (\E p \in Programs \cup {NoProgram} : LoadRejected(p)) /\ Forget
  BY <1>7, StartOverStep DEF LoadRejected, Promise!Next
<1>8. CASE ResetSimulation /\ Forget
  BY <1>8, StartOverStep DEF ResetSimulation, Promise!Next
<1>9. CASE (\E i \in 0 .. Table.n - 1 : SetBreakpoint(i)) /\ Keep
  BY <1>9, StutterStep DEF SetBreakpoint, Keep, code
<1>10. CASE ClearBreakpoints /\ Keep
  BY <1>10, StutterStep DEF ClearBreakpoints, Keep, code
<1>11. CASE Edit /\ KeepPlaces
  BY <1>11, StutterStep DEF Edit, ChangeClassicalVariableValue,
                            ChangeAmplitudeValue, KeepPlaces, code
<1>12. CASE UNCHANGED historyVars
  BY <1>12, StutterStep DEF historyVars, vars, code
<1> QED
  BY <1>1, <1>2, <1>3, <1>4, <1>5, <1>6, <1>7, <1>8, <1>9, <1>10, <1>11,
     <1>12
     DEF HNext, StepControl, StepPastAssertion, StepAssertionThrows,
         StepAssertionCrashes, StepBarrier, StepGate, StepUnsupportedThrows,
         StepRunsOffCircuit

LEMMA PromiseInit == HInit => Promise!Init
  BY DEF HInit, Init, Promise!Init, Place, Flow, FlowStart

(* The engine implements the time-travel debugger: with stacks that only   *)
(* remember calls and returns it behaves as one that remembers all places. *)
THEOREM TimeTravelImplemented == HSpec => ImplementsTimeTravel
<1>1. HInv /\ [HNext]_historyVars => HInv'
  BY PastStep
<1>2. ASSUME HInv, [HNext]_historyVars
      PROVE  [Promise!Next]_<<prog, Place(Flow),
                              [k \in 1 .. Len(past) |-> Place(past[k])]>>
  BY <1>2, PromiseStep DEF Places
<1> QED
  BY PastInit, PromiseInit, <1>1, <1>2, PTL
     DEF HSpec, ImplementsTimeTravel, Promise!Spec

-----------------------------------------------------------------------------
(* The data of the places passed. Like the places they form a trail: each  *)
(* snapshot leads to the next, and a step back reads the trail backward.   *)

Snapshots == [state : QStates, done : Nat]

Now == [state |-> simulationState, done |-> iterator]

(* What the operations of the circuit apply with the bits as they are.     *)
GatesNow == [k \in 1 .. Len(Table.ops) |-> EffectiveGate(Table.ops[k])]

(* The step from a place makes the snapshot e of the snapshot d.           *)
Makes(p, apply, f, d, e) ==
  IF p.type[f.pos] = "SIMULATE"
    THEN /\ d.done < Len(p.ops) /\ e.done = d.done + 1
         /\ \/ /\ p.ops[d.done + 1].kind = "barrier"
               /\ e.state = d.state
            \/ /\ p.ops[d.done + 1].kind \in {"gate", "if"}
               /\ e.state = Act[apply[d.done + 1]][d.state]
    ELSE e.state = d.state /\ e.done = d.done

IsTrail(p, apply, h, trail, e) ==
  /\ trail \in Seq(Snapshots) /\ Len(trail) <= Len(h)
  /\ \A k \in 1 .. Len(trail) :
       Makes(p, apply, h[Len(h) - Len(trail) + k], trail[k],
             IF k = Len(trail) THEN e ELSE trail[k + 1])

DataAreATrail == IsTrail(Table, GatesNow, past, pastData, Now)

TrailInv == Alive /\ ready /\ FollowsTables(Table) => DataAreATrail

LEMMA TrailStarts ==
  ASSUME NEW p, NEW apply, NEW e, NEW S, NEW h \in Seq(S)
  PROVE  IsTrail(p, apply, h, <<>>, e)
<1>1. <<>> \in Seq(Snapshots) /\ Len(<<>>) = 0 /\ Len(h) \in Nat
  BY EmptySeq
<1> QED
  BY <1>1 DEF IsTrail

LEMMA TrailGrows ==
  ASSUME NEW p, NEW apply, NEW S, NEW h \in Seq(S), NEW f \in S,
         NEW trail, NEW d \in Snapshots, NEW e,
         IsTrail(p, apply, h, trail, d), Makes(p, apply, f, d, e)
  PROVE  IsTrail(p, apply, Append(h, f), Append(trail, d), e)
<1> DEFINE m == Len(h)
           n == Len(trail)
           h2 == Append(h, f)
           t2 == Append(trail, d)
<1>1. trail \in Seq(Snapshots) /\ n <= m /\ n \in Nat /\ m \in Nat
  BY DEF IsTrail
<1>2. /\ Len(h2) = m + 1 /\ h2[m + 1] = f
      /\ \A k \in 1 .. m : h2[k] = h[k]
  BY AppendProperties
<1>3. /\ t2 \in Seq(Snapshots) /\ Len(t2) = n + 1 /\ t2[n + 1] = d
      /\ \A k \in 1 .. n : t2[k] = trail[k]
  BY <1>1, AppendProperties
<1> HIDE DEF h2, t2
<1>4. ASSUME NEW k \in 1 .. n + 1
      PROVE  Makes(p, apply, h2[m - n + k], t2[k],
                   IF k = n + 1 THEN e ELSE t2[k + 1])
  <2>1. CASE k = n + 1
    <3>1. h2[m - n + k] = f /\ t2[k] = d
      BY <1>1, <1>2, <1>3, <2>1
    <3> QED
      BY <2>1, <3>1
  <2>2. CASE k \in 1 .. n
    <3>1. /\ m - n + k \in 1 .. m /\ h2[m - n + k] = h[m - n + k]
          /\ t2[k] = trail[k] /\ k # n + 1
      BY <1>1, <1>2, <1>3, <2>2
    <3>2. t2[k + 1] = IF k = n THEN d ELSE trail[k + 1]
      BY <1>1, <1>3, <2>2
    <3>3. Makes(p, apply, h[m - n + k], trail[k],
                IF k = n THEN d ELSE trail[k + 1])
      BY <2>2 DEF IsTrail
    <3> QED
      BY <3>1, <3>2, <3>3
  <2> QED
    BY <1>1, <2>1, <2>2
<1>5. ASSUME NEW k \in 1 .. Len(t2)
      PROVE  Makes(p, apply, h2[Len(h2) - Len(t2) + k], t2[k],
                   IF k = Len(t2) THEN e ELSE t2[k + 1])
  <2>1. /\ k \in 1 .. n + 1 /\ Len(t2) = n + 1
        /\ Len(h2) - Len(t2) + k = m - n + k
    BY <1>1, <1>2, <1>3
  <2> QED
    BY <1>4, <2>1
<1>6. t2 \in Seq(Snapshots) /\ Len(t2) <= Len(h2)
  BY <1>1, <1>2, <1>3
<1>7. IsTrail(p, apply, h2, t2, e)
  BY <1>5, <1>6 DEF IsTrail
<1> QED
  BY <1>7 DEF h2, t2

LEMMA TrailShrinks ==
  ASSUME NEW p, NEW apply, NEW S, NEW h \in Seq(S), NEW trail, NEW e,
         IsTrail(p, apply, h, trail, e), trail # <<>>
  PROVE  /\ Makes(p, apply, Last(h), Last(trail), e)
         /\ IsTrail(p, apply, Front(h), Front(trail), Last(trail))
         /\ Last(trail) \in Snapshots
<1> DEFINE m == Len(h)
           n == Len(trail)
<1>1. /\ trail \in Seq(Snapshots) /\ n <= m /\ n \in Nat /\ m \in Nat
      /\ n > 0
  BY EmptySeq DEF IsTrail
<1>2. h # <<>>
  BY <1>1
<1>3. /\ Last(h) = h[m] /\ Len(Front(h)) = m - 1
      /\ \A k \in 1 .. m - 1 : Front(h)[k] = h[k]
  BY <1>2, PopPush
<1>4. /\ Last(trail) = trail[n] /\ Last(trail) \in Snapshots
      /\ Front(trail) \in Seq(Snapshots) /\ Len(Front(trail)) = n - 1
      /\ \A k \in 1 .. n - 1 : Front(trail)[k] = trail[k]
  BY <1>1, PopPush
<1>5. Makes(p, apply, h[m - n + n], trail[n], e)
  BY <1>1 DEF IsTrail
<1>6. Makes(p, apply, Last(h), Last(trail), e)
  <2>1. m - n + n = m
    BY <1>1
  <2> QED
    BY <1>3, <1>4, <1>5, <2>1
<1>7. ASSUME NEW k \in 1 .. n - 1
      PROVE  Makes(p, apply, Front(h)[(m - 1) - (n - 1) + k], Front(trail)[k],
                   IF k = n - 1 THEN Last(trail) ELSE Front(trail)[k + 1])
  <2>1. /\ (m - 1) - (n - 1) + k = m - n + k /\ m - n + k \in 1 .. m - 1
        /\ k \in 1 .. n /\ k # n
    BY <1>1
  <2>2. /\ Front(h)[m - n + k] = h[m - n + k] /\ Front(trail)[k] = trail[k]
    BY <1>3, <1>4, <2>1
  <2>3. trail[k + 1] = IF k = n - 1 THEN Last(trail) ELSE Front(trail)[k + 1]
    BY <1>1, <1>4, <2>1
  <2>4. Makes(p, apply, h[m - n + k], trail[k], trail[k + 1])
    BY <2>1 DEF IsTrail
  <2> QED
    BY <2>1, <2>2, <2>3, <2>4
<1> QED
  BY <1>1, <1>3, <1>4, <1>6, <1>7 DEF IsTrail

(* Inverting what a gate made of a state gives that state back.            *)
LEMMA UndoUndoes ==
  ASSUME NEW g \in Gates, NEW s \in QStates
  PROVE  Undo(g, Act[g][s]) = s
<1>1. \A t \in QStates : Act[g][t] = Act[g][s] => t = s
  BY GatesAreReversible
<1> QED
  BY <1>1 DEF Undo

(* What the engine has when its program is ready.                          *)
LEMMA TrailContext ==
  ASSUME HInv, TypeOK, ready
  PROVE  /\ circuit = prog /\ Table.ops = Code[circuit].ops
         /\ past \in Seq(Flows(Table)) /\ Flow \in Flows(Table)
         /\ Now \in Snapshots
         /\ Len(Table.ops) \in Nat
         /\ \A k \in 1 .. Len(Table.ops) :
              /\ Operation(k) = Table.ops[k]
              /\ GatesNow[k] = EffectiveGate(Table.ops[k])
              /\ GatesNow[k] \in Gates
<1>1. circuit = prog /\ circuit \in Programs \cup {NoProgram}
  BY DEF TypeOK
<1>2. Table.ops = Code[circuit].ops
  BY <1>1 DEF Table
<1>3. Len(Table.ops) \in Nat
  BY <1>1, <1>2, CircuitLength
<1>4. \A k \in 1 .. Len(Table.ops) :
        /\ Operation(k) = Table.ops[k]
        /\ GatesNow[k] = EffectiveGate(Table.ops[k])
        /\ GatesNow[k] \in Gates
  BY <1>1, <1>2, OperationTypes DEF Operation, GatesNow
<1>5. past \in Seq(Flows(Table)) /\ Flow \in Flows(Table)
  BY DEF HInv, PastIsAPath, IsPath, FlowInv
<1>6. Now \in Snapshots
  BY <1>1, <1>2, <1>3 DEF TypeOK, Now, Snapshots
<1> QED
  BY <1>1, <1>2, <1>3, <1>4, <1>5, <1>6

LEMMA GatesStay ==
  ASSUME UNCHANGED <<code, variables>>
  PROVE  GatesNow' = GatesNow /\ Table' = Table
  BY DEF GatesNow, EffectiveGate, ConditionMet, Table, code

(* A step forward makes what the step back will read, ...                  *)
LEMMA StepMakes ==
  ASSUME HInv, TypeOK, Advance, FollowsTables(Table), Alive',
         \/ StepControl \/ StepPastAssertion \/ StepAssertionThrows
         \/ StepAssertionCrashes \/ StepBarrier \/ StepGate
         \/ StepUnsupportedThrows \/ StepRunsOffCircuit
  PROVE  /\ UNCHANGED <<code, variables>>
         /\ Makes(Table, GatesNow, Flow, Now, Now')
<1> ready
  BY DEF Advance, CanStepForward
<1>1. /\ Flow.pos = currentInstruction
      /\ Now.state = simulationState /\ Now.done = iterator
      /\ Now'.state = simulationState' /\ Now'.done = iterator'
      /\ iterator \in Nat
  BY TrailContext DEF Flow, Now, Snapshots
<1>2. CASE StepControl \/ StepPastAssertion \/ StepAssertionThrows
  BY <1>1, <1>2 DEF StepControl, StepPastAssertion, StepAssertionThrows,
     Advance, data, Makes, TypeOf
<1>3. CASE StepBarrier
  <2>1. /\ iterator < Len(Table.ops) /\ Table.ops[iterator + 1].kind = "barrier"
        /\ TypeOf(currentInstruction) = "SIMULATE"
    BY <1>1, <1>3, TrailContext DEF StepBarrier, Simulates, NextOperation
  <2> QED
    BY <1>1, <1>3, <2>1 DEF StepBarrier, Advance, Makes, TypeOf
<1>4. CASE StepGate
  <2>1. /\ iterator < Len(Table.ops)
        /\ NextOperation = Table.ops[iterator + 1]
        /\ EffectiveGate(NextOperation) = GatesNow[iterator + 1]
        /\ NextOperation.kind \in {"gate", "if"}
        /\ TypeOf(currentInstruction) = "SIMULATE"
    BY <1>1, <1>4, TrailContext DEF StepGate, Simulates, NextOperation
  <2> QED
    BY <1>1, <1>4, <2>1 DEF StepGate, Advance, Makes, TypeOf
<1>5. CASE StepUnsupportedThrows
  <2>1. /\ iterator + 1 \in DOMAIN Table.ops
        /\ NextOperation = Table.ops[iterator + 1]
    BY <1>1, <1>5, TrailContext
       DEF StepUnsupportedThrows, Simulates, NextOperation
  <2> QED
    BY <1>5, <2>1 DEF StepUnsupportedThrows, Simulates, FollowsTables
<1>6. CASE StepAssertionCrashes \/ StepRunsOffCircuit
  BY <1>6 DEF StepAssertionCrashes, StepRunsOffCircuit, Alive
<1> QED
  BY <1>2, <1>3, <1>4, <1>5, <1>6

(* ... and the step back reads it.                                         *)
LEMMA BackReads ==
  ASSUME HInv, TypeOK, FollowsTables(Table), DataAreATrail, pastData # <<>>,
         StepBackward, CanStepBackward
  PROVE  /\ UNCHANGED <<code, variables>>
         /\ Now' = Last(pastData)
         /\ Last(pastData) \in Snapshots
         /\ IsTrail(Table, GatesNow, Front(past), Front(pastData),
                    Last(pastData))
<1> DEFINE d == Last(pastData)
<1> ready /\ Retreat
  BY RetreatsBack DEF CanStepBackward
<1>1. /\ Makes(Table, GatesNow, Last(past), d, Now) /\ d \in Snapshots
      /\ IsTrail(Table, GatesNow, Front(past), Front(pastData), d)
  BY TrailContext, TrailShrinks DEF DataAreATrail
<1> HIDE DEF d
<1>2. /\ d.state \in QStates /\ d.done \in Nat
      /\ Now.state = simulationState /\ Now.done = iterator
  BY <1>1 DEF Snapshots, Now
<1>3. currentInstruction' = Last(past).pos
  <2>1. Flow.prev # <<>> /\ Flow \in Flows(Table)
    BY DEF CanStepBackward, Flow, HInv, FlowInv
  <2>2. Backward(Flow) = Last(past)
    BY <2>1, TableIsWellFormed, PathBackward DEF HInv, PastIsAPath
  <2> QED
    BY <2>2 DEF Retreat, SetFlow
<1>4. /\ UNCHANGED <<code, variables>>
      /\ simulationState' = d.state /\ iterator' = d.done
  <2>1. CASE TypeOf(currentInstruction') # "SIMULATE"
    <3>1. BackPastControl
      BY <2>1 DEF StepBackward, StepBackwardRefused, BackPastBarrier,
         BackPastGate, BackUnsupportedThrows, BackRunsOffCircuit, BackOver
    <3>2. simulationState = d.state /\ iterator = d.done
      BY <1>1, <1>2, <1>3, <2>1 DEF Makes, TypeOf
    <3> QED
      BY <3>1, <3>2 DEF BackPastControl, Retreat, data
  <2>2. CASE TypeOf(currentInstruction') = "SIMULATE"
    <3>1. /\ d.done < Len(Table.ops) /\ iterator = d.done + 1
          /\ \/ /\ Table.ops[d.done + 1].kind = "barrier"
                /\ simulationState = d.state
             \/ /\ Table.ops[d.done + 1].kind \in {"gate", "if"}
                /\ simulationState = Act[GatesNow[d.done + 1]][d.state]
      BY <1>1, <1>2, <1>3, <2>2 DEF Makes, TypeOf
    <3>2. /\ iterator > 0 /\ iterator - 1 = d.done
          /\ iterator \in 1 .. Len(Table.ops)
          /\ Operation(iterator) = Table.ops[d.done + 1]
          /\ EffectiveGate(Operation(iterator)) = GatesNow[d.done + 1]
          /\ GatesNow[d.done + 1] \in Gates
      BY <1>2, <3>1, TrailContext
    <3>3. CASE Operation(iterator).kind = "barrier"
      <4>1. BackPastBarrier
        BY <2>2, <3>2, <3>3 DEF StepBackward, StepBackwardRefused,
           BackPastControl, BackPastGate, BackUnsupportedThrows,
           BackRunsOffCircuit, BackOver
      <4> QED
        BY <3>1, <3>2, <3>3, <4>1 DEF BackPastBarrier, BackOver, Retreat
    <3>4. CASE Operation(iterator).kind \in {"gate", "if"}
      <4>1. iterator \in DOMAIN Table.ops
        BY <3>2, TrailContext
      <4>2. ~BackUnsupportedThrows
        BY <3>2, <4>1 DEF BackUnsupportedThrows, BackOver, FollowsTables
      <4>3. BackPastGate
        BY <2>2, <3>2, <3>4, <4>2 DEF StepBackward, StepBackwardRefused,
           BackPastControl, BackPastBarrier, BackRunsOffCircuit, BackOver
      <4>4. simulationState' = d.state
        BY <1>2, <3>1, <3>2, <3>4, <4>3, UndoUndoes DEF BackPastGate
      <4> QED
        BY <3>2, <4>3, <4>4 DEF BackPastGate, BackOver, Retreat
    <3> QED
      BY <3>1, <3>2, <3>3, <3>4
  <2> QED
    BY <2>1, <2>2
<1>5. Now' = d
  BY <1>1, <1>4 DEF Now, Snapshots
<1> QED
  BY <1>1, <1>4, <1>5 DEF d

(* Whatever else happens keeps the trail or begins it anew.                *)
LEMMA TrailKept ==
  ASSUME DataAreATrail, UNCHANGED <<code, data, past, pastData>>
  PROVE  DataAreATrail'
<1>1. Now' = Now
  BY DEF Now, data
<1> QED
  BY <1>1, GatesStay DEF DataAreATrail, data

LEMMA TrailForgotten ==
  ASSUME NEW S, past' \in Seq(S), pastData' = <<>>
  PROVE  DataAreATrail'
  BY TrailStarts DEF DataAreATrail

LEMMA TrailStep ==
  ASSUME HInv, TypeOK, TrailInv, [HNext]_historyVars
  PROVE  TrailInv'
<1> SUFFICES ASSUME Alive', ready', FollowsTables(Table')
             PROVE  DataAreATrail'
  BY DEF TrailInv
<1>1. HInv' /\ past' \in Seq(Flows(Table'))
  BY PastStep DEF HInv, PastIsAPath, IsPath
<1>2. ASSUME UNCHANGED code, Alive
      PROVE  DataAreATrail /\ ready /\ FollowsTables(Table)
  BY <1>2 DEF TrailInv, code, Table
<1>3. CASE pastData' = <<>>
  BY <1>1, <1>3, TrailForgotten
<1>4. ASSUME UNCHANGED <<code, data, past, pastData>>, Alive
      PROVE  DataAreATrail'
  BY <1>2, <1>4, TrailKept
<1>5. ASSUME Alive, Advance, Remember,
             \/ StepControl \/ StepPastAssertion \/ StepAssertionThrows
             \/ StepAssertionCrashes \/ StepBarrier \/ StepGate
             \/ StepUnsupportedThrows \/ StepRunsOffCircuit
      PROVE  DataAreATrail'
  <2>1. DataAreATrail /\ ready /\ FollowsTables(Table)
    BY <1>2, <1>5 DEF Advance
  <2>2. /\ UNCHANGED <<code, variables>>
        /\ Makes(Table, GatesNow, Flow, Now, Now')
    BY <1>5, <2>1, StepMakes
  <2>3. IsTrail(Table, GatesNow, Append(past, Flow), Append(pastData, Now), Now')
    BY <2>1, <2>2, TrailContext, TrailGrows DEF DataAreATrail
  <2>4. past' = Append(past, Flow) /\ pastData' = Append(pastData, Now)
    BY <1>5 DEF Remember, Now
  <2> QED
    BY <2>2, <2>3, <2>4, GatesStay DEF DataAreATrail
<1>6. ASSUME Alive, StepBackward, IF CanStepBackward THEN Recall ELSE Keep
      PROVE  DataAreATrail'
  <2>1. CASE ~CanStepBackward
    <3>1. StepBackwardRefused
      BY <1>6, <2>1 DEF StepBackward, BackPastControl, BackPastBarrier,
         BackPastGate, BackUnsupportedThrows, BackRunsOffCircuit, BackOver,
         Retreat
    <3> QED
      BY <1>4, <1>6, <2>1, <3>1 DEF StepBackwardRefused, Keep
  <2>2. CASE CanStepBackward /\ pastData = <<>>
    BY <1>3, <1>6, <2>2 DEF Recall
  <2>3. CASE CanStepBackward /\ pastData # <<>>
    <3>1. UNCHANGED code
      BY <1>6, <2>3, RetreatsBack DEF Retreat
    <3>2. DataAreATrail /\ FollowsTables(Table)
      BY <1>2, <1>6, <3>1
    <3>3. /\ UNCHANGED <<code, variables>> /\ Now' = Last(pastData)
          /\ IsTrail(Table, GatesNow, Front(past), Front(pastData),
                     Last(pastData))
      BY <1>6, <2>3, <3>2, BackReads
    <3>4. past' = Front(past) /\ pastData' = Front(pastData)
      BY <1>6, <2>3 DEF Recall
    <3> QED
      BY <3>3, <3>4, GatesStay DEF DataAreATrail
  <2> QED
    BY <2>1, <2>2, <2>3
<1>7. ASSUME Alive, Edit, KeepPlaces
      PROVE  DataAreATrail'
  <2>1. UNCHANGED <<code, iterator>>
    BY <1>7 DEF Edit, ChangeClassicalVariableValue, ChangeAmplitudeValue
  <2>2. CASE UNCHANGED <<simulationState, variables>>
    BY <1>4, <1>7, <2>1, <2>2 DEF KeepPlaces, data
  <2> QED
    BY <1>3, <1>7, <2>2 DEF KeepPlaces
<1>8. CASE UNCHANGED historyVars
  <2>1. UNCHANGED <<code, data, past, pastData>> /\ Alive
    BY <1>8 DEF historyVars, vars, Alive
  <2> QED
    BY <1>4, <2>1
<1>9. ASSUME Alive, StepStopsAtAssertion \/ StepForwardRefused, Keep
      PROVE  DataAreATrail'
  BY <1>4, <1>9 DEF StepStopsAtAssertion, StepForwardRefused, Keep
<1>10. ASSUME Alive, Keep, NEW i, SetBreakpoint(i) \/ ClearBreakpoints
       PROVE  DataAreATrail'
  BY <1>4, <1>10 DEF SetBreakpoint, ClearBreakpoints, Keep
<1>11. CASE Forget
  BY <1>3, <1>11 DEF Forget
<1>12. CASE HNext
  <2>1. CASE /\ \/ StepControl \/ StepPastAssertion \/ StepAssertionThrows
                \/ StepAssertionCrashes \/ StepBarrier \/ StepGate
                \/ StepUnsupportedThrows \/ StepRunsOffCircuit
             /\ Remember
    <3>1. Advance
      BY <2>1 DEF StepControl, StepPastAssertion, StepAssertionThrows,
         StepAssertionCrashes, StepBarrier, StepGate, StepUnsupportedThrows,
         StepRunsOffCircuit
    <3> QED
      BY <1>5, <1>12, <2>1, <3>1 DEF HNext
  <2> QED
    BY <1>6, <1>7, <1>9, <1>10, <1>11, <1>12, <2>1 DEF HNext
<1> QED
  BY <1>8, <1>12

(* Stepping back restores the quantum state and the operation next there,  *)
(* whatever gates, conditions, barriers and calls lay between, in every    *)
(* program that follows its tables, unless the client edited the state or  *)
(* a bit since.                                                            *)
THEOREM StepBackRestores == HSpec => StepBackRestoresState
<1> DEFINE Inv == HInv /\ TypeOK /\ TrailInv
<1>1. HInit => Inv
  <2> SUFFICES ASSUME HInit PROVE Inv
    OBVIOUS
  <2>1. HInv /\ TypeOK
    BY PastInit, TypeInit DEF HInit
  <2>2. TrailInv
    BY DEF HInit, Init, TrailInv
  <2> QED
    BY <2>1, <2>2
<1>2. Inv /\ [HNext]_historyVars => Inv'
  <2> SUFFICES ASSUME Inv, [HNext]_historyVars PROVE Inv'
    OBVIOUS
  <2>1. HInv' /\ TrailInv'
    BY PastStep, TrailStep
  <2>2. TypeOK'
    BY EngineStep, TypeStep DEF HInv
  <2> QED
    BY <2>1, <2>2
<1>3. ASSUME Inv, [HNext]_historyVars
      PROVE  [/\ StepBackward /\ CanStepBackward
              /\ FollowsTables(Table) /\ pastData # <<>>
              =>
                /\ simulationState' = Last(pastData).state
                /\ iterator' = Last(pastData).done]_historyVars
  <2> SUFFICES ASSUME StepBackward, CanStepBackward, FollowsTables(Table),
                      pastData # <<>>, historyVars' # historyVars
               PROVE  /\ simulationState' = Last(pastData).state
                      /\ iterator' = Last(pastData).done
    OBVIOUS
  <2>1. Alive /\ ready
    BY <1>3 DEF HNext, CanStepBackward
  <2>2. DataAreATrail
    BY <1>3, <2>1 DEF TrailInv
  <2>3. Now' = Last(pastData)
    BY <1>3, <2>2, BackReads
  <2>4. Now'.state = simulationState' /\ Now'.done = iterator'
    BY DEF Now
  <2> QED
    BY <2>3, <2>4
<1> QED
  BY <1>1, <1>2, <1>3, PTL DEF HSpec, StepBackRestoresState

=============================================================================
