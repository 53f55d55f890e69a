--------------------------- MODULE DDSimHistory ---------------------------
(***************************************************************************)
(* The engine with history variables: the places the client came through   *)
(* since the way back was last closed, and the quantum states it had       *)
(* there. The code keeps neither; it rebuilds the last place from three    *)
(* stacks and the last state by inverting an operation. The properties     *)
(* below say that what it rebuilds is what was there.                      *)
(***************************************************************************)
EXTENDS DDSimDebug

VARIABLES
  past,       \* the places passed, oldest first
  pastData    \* quantum state and iterator at the last Len(pastData) of
              \* them: an edit by the client puts those before out of reach

historyVars == <<vars, past, pastData>>

Remember ==
  /\ past' = Append(past, Flow)
  /\ pastData' = Append(pastData,
                        [state |-> simulationState, done |-> iterator])

Recall ==
  /\ past' = Front(past)
  /\ pastData' = IF pastData = <<>> THEN <<>> ELSE Front(pastData)

Forget == past' = <<>> /\ pastData' = <<>>

Keep == UNCHANGED <<past, pastData>>

KeepPlaces ==
  /\ UNCHANGED past
  /\ pastData' = IF UNCHANGED <<simulationState, variables>>
                   THEN pastData ELSE <<>>

HInit == Init /\ past = <<>> /\ pastData = <<>>

HNext ==
  /\ Alive
  /\ \/ /\ \/ StepControl
           \/ StepPastAssertion
           \/ StepAssertionThrows
           \/ StepAssertionCrashes
           \/ StepBarrier
           \/ StepGate
           \/ StepUnsupportedThrows
           \/ StepRunsOffCircuit
        /\ Remember
     \/ StepCollapses /\ Forget
     \/ (StepStopsAtAssertion \/ StepForwardRefused) /\ Keep
     \/ StepBackward /\ IF CanStepBackward THEN Recall ELSE Keep
     \/ (\E p \in Programs : LoadCode(p)) /\ Forget
     \/ (\E p \in Programs \cup {NoProgram} : LoadRejected(p)) /\ Forget
     \/ ResetSimulation /\ Forget
     \/ (\E i \in 0 .. Table.n - 1 : SetBreakpoint(i)) /\ Keep
     \/ ClearBreakpoints /\ Keep
     \/ Editing /\ Edit /\ KeepPlaces

HSpec == HInit /\ [][HNext]_historyVars

-----------------------------------------------------------------------------
(* Each place passed led to the next by one forward step and the last one *)
(* leads to the place the engine is at, the three stacks included.         *)
PastIsAPath == IsPath(Table, past, Flow)

(* Stepping back leads to the place the last forward step was made from:   *)
(* same instruction, same call stack, same pending returns (stepBackward   *)
(* against stepForward in DDSimDebug.cpp), wherever it was made.           *)
StepBackRestoresPlace ==
  [][StepBackward /\ CanStepBackward => Flow' = Last(past)]_historyVars

(* Stepping back restores the quantum state of that place and the          *)
(* operation next there, whatever gates, conditions and calls lay between, *)
(* in a program that follows its tables, unless the client edited the      *)
(* state or a classical bit since.                                         *)
StepBackRestoresState ==
  [][/\ StepBackward /\ CanStepBackward
     /\ FollowsTables(Table) /\ pastData # <<>>
     =>
       /\ simulationState' = Last(pastData).state
       /\ iterator' = Last(pastData).done]_historyVars

(* The engine implements the time-travel debugger.                         *)
Place(f) == [pos |-> f.pos, calls |-> f.calls]

StepPlace(p, place) ==
  Place(Forward(Code[p], [FlowStart EXCEPT !.pos = place.pos,
                                           !.calls = place.calls]))

InsidePlace(p, place) == place.pos < Code[p].n

Promise == INSTANCE TimeTravel WITH
  Inside <- InsidePlace,
  Step <- StepPlace,
  program <- prog,
  Start <- Place(FlowStart),
  here <- Place(Flow),
  past <- [k \in 1 .. Len(past) |-> Place(past[k])]

ImplementsTimeTravel == Promise!Spec

=============================================================================
