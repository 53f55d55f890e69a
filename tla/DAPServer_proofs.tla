-------------------------- MODULE DAPServer_proofs --------------------------
(***************************************************************************)
(* What the commands promise, and what the server makes of them for its    *)
(* client, for every set of well-formed programs.                          *)
(*                                                                         *)
(* The commands come first, wherever assertions fail, breakpoints lie and  *)
(* a pause is requested. A loop knows the depth it started at, not the     *)
(* calls it is in. CommandInv says which call is pending above that depth: *)
(* the loop ends when that one returns, or is come back to.                *)
(*                                                                         *)
(* The server: what it tells its client is true, and a client that goes by *)
(* it is served, for every sequence of requests. The engine's invariants   *)
(* carry over because a server step is a step of the commands, a look, or  *)
(* the destruction of the engine. What is new is what a request has done   *)
(* so far: Stages lists how far the calls of a request can have come, and  *)
(* the invariants below say what holds of the engine at each of them.      *)
(***************************************************************************)
EXTENDS DAPServer, DDSimDebug_proofs

-----------------------------------------------------------------------------
(* Every turn is a step of the engine, or changes nothing but the answer.  *)

engine == <<code, flow, data, assertionInstructions, breakpoints, marks>>

Quiet == UNCHANGED engine /\ result' \in {"OK", "ERROR"}

LEMMA TurnIsStep ==
  ASSUME Alive, LoopTurn
  PROVE  UNCHANGED code /\ (StepForward \/ StepBackward \/ Quiet)
<1>1. CASE TakePause
  BY <1>1 DEF TakePause, Quiet, engine
<1>2. CASE StepForward
  BY <1>2 DEF StepForward, StepForwardRefused, StepControl, StepPastAssertion,
       StepStopsAtAssertion, StepAssertionThrows, StepAssertionCrashes,
       StepCollapses, StepBarrier, StepGate, StepUnsupportedThrows,
       StepRunsOffCircuit, Simulates, Advance, code
<1>3. CASE StepBackward
  BY <1>3 DEF StepBackward, StepBackwardRefused, BackPastControl,
       BackPastBarrier, BackPastGate, BackUnsupportedThrows,
       BackRunsOffCircuit, BackOver, Retreat, code
<1> QED
  BY <1>1, <1>2, <1>3 DEF LoopTurn, RunTurn, RunBackTurn, RunAllTurn, OverTurn,
       OverBackTurn, OutForwardTurn, OutBackTurn, OutTurn, PausedTurn, Turn

LEMMA ClientIsStep ==
  ASSUME Alive, Client
  PROVE  Next \/ UNCHANGED vars \/ Quiet
<1>1. ASSUME NEW action, NEW answer \in {"OK", "ERROR"}, Refuse(answer)
      PROVE  Quiet
  BY <1>1 DEF Refuse, Quiet, engine
<1>2. ASSUME NEW name, Begin(name)
      PROVE  UNCHANGED vars
  BY <1>2 DEF Begin
<1> QED
  BY <1>1, <1>2 DEF Client, Once, StartAfresh, Afresh, StartRun, StartRunBack,
       StartRunAll, StartOver, StartOverBack, StartOut, StartOutBack, Next

LEMMA EngineOrQuiet ==
  ASSUME [CNext]_controlVars
  PROVE  [Next]_vars \/ Quiet
<1>1. CASE Alive /\ Client
  BY <1>1, ClientIsStep
<1>2. CASE Alive /\ LoopTurn
  BY <1>2, TurnIsStep DEF Next
<1>3. CASE PauseSimulation
  BY <1>3 DEF PauseSimulation
<1>4. CASE UNCHANGED controlVars
  BY <1>4 DEF controlVars
<1> QED
  BY <1>1, <1>2, <1>3, <1>4 DEF CNext

EngineInv == FlowInv /\ TypeOK

LEMMA EngineKept ==
  ASSUME EngineInv, [CNext]_controlVars
  PROVE  EngineInv'
<1>1. CASE [Next]_vars
  BY <1>1, FlowStep, TypeStep DEF EngineInv
<1>2. CASE Quiet
  <2>1. FlowInv'
    BY <1>2, FlowKept DEF Quiet, engine, EngineInv, code
  <2> QED
    BY <1>2, <2>1 DEF Quiet, engine, EngineInv, TypeOK, code, data, marks,
                      flow, Flow, Table, LoadedAssertions
<1> QED
  BY <1>1, <1>2, EngineOrQuiet

-----------------------------------------------------------------------------
(* What one step of the engine does to the call stack.                     *)

LEMMA ClosedMoves ==
  ASSUME NEW p, NEW f, NEW g, g \in Flows(p), Moves(p, f, g)
  PROVE  Moves(p, f, Closed(g)) /\ Closed(g) \in Flows(p)
<1>1. /\ Closed(g) \in Flows(p)
      /\ Closed(g).calls = g.calls /\ Closed(g).pos = g.pos
  BY EmptySeq DEF Closed, Flows
<1> QED
  BY <1>1 DEF Moves

LEMMA StepsAhead ==
  ASSUME FlowInv, StepForward
  PROVE  /\ UNCHANGED code
         /\ \/ UNCHANGED flow
            \/ CanStepForward /\ Moves(Table, Flow, Flow')
<1>1. /\ UNCHANGED code
      /\ \/ UNCHANGED flow
         \/ /\ CanStepForward
            /\ \/ SetFlow(Forward(Table, Flow))
               \/ SetFlow(Closed(Forward(Table, Flow)))
               \/ SetFlow(Backward(Forward(Table, Flow)))
  BY DEF StepForward, StepForwardRefused, StepControl, StepPastAssertion,
       StepStopsAtAssertion, StepAssertionThrows, StepAssertionCrashes,
       StepCollapses, StepBarrier, StepGate, StepUnsupportedThrows,
       StepRunsOffCircuit, Simulates, Advance
<1>2. ASSUME CanStepForward
      PROVE  /\ Forward(Table, Flow) \in Flows(Table)
             /\ Moves(Table, Flow, Forward(Table, Flow))
  BY <1>2, FlowAhead, ForwardIsNested, ForwardMoves
<1>3. CASE CanStepForward /\ SetFlow(Forward(Table, Flow))
  BY <1>1, <1>2, <1>3, SetFlowSets
<1>4. CASE CanStepForward /\ SetFlow(Closed(Forward(Table, Flow)))
  BY <1>1, <1>2, <1>4, ClosedMoves, SetFlowSets
<1>5. CASE CanStepForward /\ SetFlow(Backward(Forward(Table, Flow)))
  BY <1>1, <1>5, FlowStops
<1> QED
  BY <1>1, <1>3, <1>4, <1>5

LEMMA StepsBack ==
  ASSUME FlowInv, StepBackward
  PROVE  /\ UNCHANGED code
         /\ \/ UNCHANGED flow
            \/ /\ CanStepBackward
               /\ Flow' \in Flows(Table) /\ Flow'.pos < Table.n
               /\ Flow'.pos = Last(Flow.prev)
               /\ Moves(Table, Flow', Flow)
<1>1. /\ UNCHANGED code
      /\ UNCHANGED flow \/ (CanStepBackward /\ SetFlow(Backward(Flow)))
  BY DEF StepBackward, StepBackwardRefused, BackPastControl, BackPastBarrier,
       BackPastGate, BackUnsupportedThrows, BackRunsOffCircuit, BackOver, Retreat
<1>2. CASE CanStepBackward /\ SetFlow(Backward(Flow))
  <2>1. PICK h : IsPath(Table, h, Flow)
    BY DEF FlowInv
  <2>2. Flow.prev # <<>> /\ Flow \in Flows(Table)
    BY <1>2 DEF CanStepBackward, Flow, FlowInv
  <2>3. /\ h # <<>> /\ Backward(Flow) = Last(h) /\ Ahead(Table, Last(h))
        /\ h \in Seq(Flows(Table))
    BY <2>1, <2>2, TableIsWellFormed, PathBackward DEF IsPath
  <2>4. Forward(Table, Last(h)) = Flow
    <3>1. Last(h) = h[Len(h)] /\ Len(h) \in 1 .. Len(h)
      <4> DEFINE S == Flows(Table)
      <4>1. h \in Seq(S) /\ h # <<>>
        BY <2>3
      <4> HIDE DEF S
      <4>2. Len(h) \in Nat /\ Len(h) > 0 /\ Last(h) = h[Len(h)]
        BY <4>1, PopPush
      <4> QED
        BY <4>2
    <3>2. Forward(Table, h[Len(h)]) = Flow
      BY <2>1, <3>1 DEF IsPath
    <3> QED
      BY <3>1, <3>2
  <2>5. Flow' = Last(h)
    BY <1>2, <2>3, SetFlowSets DEF Ahead
  <2>6. Moves(Table, Last(h), Flow)
    BY <2>3, <2>4, ForwardMoves
  <2>7. Backward(Flow).pos = Last(Flow.prev)
    BY DEF Backward
  <2> QED
    BY <1>1, <1>2, <2>3, <2>5, <2>6, <2>7 DEF Ahead
<1> QED
  BY <1>1, <1>2

(* The calls pending before and after a move, place by place.              *)
Climbs(p, f, g) ==
  LET depth == Len(f.calls)
  IN  \/ /\ p.type[f.pos] = "CALL"
         /\ Len(g.calls) = depth + 1 /\ g.calls[depth + 1] = f.pos
         /\ \A k \in 1 .. depth : g.calls[k] = f.calls[k]
      \/ /\ p.type[f.pos] = "RETURN"
         /\ depth > 0 /\ Len(g.calls) = depth - 1
         /\ g.pos = f.calls[depth] + 1
         /\ \A k \in 1 .. depth - 1 : g.calls[k] = f.calls[k]
      \/ /\ p.type[f.pos] \notin {"CALL", "RETURN"}
         /\ g.calls = f.calls /\ g.pos > f.pos

LEMMA MovesClimb ==
  ASSUME NEW p, WellFormedFlow(p), NEW f \in Flows(p), NEW g \in Flows(p),
         f.pos < p.n, Moves(p, f, g)
  PROVE  Climbs(p, f, g)
<1>1. /\ f.calls \in Seq(CallsOf(p)) /\ g.calls \in Seq(CallsOf(p))
      /\ f.pos \in 0 .. p.n - 1
  BY DEF Flows, WellFormedFlow
<1>2. CASE p.type[f.pos] = "CALL"
  <2>1. f.pos \in CallsOf(p) /\ g.calls = Append(f.calls, f.pos)
    BY <1>1, <1>2 DEF Moves, CallsOf
  <2>2. /\ Len(g.calls) = Len(f.calls) + 1
        /\ g.calls[Len(f.calls) + 1] = f.pos
        /\ \A k \in 1 .. Len(f.calls) : g.calls[k] = f.calls[k]
    BY <1>1, <2>1, AppendProperties
  <2> QED
    BY <1>2, <2>2 DEF Climbs
<1>3. CASE p.type[f.pos] = "RETURN"
  <2>1. /\ f.calls # <<>> /\ g.calls = Front(f.calls)
        /\ g.pos = Last(f.calls) + 1
    BY <1>3 DEF Moves
  <2> QED
    BY <1>1, <1>3, <2>1, PopPush DEF Climbs
<1>4. CASE p.type[f.pos] \notin {"CALL", "RETURN"}
  BY <1>4 DEF Moves, Climbs
<1> QED
  BY <1>2, <1>3, <1>4

(* A call pending at some depth, when moving on and when moving back.      *)
LEMMA PendingAhead ==
  ASSUME NEW p, NEW f, NEW g, Climbs(p, f, g), NEW d \in Nat, NEW c,
         Len(f.calls) \in Nat, Len(f.calls) > d, f.calls[d + 1] = c,
         p.type[f.pos] = "RETURN" => Len(f.calls) # d + 1
  PROVE  Len(g.calls) > d /\ g.calls[d + 1] = c
  BY DEF Climbs

LEMMA PendingBack ==
  ASSUME NEW p, NEW f, NEW g, Climbs(p, f, g), NEW d \in Nat, NEW c,
         Len(f.calls) \in Nat, Len(g.calls) > d, g.calls[d + 1] = c,
         p.type[f.pos] = "CALL" => Len(f.calls) # d
  PROVE  Len(f.calls) > d /\ f.calls[d + 1] = c
  BY DEF Climbs

LEMMA ReentryIsPending ==
  ASSUME NEW p, WellFormedFlow(p), NEW f \in Flows(p), NEW g,
         Climbs(p, f, g), p.type[f.pos] = "RETURN"
  PROVE  /\ Len(f.calls) > Len(g.calls)
         /\ f.calls[Len(g.calls) + 1] = g.pos - 1
<1>1. f.calls \in Seq(CallsOf(p)) /\ Len(f.calls) \in Nat
  BY DEF Flows
<1>2. /\ Len(f.calls) > 0 /\ Len(g.calls) = Len(f.calls) - 1
      /\ g.pos = f.calls[Len(f.calls)] + 1
  BY DEF Climbs
<1>3. f.calls[Len(f.calls)] \in CallsOf(p)
  BY <1>1, <1>2, ElementOfSeq
<1>4. f.calls[Len(f.calls)] \in Int
  BY <1>3 DEF CallsOf, WellFormedFlow
<1> QED
  BY <1>1, <1>2, <1>4

(* What a turn of a forward and of a backward loop may do to the flow.     *)
LEMMA ClimbsAhead ==
  ASSUME FlowInv, StepForward
  PROVE  /\ UNCHANGED code
         /\ UNCHANGED flow \/ Climbs(Table, Flow, Flow')
<1>1. CASE CanStepForward /\ Moves(Table, Flow, Flow')
  <2>1. FlowInv' /\ Flow \in Flows(Table) /\ Table' = Table
    BY StepsAhead, FlowForward DEF FlowInv, code, Table
  <2>2. Flow' \in Flows(Table) /\ Flow.pos < Table.n
    BY <1>1, <2>1 DEF FlowInv, CanStepForward, Flow
  <2> QED
    BY <1>1, <2>1, <2>2, TableIsWellFormed, MovesClimb, StepsAhead
<1> QED
  BY <1>1, StepsAhead

LEMMA ClimbsBack ==
  ASSUME FlowInv, StepBackward
  PROVE  /\ UNCHANGED code
         /\ \/ UNCHANGED flow
            \/ /\ Flow' \in Flows(Table) /\ Flow'.pos = Last(Flow.prev)
               /\ Climbs(Table, Flow', Flow)
<1>1. Flow \in Flows(Table)
  BY DEF FlowInv
<1> QED
  BY <1>1, StepsBack, MovesClimb, TableIsWellFormed

-----------------------------------------------------------------------------
(* The call a loop has pending above the depth it started at.              *)

IsAtStart == Len(callReturnStack) = cmd.depth /\ currentInstruction = cmd.start

IsPending(call) ==
  Len(callReturnStack) > cmd.depth /\ callReturnStack[cmd.depth + 1] = call

CameByReturn ==
  /\ previousInstructionStack # <<>>
  /\ TypeOf(Last(previousInstructionStack)) = "RETURN"

CommandFrames ==
  /\ cmd.name = "over" => IsAtStart \/ IsPending(cmd.start)
  /\ cmd.name = "overBack" =>
       (IsAtStart /\ CameByReturn) \/ IsPending(cmd.start - 1)
  /\ cmd.name \in {"out", "outBack"} => Len(callReturnStack) >= cmd.depth

CommandInv == EngineInv /\ CTypeOK /\ CommandFrames

(* The call stack is one of calls, and the loop's numbers are numbers.     *)
LEMMA CommandTypes ==
  ASSUME CommandInv
  PROVE  /\ callReturnStack \in Seq(CallsOf(Table))
         /\ Len(callReturnStack) \in Nat
         /\ currentInstruction \in 0 .. Table.n /\ Table.n \in Nat
         /\ FlowInv /\ TypeOK
         /\ cmd # Idle => cmd.depth \in Nat /\ cmd.start \in 0 .. Table.n
         /\ cmd.name = "over" => cmd.start \in CallsOf(Table)
         /\ cmd.name \in {"out", "outBack"} => cmd.depth > 0
<1>1. FlowInv /\ TypeOK /\ Flow \in Flows(Table) /\ Table.n \in Nat
  BY TableIsWellFormed DEF CommandInv, EngineInv, FlowInv, WellFormedFlow
<1>2. callReturnStack \in Seq(CallsOf(Table)) /\ currentInstruction \in 0 .. Table.n
  BY <1>1 DEF Flows, Flow
<1>3. CTypeOK
  BY DEF CommandInv
<1> QED
  BY <1>1, <1>2, <1>3 DEF CTypeOK, Idle, CallsOf

(* A turn leaves the command as it is or ends it.                          *)
LEMMA TurnGoesOnOrEnds ==
  ASSUME LoopTurn
  PROVE  cmd' \in {cmd, Idle}
  BY DEF LoopTurn, RunTurn, RunBackTurn, RunAllTurn, OverTurn, OverBackTurn,
         OutForwardTurn, OutBackTurn, OutTurn, PausedTurn, Return, EndIf

(* The loops that count nothing in the frame they move in.                 *)
LEMMA OverFrames ==
  ASSUME CommandInv, OverTurn, cmd' = cmd
  PROVE  CommandFrames'
<1>1. cmd # Idle /\ cmd.name = "over"
  BY DEF OverTurn, Idle
<1>2. /\ StepForward
      /\ ~(TypeOf(currentInstruction) = "RETURN" /\ Last(callReturnStack) = cmd.start)
  BY <1>1 DEF OverTurn, PausedTurn, Return, Turn, EndIf, CallReturned
<1>3. IsAtStart \/ IsPending(cmd.start)
  BY <1>1 DEF CommandInv, CommandFrames
<1>4. CASE UNCHANGED flow
  BY <1>1, <1>3, <1>4 DEF CommandFrames, IsAtStart, IsPending, flow
<1>5. CASE Climbs(Table, Flow, Flow')
  <2>1. /\ Flow.pos = currentInstruction /\ Flow.calls = callReturnStack
        /\ Flow'.calls = callReturnStack'
    BY DEF Flow
  <2>2. CASE IsAtStart
    <3>1. Table.type[cmd.start] = "CALL"
      BY <1>1, CommandTypes DEF CallsOf
    <3>2. IsPending(cmd.start)'
      BY <1>5, <2>1, <2>2, <3>1, CommandTypes
         DEF Climbs, IsAtStart, IsPending
    <3> QED
      BY <1>1, <3>2 DEF CommandFrames
  <2>3. CASE IsPending(cmd.start)
    <3>1. Table.type[Flow.pos] = "RETURN" =>
            callReturnStack[Len(callReturnStack)] # cmd.start
      BY <1>2, <2>1 DEF Last, TypeOf
    <3>2. Len(callReturnStack') > cmd.depth /\ callReturnStack'[cmd.depth + 1] = cmd.start
      BY <1>1, <1>5, <2>1, <2>3, <3>1, CommandTypes, PendingAhead DEF IsPending
    <3>3. IsPending(cmd.start)'
      BY <3>2 DEF IsPending
    <3> QED
      BY <1>1, <3>3 DEF CommandFrames
  <2> QED
    BY <1>3, <2>2, <2>3
<1> QED
  BY <1>2, <1>4, <1>5, ClimbsAhead, CommandTypes

LEMMA OverBackFrames ==
  ASSUME CommandInv, OverBackTurn, cmd' = cmd
  PROVE  CommandFrames'
<1>1. cmd # Idle /\ cmd.name = "overBack"
  BY DEF OverBackTurn, Idle
<1>2. StepBackward /\ ~BackAtCall
  BY <1>1 DEF OverBackTurn, PausedTurn, Return, Turn, EndIf
<1>3. (IsAtStart /\ CameByReturn) \/ IsPending(cmd.start - 1)
  BY <1>1 DEF CommandInv, CommandFrames
<1>4. UNCHANGED code /\ Table' = Table
  BY <1>2, ClimbsBack, CommandTypes DEF code, Table
<1>5. CASE UNCHANGED flow
  BY <1>1, <1>3, <1>4, <1>5
     DEF CommandFrames, IsAtStart, IsPending, CameByReturn, flow, TypeOf
<1>6. CASE /\ Flow' \in Flows(Table) /\ Flow'.pos = Last(Flow.prev)
           /\ Climbs(Table, Flow', Flow)
  <2>1. /\ Flow.pos = currentInstruction /\ Flow.calls = callReturnStack
        /\ Flow'.calls = callReturnStack' /\ Flow'.pos = currentInstruction'
        /\ Flow.prev = previousInstructionStack
    BY DEF Flow
  <2>2. Len(callReturnStack') \in Nat
    BY <1>6, <2>1 DEF Flows
  <2>3. CASE IsAtStart /\ CameByReturn
    <3>1. Table.type[Flow'.pos] = "RETURN"
      BY <1>6, <2>1, <2>3 DEF CameByReturn, TypeOf
    <3>2. /\ Len(callReturnStack') > cmd.depth
          /\ callReturnStack'[cmd.depth + 1] = cmd.start - 1
      <4>1. WellFormedFlow(Table)
        BY CommandTypes, TableIsWellFormed
      <4>2. /\ Len(Flow'.calls) > Len(Flow.calls)
            /\ Flow'.calls[Len(Flow.calls) + 1] = Flow.pos - 1
        BY <1>6, <3>1, <4>1, ReentryIsPending
      <4> QED
        BY <2>1, <2>3, <4>2 DEF IsAtStart
    <3>3. IsPending(cmd.start - 1)'
      BY <3>2 DEF IsPending
    <3> QED
      BY <1>1, <3>3 DEF CommandFrames
  <2>4. CASE IsPending(cmd.start - 1)
    <3>1. Table.type[Flow'.pos] = "CALL" => Len(callReturnStack') # cmd.depth
      BY <1>2, <1>4, <2>1 DEF BackAtCall, TypeOf
    <3>2. /\ Len(callReturnStack') > cmd.depth
          /\ callReturnStack'[cmd.depth + 1] = cmd.start - 1
      <4>1. /\ cmd.depth \in Nat /\ Len(Flow'.calls) \in Nat
            /\ Len(Flow.calls) > cmd.depth
            /\ Flow.calls[cmd.depth + 1] = cmd.start - 1
            /\ Table.type[Flow'.pos] = "CALL" => Len(Flow'.calls) # cmd.depth
        BY <1>1, <2>1, <2>2, <2>4, <3>1, CommandTypes DEF IsPending
      <4>2. /\ Len(Flow'.calls) > cmd.depth
            /\ Flow'.calls[cmd.depth + 1] = cmd.start - 1
        BY <1>6, <4>1, PendingBack
      <4> QED
        BY <2>1, <4>2
    <3>3. IsPending(cmd.start - 1)'
      BY <3>2 DEF IsPending
    <3> QED
      BY <1>1, <3>3 DEF CommandFrames
  <2> QED
    BY <1>3, <2>3, <2>4
<1> QED
  BY <1>2, <1>5, <1>6, ClimbsBack, CommandTypes

(* Stepping out ends at the first place below the frame it started in.     *)
LEMMA OutFrames ==
  ASSUME CommandInv, OutForwardTurn \/ OutBackTurn, cmd' = cmd
  PROVE  CommandFrames'
<1>1. cmd # Idle /\ cmd.name \in {"out", "outBack"}
  <2>1. cmd.name \in {"out", "outBack"}
    BY DEF OutForwardTurn, OutBackTurn, OutTurn
  <2> QED
    BY <2>1 DEF Idle
<1>2. StepForward \/ StepBackward
  BY DEF OutForwardTurn, OutBackTurn, OutTurn
<1>3. Len(callReturnStack') # cmd.depth - 1
  BY <1>1 DEF OutForwardTurn, OutBackTurn, OutTurn, Return, EndIf, LeftGate
<1>4. Len(callReturnStack) >= cmd.depth
  BY <1>1 DEF CommandInv, CommandFrames
<1>5. CASE UNCHANGED flow
  BY <1>1, <1>4, <1>5 DEF CommandFrames, flow
<1>6. CASE Climbs(Table, Flow, Flow') /\ StepForward
  <2>1. Flow.calls = callReturnStack /\ Flow'.calls = callReturnStack'
    BY DEF Flow
  <2> QED
    BY <1>1, <1>3, <1>4, <1>6, <2>1, CommandTypes DEF Climbs, CommandFrames
<1>7. CASE Climbs(Table, Flow', Flow) /\ Flow' \in Flows(Table)
  <2>1. /\ Flow.calls = callReturnStack /\ Flow'.calls = callReturnStack'
        /\ Len(callReturnStack') \in Nat
    BY <1>7 DEF Flow, Flows
  <2> QED
    BY <1>1, <1>3, <1>4, <1>7, <2>1, CommandTypes DEF Climbs, CommandFrames
<1> QED
  BY <1>2, <1>5, <1>6, <1>7, ClimbsAhead, ClimbsBack, CommandTypes

-----------------------------------------------------------------------------
(* The invariant of the commands is kept.                                  *)

LEMMA CommandInit == CInit => CommandInv
<1> SUFFICES ASSUME CInit PROVE CommandInv
  OBVIOUS
<1>1. EngineInv
  BY FlowInit, TypeInit DEF CInit, EngineInv
<1>2. CTypeOK
  <2>1. /\ failedAssertions \in Nat /\ failures \in Nat
        /\ pauses \in 0 .. MaxPauses
    BY MaxPausesIsPositive DEF CInit
  <2>2. paused \in BOOLEAN /\ cmd = Idle
    BY DEF CInit
  <2> QED
    BY <2>1, <2>2 DEF CTypeOK
<1>3. CommandFrames
  BY DEF CInit, CommandFrames, Idle
<1> QED
  BY <1>1, <1>2, <1>3 DEF CommandInv

(* A command that begins stands where its loop expects it to.              *)
LEMMA CommandBegins ==
  ASSUME CommandInv, NEW name \in Commands, Begin(name),
         name = "over" => /\ CanStepForward
                          /\ TypeOf(currentInstruction) = "CALL",
         name = "overBack" => CameByReturn,
         name \in {"out", "outBack"} => callReturnStack # <<>>
  PROVE  CTypeOK' /\ CommandFrames'
<1>1. /\ cmd' = [name |-> name, start |-> currentInstruction,
                 depth |-> Len(callReturnStack)]
      /\ UNCHANGED <<vars, paused, failures>>
      /\ failedAssertions' = 0 /\ pauses' = One(paused)
  BY DEF Begin
<1>2. /\ Table' = Table /\ UNCHANGED <<currentInstruction, callReturnStack>>
      /\ CameByReturn' = CameByReturn
  BY <1>1 DEF vars, code, flow, Table, CameByReturn, TypeOf
<1>3. CTypeOK'
  <2>1. name = "over" => currentInstruction \in CallsOf(Table)
    BY CommandTypes DEF CanStepForward, CallsOf, TypeOf
  <2>2. name \in {"out", "outBack"} => Len(callReturnStack) > 0
    BY CommandTypes, EmptySeq
  <2>3. \/ cmd' \in [name : {"run", "runBack", "runAll", "overBack"},
                     start : 0 .. Table.n, depth : Nat]
        \/ cmd' \in [name : {"over"}, start : CallsOf(Table), depth : Nat]
        \/ cmd' \in [name : {"out", "outBack"}, start : 0 .. Table.n,
                     depth : Nat \ {0}]
    BY <1>1, <2>1, <2>2, CommandTypes DEF Commands
  <2>4. /\ paused' \in BOOLEAN
        /\ {failedAssertions', failures'} \subseteq Nat
        /\ pauses' \in 0 .. MaxPauses
    BY <1>1, MaxPausesIsPositive DEF CommandInv, CTypeOK, One
  <2> QED
    BY <1>2, <2>3, <2>4 DEF CTypeOK
<1>4. CommandFrames'
  BY <1>1, <1>2, CommandTypes DEF CommandFrames, IsAtStart
<1> QED
  BY <1>3, <1>4

LEMMA ClientFrames ==
  ASSUME CommandInv, Alive, cmd = Idle, Client
  PROVE  CTypeOK' /\ CommandFrames'
<1>1. ASSUME cmd' = Idle,
             UNCHANGED <<failedAssertions, failures, pauses>>,
             paused' \in {paused, FALSE}
      PROVE  CTypeOK' /\ CommandFrames'
  BY <1>1 DEF CTypeOK, CommandFrames, CommandInv, Idle
<1>2. ASSUME NEW action, Once(action)
      PROVE  CTypeOK' /\ CommandFrames'
  BY <1>1, <1>2 DEF Once
<1>3. ASSUME NEW answer, Refuse(answer)
      PROVE  CTypeOK' /\ CommandFrames'
  BY <1>1, <1>3 DEF Refuse
<1>4. CASE StartAfresh
  BY <1>1, <1>4 DEF StartAfresh, Afresh
<1>5. CASE StartRun
  BY <1>3, <1>5, CommandBegins DEF StartRun, Commands
<1>6. CASE StartRunBack
  BY <1>3, <1>6, CommandBegins DEF StartRunBack, Commands
<1>7. CASE StartRunAll
  BY <1>3, <1>7, CommandBegins DEF StartRunAll, Commands
<1>8. CASE StartOver
  BY <1>2, <1>3, <1>8, CommandBegins DEF StartOver, Commands
<1>9. CASE StartOverBack
  <2>1. CASE Begin("overBack")
    <3>1. CameByReturn
      BY <1>9, <2>1 DEF StartOverBack, CameByReturn, CanStepBackward,
                        Once, Refuse, Begin, Idle
    <3> QED
      BY <2>1, <3>1, CommandBegins DEF Commands
  <2> QED
    BY <1>2, <1>3, <1>9, <2>1 DEF StartOverBack
<1>10. CASE StartOut
  BY <1>5, <1>10, CommandBegins DEF StartOut, Commands
<1>11. CASE StartOutBack
  BY <1>6, <1>11, CommandBegins DEF StartOutBack, Commands
<1> QED
  BY <1>2, <1>4, <1>5, <1>6, <1>7, <1>8, <1>9, <1>10, <1>11 DEF Client

LEMMA TurnFrames ==
  ASSUME CommandInv, Alive, cmd # Idle, LoopTurn
  PROVE  CTypeOK' /\ CommandFrames'
<1>1. Table' = Table
  BY TurnIsStep DEF code, Table
<1>2. CommandFrames'
  <2>1. CASE cmd' = Idle
    BY <2>1 DEF CommandFrames, Idle
  <2>2. CASE cmd' = cmd
    <3>1. CASE cmd.name \notin {"over", "overBack", "out", "outBack"}
      BY <2>2, <3>1 DEF CommandFrames
    <3>2. CASE cmd.name \in {"over", "overBack", "out", "outBack"}
      <4>1. OverTurn \/ OverBackTurn \/ OutForwardTurn \/ OutBackTurn
        BY <3>2 DEF LoopTurn, RunTurn, RunBackTurn, RunAllTurn
      <4> QED
        BY <2>2, <4>1, OverFrames, OverBackFrames, OutFrames
    <3> QED
      BY <3>1, <3>2
  <2> QED
    BY <2>1, <2>2, TurnGoesOnOrEnds
<1>3. CTypeOK'
  <2>1. paused' \in BOOLEAN
    BY DEF LoopTurn, RunTurn, RunBackTurn, RunAllTurn, OverTurn, OverBackTurn,
           OutForwardTurn, OutBackTurn, OutTurn, PausedTurn, TakePause, Turn,
           CommandInv, CTypeOK
  <2>2. failedAssertions' \in Nat /\ failures' \in Nat
    <3>1. failedAssertions \in Nat /\ failures \in Nat
      BY DEF CommandInv, CTypeOK
    <3>2. failures' \in Nat
      BY <3>1 DEF LoopTurn, One
    <3>3. \/ failedAssertions' = failedAssertions
          \/ failedAssertions' = failedAssertions + One(CountsAsFailure)
      BY DEF LoopTurn, RunTurn, RunBackTurn, RunAllTurn, OverTurn,
             OverBackTurn, OutForwardTurn, OutBackTurn, OutTurn, PausedTurn
    <3> QED
      BY <3>1, <3>2, <3>3 DEF One
  <2>3. pauses' \in 0 .. MaxPauses
    BY MaxPausesIsPositive DEF LoopTurn, CommandInv, CTypeOK
  <2> QED
    BY <1>1, <2>1, <2>2, <2>3, TurnGoesOnOrEnds DEF CTypeOK, CommandInv
<1> QED
  BY <1>2, <1>3

LEMMA CommandStep ==
  ASSUME CommandInv, [CNext]_controlVars
  PROVE  CommandInv'
<1>1. EngineInv'
  BY EngineKept DEF CommandInv
<1>2. CASE PauseSimulation
  <2>1. UNCHANGED <<vars, cmd, failedAssertions, failures>> /\ paused' = TRUE
    BY <1>2 DEF PauseSimulation
  <2>2. pauses' \in 0 .. MaxPauses
    BY <1>2, MaxPausesIsPositive DEF PauseSimulation, CommandInv, CTypeOK
  <2> QED
    BY <1>1, <2>1, <2>2
       DEF CommandInv, CTypeOK, CommandFrames, IsAtStart, IsPending,
           CameByReturn, TypeOf, Table, vars, code, flow
<1>3. CASE UNCHANGED controlVars
  BY <1>1, <1>3
     DEF CommandInv, CTypeOK, CommandFrames, IsAtStart, IsPending,
         CameByReturn, TypeOf, Table, controlVars, vars, code, flow
<1>4. CASE Alive /\ cmd = Idle /\ Client
  BY <1>1, <1>4, ClientFrames DEF CommandInv
<1>5. CASE Alive /\ cmd # Idle /\ LoopTurn
  BY <1>1, <1>5, TurnFrames DEF CommandInv
<1> QED
  BY <1>2, <1>3, <1>4, <1>5 DEF CNext

(* The command under way keeps its types: it steps over calls only and out *)
(* of a gate only, and its counters are numbers.                           *)
THEOREM CommandTypeCorrect == CSpec => []CTypeOK
<1>1. CommandInv /\ [CNext]_controlVars => CommandInv'
  BY CommandStep
<1>2. CommandInv => CTypeOK
  BY DEF CommandInv
<1> QED
  BY CommandInit, <1>1, <1>2, PTL DEF CSpec

(* A command that steps over or out of a call, forward or backward, never  *)
(* sees less of the call stack than it started with, whatever calls,       *)
(* assertions, breakpoints and pauses it meets.                            *)
THEOREM CommandsStayInFrame == CSpec => []CommandStaysInFrame
<1>1. CommandInv /\ [CNext]_controlVars => CommandInv'
  BY CommandStep
<1>2. ASSUME CommandInv
      PROVE  CommandStaysInFrame
  <2>1. cmd.name \in {"over", "overBack"} => cmd # Idle
    BY DEF Idle
  <2> QED
    BY <1>2, <2>1, CommandTypes
       DEF CommandInv, CommandFrames, CommandStaysInFrame, IsAtStart, IsPending
<1>3. CommandInv => CommandStaysInFrame
  BY <1>2
<1> QED
  BY CommandInit, <1>1, <1>3, PTL DEF CSpec

-----------------------------------------------------------------------------
(* Where and why a loop stops.                                             *)

LEMMA LoopsByTurns ==
  ASSUME [CNext]_controlVars, cmd # Idle, cmd' = Idle \/ vars' # vars
  PROVE  Alive /\ LoopTurn
  BY DEF CNext, PauseSimulation, controlVars, Idle

(* A step out that nothing disturbs returns because it left its gate, ...  *)
LEMMA OutLeavesGate ==
  ASSUME CommandInv, [CNext]_controlVars,
         \/ ReturnsUndisturbed("out") /\ ~DidAssertionFail'
         \/ ReturnsUndisturbed("outBack")
  PROVE  /\ cmd.name = "out" => StepForward
         /\ cmd.name = "outBack" => StepBackward
         /\ Len(callReturnStack') = cmd.depth - 1
         /\ Len(callReturnStack) >= cmd.depth
         /\ cmd # Idle
<1>1. /\ cmd.name \in {"out", "outBack"} /\ cmd # Idle
      /\ cmd' = Idle /\ result' = "OK" /\ ~paused /\ ~WasBreakpointHit'
      /\ cmd.name = "out" => ~DidAssertionFail'
  BY DEF ReturnsUndisturbed, Idle
<1>2. LoopTurn
  BY <1>1, LoopsByTurns
<1>3. CASE cmd.name = "out"
  <2>1. OutForwardTurn
    BY <1>2, <1>3 DEF LoopTurn, RunTurn, RunBackTurn, RunAllTurn, OverTurn,
       OverBackTurn, OutBackTurn, OutTurn
  <2>2. ~Stopped'
    BY <1>1, <1>3 DEF Stopped
  <2>3. LeftGate /\ StepForward
    BY <1>1, <2>1, <2>2 DEF OutForwardTurn, OutTurn, EndIf
  <2> QED
    BY <1>1, <1>3, <2>3 DEF LeftGate, CommandInv, CommandFrames
<1>4. CASE cmd.name = "outBack"
  <2>1. OutBackTurn
    BY <1>2, <1>4 DEF LoopTurn, RunTurn, RunBackTurn, RunAllTurn, OverTurn,
       OverBackTurn, OutForwardTurn, OutTurn
  <2>2. LeftGate /\ StepBackward
    BY <1>1, <2>1 DEF OutBackTurn, OutTurn, EndIf
  <2> QED
    BY <1>1, <1>4, <2>2 DEF LeftGate, CommandInv, CommandFrames
<1> QED
  BY <1>1, <1>3, <1>4

(* ... and leaves it by the return of its caller or by the call itself.    *)
LEMMA OutArrives ==
  ASSUME CommandInv, [CNext]_controlVars
  PROVE  LET caller == callReturnStack[cmd.depth]
         IN  /\ ReturnsUndisturbed("out") /\ ~DidAssertionFail' =>
                  currentInstruction' = caller + 1
             /\ ReturnsUndisturbed("outBack") =>
                  currentInstruction' = caller
<1>1. /\ Flow.pos = currentInstruction /\ Flow.calls = callReturnStack
      /\ Flow'.calls = callReturnStack' /\ Flow'.pos = currentInstruction'
  BY DEF Flow
<1>2. ASSUME ReturnsUndisturbed("out"), ~DidAssertionFail'
      PROVE  currentInstruction' = callReturnStack[cmd.depth] + 1
  <2>1. /\ StepForward /\ Len(callReturnStack') = cmd.depth - 1
        /\ Len(callReturnStack) >= cmd.depth /\ cmd # Idle
    BY <1>2, OutLeavesGate DEF ReturnsUndisturbed
  <2>2. Len(callReturnStack') # Len(callReturnStack)
    BY <2>1, CommandTypes
  <2>3. Climbs(Table, Flow, Flow')
    BY <2>1, <2>2, ClimbsAhead, CommandTypes DEF flow
  <2> QED
    BY <1>1, <2>1, <2>3, CommandTypes DEF Climbs
<1>3. ASSUME ReturnsUndisturbed("outBack")
      PROVE  currentInstruction' = callReturnStack[cmd.depth]
  <2>1. /\ StepBackward /\ Len(callReturnStack') = cmd.depth - 1
        /\ Len(callReturnStack) >= cmd.depth /\ cmd # Idle
    BY <1>3, OutLeavesGate DEF ReturnsUndisturbed
  <2>2. Len(callReturnStack') # Len(callReturnStack)
    BY <2>1, CommandTypes
  <2>3. Climbs(Table, Flow', Flow)
    BY <2>1, <2>2, ClimbsBack, CommandTypes DEF flow
  <2> QED
    BY <1>1, <2>1, <2>3, CommandTypes DEF Climbs
<1> QED
  BY <1>2, <1>3

(* Step out, when no failing assertion, breakpoint, pause or error ends    *)
(* it, ends behind the call of the gate it was started in, and backward at *)
(* that call.                                                              *)
THEOREM StepOutCorrect == CSpec => StepOutArrives
<1>1. CommandInv /\ [CNext]_controlVars => CommandInv'
  BY CommandStep
<1>2. ASSUME CommandInv, [CNext]_controlVars
      PROVE  [LET caller == callReturnStack[cmd.depth]
              IN  /\ ReturnsUndisturbed("out") /\ ~DidAssertionFail' =>
                       currentInstruction' = caller + 1
                  /\ ReturnsUndisturbed("outBack") =>
                       currentInstruction' = caller]_controlVars
  BY <1>2, OutArrives
<1> QED
  BY CommandInit, <1>1, <1>2, PTL DEF CSpec, StepOutArrives

(* A step over that nothing disturbs returns by a step at the return of    *)
(* its call, or back at the call.                                          *)
LEMMA OverReturns ==
  ASSUME CommandInv, [CNext]_controlVars,
         \/ ReturnsUndisturbed("over") /\ ~DidAssertionFail'
         \/ ReturnsUndisturbed("overBack")
  PROVE  /\ cmd # Idle
         /\ cmd.name = "over" => StepForward /\ CallReturned
         /\ cmd.name = "overBack" => StepBackward /\ BackAtCall
<1>1. /\ cmd.name \in {"over", "overBack"} /\ cmd # Idle
      /\ cmd' = Idle /\ result' = "OK" /\ ~paused /\ ~WasBreakpointHit'
      /\ cmd.name = "over" => ~DidAssertionFail'
  BY DEF ReturnsUndisturbed, Idle
<1>2. LoopTurn
  BY <1>1, LoopsByTurns
<1>3. CASE cmd.name = "over"
  <2>1. OverTurn
    BY <1>2, <1>3 DEF LoopTurn, RunTurn, RunBackTurn, RunAllTurn, OverBackTurn,
       OutForwardTurn, OutBackTurn, OutTurn
  <2>2. ~Stopped'
    BY <1>1, <1>3 DEF Stopped
  <2>3. StepForward /\ CallReturned
    BY <1>1, <2>1, <2>2 DEF OverTurn, PausedTurn, TakePause, Turn, EndIf
  <2> QED
    BY <1>1, <1>3, <2>3
<1>4. CASE cmd.name = "overBack"
  <2>1. OverBackTurn
    BY <1>2, <1>4 DEF LoopTurn, RunTurn, RunBackTurn, RunAllTurn, OverTurn,
       OutForwardTurn, OutBackTurn, OutTurn
  <2>2. StepBackward /\ BackAtCall
    BY <1>1, <2>1 DEF OverBackTurn, PausedTurn, TakePause, Turn, EndIf
  <2> QED
    BY <1>1, <1>4, <2>2
<1> QED
  BY <1>1, <1>3, <1>4

(* At the RETURN to its call a step over is in no other call.              *)
LEMMA ReturnsOfItsCall ==
  ASSUME CommandInv, cmd.name = "over", CallReturned, CanStepForward
  PROVE  Len(callReturnStack) = cmd.depth + 1
<1>1. cmd # Idle
  BY DEF Idle
<1>2. Flow.pos = currentInstruction /\ Flow.calls = callReturnStack
  BY DEF Flow
<1>3. Ahead(Table, Flow)
  BY FlowAhead, CommandTypes
<1>4. /\ TypeOf(currentInstruction) = "RETURN"
      /\ Last(callReturnStack) = cmd.start
  BY DEF CallReturned
<1>5. IsPending(cmd.start)
  <2>1. cmd.start \in CallsOf(Table)
    BY CommandTypes
  <2>2. ~IsAtStart
    BY <1>4, <2>1 DEF IsAtStart, CallsOf, TypeOf
  <2> QED
    BY <2>2 DEF CommandInv, CommandFrames
<1> DEFINE top == Len(callReturnStack)
<1>6. /\ top \in Nat /\ cmd.depth \in Nat /\ top > cmd.depth
      /\ callReturnStack[cmd.depth + 1] = callReturnStack[top]
  BY <1>1, <1>4, <1>5, CommandTypes DEF IsPending, Last
<1>7. prog \in Programs \cup {NoProgram} /\ NeverRecursive(Table)
  BY CommandTypes, GatesDoNotRecurse DEF TypeOK, Table
<1>8. ASSUME cmd.depth + 1 < top
      PROVE  FALSE
  <2>1. cmd.depth + 1 \in 1 .. Len(Flow.calls) /\ top \in 1 .. Len(Flow.calls)
    BY <1>2, <1>6
  <2>2. Flow.calls[cmd.depth + 1] # Flow.calls[top]
    BY <1>3, <1>7, <1>8, <2>1, PendingOnce, CommandTypes DEF Ahead
  <2> QED
    BY <1>2, <1>6, <2>2
<1> QED
  BY <1>6, <1>8

LEMMA OverArrives ==
  ASSUME CommandInv, [CNext]_controlVars
  PROVE  /\ ReturnsUndisturbed("over") /\ ~DidAssertionFail' =>
              /\ currentInstruction' = cmd.start + 1
              /\ Len(callReturnStack') = cmd.depth
         /\ ReturnsUndisturbed("overBack") =>
              /\ currentInstruction' = cmd.start - 1
              /\ Len(callReturnStack') = cmd.depth
<1>1. /\ Flow.pos = currentInstruction /\ Flow.calls = callReturnStack
      /\ Flow'.calls = callReturnStack' /\ Flow'.pos = currentInstruction'
      /\ Flow.prev = previousInstructionStack
  BY DEF Flow
<1>2. ASSUME ReturnsUndisturbed("over"), ~DidAssertionFail'
      PROVE  /\ currentInstruction' = cmd.start + 1
             /\ Len(callReturnStack') = cmd.depth
  <2>1. cmd.name = "over" /\ cmd # Idle /\ StepForward /\ CallReturned
    BY <1>2, OverReturns DEF ReturnsUndisturbed
  <2>2. StepControl /\ CanStepForward
    <3>1. /\ TypeOf(currentInstruction) = "RETURN" /\ result' = "OK"
          /\ StepForward
      BY <1>2, <2>1 DEF ReturnsUndisturbed, CallReturned
    <3> QED
      BY <3>1 DEF StepForward, StepForwardRefused, StepControl,
         StepPastAssertion, StepStopsAtAssertion, StepAssertionThrows,
         StepAssertionCrashes, StepCollapses, StepBarrier, StepGate,
         StepUnsupportedThrows, StepRunsOffCircuit, Simulates, Advance
  <2>3. /\ Table.type[Flow.pos] = "RETURN"
        /\ Last(callReturnStack) = cmd.start
    BY <1>1, <2>1 DEF CallReturned, TypeOf
  <2>4. Climbs(Table, Flow, Flow')
    <3>1. Ahead(Table, Flow) /\ WellFormedFlow(Table)
      BY <2>2, CommandTypes, FlowAhead DEF Ahead
    <3>2. /\ Forward(Table, Flow) \in Flows(Table)
          /\ Moves(Table, Flow, Forward(Table, Flow))
      BY <3>1, ForwardIsNested, ForwardMoves
    <3>3. Flow' = Forward(Table, Flow)
      BY <2>2, <3>2, SetFlowSets DEF StepControl, Advance
    <3> QED
      BY <3>1, <3>2, <3>3, MovesClimb DEF Ahead
  <2>5. Len(callReturnStack) = cmd.depth + 1
    BY <2>1, <2>2, ReturnsOfItsCall
  <2> QED
    BY <1>1, <2>1, <2>3, <2>4, <2>5, CommandTypes DEF Climbs, Last
<1>3. ASSUME ReturnsUndisturbed("overBack")
      PROVE  /\ currentInstruction' = cmd.start - 1
             /\ Len(callReturnStack') = cmd.depth
  <2>1. /\ cmd.name = "overBack" /\ cmd # Idle /\ result' = "OK"
        /\ StepBackward /\ BackAtCall
    BY <1>3, OverReturns DEF ReturnsUndisturbed
  <2>2. SetFlow(Backward(Flow)) /\ CanStepBackward
    BY <2>1 DEF StepBackward, StepBackwardRefused, BackPastControl, BackOver,
       BackPastBarrier, BackPastGate, BackUnsupportedThrows,
       BackRunsOffCircuit, Retreat
  <2>3. flow' # flow
    <3>1. /\ previousInstructionStack' = Front(previousInstructionStack)
          /\ previousInstructionStack # <<>>
      BY <2>2 DEF SetFlow, Backward, Flow, CanStepBackward
    <3>2. previousInstructionStack \in Seq(0 .. Table.n - 1)
      BY CommandTypes DEF FlowInv, Flows, Flow
    <3> DEFINE S == 0 .. Table.n - 1
    <3>3. previousInstructionStack \in Seq(S)
      BY <3>2
    <3> HIDE DEF S
    <3>4. Len(previousInstructionStack') # Len(previousInstructionStack)
      BY <3>1, <3>3, PopPush
    <3> QED
      BY <3>4 DEF flow
  <2>4. /\ Climbs(Table, Flow', Flow) /\ Flow' \in Flows(Table)
        /\ UNCHANGED code
    BY <2>1, <2>3, ClimbsBack, CommandTypes
  <2>5. /\ Table.type[Flow'.pos] = "CALL"
        /\ Len(callReturnStack') = cmd.depth
    BY <1>1, <2>1, <2>4 DEF BackAtCall, TypeOf, Table, code
  <2>6. /\ Len(callReturnStack) = cmd.depth + 1
        /\ callReturnStack[cmd.depth + 1] = currentInstruction'
    BY <1>1, <2>4, <2>5 DEF Climbs
  <2>7. IsPending(cmd.start - 1)
    BY <2>1, <2>6, CommandTypes DEF CommandInv, CommandFrames, IsAtStart
  <2> QED
    BY <2>5, <2>6, <2>7 DEF IsPending
<1> QED
  BY <1>2, <1>3

(* Step over, when no failing assertion, breakpoint, pause or error ends   *)
(* it, ends behind the call it started at, and backward at the call it     *)
(* went over, in the frame it was started in.                              *)
THEOREM StepOverCorrect == CSpec => StepOverArrives
<1>1. CommandInv /\ [CNext]_controlVars => CommandInv'
  BY CommandStep
<1>2. ASSUME CommandInv, [CNext]_controlVars
      PROVE  [/\ ReturnsUndisturbed("over") /\ ~DidAssertionFail' =>
                   /\ currentInstruction' = cmd.start + 1
                   /\ Len(callReturnStack') = cmd.depth
              /\ ReturnsUndisturbed("overBack") =>
                   /\ currentInstruction' = cmd.start - 1
                   /\ Len(callReturnStack') = cmd.depth]_controlVars
  BY <1>2, OverArrives
<1> QED
  BY CommandInit, <1>1, <1>2, PTL DEF CSpec, StepOverArrives


(* A turn under a pending pause ends its command, unless it is runAll.     *)
LEMMA PausedTurnEnds ==
  ASSUME LoopTurn, cmd.name \in Directed, paused
  PROVE  cmd' = Idle
<1>1. CASE RunTurn \/ RunBackTurn \/ OverTurn \/ OverBackTurn
  BY <1>1 DEF RunTurn, RunBackTurn, OverTurn, OverBackTurn, PausedTurn, Return
<1>2. CASE OutForwardTurn \/ OutBackTurn
  BY <1>2 DEF OutForwardTurn, OutBackTurn, OutTurn, Return, EndIf
<1> QED
  BY <1>1, <1>2 DEF LoopTurn, RunAllTurn, Directed

(* A pause ends every command but runAll within one step, whenever the     *)
(* other thread requests it.                                               *)
THEOREM PauseCorrect == CSpec => PauseEndsCommand
<1>1. ASSUME [CNext]_controlVars
      PROVE  [cmd.name \in Directed /\ paused
                /\ <<vars, paused>>' # <<vars, paused>>
                => cmd' = Idle]_controlVars
  <2> SUFFICES ASSUME cmd.name \in Directed, paused,
                      <<vars, paused>>' # <<vars, paused>>
               PROVE  cmd' = Idle
    OBVIOUS
  <2>1. cmd # Idle
    BY DEF Directed, Commands, Idle
  <2>2. LoopTurn
    BY <1>1, <2>1 DEF CNext, PauseSimulation, controlVars
  <2> QED
    BY <2>2, PausedTurnEnds
<1> QED
  BY <1>1, PTL DEF CSpec, PauseEndsCommand

(* A forward step that newly meets a failing assertion stops at it.        *)
LEMMA FailureStopsStep ==
  ASSUME StepForward, FailsNow
  PROVE  DidAssertionFail'
<1>1. CASE StepStopsAtAssertion
  BY <1>1 DEF StepStopsAtAssertion, FlagAfterRetreat, FailsNow, DidAssertionFail
<1>2. CASE ~StepStopsAtAssertion
  BY <1>2 DEF StepForward, StepForwardRefused, StepControl, StepPastAssertion,
       StepAssertionThrows, StepAssertionCrashes, StepCollapses, StepBarrier,
       StepGate, StepUnsupportedThrows, StepRunsOffCircuit, Simulates, Advance,
       FailsNow, marks
<1> QED
  BY <1>1, <1>2

(* No command but runAll runs past a breakpoint, and none of them that     *)
(* moves forward runs past an assertion that fails.                        *)
THEOREM NothingIsMissed == CSpec => NothingMissed
<1>1. ASSUME [CNext]_controlVars
      PROVE  [cmd.name \in Directed /\ cmd' = cmd /\ vars' # vars =>
                /\ ~WasBreakpointHit'
                /\ cmd.name \in {"run", "over", "out"} => ~FailsNow
             ]_controlVars
  <2> SUFFICES ASSUME cmd.name \in Directed, cmd' = cmd, vars' # vars
               PROVE  /\ ~WasBreakpointHit'
                      /\ cmd.name \in {"run", "over", "out"} => ~FailsNow
    OBVIOUS
  <2>1. cmd # Idle
    BY DEF Directed, Commands, Idle
  <2>2. LoopTurn
    BY <1>1, <2>1, LoopsByTurns
  <2>3. CASE RunTurn \/ OverTurn \/ OutForwardTurn
    <3>1. StepForward /\ ~Stopped'
      BY <2>1, <2>3 DEF RunTurn, OverTurn, OutForwardTurn, OutTurn, PausedTurn,
                        Return, Turn, EndIf
    <3> QED
      BY <3>1, FailureStopsStep DEF Stopped
  <2>4. CASE RunBackTurn \/ OverBackTurn \/ OutBackTurn
    <3>1. ~WasBreakpointHit' /\ cmd.name \notin {"run", "over", "out"}
      BY <2>1, <2>4 DEF RunBackTurn, OverBackTurn, OutBackTurn, OutTurn,
                        PausedTurn, Return, Turn, EndIf, Stopped
    <3> QED
      BY <3>1
  <2> QED
    BY <2>2, <2>3, <2>4 DEF LoopTurn, RunAllTurn, Directed
<1> QED
  BY <1>1, PTL DEF CSpec, NothingMissed

-----------------------------------------------------------------------------
(* What runAll counts.                                                     *)

(* The flag lies on the way passed, never ahead: an instruction arrived at *)
(* by a step forward is not taken for the one that failed.                 *)
FlagIsBehind == ready => lastFailedAssertion <= currentInstruction

RunAllCountsSoFar ==
  /\ cmd = Idle => failures = 0
  /\ cmd.name = "runAll" /\ pauses = 0 =>
       ~paused /\ failedAssertions = failures

CountInv == CommandInv /\ FlagIsBehind /\ RunAllCountsSoFar

LEMMA AssertionAdvances ==
  ASSUME FlowInv, Advance, TypeOf(currentInstruction) = "ASSERTION"
  PROVE  currentInstruction' > currentInstruction
<1>1. Ahead(Table, Flow) /\ Flow.pos = currentInstruction
  BY FlowAhead DEF Advance, Flow
<1>2. Moves(Table, Flow, Forward(Table, Flow))
  BY <1>1, ForwardMoves
<1>3. Forward(Table, Flow).pos > currentInstruction
  BY <1>1, <1>2 DEF Moves, TypeOf
<1> QED
  BY <1>3 DEF Advance, SetFlow

LEMMA PositionIsNat ==
  ASSUME EngineInv
  PROVE  /\ currentInstruction \in Nat
         /\ lastFailedAssertion \in Nat \cup {NoInstruction}
<1>1. Flow \in Flows(Table) /\ Table.n \in Nat
  BY TableIsWellFormed DEF EngineInv, FlowInv, WellFormedFlow
<1>2. currentInstruction \in 0 .. Table.n
  BY <1>1 DEF Flows, Flow
<1> QED
  BY <1>1, <1>2 DEF EngineInv, TypeOK

LEMMA PositionStaysNat ==
  ASSUME EngineInv'
  PROVE  currentInstruction' \in Nat
<1>1. WellFormedFlow(Code[prog'])
  BY CodeIsWellFormed DEF EngineInv, FlowInv, WellFormed
<1>2. Flow' \in Flows(Code[prog'])
  BY DEF EngineInv, FlowInv, Table
<1>3. Flow'.pos \in Nat
  BY <1>1, <1>2 DEF Flows, WellFormedFlow
<1> QED
  BY <1>3 DEF Flow

(* A step forward either leaves the flag alone, clears it, or sets it to   *)
(* the assertion it stops at; only the last is a failure to count.         *)
LEMMA BehindAhead ==
  ASSUME EngineInv, EngineInv', FlagIsBehind, StepForward
  PROVE  FlagIsBehind' /\ (FailsNow <=> CountsAsFailure)
<1>1. CASE StepStopsAtAssertion
  <2>1. UNCHANGED flow
    BY <1>1, FlowStops DEF StepStopsAtAssertion, EngineInv
  <2>2. /\ lastFailedAssertion' = currentInstruction
        /\ currentInstruction' = currentInstruction
        /\ lastFailedAssertion # currentInstruction /\ result' = "OK"
    BY <1>1, <2>1 DEF StepStopsAtAssertion, FlagAfterRetreat, flow
  <2> QED
    BY <2>2, PositionIsNat
       DEF FlagIsBehind, FailsNow, CountsAsFailure, DidAssertionFail,
           NoInstruction
<1>2. CASE StepPastAssertion \/ StepAssertionThrows \/ StepAssertionCrashes
  <2>1. /\ Advance /\ TypeOf(currentInstruction) = "ASSERTION"
        /\ lastFailedAssertion' = lastFailedAssertion
    BY <1>2 DEF StepPastAssertion, StepAssertionThrows, StepAssertionCrashes
  <2>2. ready /\ currentInstruction' > currentInstruction
    BY <2>1, AssertionAdvances DEF Advance, CanStepForward, EngineInv
  <2>3. currentInstruction' \in Nat
    BY PositionStaysNat
  <2> QED
    BY <2>1, <2>2, <2>3, PositionIsNat
       DEF FlagIsBehind, FailsNow, CountsAsFailure, DidAssertionFail,
           NoInstruction
<1>3. CASE StepForwardRefused
  BY <1>3 DEF StepForwardRefused, FlagIsBehind, FailsNow, CountsAsFailure,
              code, flow, marks
<1>4. CASE lastFailedAssertion' = NoInstruction
  <2>1. currentInstruction' \in Nat
    BY PositionStaysNat
  <2> QED
    BY <1>4, <2>1 DEF FlagIsBehind, FailsNow, CountsAsFailure,
                      DidAssertionFail, NoInstruction
<1> QED
  BY <1>1, <1>2, <1>3, <1>4 DEF StepForward, StepControl, StepCollapses,
     StepBarrier, StepGate, StepUnsupportedThrows, StepRunsOffCircuit, Simulates

LEMMA BehindBack ==
  ASSUME EngineInv', FlagIsBehind, StepBackward
  PROVE  FlagIsBehind'
<1>1. CASE StepBackwardRefused
  BY <1>1 DEF StepBackwardRefused, FlagIsBehind, code, flow, marks
<1>2. CASE Retreat
  <2>1. currentInstruction' \in Nat
    BY PositionStaysNat
  <2> QED
    BY <1>2, <2>1 DEF Retreat, FlagAfterRetreat, FlagIsBehind, NoInstruction
<1> QED
  BY <1>1, <1>2 DEF StepBackward, BackPastControl, BackPastBarrier,
     BackPastGate, BackUnsupportedThrows, BackRunsOffCircuit, BackOver

LEMMA BehindStep ==
  ASSUME EngineInv, FlagIsBehind, [CNext]_controlVars
  PROVE  FlagIsBehind'
<1>1. EngineInv'
  BY EngineKept
<1>2. CASE UNCHANGED <<ready, currentInstruction, lastFailedAssertion>>
  BY <1>2 DEF FlagIsBehind
<1>3. CASE lastFailedAssertion' = NoInstruction \/ ~ready'
  <2>1. currentInstruction' \in Nat
    BY <1>1, PositionStaysNat
  <2> QED
    BY <1>3, <2>1 DEF FlagIsBehind, NoInstruction
<1>4. CASE StepForward
  BY <1>1, <1>4, BehindAhead
<1>5. CASE StepBackward
  BY <1>1, <1>5, BehindBack
<1>6. ASSUME NEW p, LoadCode(p) \/ LoadRejected(p)
      PROVE  FlagIsBehind'
  BY <1>3, <1>6 DEF LoadCode, LoadRejected
<1>7. CASE ResetSimulation
  BY <1>3, <1>7 DEF ResetSimulation
<1>8. ASSUME NEW i, SetBreakpoint(i) \/ ClearBreakpoints
      PROVE  FlagIsBehind'
  BY <1>2, <1>8 DEF SetBreakpoint, ClearBreakpoints, code, flow, marks
<1>9. CASE Edit
  BY <1>2, <1>9 DEF Edit, ChangeClassicalVariableValue, ChangeAmplitudeValue,
                    code, flow, marks
<1>10. CASE Quiet \/ UNCHANGED vars
  BY <1>2, <1>10 DEF Quiet, engine, vars, code, flow, marks
<1> QED
  BY <1>4, <1>5, <1>6, <1>7, <1>8, <1>9, <1>10, EngineOrQuiet DEF Next

LEMMA CountStep ==
  ASSUME CountInv, [CNext]_controlVars
  PROVE  CountInv'
<1>1. CommandInv' /\ FlagIsBehind'
  BY CommandStep, BehindStep DEF CountInv, CommandInv
<1>2. RunAllCountsSoFar'
  <2>1. CASE PauseSimulation
    <3>1. cmd.name = "runAll" => pauses' # 0
      BY <2>1 DEF PauseSimulation, Idle, CountInv, CommandInv, CTypeOK
    <3> QED
      BY <2>1, <3>1 DEF PauseSimulation, RunAllCountsSoFar, CountInv
  <2>2. CASE UNCHANGED controlVars
    BY <2>2 DEF controlVars, RunAllCountsSoFar, CountInv
  <2>3. CASE Alive /\ cmd = Idle /\ Client
    <3>1. failures' = failures /\ failures = 0
      BY <2>3 DEF Client, Once, StartAfresh, Afresh, StartRun, StartRunBack,
         StartRunAll, StartOver, StartOverBack, StartOut, StartOutBack, Begin,
         Refuse, RunAllCountsSoFar, CountInv
    <3>2. \/ cmd' = Idle
          \/ failedAssertions' = 0 /\ paused' = paused /\ pauses' = One(paused)
      BY <2>3 DEF Client, Once, StartAfresh, Afresh, StartRun, StartRunBack,
         StartRunAll, StartOver, StartOverBack, StartOut, StartOutBack, Begin,
         Refuse
    <3> QED
      BY <3>1, <3>2 DEF RunAllCountsSoFar, One, Idle
  <2>4. CASE Alive /\ cmd # Idle /\ LoopTurn
    <3>1. CASE cmd' = Idle
      BY <2>4, <3>1 DEF LoopTurn, RunAllCountsSoFar, Idle
    <3>2. CASE cmd' = cmd /\ cmd.name # "runAll"
      BY <2>4, <3>2 DEF RunAllCountsSoFar
    <3>3. CASE cmd' = cmd /\ cmd.name = "runAll"
      <4>1. RunAllTurn /\ failures' = failures + One(FailsNow) /\ pauses' = pauses
        BY <2>4, <3>3 DEF LoopTurn, RunTurn, RunBackTurn, OverTurn,
           OverBackTurn, OutForwardTurn, OutBackTurn, OutTurn
      <4>2. CASE pauses # 0
        BY <2>4, <3>3, <4>1, <4>2 DEF RunAllCountsSoFar
      <4>3. CASE pauses = 0
        <5>1. ~paused /\ failedAssertions = failures
          BY <3>3, <4>3 DEF CountInv, RunAllCountsSoFar
        <5>2. /\ StepForward /\ paused' = paused
              /\ failedAssertions' = failedAssertions + One(CountsAsFailure)
          BY <4>1, <5>1 DEF RunAllTurn, TakePause, Turn
        <5>3. FailsNow <=> CountsAsFailure
          BY <1>1, <5>2, BehindAhead DEF CountInv, CommandInv
        <5> QED
          BY <2>4, <3>3, <4>1, <5>1, <5>2, <5>3 DEF RunAllCountsSoFar, One
      <4> QED
        BY <4>2, <4>3
    <3> QED
      BY <2>4, <3>1, <3>2, <3>3, TurnGoesOnOrEnds
  <2> QED
    BY <2>1, <2>2, <2>3, <2>4 DEF CNext
<1> QED
  BY <1>1, <1>2 DEF CountInv

(* runAll goes through to the end of the program, past every assertion     *)
(* that fails, and when nobody pauses it reports how many did.             *)
THEOREM RunAllCorrect == CSpec => RunAllCounts
<1>1. CInit => CountInv
  <2> SUFFICES ASSUME CInit PROVE CountInv
    OBVIOUS
  <2>1. FlagIsBehind /\ RunAllCountsSoFar
    BY DEF CInit, Init, FlagIsBehind, RunAllCountsSoFar, Idle
  <2> QED
    BY <2>1, CommandInit DEF CountInv
<1>2. CountInv /\ [CNext]_controlVars => CountInv'
  BY CountStep
<1>3. ASSUME CountInv, [CNext]_controlVars
      PROVE  [cmd.name = "runAll" /\ cmd' = Idle /\ result' = "OK" =>
                /\ IsFinished'
                /\ pauses = 0 => failedAssertions' = failures + One(FailsNow)
             ]_controlVars
  <2> SUFFICES ASSUME cmd.name = "runAll", cmd' = Idle, result' = "OK"
               PROVE  /\ IsFinished'
                      /\ pauses = 0 =>
                           failedAssertions' = failures + One(FailsNow)
    OBVIOUS
  <2>1. cmd # Idle
    BY DEF Idle
  <2>2. LoopTurn
    BY <1>3, <2>1, LoopsByTurns
  <2>3. RunAllTurn
    BY <2>2 DEF LoopTurn, RunTurn, RunBackTurn, OverTurn, OverBackTurn,
                OutForwardTurn, OutBackTurn, OutTurn
  <2>4. /\ StepForward /\ IsFinished'
        /\ failedAssertions' = failedAssertions + One(CountsAsFailure)
    BY <2>1, <2>3 DEF RunAllTurn, EndIf, Turn
  <2>5. FailsNow <=> CountsAsFailure
    BY <1>3, <2>4, CountStep, BehindAhead DEF CountInv, CommandInv
  <2>6. pauses = 0 => failedAssertions = failures
    BY <1>3 DEF CountInv, RunAllCountsSoFar
  <2> QED
    BY <2>4, <2>5, <2>6 DEF One
<1> QED
  BY <1>1, <1>2, <1>3, PTL DEF CSpec, RunAllCounts

-----------------------------------------------------------------------------
(* The requests of the server and their stages.                            *)

Asked == {"next", "stepIn", "stepOut", "continue", "reverseContinue",
          "stepBack", "pause", "stackTrace", "exceptionInfo", "terminate",
          "disconnect", "setVariable"}

CallNames == {"over", "forward", "out", "run", "runBack", "stepBack",
              "restartFrame", "pause", "stackTrace", "exceptionInfo", "load",
              "reject", "reset", "clear", "set", "setVariable", "destroy"}

(* The requests under way, and how far the server has come with them.      *)
Pending ==
  [name : Asked]
  \cup [name : {"restartFrame"}, frame : Nat \ {0}]
  \cup [name : Starts, program : Programs, entry : BOOLEAN, accepted : BOOLEAN]
  \cup [name : {"setBreakpoints"}, program : Programs, at : SUBSET Nat]

Handlers ==
  [todo : Seq(CallNames), call : CallNames \cup {"none"}, owed : BOOLEAN]

(* The call a request of one call makes.                                   *)
OneCall(name) ==
  CASE name = "next" -> "over"
    [] name = "stepIn" -> "forward"
    [] name = "stepOut" -> "out"
    [] name = "continue" -> "run"
    [] name = "reverseContinue" -> "runBack"
    [] name \in {"terminate", "disconnect"} -> "destroy"
    [] OTHER -> name

LoadLists == {<<"reject", "reset">>, <<"load">>, <<"load", "run">>}
AfterReset == {<<"reset", "reject", "reset">>, <<"reset", "load">>,
               <<"reset", "load", "run">>}

(* The call a request made last and the calls it has still to make.        *)
StartStages(call, todo) ==
  \/ call = "none" /\ todo \in LoadLists \cup AfterReset
  \/ call = "reset" /\ todo \in LoadLists \cup {<<>>}
  \/ call = "reject" /\ todo = <<"reset">>
  \/ call = "load" /\ todo \in {<<>>, <<"run">>}
  \/ call = "run" /\ todo = <<>>

BreakpointStages(call, todo) ==
  \/ call = "none" /\ todo \in {<<>>, <<"clear">>, <<"clear", "set">>}
  \/ call = "clear" /\ todo \in {<<>>, <<"set">>}
  \/ call = "set" /\ todo = <<>>

SingleStages(name, call, todo) ==
  \/ call = "none" /\ todo = <<OneCall(name)>>
  \/ call = OneCall(name) /\ todo = <<>>
  \/ /\ name = "restartFrame" /\ call = "restartFrame"
     /\ todo = <<"restartFrame">>

Stages ==
  CASE request.name \in Starts -> StartStages(handler.call, handler.todo)
    [] request.name = "setBreakpoints" ->
         BreakpointStages(handler.call, handler.todo)
    [] OTHER -> SingleStages(request.name, handler.call, handler.todo)

(* The loop a call started.                                                *)
Loops(call) ==
  CASE call = "over" -> {"over"}
    [] call = "out" -> {"out", "run"}
    [] call = "run" -> {"run"}
    [] call = "runBack" -> {"runBack"}
    [] call = "stepBack" -> {"overBack"}
    [] call = "restartFrame" -> {"outBack", "runBack"}
    [] OTHER -> {}

RequestInv ==
  /\ request = NoRequest \/ (request \in Pending /\ Stages)
  /\ handler \in Handlers
  /\ cmd # Idle => request # NoRequest /\ cmd.name \in Loops(handler.call)

(* A request that leaves the engine where it is.                           *)
Stays == request.name \notin Motions \cup Starts

(* A program that was rejected keeps the marks of the one before it until  *)
(* the reset that follows the rejection in the same request.               *)
MarksAreCleared ==
  ~ready /\ ~destroyed /\ (request # NoRequest => handler.call # "reject") =>
    lastFailedAssertion = NoInstruction /\ lastMetBreakpoint = NoInstruction

ToldInv ==
  Stays /\ ~destroyed =>
    /\ told.stop \in {"exception", "breakpoint"} => ready
    /\ told.stop = "exception" => DidAssertionFail

(* Errors are pending from the rejection to the answer only.               *)
HighlightsInv ==
  pending_highlights =>
    /\ request # NoRequest /\ ~ready
    /\ \/ handler.call = "reject"
       \/ handler.call = "reset" /\ handler.todo = <<>>

EndInv == Stays /\ ready /\ IsFinished /\ Table.n # 0 => told.exited

(* restartFrame is above its frame, at its call or back in it.             *)
AtItsCall ==
  /\ Depth = request.frame - 1 /\ ~IsFinished
  /\ TypeOf(currentInstruction) = "CALL"

InItsFrame ==
  /\ Depth = request.frame /\ callReturnStack # <<>>
  /\ currentInstruction = Table.succ[Last(callReturnStack)]

FrameInv ==
  request.name = "restartFrame" =>
    /\ cmd # Idle => handler.todo # <<>>
    /\ cmd.name = "outBack" => cmd.depth + 1 >= request.frame
    /\ cmd.name = "runBack" => request.frame = 1
    /\ cmd = Idle /\ ~Raised =>
         IF handler.todo # <<>> THEN Depth >= request.frame \/ AtItsCall
                                ELSE InItsFrame

(* What an entitled request finds, before its call and while it loops.     *)
OwedInv ==
  request # NoRequest /\ handler.owed =>
    /\ ready /\ ~destroyed /\ Evaluable
    /\ request.name \notin Starts \cup {"terminate", "disconnect"}
    /\ request.name = "restartFrame" => request.frame > 1
    /\ handler.call = "none" /\ request.name = "reverseContinue" => CanStepBackward
    /\ handler.call = "none" /\ request.name # "restartFrame" => ~IsFinished
    /\ request.name = "exceptionInfo" => TypeOf(currentInstruction) = "ASSERTION"
    /\ cmd.name = "runBack" => CanStepBackward
    /\ cmd.name = "run" => ~IsFinished
    /\ cmd = Idle /\ Alive => ~Raised

-----------------------------------------------------------------------------
(* Lists of calls.                                                         *)

LEMMA ShortLists ==
  ASSUME NEW S, NEW a \in S, NEW b \in S, NEW c \in S
  PROVE  /\ <<>> \in Seq(S) /\ <<a>> \in Seq(S)
         /\ <<a, b>> \in Seq(S) /\ <<a, b, c>> \in Seq(S)
         /\ <<a>> # <<>> /\ Head(<<a>>) = a /\ Tail(<<a>>) = <<>>
         /\ <<a, b>> # <<>> /\ Head(<<a, b>>) = a /\ Tail(<<a, b>>) = <<b>>
         /\ <<a, b, c>> # <<>> /\ Head(<<a, b, c>>) = a
         /\ Tail(<<a, b, c>>) = <<b, c>>
  OBVIOUS

LEMMA Prefixed ==
  ASSUME NEW S, NEW a \in S, NEW b \in S, NEW c \in S
  PROVE  <<a>> \o <<b>> = <<a, b>> /\ <<a>> \o <<b, c>> = <<a, b, c>>
<1>1. ASSUME NEW t \in Seq(S), NEW u \in Seq(S), Len(u) = Len(t) + 1,
             u[1] = a, \A i \in 1 .. Len(t) : u[i + 1] = t[i]
      PROVE  <<a>> \o t = u
  <2>1. <<a>> \in Seq(S) /\ Len(<<a>>) = 1 /\ <<a>>[1] = a /\ Len(t) \in Nat
    BY LenProperties
  <2>2. /\ <<a>> \o t \in Seq(S) /\ Len(<<a>> \o t) = 1 + Len(t)
        /\ \A i \in 1 .. 1 + Len(t) :
             (<<a>> \o t)[i] = IF i <= 1 THEN <<a>>[i] ELSE t[i - 1]
    BY <2>1, ConcatProperties
  <2>3. \A i \in 1 .. 1 + Len(t) : (<<a>> \o t)[i] = u[i]
    <3> SUFFICES ASSUME NEW i \in 1 .. 1 + Len(t)
                 PROVE  (<<a>> \o t)[i] = u[i]
      OBVIOUS
    <3>1. CASE i = 1
      BY <1>1, <2>1, <2>2, <3>1
    <3>2. CASE i # 1
      <4>1. i - 1 \in 1 .. Len(t) /\ ~(i <= 1) /\ (i - 1) + 1 = i
        BY <2>1, <3>2
      <4> QED
        BY <1>1, <2>2, <4>1
    <3> QED
      BY <3>1, <3>2
  <2> QED
    BY <1>1, <2>1, <2>2, <2>3, SeqEqual
<1>2. <<a>> \o <<b>> = <<a, b>>
  <2> DEFINE t == <<b>>
             u == <<a, b>>
  <2>1. /\ t \in Seq(S) /\ u \in Seq(S) /\ Len(u) = Len(t) + 1 /\ u[1] = a
        /\ \A i \in 1 .. Len(t) : u[i + 1] = t[i]
    OBVIOUS
  <2> HIDE DEF t, u
  <2>2. <<a>> \o t = u
    BY <1>1, <2>1
  <2> QED
    BY <2>2 DEF t, u
<1>3. <<a>> \o <<b, c>> = <<a, b, c>>
  <2> DEFINE t == <<b, c>>
             u == <<a, b, c>>
  <2>1. /\ t \in Seq(S) /\ u \in Seq(S) /\ Len(u) = Len(t) + 1 /\ u[1] = a
        /\ \A i \in 1 .. Len(t) : u[i + 1] = t[i]
    OBVIOUS
  <2> HIDE DEF t, u
  <2>2. <<a>> \o t = u
    BY <1>1, <2>1
  <2> QED
    BY <2>2 DEF t, u
<1> QED
  BY <1>2, <1>3

LEMMA CallNamesAreCalls ==
  ASSUME NEW name \in Asked \cup {"restartFrame"}
  PROVE  OneCall(name) \in CallNames /\ OneCall(name) # "none"
  BY DEF OneCall, Asked, CallNames

(* What a request asks for is a list of calls.                             *)
LEMMA RequestLists ==
  ASSUME NEW r \in Requests
  PROVE  /\ CallsFor(r) \in Seq(CallNames)
         /\ r.name \in Asked \cup {"restartFrame"} => CallsFor(r) = <<OneCall(r.name)>>
         /\ r.name \in Starts => CallsFor(r) \in LoadLists \cup AfterReset
         /\ r.name = "setBreakpoints" =>
              CallsFor(r) \in {<<>>, <<"clear">>, <<"clear", "set">>}
<1>1. CASE r.name \in Asked \cup {"restartFrame"}
  <2>1. CallsFor(r) = <<OneCall(r.name)>>
    BY <1>1 DEF CallsFor, OneCall, Asked
  <2>2. CallsFor(r) \in Seq(CallNames)
    BY <1>1, <2>1, CallNamesAreCalls, ShortLists
  <2> QED
    BY <1>1, <2>1, <2>2 DEF Asked, Starts
<1>2. CASE r.name \in Starts
  <2>1. LoadCalls(r) \in LoadLists
    BY DEF LoadCalls, RejectedCalls, LoadLists
  <2>2. <<"reset">> \o LoadCalls(r) \in AfterReset
    <3>1. /\ <<"reset">> \o <<"load">> = <<"reset", "load">>
          /\ <<"reset">> \o <<"reject", "reset">> = <<"reset", "reject", "reset">>
          /\ <<"reset">> \o <<"load", "run">> = <<"reset", "load", "run">>
      <4>1. {"reject", "reset", "load", "run"} \subseteq CallNames
        BY DEF CallNames
      <4> QED
        BY <4>1, Prefixed
    <3> QED
      BY <2>1, <3>1 DEF LoadLists, AfterReset
  <2>3. CallsFor(r) \in LoadLists \cup AfterReset
    BY <1>2, <2>1, <2>2 DEF CallsFor, Starts
  <2>4. LoadLists \cup AfterReset \subseteq Seq(CallNames)
    <3>1. {"reject", "reset", "load", "run"} \subseteq CallNames
      BY DEF CallNames
    <3> QED
      BY <3>1, ShortLists DEF LoadLists, AfterReset
  <2> QED
    BY <1>2, <2>3, <2>4 DEF Starts, Asked
<1>3. CASE r.name = "setBreakpoints"
  <2>1. CallsFor(r) \in {<<>>, <<"clear">>, <<"clear", "set">>}
    BY <1>3 DEF CallsFor, BreakpointCalls, Starts
  <2>2. "clear" \in CallNames /\ "set" \in CallNames
    BY DEF CallNames
  <2>3. {<<>>, <<"clear">>, <<"clear", "set">>} \subseteq Seq(CallNames)
    BY <2>2
  <2> QED
    BY <1>3, <2>1, <2>3 DEF Starts, Asked
<1> QED
  BY <1>1, <1>2, <1>3 DEF Requests, Asked, Starts

-----------------------------------------------------------------------------
(* Making a call leads on to the next stage.                               *)

LEMMA StartMoves ==
  ASSUME NEW call, NEW todo, StartStages(call, todo), todo # <<>>
  PROVE  /\ StartStages(Head(todo), Tail(todo))
         /\ Head(todo) \in {"reset", "reject", "load", "run"}
<1>1. /\ Head(<<"reset">>) = "reset" /\ Tail(<<"reset">>) = <<>>
      /\ Head(<<"load">>) = "load" /\ Tail(<<"load">>) = <<>>
      /\ Head(<<"run">>) = "run" /\ Tail(<<"run">>) = <<>>
      /\ Head(<<"load", "run">>) = "load" /\ Tail(<<"load", "run">>) = <<"run">>
      /\ Head(<<"reject", "reset">>) = "reject"
      /\ Tail(<<"reject", "reset">>) = <<"reset">>
  OBVIOUS
<1>2. /\ Head(<<"reset", "load">>) = "reset"
      /\ Tail(<<"reset", "load">>) = <<"load">>
      /\ Head(<<"reset", "load", "run">>) = "reset"
      /\ Tail(<<"reset", "load", "run">>) = <<"load", "run">>
      /\ Head(<<"reset", "reject", "reset">>) = "reset"
      /\ Tail(<<"reset", "reject", "reset">>) = <<"reject", "reset">>
  OBVIOUS
<1>3. CASE todo \in LoadLists
  BY <1>1, <1>3 DEF LoadLists, StartStages
<1>4. CASE todo \in AfterReset
  BY <1>2, <1>4 DEF LoadLists, AfterReset, StartStages
<1>5. CASE todo \in {<<"reset">>, <<"run">>}
  BY <1>1, <1>5 DEF StartStages
<1> QED
  BY <1>3, <1>4, <1>5 DEF StartStages

LEMMA BreakpointMoves ==
  ASSUME NEW call, NEW todo, BreakpointStages(call, todo), todo # <<>>
  PROVE  /\ BreakpointStages(Head(todo), Tail(todo))
         /\ Head(todo) \in {"clear", "set"}
<1>1. /\ Head(<<"clear">>) = "clear" /\ Tail(<<"clear">>) = <<>>
      /\ Head(<<"set">>) = "set" /\ Tail(<<"set">>) = <<>>
      /\ Head(<<"clear", "set">>) = "clear"
      /\ Tail(<<"clear", "set">>) = <<"set">>
  OBVIOUS
<1> QED
  BY <1>1 DEF BreakpointStages

LEMMA SingleMoves ==
  ASSUME NEW name, NEW call, NEW todo, SingleStages(name, call, todo), todo # <<>>
  PROVE  /\ SingleStages(name, Head(todo), Tail(todo))
         /\ Head(todo) = OneCall(name)
         /\ name = "restartFrame" => SingleStages(name, Head(todo), todo)
<1>1. CASE todo = <<OneCall(name)>>
  <2>1. Head(todo) = OneCall(name) /\ Tail(todo) = <<>>
    BY <1>1
  <2> QED
    BY <1>1, <2>1 DEF SingleStages, OneCall
<1>2. CASE name = "restartFrame" /\ todo = <<"restartFrame">>
  <2>1. Head(todo) = "restartFrame" /\ Tail(todo) = <<>>
    BY <1>2
  <2>2. OneCall(name) = "restartFrame"
    BY <1>2 DEF OneCall
  <2> QED
    BY <1>2, <2>1, <2>2 DEF SingleStages
<1> QED
  BY <1>1, <1>2 DEF SingleStages

(* The next call of a request, by its name.                                *)
LEMMA NextCall ==
  ASSUME RequestInv, request # NoRequest, handler.todo # <<>>
  PROVE  LET c == Head(handler.todo)
         IN  /\ request \in Pending
             /\ request.name \in Starts =>
                  /\ c \in {"reset", "reject", "load", "run"}
                  /\ StartStages(c, Tail(handler.todo))
             /\ request.name = "setBreakpoints" =>
                  /\ c \in {"clear", "set"}
                  /\ BreakpointStages(c, Tail(handler.todo))
             /\ request.name \in Asked \cup {"restartFrame"} =>
                  /\ c = OneCall(request.name)
                  /\ SingleStages(request.name, c, Tail(handler.todo))
                  /\ request.name = "restartFrame" =>
                       SingleStages(request.name, c, handler.todo)
<1>1. request \in Pending /\ Stages
  BY DEF RequestInv
<1>2. CASE request.name \in Starts
  BY <1>1, <1>2, StartMoves DEF Stages, Starts, Asked
<1>3. CASE request.name = "setBreakpoints"
  BY <1>1, <1>3, BreakpointMoves DEF Stages, Starts, Asked
<1>4. CASE request.name \in Asked \cup {"restartFrame"}
  BY <1>1, <1>4, SingleMoves DEF Stages, Starts, Asked
<1> QED
  BY <1>1, <1>2, <1>3, <1>4 DEF Pending

(* What the server keeps of a request it received.                         *)
LEMMA Received ==
  ASSUME EngineInv, NEW r \in Requests, Receive(r)
  PROVE  /\ request' = r /\ r \in Pending /\ r # NoRequest
         /\ handler' \in Handlers /\ handler'.todo = CallsFor(r)
         /\ handler'.call = "none" /\ (handler'.owed <=> Reasonable(r))
         /\ r.name = "restartFrame" => r.frame \in 1 .. Depth
<1>1. /\ request' = r
      /\ handler' = [todo |-> CallsFor(r), call |-> "none",
                     owed |-> Reasonable(r)]
  BY DEF Receive
<1>2. CallsFor(r) \in Seq(CallNames)
  BY RequestLists
<1>3. Reasonable(r) \in BOOLEAN
  BY DEF Reasonable
<1>4. Table.n \in Nat /\ Depth \in Nat
  <2>1. Table.n \in Nat /\ callReturnStack \in Seq(CallsOf(Table))
    BY TableIsWellFormed DEF EngineInv, FlowInv, WellFormedFlow, Flows, Flow
  <2> QED
    BY <2>1, LenProperties DEF Depth
<1>5. r \in Pending /\ r # NoRequest
  BY <1>4 DEF Requests, Pending, NoRequest, Asked, Starts
<1>6. r.name = "restartFrame" => r.frame \in 1 .. Depth
  BY DEF Requests
<1>7. handler' \in Handlers
  BY <1>1, <1>2, <1>3 DEF Handlers
<1> QED
  BY <1>1, <1>5, <1>6, <1>7

(* What a call leaves to do.                                               *)
LEMMA CallMoves ==
  ASSUME handler \in Handlers, MakeCall
  PROVE  /\ handler.todo # <<>> /\ handler' \in Handlers
         /\ handler'.call = Head(handler.todo) /\ handler'.owed = handler.owed
         /\ handler'.todo = IF Head(handler.todo) = "restartFrame" /\ ~FrameIsLeft
                            THEN handler.todo ELSE Tail(handler.todo)
         /\ request' = request /\ request # NoRequest
<1>1. /\ handler.todo \in Seq(CallNames) /\ handler.todo # <<>>
  BY DEF Handlers, MakeCall
<1>2. Head(handler.todo) \in CallNames /\ Tail(handler.todo) \in Seq(CallNames)
  BY <1>1, HeadTailProperties
<1> QED
  BY <1>1, <1>2 DEF MakeCall, Handlers, CallDue

-----------------------------------------------------------------------------
(* The engine under the server.                                            *)

(* A call that only looks, or is refused.                                  *)
Look == \E answer \in {"OK", "ERROR", "THROWN"} : Refuse(answer)

(* What a server step does to the engine.                                  *)
Works == [CNext]_controlVars \/ Look \/ Once(Destroy)

LEMMA CallWorks ==
  ASSUME EngineInv, Alive, cmd = Idle, request \in Pending, NEW c, Perform(c),
         c \in {"load", "reject"} => request.program \in Programs
  PROVE  Works
<1>1. ASSUME Client
      PROVE  Works
  BY <1>1 DEF Works, CNext
<1>2. ASSUME NEW answer \in {"OK", "ERROR", "THROWN"}, Refuse(answer)
      PROVE  Works
  BY <1>2 DEF Works, Look
<1>3. CASE StartOver \/ StartOut \/ StartRun \/ StartRunBack
  BY <1>1, <1>3 DEF Client
<1>4. CASE Once(StepForward)
  BY <1>1, <1>4 DEF Client
<1>5. CASE BackIfPossible
  BY <1>1, <1>2, <1>5 DEF BackIfPossible, Nothing, Client
<1>6. CASE StartOutBack
  BY <1>1, <1>6 DEF Client
<1>7. CASE PauseSimulation
  BY <1>7 DEF Works, CNext
<1>8. CASE \/ Looks(ready /\ ~IsFinished, "ERROR")
           \/ Looks(~IsFinished /\ TypeOf(currentInstruction) = "ASSERTION",
                    "THROWN")
  BY <1>2, <1>8 DEF Looks
<1>9. CASE c = "load" /\ Load
  <2>1. LoadCode(request.program) /\ request.program \in Programs
    BY <1>9 DEF Load, Afresh
  <2>2. StartAfresh
    BY <1>9, <2>1 DEF Load, Afresh, StartAfresh
  <2> QED
    BY <1>1, <2>2 DEF Client
<1>10. CASE c = "reject" /\ Reject
  <2>1. \E p \in Programs \cup {NoProgram} : LoadRejected(p)
    BY <1>10 DEF Reject, Once
  <2>2. Once(\E p \in Programs \cup {NoProgram} : LoadRejected(p))
    BY <1>10, <2>1 DEF Reject, Once
  <2> QED
    BY <1>1, <2>2 DEF Client
<1>11. CASE Afresh(ResetSimulation)
  <2>1. StartAfresh
    BY <1>11 DEF Afresh, StartAfresh
  <2> QED
    BY <1>1, <2>1 DEF Client
<1>12. CASE Once(ClearBreakpoints)
  BY <1>1, <1>12 DEF Client
<1>13. CASE Set
  <2>1. CASE request.at \subseteq 0 .. Table.n - 1
    <3>1. \E i \in 0 .. Table.n - 1 : SetBreakpoint(i)
      BY <1>13, <2>1 DEF Set, Once
    <3>2. Once(\E i \in 0 .. Table.n - 1 : SetBreakpoint(i))
      BY <1>13, <2>1, <3>1 DEF Set, Once
    <3> QED
      BY <1>1, <3>2 DEF Client
  <2> QED
    BY <1>2, <1>13, <2>1 DEF Set
<1>14. CASE Nothing \/ (Editing /\ Once(Edit))
  <2>1. CASE Editing /\ Once(Edit)
    <3>1. Once(Editing /\ Edit)
      BY <2>1 DEF Once
    <3> QED
      BY <1>1, <3>1 DEF Client
  <2> QED
    BY <1>2, <1>14, <2>1 DEF Nothing
<1>15. CASE Once(Destroy)
  BY <1>15 DEF Works
<1> QED
  BY <1>3, <1>4, <1>5, <1>6, <1>7, <1>8, <1>9, <1>10, <1>11, <1>12, <1>13,
     <1>14, <1>15 DEF Perform

(* Only starting a program loads one.                                      *)
LEMMA LoadsHaveProgram ==
  ASSUME RequestInv, request # NoRequest, handler.todo # <<>>,
         Head(handler.todo) \in {"load", "reject"}
  PROVE  request.program \in Programs
<1>1. request.name \in Starts
  BY NextCall DEF OneCall, Asked, Pending, Starts
<1> QED
  BY <1>1 DEF RequestInv, Pending, Starts, Asked

LEMMA ServerWorks ==
  ASSUME EngineInv, RequestInv, [DNext]_dapVars
  PROVE  Works
<1>1. CASE UNCHANGED controlVars
  BY <1>1 DEF Works
<1>2. ASSUME Alive, MakeCall
      PROVE  Works
  <2>1. /\ cmd = Idle /\ request # NoRequest /\ handler.todo # <<>>
        /\ Perform(Head(handler.todo))
    BY <1>2 DEF MakeCall, CallDue
  <2>2. request \in Pending
    BY <2>1 DEF RequestInv
  <2>3. Head(handler.todo) \in {"load", "reject"} => request.program \in Programs
    BY <2>1, LoadsHaveProgram
  <2> QED
    BY <1>2, <2>1, <2>2, <2>3, CallWorks
<1>3. CASE Alive /\ Compute
  BY <1>3 DEF Compute, Works, CNext
<1>4. CASE Raise \/ Crash \/ Answer \/ UNCHANGED dapVars
  BY <1>1, <1>4 DEF Raise, Crash, EndSession, Answer, dapVars
<1>5. ASSUME NEW r \in Requests, Receive(r)
      PROVE  Works
  BY <1>1, <1>5 DEF Receive
<1> QED
  BY <1>2, <1>3, <1>4, <1>5 DEF DNext, Serve

(* The invariants of the engine and of the commands together.              *)
EngineSound == CommandInv /\ FlagInv /\ IterInv

LEMMA UnmovedIsSound ==
  ASSUME EngineSound, UNCHANGED <<prog, circuit, flow, data>>,
         UNCHANGED <<assertionInstructions, breakpoints, marks>>,
         UNCHANGED <<paused, cmd, failedAssertions, failures, pauses>>,
         ready' = ready \/ ready' = FALSE,
         result' \in {"OK", "ERROR", "THROWN", "CRASHED"}
  PROVE  EngineSound'
<1>1. FlowInv' /\ TypeOK /\ CTypeOK /\ CommandFrames /\ FlagInv
  BY FlowKept DEF EngineSound, CommandInv, EngineInv
<1>2. TypeOK'
  <2>1. Flow' \in Flows(Table)'
    BY <1>1 DEF FlowInv
  <2>2. ready' \in BOOLEAN /\ (ready' => circuit' = prog')
    <3>1. ready \in BOOLEAN /\ (ready => circuit = prog)
      BY <1>1 DEF TypeOK
    <3>2. CASE ready' = ready
      BY <3>1, <3>2
    <3>3. CASE ready' = FALSE
      BY <3>3, Zenon
    <3> QED
      BY <3>2, <3>3
  <2>3. assertionInstructions' \subseteq LoadedAssertions(prog')
    BY <1>1 DEF TypeOK
  <2> QED
    BY <1>1, <2>1, <2>2, <2>3 DEF TypeOK, data, marks
<1>3. CTypeOK'
  BY <1>1 DEF CTypeOK, Table
<1>4. CommandFrames'
  BY <1>1 DEF CommandFrames, IsAtStart, IsPending, CameByReturn, flow, TypeOf, Table
<1>5. FlagInv'
  BY <1>1 DEF FlagInv, data, marks, TypeOf, AssertionOutcome, Table
<1>6. IterInv'
  <2>1. CASE ready' = ready
    <3>1. UNCHANGED <<code, flow, iterator>>
      BY <2>1 DEF code, data
    <3> QED
      BY <2>1, <3>1, IterKept DEF EngineSound, IterInv, HasProgram, code
  <2>2. CASE ready' = FALSE
    BY <2>2 DEF IterInv, HasProgram, WayInStep
  <2> QED
    BY <2>1, <2>2
<1> QED
  BY <1>1, <1>2, <1>3, <1>4, <1>5, <1>6 DEF EngineSound, CommandInv, EngineInv

LEMMA EngineStaysSound ==
  ASSUME EngineSound, Works
  PROVE  EngineSound'
<1>1. CASE [CNext]_controlVars
  <2>1. CommandInv'
    BY <1>1, CommandStep DEF EngineSound
  <2>2. FlowInv /\ TypeOK
    BY DEF EngineSound, CommandInv, EngineInv
  <2>3. CASE [Next]_vars
    BY <2>1, <2>2, <2>3, FlagStep, IterStep DEF EngineSound
  <2>4. CASE Quiet
    <3>1. FlagInv'
      BY <2>4, FlagKept DEF Quiet, engine, EngineSound, data, marks
    <3>2. IterInv'
      BY <2>4, IterKept DEF Quiet, engine, EngineSound, IterInv, HasProgram,
                            code, data
    <3> QED
      BY <2>1, <3>1, <3>2 DEF EngineSound
  <2> QED
    BY <1>1, <2>3, <2>4, EngineOrQuiet
<1>2. CASE Look
  BY <1>2, UnmovedIsSound DEF Look, Refuse, code
<1>3. CASE Once(Destroy)
  BY <1>3, UnmovedIsSound DEF Once, Destroy
<1> QED
  BY <1>1, <1>2, <1>3 DEF Works

-----------------------------------------------------------------------------
(* Requests go from stage to stage.                                        *)

LEMMA CallBegins ==
  ASSUME cmd = Idle, NEW c, Perform(c)
  PROVE  cmd' = Idle \/ cmd'.name \in Loops(c)
<1>1. ASSUME NEW name, Begin(name)
      PROVE  cmd'.name = name
  BY <1>1 DEF Begin
<1>2. CASE c = "over" /\ StartOver
  BY <1>1, <1>2 DEF StartOver, Once, Refuse, Loops
<1>3. CASE c = "out" /\ StartOut
  BY <1>1, <1>3 DEF StartOut, StartRun, Refuse, Loops
<1>4. CASE \/ c = "run" /\ StartRun
           \/ c = "runBack" /\ StartRunBack
  BY <1>1, <1>4 DEF StartRun, StartRunBack, Refuse, Loops
<1>5. CASE c = "stepBack" /\ BackIfPossible
  BY <1>1, <1>5 DEF BackIfPossible, StartOverBack, Once, Refuse, Nothing, Loops
<1>6. CASE c = "restartFrame" /\ StartOutBack
  BY <1>1, <1>6 DEF StartOutBack, StartRunBack, Refuse, Loops
<1>7. CASE Once(StepForward) \/ Once(ClearBreakpoints) \/ Once(Edit)
             \/ Once(Destroy) \/ Afresh(ResetSimulation) \/ Load \/ Reject
             \/ PauseSimulation \/ Set \/ Nothing
  BY <1>7 DEF Once, Afresh, Load, Reject, PauseSimulation, Set, Nothing, Refuse
<1>8. CASE \/ Looks(ready /\ ~IsFinished, "ERROR")
           \/ Looks(~IsFinished /\ TypeOf(currentInstruction) = "ASSERTION",
                    "THROWN")
  BY <1>8 DEF Looks, Refuse
<1> QED
  BY <1>2, <1>3, <1>4, <1>5, <1>6, <1>7, <1>8 DEF Perform

LEMMA RequestStep ==
  ASSUME EngineInv, RequestInv, [DNext]_dapVars
  PROVE  RequestInv'
<1>1. CASE UNCHANGED <<request, handler>> /\ cmd' \in {cmd, Idle}
  BY <1>1 DEF RequestInv, Stages
<1>2. ASSUME NEW r \in Requests, Receive(r)
      PROVE  RequestInv'
  <2>1. /\ request' = r /\ r \in Pending /\ r # NoRequest
        /\ handler' \in Handlers /\ handler'.todo = CallsFor(r)
        /\ handler'.call = "none"
    BY <1>2, Received
  <2>2. cmd' = Idle
    BY <1>2 DEF Receive, RequestInv, controlVars
  <2>3. Stages'
    BY <2>1, RequestLists
       DEF Stages, StartStages, BreakpointStages, SingleStages, Pending
  <2> QED
    BY <2>1, <2>2, <2>3 DEF RequestInv
<1>3. CASE MakeCall
  <2>1. /\ cmd = Idle /\ request # NoRequest /\ handler.todo # <<>>
        /\ Perform(Head(handler.todo)) /\ handler \in Handlers
    BY <1>3 DEF MakeCall, CallDue, RequestInv
  <2>2. /\ handler' \in Handlers /\ handler'.call = Head(handler.todo)
        /\ handler'.todo = IF Head(handler.todo) = "restartFrame" /\ ~FrameIsLeft
                           THEN handler.todo ELSE Tail(handler.todo)
        /\ request' = request
    BY <1>3, <2>1, CallMoves
  <2>3. request \in Pending /\ Stages'
    <3>1. CASE request.name \in Starts
      BY <2>1, <2>2, <3>1, NextCall DEF Stages
    <3>2. CASE request.name = "setBreakpoints"
      BY <2>1, <2>2, <3>2, NextCall DEF Stages, Starts
    <3>3. CASE request.name \in Asked \cup {"restartFrame"}
      <4>1. Head(handler.todo) = "restartFrame" => request.name = "restartFrame"
        BY <2>1, <3>3, NextCall DEF OneCall, Asked
      <4> QED
        BY <2>1, <2>2, <3>3, <4>1, NextCall DEF Stages, Starts, Asked
    <3>4. request \in Pending
      BY <2>1 DEF RequestInv
    <3> QED
      BY <3>1, <3>2, <3>3, <3>4 DEF Pending
  <2>4. cmd' = Idle \/ cmd'.name \in Loops(handler'.call)
    BY <2>1, <2>2, CallBegins
  <2> QED
    BY <2>1, <2>2, <2>3, <2>4 DEF RequestInv
<1>4. CASE Compute
  BY <1>1, <1>4, TurnGoesOnOrEnds DEF Compute, serverVars
<1>5. CASE Raise \/ Crash \/ UNCHANGED dapVars
  BY <1>1, <1>5 DEF Raise, Crash, EndSession, dapVars, controlVars, serverVars
<1>6. CASE Answer
  <2>1. request' = NoRequest /\ handler' = NoHandler /\ cmd' = Idle
    BY <1>6 DEF Answer, CallDue, controlVars
  <2>2. NoHandler \in Handlers
    BY EmptySeq DEF NoHandler, Handlers
  <2> QED
    BY <2>1, <2>2 DEF RequestInv
<1> QED
  BY <1>2, <1>3, <1>4, <1>5, <1>6 DEF DNext, Serve

-----------------------------------------------------------------------------
(* Types.                                                                  *)

ServerInv == EngineSound /\ RequestInv /\ DAPTypeOK

LEMMA ServerInit ==
  ASSUME DInit
  PROVE  ServerInv
<1>1. CommandInv
  BY CommandInit DEF DInit
<1>2. FlagInv /\ IterInv
  BY DEF DInit, CInit, Init, FlagInv, IterInv, HasProgram, WayInStep
<1>3. RequestInv
  <2>1. NoHandler \in Handlers
    BY EmptySeq DEF NoHandler, Handlers
  <2> QED
    BY <2>1 DEF DInit, CInit, RequestInv
<1>4. DAPTypeOK
  BY DEF DInit, CInit, DAPTypeOK
<1> QED
  BY <1>1, <1>2, <1>3, <1>4 DEF ServerInv, EngineSound

(* The engine answers its questions with yes or no.                        *)
LEMMA AnswersAreBoolean ==
  ASSUME EngineInv
  PROVE  CanStepBackward \in BOOLEAN
  BY DEF CanStepBackward

LEMMA ServerTypes ==
  ASSUME EngineInv, RequestInv, DAPTypeOK, [DNext]_dapVars
  PROVE  DAPTypeOK'
<1>1. RequestInv'
  BY RequestStep
<1>2. cmd' # Idle => request' # NoRequest
  BY <1>1 DEF RequestInv
<1>3. CASE UNCHANGED <<source_file, destroyed, can_step_back, prevent_exit,
                       pending_highlights, told>>
           /\ session' \in {session, "ended", "crashed"}
  BY <1>2, <1>3 DEF DAPTypeOK
<1>4. CASE MakeCall
  <2>1. /\ request # NoRequest /\ handler.todo # <<>>
        /\ UNCHANGED <<session, can_step_back, prevent_exit, told>>
    BY <1>4 DEF MakeCall, CallDue
  <2>2. source_file' \in Programs \cup {NoProgram}
    BY <1>4, <2>1, LoadsHaveProgram DEF MakeCall, DAPTypeOK
  <2>3. destroyed' \in BOOLEAN /\ pending_highlights' \in BOOLEAN
    BY <1>4 DEF MakeCall
  <2> QED
    BY <1>2, <2>1, <2>2, <2>3 DEF DAPTypeOK
<1>5. CASE Answer
  <2>1. can_step_back' \in BOOLEAN
    BY <1>5, AnswersAreBoolean DEF Answer
  <2>2. prevent_exit' \in BOOLEAN
    BY <1>5 DEF Answer
  <2>3. told' \in [stop : {"none", "entry", "step", "breakpoint", "exception",
                           "pause"}, exited : BOOLEAN]
    <3>1. StopTold(request) \in {"none", "entry", "step", "breakpoint",
                                 "exception", "pause"}
      BY DEF StopTold, StopReason, DAPTypeOK
    <3> QED
      BY <1>5, <3>1 DEF Answer, DAPTypeOK
  <2> QED
    BY <1>2, <1>5, <2>1, <2>2, <2>3 DEF DAPTypeOK, Answer
<1> QED
  BY <1>3, <1>4, <1>5 DEF DNext, Serve, Receive, Compute, Raise, Crash,
     EndSession, serverVars, dapVars

LEMMA ServerStep ==
  ASSUME ServerInv, [DNext]_dapVars
  PROVE  ServerInv' /\ Works
<1>1. EngineInv /\ EngineSound /\ RequestInv /\ DAPTypeOK
  BY DEF ServerInv, EngineSound, CommandInv
<1> QED
  BY <1>1, ServerWorks, EngineStaysSound, RequestStep, ServerTypes DEF ServerInv

(* The server keeps its types, and a command of the engine runs only while *)
(* a request is under way.                                                 *)
THEOREM ServerTypeCorrect == DSpec => []DAPTypeOK
<1>1. DInit => ServerInv
  BY ServerInit
<1>2. ServerInv /\ [DNext]_dapVars => ServerInv'
  BY ServerStep
<1>3. ServerInv => DAPTypeOK
  BY DEF ServerInv
<1> QED
  BY <1>1, <1>2, <1>3, PTL DEF DSpec

-----------------------------------------------------------------------------
(* What the client is told.                                                *)

(* Requests that do not move the engine leave it alone until it is         *)
(* destroyed.                                                              *)
LEMMA StaysStill ==
  ASSUME RequestInv, Stays, MakeCall
  PROVE  /\ UNCHANGED <<prog, circuit, flow, marks>>
         /\ destroyed' \/ (ready' = ready /\ ~destroyed)
         /\ ready' => ready
         /\ Head(handler.todo) # "reject"
<1> DEFINE c == Head(handler.todo)
<1>1. /\ request # NoRequest /\ handler.todo # <<>> /\ Perform(c)
      /\ destroyed' = (destroyed \/ c = "destroy")
  BY DEF MakeCall, CallDue
<1>2. c \in {"pause", "stackTrace", "exceptionInfo", "destroy", "setVariable",
             "clear", "set"}
  BY <1>1, NextCall DEF Stays, Pending, Asked, Motions, Starts, OneCall
<1> HIDE DEF c
<1>3. CASE c = "destroy"
  <2>1. Once(Destroy)
    BY <1>1, <1>3 DEF Perform
  <2>2. destroyed'
    BY <1>1, <1>3
  <2> QED
    BY <1>3, <2>1, <2>2 DEF Once, Destroy, c
<1>4. CASE c # "destroy"
  <2>1. UNCHANGED <<prog, circuit, ready, flow, marks>>
    <3>1. ASSUME NEW answer, Refuse(answer)
          PROVE  UNCHANGED <<prog, circuit, ready, flow, marks>>
      BY <3>1 DEF Refuse, code
    <3>2. CASE PauseSimulation
      BY <3>2 DEF PauseSimulation, vars, code
    <3>3. CASE Once(ClearBreakpoints)
      BY <3>3 DEF Once, ClearBreakpoints, code
    <3>4. CASE Set
      BY <3>1, <3>4 DEF Set, Once, SetBreakpoint, code
    <3>5. CASE Once(Edit)
      BY <3>5 DEF Once, Edit, ChangeClassicalVariableValue,
                  ChangeAmplitudeValue, code
    <3> QED
      BY <1>1, <1>2, <1>4, <3>1, <3>2, <3>3, <3>4, <3>5
         DEF Perform, Looks, Nothing
  <2>2. destroyed' \/ ~destroyed
    BY <1>1
  <2> QED
    BY <1>2, <2>1, <2>2 DEF c
<1> QED
  BY <1>3, <1>4

(* A request under way that does not move the engine runs no command.      *)
LEMMA StaysWithoutCommand ==
  ASSUME RequestInv, Stays
  PROVE  cmd = Idle
<1> SUFFICES ASSUME cmd # Idle
             PROVE  FALSE
  OBVIOUS
<1>1. /\ request \in Pending /\ Stages
      /\ handler.call \in {"over", "out", "run", "runBack", "stepBack",
                          "restartFrame"}
  BY DEF RequestInv, Loops
<1>2. CASE request.name = "setBreakpoints"
  BY <1>1, <1>2 DEF Stages, Starts, BreakpointStages
<1>3. CASE request.name \in Asked
  BY <1>1, <1>3 DEF Stages, Starts, SingleStages, OneCall, Asked, Stays, Motions
<1> QED
  BY <1>1, <1>2, <1>3 DEF Pending, Stays, Motions

(* The last call of a request is not the rejection of a program.           *)
LEMMA RejectionIsFollowedUp ==
  ASSUME RequestInv, request # NoRequest, handler.call = "reject"
  PROVE  handler.todo = <<"reset">>
<1>1. request \in Pending /\ Stages
  BY DEF RequestInv
<1>2. request.name \in Starts
  BY <1>1 DEF Stages, BreakpointStages, SingleStages, OneCall, Pending, Asked,
              Starts
<1>3. StartStages(handler.call, handler.todo)
  BY <1>1, <1>2, Zenon DEF Stages, Starts
<1> QED
  BY <1>3 DEF StartStages

(* An engine that is not ready makes no step.                              *)
LEMMA UnreadyStands ==
  ASSUME ~ready, StepForward \/ StepBackward
  PROVE  UNCHANGED <<code, marks>>
<1>1. ~CanStepForward /\ ~CanStepBackward
  BY DEF CanStepForward, CanStepBackward
<1>2. StepForwardRefused \/ StepBackwardRefused
  BY <1>1 DEF StepForward, StepControl, StepPastAssertion,
     StepStopsAtAssertion, StepAssertionThrows, StepAssertionCrashes,
     StepCollapses, StepBarrier, StepGate, StepUnsupportedThrows,
     StepRunsOffCircuit, Simulates, Advance, StepBackward, BackPastControl,
     BackPastBarrier, BackPastGate, BackUnsupportedThrows, BackRunsOffCircuit,
     BackOver, Retreat
<1> QED
  BY <1>2 DEF StepForwardRefused, StepBackwardRefused

MarksCleared ==
  lastFailedAssertion = NoInstruction /\ lastMetBreakpoint = NoInstruction

LEMMA UnreadyMarks ==
  ASSUME Alive, ~ready, NEW c, Perform(c)
  PROVE  UNCHANGED marks \/ MarksCleared'
<1>1. ASSUME NEW answer, Refuse(answer)
      PROVE  UNCHANGED marks
  BY <1>1 DEF Refuse
<1>2. ASSUME NEW name, Begin(name)
      PROVE  UNCHANGED marks
  BY <1>2 DEF Begin, vars
<1>3. CASE Once(StepForward) \/ Once(StepBackward)
  BY <1>3, UnreadyStands DEF Once
<1>4. CASE StartOver \/ StartOut \/ StartRun \/ StartRunBack \/ BackIfPossible
             \/ StartOutBack
  BY <1>1, <1>2, <1>3, <1>4 DEF StartOver, StartOut, StartRun, StartRunBack,
     BackIfPossible, StartOverBack, StartOutBack, Nothing
<1>5. CASE Load \/ Reject \/ Afresh(ResetSimulation)
  BY <1>5 DEF Load, Reject, Afresh, Once, LoadCode, LoadRejected,
     ResetSimulation, MarksCleared
<1>6. CASE Once(ClearBreakpoints) \/ Set \/ Once(Edit) \/ Once(Destroy)
             \/ PauseSimulation
  BY <1>1, <1>6 DEF Once, ClearBreakpoints, Set, SetBreakpoint, Edit,
     ChangeClassicalVariableValue, ChangeAmplitudeValue, Destroy,
     PauseSimulation, vars
<1> QED
  BY <1>1, <1>3, <1>4, <1>5, <1>6 DEF Perform, Looks, Nothing

(* Only a rejection and the destruction make the engine unready.           *)
LEMMA StaysReady ==
  ASSUME Alive, NEW c, Perform(c), ready, c \notin {"reject", "destroy"}
  PROVE  ready'
<1>1. ASSUME NEW answer, Refuse(answer)
      PROVE  ready'
  BY <1>1 DEF Refuse, code
<1>2. ASSUME NEW name, Begin(name)
      PROVE  ready'
  BY <1>2 DEF Begin, vars, code
<1>3. CASE Once(StepForward) \/ Once(StepBackward)
  BY <1>3, StepsKeepCode DEF Once, code
<1>4. CASE StartOver \/ StartOut \/ StartRun \/ StartRunBack \/ BackIfPossible
             \/ StartOutBack
  BY <1>1, <1>2, <1>3, <1>4 DEF StartOver, StartOut, StartRun, StartRunBack,
     BackIfPossible, StartOverBack, StartOutBack, Nothing
<1>5. CASE Load \/ Afresh(ResetSimulation)
  BY <1>5 DEF Load, Afresh, LoadCode, ResetSimulation, code
<1>6. CASE Once(ClearBreakpoints) \/ Set \/ Once(Edit) \/ PauseSimulation
  BY <1>1, <1>6 DEF Once, ClearBreakpoints, Set, SetBreakpoint, Edit,
     ChangeClassicalVariableValue, ChangeAmplitudeValue, PauseSimulation,
     vars, code
<1> QED
  BY <1>1, <1>3, <1>4, <1>5, <1>6 DEF Perform, Looks, Nothing

(* Where the engine is, as numbers; no mark of a loaded program is at its  *)
(* end.                                                                    *)
LEMMA Position ==
  ASSUME EngineSound
  PROVE  /\ EngineInv /\ currentInstruction \in Nat /\ Table.n \in Nat
         /\ currentInstruction # NoInstruction
         /\ ready /\ DidAssertionFail =>
              /\ ~IsFinished /\ TypeOf(currentInstruction) = "ASSERTION"
              /\ ~Editing => AssertionOutcome(currentInstruction) = "fails"
<1>1. EngineInv /\ FlowInv /\ FlagInv
  BY DEF EngineSound, CommandInv, EngineInv
<1>2. Flow \in Flows(Table) /\ Table.n \in Nat
  BY <1>1, TableIsWellFormed DEF FlowInv, WellFormedFlow
<1>3. currentInstruction \in Nat
  BY <1>2 DEF Flows, Flow
<1>4. currentInstruction # NoInstruction
  BY <1>3 DEF NoInstruction
<1> QED
  BY <1>1, <1>2, <1>3, <1>4 DEF FlagInv, DidAssertionFail, IsFinished

(* The request whose last call was the rejection of a program does not     *)
(* move the engine; the next call resets it.                               *)
LEMMA MarksStep ==
  ASSUME ServerInv, MarksAreCleared, [DNext]_dapVars
  PROVE  MarksAreCleared'
<1>1. RequestInv /\ Works
  BY ServerStep DEF ServerInv
<1> SUFFICES ASSUME ~ready', ~destroyed',
                    (request' # NoRequest => handler'.call # "reject")
             PROVE  MarksCleared'
  BY DEF MarksAreCleared, MarksCleared
<1>2. ASSUME UNCHANGED controlVars, UNCHANGED destroyed,
             request # NoRequest => handler.call # "reject"
      PROVE  MarksCleared'
  BY <1>2 DEF controlVars, vars, code, marks, MarksAreCleared, MarksCleared
<1>3. ASSUME NEW r, Receive(r)
      PROVE  MarksCleared'
  BY <1>2, <1>3 DEF Receive
<1>4. CASE Alive /\ MakeCall
  <2> DEFINE c == Head(handler.todo)
  <2>1. /\ Perform(c) /\ handler.todo # <<>> /\ request # NoRequest
        /\ destroyed' = (destroyed \/ c = "destroy") /\ request' = request
        /\ handler'.call = c
    BY <1>1, <1>4, CallMoves DEF MakeCall, CallDue, RequestInv
  <2>2. c # "reject" /\ c # "destroy" /\ ~destroyed
    BY <2>1
  <2> HIDE DEF c
  <2>3. ~ready
    BY <1>4, <2>1, <2>2, StaysReady
  <2>4. CASE handler.call # "reject"
    BY <1>4, <2>1, <2>2, <2>3, <2>4, UnreadyMarks
       DEF MarksAreCleared, MarksCleared, marks
  <2>5. CASE handler.call = "reject"
    <3>1. c = "reset"
      BY <1>1, <2>1, <2>5, RejectionIsFollowedUp DEF c
    <3> QED
      BY <2>1, <3>1 DEF Perform, Afresh, ResetSimulation, MarksCleared
  <2> QED
    BY <2>4, <2>5
<1>5. CASE Alive /\ Compute
  <2>1. LoopTurn /\ UNCHANGED <<request, handler, destroyed>>
    BY <1>5 DEF Compute, serverVars
  <2>2. UNCHANGED code /\ (StepForward \/ StepBackward \/ Quiet)
    BY <1>5, <2>1, TurnIsStep
  <2>3. ~ready
    BY <2>2 DEF code
  <2>4. UNCHANGED marks
    BY <2>2, <2>3, UnreadyStands DEF Quiet, engine
  <2> QED
    BY <2>1, <2>3, <2>4 DEF MarksAreCleared, MarksCleared, marks
<1>6. CASE Raise \/ Crash \/ UNCHANGED dapVars
  BY <1>2, <1>6 DEF Raise, Crash, EndSession, dapVars, serverVars
<1>7. CASE Answer
  <2>1. handler.call # "reject"
    BY <1>1, <1>7, RejectionIsFollowedUp DEF Answer, CallDue
  <2> QED
    BY <1>2, <1>7, <2>1 DEF Answer
<1> QED
  BY <1>3, <1>4, <1>5, <1>6, <1>7 DEF DNext, Serve

LEMMA ToldStep ==
  ASSUME ServerInv, MarksAreCleared, ToldInv, [DNext]_dapVars
  PROVE  ToldInv'
<1>1. RequestInv /\ EngineSound
  BY DEF ServerInv
<1> SUFFICES ASSUME Stays', ~destroyed'
             PROVE  /\ told'.stop \in {"exception", "breakpoint"} => ready'
                    /\ told'.stop = "exception" => DidAssertionFail'
  BY DEF ToldInv
<1>2. CASE /\ UNCHANGED <<controlVars, destroyed, told>>
           /\ Stays
  BY <1>2 DEF controlVars, vars, code, flow, marks, ToldInv, DidAssertionFail
<1>3. ASSUME NEW r, Receive(r)
      PROVE  UNCHANGED <<controlVars, destroyed, told>> /\ Stays
  BY <1>3 DEF Receive, NoRequest, Stays, Motions, Starts
<1>4. CASE MakeCall
  <2>1. Stays /\ UNCHANGED told
    BY <1>4 DEF MakeCall, Stays
  <2>2. UNCHANGED <<flow, marks, ready>> /\ ~destroyed
    BY <1>1, <1>4, <2>1, StaysStill
  <2> QED
    BY <2>1, <2>2 DEF ToldInv, DidAssertionFail, flow, marks
<1>5. CASE Compute
  <2>1. Stays /\ cmd # Idle
    BY <1>5 DEF Compute, serverVars, Stays
  <2> QED
    BY <1>1, <2>1, StaysWithoutCommand
<1>6. CASE Raise \/ Crash \/ UNCHANGED dapVars
  BY <1>2, <1>6 DEF Raise, Crash, EndSession, dapVars, serverVars, Stays
<1>7. CASE Answer
  <2>1. /\ UNCHANGED <<ready, flow, marks, destroyed>>
        /\ told'.stop = StopTold(request)
    BY <1>7 DEF Answer, controlVars, vars, code, DAPTypeOK, ServerInv
  <2>2. CASE Moved(request)
    <3>1. handler.call # "reject"
      BY <1>1, <1>7, RejectionIsFollowedUp DEF Answer, CallDue
    <3>2. DidAssertionFail \/ WasBreakpointHit => ready
      BY <1>1, <2>1, <3>1, Position
         DEF MarksAreCleared, DidAssertionFail, WasBreakpointHit
    <3>3. told'.stop = StopReason
      BY <2>1, <2>2 DEF StopTold, Moved, Motions, Starts
    <3>4. /\ StopReason = "exception" => DidAssertionFail
          /\ StopReason = "breakpoint" => WasBreakpointHit
      BY DEF StopReason
    <3>5. (DidAssertionFail => DidAssertionFail') /\ ready' = ready
      BY <2>1 DEF DidAssertionFail, flow, marks
    <3> QED
      BY <3>2, <3>3, <3>4, <3>5
  <2>3. CASE ~Moved(request)
    <3>1. \/ told'.stop \in {"entry", "pause", "none"}
          \/ told'.stop = told.stop /\ Stays
      BY <2>1, <2>3 DEF StopTold, Moved, Stays
    <3> QED
      BY <2>1, <3>1 DEF ToldInv, DidAssertionFail, flow, marks
  <2> QED
    BY <2>2, <2>3
<1> QED
  BY <1>2, <1>3, <1>4, <1>5, <1>6, <1>7 DEF DNext, Serve

(* What the client is told of the reason of a stop stays true, whatever it *)
(* loads, resets, edits and asks.                                          *)
THEOREM StopReasonCorrect == DSpec => []StopReasonIsTrue
<1> DEFINE Inv == ServerInv /\ MarksAreCleared /\ ToldInv
<1>1. DInit => Inv
  <2>1. ASSUME DInit
        PROVE  MarksAreCleared /\ ToldInv
    <3>1. /\ lastFailedAssertion = NoInstruction
          /\ lastMetBreakpoint = NoInstruction /\ told.stop = "none"
      BY <2>1 DEF DInit, CInit, Init
    <3> QED
      BY <3>1 DEF MarksAreCleared, ToldInv
  <2> QED
    BY <2>1, ServerInit
<1>2. Inv /\ [DNext]_dapVars => Inv'
  BY ServerStep, MarksStep, ToldStep
<1>3. Inv => StopReasonIsTrue
  <2>1. ASSUME Inv, request = NoRequest, ~destroyed
        PROVE  /\ told.stop \in {"exception", "breakpoint"} => ready
               /\ told.stop = "exception" =>
                    /\ DidAssertionFail
                    /\ TypeOf(currentInstruction) = "ASSERTION"
                    /\ ~Editing => AssertionOutcome(currentInstruction) = "fails"
    <3>1. Stays
      BY <2>1 DEF NoRequest, Stays, Motions, Starts
    <3> QED
      BY <2>1, <3>1, Position DEF ToldInv, ServerInv
  <2> QED
    BY <2>1 DEF StopReasonIsTrue
<1> QED
  BY <1>1, <1>2, <1>3, PTL DEF DSpec

-----------------------------------------------------------------------------
(* The end of the program.                                                 *)

LEMMA HighlightsStep ==
  ASSUME ServerInv, HighlightsInv, [DNext]_dapVars
  PROVE  HighlightsInv'
<1>1. RequestInv
  BY DEF ServerInv
<1> SUFFICES ASSUME pending_highlights'
             PROVE  /\ request' # NoRequest /\ ~ready'
                    /\ \/ handler'.call = "reject"
                       \/ handler'.call = "reset" /\ handler'.todo = <<>>
  BY DEF HighlightsInv
<1>2. CASE pending_highlights /\ UNCHANGED <<request, handler, ready>>
  BY <1>2 DEF HighlightsInv
<1>3. ASSUME NEW r, Receive(r)
      PROVE  FALSE
  BY <1>3 DEF Receive, HighlightsInv
<1>4. CASE MakeCall
  <2> DEFINE c == Head(handler.todo)
  <2>1. /\ Perform(c) /\ handler.todo # <<>> /\ request # NoRequest
        /\ request' = request /\ handler'.call = c
        /\ handler'.todo = IF c = "restartFrame" /\ ~FrameIsLeft
                           THEN handler.todo ELSE Tail(handler.todo)
    BY <1>1, <1>4, CallMoves DEF MakeCall, CallDue, RequestInv
  <2>2. pending_highlights \/ c = "reject"
    BY <1>4 DEF MakeCall
  <2>3. CASE c = "reject"
    <3>1. ~ready'
      BY <2>1, <2>3 DEF Perform, Reject, Once, LoadRejected
    <3> QED
      BY <2>1, <2>3, <3>1
  <2>4. CASE pending_highlights /\ c # "reject"
    <3>1. ~ready /\ handler.call = "reject"
      BY <2>1, <2>4 DEF HighlightsInv
    <3>2. handler.todo = <<"reset">>
      BY <1>1, <2>1, <3>1, RejectionIsFollowedUp
    <3>3. c = "reset" /\ Tail(handler.todo) = <<>>
      BY <3>2
    <3>4. ready' = ready
      BY <2>1, <3>3 DEF Perform, Afresh, ResetSimulation, code
    <3> QED
      BY <2>1, <3>1, <3>3, <3>4
  <2> QED
    BY <2>2, <2>3, <2>4
<1>5. CASE Compute
  <2>1. pending_highlights /\ UNCHANGED <<request, handler>> /\ cmd # Idle
    BY <1>5 DEF Compute, serverVars
  <2>2. cmd.name \in Loops(handler.call)
    BY <1>1, <2>1 DEF RequestInv
  <2> QED
    BY <2>1, <2>2 DEF HighlightsInv, Loops
<1>6. CASE Raise \/ Crash \/ UNCHANGED dapVars
  BY <1>2, <1>6 DEF Raise, Crash, EndSession, dapVars, serverVars, controlVars,
                    vars, code
<1>7. CASE Answer
  BY <1>7 DEF Answer
<1> QED
  BY <1>3, <1>4, <1>5, <1>6, <1>7 DEF DNext, Serve

(* A request that moves the engine lets the client be told; one that does  *)
(* not finds that it was told.                                             *)
LEMMA EndStep ==
  ASSUME ServerInv, HighlightsInv, EndInv, [DNext]_dapVars
  PROVE  EndInv'
<1>1. RequestInv /\ EngineSound
  BY DEF ServerInv
<1> SUFFICES ASSUME Stays', ready', IsFinished', Table'.n # 0
             PROVE  told'.exited
  BY DEF EndInv
<1>2. CASE UNCHANGED <<controlVars, told>> /\ Stays
  BY <1>2 DEF controlVars, vars, code, flow, EndInv, IsFinished, Table
<1>3. ASSUME NEW r, Receive(r)
      PROVE  UNCHANGED <<controlVars, told>> /\ Stays
  BY <1>3 DEF Receive, NoRequest, Stays, Motions, Starts
<1>4. CASE MakeCall
  <2>1. Stays /\ UNCHANGED told
    BY <1>4 DEF MakeCall, Stays
  <2>2. UNCHANGED <<prog, flow>> /\ ready
    BY <1>1, <1>4, <2>1, StaysStill
  <2> QED
    BY <2>1, <2>2 DEF EndInv, IsFinished, flow, Table
<1>5. CASE Compute
  <2>1. Stays /\ cmd # Idle
    BY <1>5 DEF Compute, serverVars, Stays
  <2> QED
    BY <1>1, <2>1, StaysWithoutCommand
<1>6. CASE Raise \/ Crash \/ UNCHANGED dapVars
  BY <1>2, <1>6 DEF Raise, Crash, EndSession, dapVars, serverVars, Stays
<1>7. CASE Answer
  <2>1. /\ ready /\ IsFinished /\ Table.n # 0
        /\ prevent_exit' = (ShowsErrors(request)
                              \/ (prevent_exit /\ ~AllowsExit(request)))
        /\ told'.exited = \/ Exits
                          \/ request.name = "terminate"
                          \/ told.exited /\ request.name \notin Starts
    BY <1>7 DEF Answer, controlVars, vars, code, flow, IsFinished, Table,
                DAPTypeOK, ServerInv
  <2>2. CASE request.name \in Motions \cup Starts
    <3>1. ~pending_highlights /\ ~DidAssertionFail
      BY <1>1, <2>1, Position DEF HighlightsInv
    <3>2. ~ShowsErrors(request) /\ AllowsExit(request)
      BY <2>2, <3>1 DEF ShowsErrors, AllowsExit
    <3>3. ~prevent_exit'
      BY <2>1, <3>2
    <3> QED
      BY <2>1, <3>3 DEF Exits
  <2>3. CASE Stays
    BY <2>1, <2>3 DEF EndInv, Stays
  <2> QED
    BY <2>2, <2>3 DEF Stays
<1> QED
  BY <1>2, <1>3, <1>4, <1>5, <1>6, <1>7 DEF DNext, Serve

(* A client whose program is at its end was told that it exited.           *)
THEOREM ProgramEndCorrect == DSpec => []ProgramEndIsTold
<1> DEFINE Inv == ServerInv /\ HighlightsInv /\ EndInv
<1>1. DInit => Inv
  <2>1. ASSUME DInit
        PROVE  HighlightsInv /\ EndInv
    BY <2>1 DEF DInit, CInit, Init, HighlightsInv, EndInv
  <2> QED
    BY <2>1, ServerInit
<1>2. Inv /\ [DNext]_dapVars => Inv'
  BY ServerStep, HighlightsStep, EndStep
<1>3. Inv => ProgramEndIsTold
  BY DEF EndInv, ProgramEndIsTold, NoRequest, Stays, Motions, Starts
<1> QED
  BY <1>1, <1>2, <1>3, PTL DEF DSpec

-----------------------------------------------------------------------------
(* The frames of the call stack.                                           *)

LEMMA StackDepth ==
  ASSUME EngineInv
  PROVE  /\ callReturnStack \in Seq(CallsOf(Table)) /\ Len(callReturnStack) \in Nat
         /\ currentInstruction \in 0 .. Table.n /\ Table.n \in Nat
         /\ callReturnStack = <<>> <=> Len(callReturnStack) = 0
<1>1. FlowInv /\ Flow \in Flows(Table) /\ Table.n \in Nat
  BY TableIsWellFormed DEF EngineInv, FlowInv, WellFormedFlow
<1>2. callReturnStack \in Seq(CallsOf(Table)) /\ currentInstruction \in 0 .. Table.n
  BY <1>1 DEF Flows, Flow
<1> QED
  BY <1>1, <1>2, LenProperties

(* What restartFrame has done when its call is made or under way.          *)
LEMMA FrameStages ==
  ASSUME RequestInv, request.name = "restartFrame"
  PROVE  /\ request.frame \in Nat \ {0}
         /\ handler.call \in {"none", "restartFrame"}
         /\ handler.todo # <<>> => /\ handler.todo = <<"restartFrame">>
                                  /\ Head(handler.todo) = "restartFrame"
         /\ handler.call = "none" => handler.todo # <<>>
         /\ cmd # Idle => cmd.name \in {"outBack", "runBack"}
<1>1. request \in Pending /\ Stages /\ request # NoRequest
  BY DEF RequestInv, NoRequest
<1>2. SingleStages(request.name, handler.call, handler.todo)
  BY <1>1 DEF Stages, Starts
<1>3. OneCall(request.name) = "restartFrame"
  BY DEF OneCall
<1>4. /\ <<"restartFrame">> # <<>>
      /\ Head(<<"restartFrame">>) = "restartFrame"
  OBVIOUS
<1>5. /\ handler.call \in {"none", "restartFrame"}
      /\ handler.todo # <<>> => /\ handler.todo = <<"restartFrame">>
                               /\ Head(handler.todo) = "restartFrame"
      /\ handler.call = "none" => handler.todo # <<>>
  BY <1>2, <1>3, <1>4 DEF SingleStages
<1>6. request.frame \in Nat \ {0}
  BY <1>1 DEF Pending, Asked, Starts
<1>7. cmd # Idle => cmd.name \in {"outBack", "runBack"}
  BY <1>5 DEF RequestInv, Loops
<1> QED
  BY <1>5, <1>6, <1>7

(* A step forward at a call enters it.                                     *)
LEMMA EntersCall ==
  ASSUME EngineInv, ~IsFinished, TypeOf(currentInstruction) = "CALL", StepForward,
         result' = "OK"
  PROVE  /\ Len(callReturnStack') = Len(callReturnStack) + 1
         /\ callReturnStack' # <<>>
         /\ Last(callReturnStack') = currentInstruction
         /\ currentInstruction' = Table.succ[currentInstruction]
         /\ UNCHANGED code
<1>1. StepControl
  BY DEF StepForward, StepForwardRefused, StepPastAssertion,
     StepStopsAtAssertion, StepAssertionThrows, StepAssertionCrashes,
     StepCollapses, StepBarrier, StepGate, StepUnsupportedThrows,
     StepRunsOffCircuit, Simulates
<1>2. /\ currentInstruction < Table.n /\ UNCHANGED code
      /\ SetFlow(Forward(Table, Flow))
  BY <1>1 DEF StepControl, Advance, CanStepForward
<1>3. currentInstruction \in 0 .. Table.n - 1 /\ WellFormedFlow(Table)
  BY <1>2, StackDepth, TableIsWellFormed DEF EngineInv, FlowInv
<1>4. Table.succ[currentInstruction] # 0
  BY <1>3 DEF WellFormedFlow, TypeOf
<1>5. /\ callReturnStack' = Append(callReturnStack, currentInstruction)
      /\ currentInstruction' = Table.succ[currentInstruction]
  BY <1>2, <1>4 DEF SetFlow, Forward, Flow, TypeOf
<1>6. currentInstruction \in CallsOf(Table)
  BY <1>3 DEF CallsOf, TypeOf
<1>7. /\ Len(Append(callReturnStack, currentInstruction)) =
           Len(callReturnStack) + 1
      /\ Append(callReturnStack, currentInstruction)[Len(callReturnStack) + 1]
           = currentInstruction
  BY <1>6, StackDepth, AppendProperties
<1>8. Append(callReturnStack, currentInstruction) # <<>>
  BY <1>6, StackDepth, AppendProperties
<1> QED
  BY <1>2, <1>5, <1>7, <1>8 DEF Last

(* A turn of stepping out backward leaves the frame at its call only.      *)
LEMMA FrameTurn ==
  ASSUME CommandInv, OutBackTurn, NEW frame \in Nat, cmd.depth + 1 >= frame
  PROVE  \/ Len(callReturnStack') + 1 >= frame
         \/ /\ Len(callReturnStack') + 1 = frame - 1
            /\ ~IsFinished' /\ TypeOf(currentInstruction)' = "CALL"
<1>1. /\ cmd.name = "outBack" /\ StepBackward /\ cmd # Idle
  <2>1. cmd.name = "outBack" /\ StepBackward
    BY DEF OutBackTurn, OutTurn
  <2> QED
    BY <2>1 DEF Idle
<1>2. /\ Len(callReturnStack) >= cmd.depth /\ FlowInv /\ cmd.depth \in Nat
      /\ Len(callReturnStack) \in Nat
  BY <1>1, CommandTypes DEF CommandInv, CommandFrames
<1>3. CASE UNCHANGED flow
  BY <1>2, <1>3 DEF flow
<1>4. CASE /\ Flow' \in Flows(Table) /\ Flow'.pos < Table.n
           /\ Climbs(Table, Flow', Flow)
  <2>1. /\ Flow.calls = callReturnStack /\ Flow'.calls = callReturnStack'
        /\ Flow'.pos = currentInstruction'
    BY DEF Flow
  <2>2. Len(callReturnStack') \in Nat
    BY <1>4, <2>1 DEF Flows
  <2>3. Table' = Table
    BY <1>1, <1>2, StepsBack DEF code, Table
  <2>4. \/ Len(callReturnStack') >= Len(callReturnStack)
        \/ /\ Len(callReturnStack') = Len(callReturnStack) - 1
           /\ Table.type[Flow'.pos] = "CALL"
    BY <1>2, <1>4, <2>1, <2>2 DEF Climbs
  <2>5. CASE Len(callReturnStack') >= Len(callReturnStack)
    BY <1>2, <2>2, <2>5
  <2>6. CASE /\ Len(callReturnStack') = Len(callReturnStack) - 1
             /\ Table.type[Flow'.pos] = "CALL"
    <3>1. ~IsFinished' /\ TypeOf(currentInstruction)' = "CALL"
      BY <1>4, <2>1, <2>3, <2>6 DEF IsFinished, TypeOf, Flows
    <3> QED
      BY <1>2, <2>2, <2>6, <3>1
  <2> QED
    BY <2>4, <2>5, <2>6
<1>5. /\ Flow \in Flows(Table) /\ WellFormedFlow(Table)
  BY <1>2, TableIsWellFormed DEF FlowInv
<1> QED
  BY <1>1, <1>2, <1>3, <1>4, <1>5, StepsBack, MovesClimb

LEMMA FrameStep ==
  ASSUME ServerInv, FrameInv, [DNext]_dapVars
  PROVE  FrameInv'
<1>1. RequestInv /\ CommandInv /\ EngineInv /\ RequestInv' /\ EngineInv'
  BY ServerStep DEF ServerInv, EngineSound, CommandInv
<1> SUFFICES ASSUME request'.name = "restartFrame"
             PROVE  /\ cmd' # Idle => handler'.todo # <<>>
                    /\ cmd'.name = "outBack" => cmd'.depth + 1 >= request'.frame
                    /\ cmd'.name = "runBack" => request'.frame = 1
                    /\ cmd' = Idle /\ ~Raised' =>
                         IF handler'.todo # <<>>
                         THEN Depth' >= request'.frame \/ AtItsCall'
                         ELSE InItsFrame'
  BY DEF FrameInv
<1>2. CASE UNCHANGED <<controlVars, request, handler>>
  BY <1>2 DEF controlVars, vars, code, flow, FrameInv, Raised, Depth, AtItsCall,
              InItsFrame, IsFinished, TypeOf, Table
<1>3. ASSUME NEW r \in Requests, Receive(r)
      PROVE  /\ cmd' = Idle /\ handler'.todo # <<>>
             /\ Depth' >= request'.frame
  <2>1. /\ request' = r /\ handler'.todo = CallsFor(r)
        /\ r.name = "restartFrame" => r.frame \in 1 .. Depth
    BY <1>1, <1>3, Received
  <2>2. CallsFor(r) = <<OneCall(r.name)>>
    BY <2>1, RequestLists
  <2>3. cmd' = Idle /\ Depth' = Depth
    BY <1>1, <1>3 DEF Receive, RequestInv, controlVars, vars, flow, Depth
  <2> QED
    BY <1>1, <2>1, <2>2, <2>3, StackDepth DEF Depth
<1>4. CASE MakeCall
  <2>1. /\ request' = request /\ handler'.call = Head(handler.todo)
        /\ handler.todo # <<>> /\ cmd = Idle /\ ~Raised
        /\ handler'.todo = IF Head(handler.todo) = "restartFrame" /\ ~FrameIsLeft
                           THEN handler.todo ELSE Tail(handler.todo)
        /\ Perform(Head(handler.todo))
    BY <1>1, <1>4, CallMoves DEF RequestInv, MakeCall, CallDue
  <2>2. /\ Head(handler.todo) = "restartFrame" /\ request.frame \in Nat \ {0}
        /\ handler'.call = "restartFrame"
    BY <1>1, <2>1, FrameStages
  <2>3. Depth >= request.frame \/ AtItsCall
    BY <2>1 DEF FrameInv
  <2>4. CASE ~FrameIsLeft /\ StartOutBack
    <3>1. handler'.todo # <<>>
      BY <2>1, <2>2, <2>4
    <3>2. Depth >= request.frame
      BY <1>1, <2>2, <2>4, StackDepth DEF FrameIsLeft, Depth
    <3>3. CASE callReturnStack = <<>>
      <4>1. request.frame = 1
        BY <1>1, <2>2, <3>2, <3>3, StackDepth DEF Depth
      <4>2. \/ cmd' = Idle /\ Raised'
            \/ cmd'.name = "runBack"
        BY <2>1, <2>2, <2>4, <3>3 DEF StartOutBack, StartRunBack, Begin,
                                      Refuse, Raised, Caught
      <4> QED
        BY <2>1, <3>1, <4>1, <4>2 DEF Idle
    <3>4. CASE callReturnStack # <<>>
      <4>1. cmd'.name = "outBack" /\ cmd'.depth + 1 = Depth
        BY <2>4, <3>4 DEF StartOutBack, Begin, Depth
      <4> QED
        BY <2>1, <3>1, <3>2, <4>1 DEF Idle
    <3> QED
      BY <3>3, <3>4
  <2>5. CASE FrameIsLeft /\ Once(StepForward)
    <3>1. AtItsCall /\ cmd' = Idle /\ StepForward
      BY <1>1, <2>1, <2>2, <2>3, <2>5, StackDepth DEF FrameIsLeft, Depth, Once
    <3>2. Raised' \/ result' = "OK"
      BY <2>2 DEF Raised, Caught
    <3>3. CASE result' = "OK"
      <4>1. /\ Len(callReturnStack') = Len(callReturnStack) + 1
            /\ callReturnStack' # <<>>
            /\ Last(callReturnStack') = currentInstruction
            /\ currentInstruction' = Table.succ[currentInstruction]
            /\ Table' = Table
        BY <1>1, <3>1, <3>3, EntersCall DEF AtItsCall, code, Table
      <4>2. Depth + 1 = request.frame
        BY <1>1, <2>2, <3>1, StackDepth DEF AtItsCall, Depth
      <4>3. Depth' = request'.frame
        BY <1>1, <2>1, <4>1, <4>2, StackDepth DEF Depth
      <4>4. InItsFrame'
        BY <4>1, <4>3 DEF InItsFrame
      <4>5. handler'.todo = Tail(handler.todo)
        BY <2>1, <2>5
      <4>6. handler'.todo = <<>>
        <5>1. handler.todo = <<"restartFrame">>
          BY <1>1, <2>1, FrameStages
        <5> QED
          BY <4>5, <5>1
      <4> QED
        BY <3>1, <4>4, <4>6 DEF Idle
    <3> QED
      BY <3>1, <3>2, <3>3 DEF Idle
  <2> QED
    BY <2>1, <2>2, <2>4, <2>5 DEF Perform
<1>5. CASE Alive /\ Compute
  <2>1. LoopTurn /\ UNCHANGED <<request, handler>> /\ cmd # Idle
    BY <1>5 DEF Compute, serverVars
  <2>2. /\ cmd' \in {cmd, Idle} /\ handler.todo # <<>>
        /\ cmd.name \in {"outBack", "runBack"} /\ request.frame \in Nat \ {0}
    BY <1>1, <2>1, TurnGoesOnOrEnds, FrameStages DEF FrameInv
  <2>3. Depth' >= request.frame \/ AtItsCall'
    <3>1. CASE cmd.name = "runBack"
      BY <1>1, <2>1, <3>1, StackDepth DEF FrameInv, Depth
    <3>2. CASE cmd.name = "outBack"
      <4>1. OutBackTurn
        BY <2>1, <3>2 DEF LoopTurn, RunTurn, RunBackTurn, RunAllTurn, OverTurn,
                          OverBackTurn, OutForwardTurn, OutTurn
      <4>2. cmd.depth + 1 >= request.frame
        BY <2>1, <3>2 DEF FrameInv
      <4> QED
        BY <1>1, <2>1, <2>2, <4>1, <4>2, FrameTurn DEF AtItsCall, Depth
    <3> QED
      BY <2>2, <3>1, <3>2
  <2>4. CASE cmd' = cmd
    BY <2>1, <2>2, <2>4 DEF FrameInv
  <2>5. CASE cmd' = Idle
    BY <2>1, <2>2, <2>3, <2>5 DEF Idle
  <2> QED
    BY <2>2, <2>4, <2>5
<1>6. CASE Raise \/ Crash \/ UNCHANGED dapVars
  BY <1>2, <1>6 DEF Raise, Crash, EndSession, dapVars, serverVars
<1>7. CASE Answer
  BY <1>7 DEF Answer, NoRequest
<1> QED
  BY <1>3, <1>4, <1>5, <1>6, <1>7 DEF DNext, Serve, Idle

(* restartFrame ends at the first instruction of the gate its frame stands *)
(* for, with the call stack the frame had, however often it stepped out.   *)
THEOREM RestartFrameCorrect == DSpec => RestartFrameArrives
<1> DEFINE Inv == ServerInv /\ FrameInv
<1>1. DInit => Inv
  <2>1. DInit => FrameInv
    BY DEF DInit, FrameInv, NoRequest
  <2> QED
    BY <2>1, ServerInit
<1>2. Inv /\ [DNext]_dapVars => Inv'
  BY ServerStep, FrameStep
<1>3. Inv /\ [DNext]_dapVars =>
        [request.name = "restartFrame" /\ request' = NoRequest =>
           /\ Depth = request.frame
           /\ callReturnStack # <<>>
           /\ currentInstruction = Table.succ[Last(callReturnStack)]]_dapVars
  <2> SUFFICES ASSUME Inv, DNext, request.name = "restartFrame",
                      request' = NoRequest
               PROVE  InItsFrame
    BY DEF InItsFrame
  <2>1. Answer
    BY DEF DNext, Serve, Receive, Requests, NoRequest, MakeCall, Compute,
           serverVars, Raise, Crash, EndSession
  <2> QED
    BY <2>1 DEF Answer, CallDue, FrameInv
<1> QED
  BY <1>1, <1>2, <1>3, PTL DEF DSpec, RestartFrameArrives

-----------------------------------------------------------------------------
(* A client that is entitled to its request.                               *)

(* The calls of a request that only loads, resets or destroys the engine   *)
(* apart, a call leaves the program alone.                                 *)
LEMMA KeepsCode ==
  ASSUME NEW c, Perform(c), c \notin {"load", "reject", "destroy"}
  PROVE  UNCHANGED code
<1>1. ASSUME NEW answer, Refuse(answer)
      PROVE  UNCHANGED code
  BY <1>1 DEF Refuse
<1>2. ASSUME NEW name, Begin(name)
      PROVE  UNCHANGED code
  BY <1>2 DEF Begin, vars
<1>3. CASE Once(StepForward) \/ Once(StepBackward)
  BY <1>3, StepsKeepCode DEF Once
<1>4. CASE StartOver \/ StartOut \/ StartRun \/ StartRunBack \/ BackIfPossible
             \/ StartOutBack
  BY <1>1, <1>2, <1>3, <1>4 DEF StartOver, StartOut, StartRun, StartRunBack,
     BackIfPossible, StartOverBack, StartOutBack, Nothing
<1>5. CASE Afresh(ResetSimulation)
  BY <1>5 DEF Afresh, ResetSimulation
<1>6. CASE Once(ClearBreakpoints) \/ Set \/ Once(Edit) \/ PauseSimulation
  BY <1>1, <1>6 DEF Once, ClearBreakpoints, Set, SetBreakpoint, Edit,
     ChangeClassicalVariableValue, ChangeAmplitudeValue, PauseSimulation, vars
<1> QED
  BY <1>1, <1>3, <1>4, <1>5, <1>6 DEF Perform, Looks, Nothing

Fine == {"OK", "CRASHED"}

(* In a program that can be evaluated a step that may be made is made.     *)
LEMMA ForwardIsFine ==
  ASSUME EngineInv, Evaluable, CanStepForward, StepForward
  PROVE  result' \in Fine
<1>1. /\ circuit = prog /\ ready /\ iterator \in 0 .. Len(Table.ops)
      /\ assertionInstructions \subseteq LoadedAssertions(prog)
  BY DEF EngineInv, TypeOK, CanStepForward, Table
<1>2. ~StepAssertionThrows
  <2>1. \A i \in LoadedAssertions(prog) : AssertionOutcome(i) # "throws"
    BY DEF Evaluable, AssertionOutcome
  <2> QED
    BY <1>1, <2>1 DEF StepAssertionThrows
<1>3. ~StepUnsupportedThrows
  <2> SUFFICES ASSUME StepUnsupportedThrows
               PROVE  FALSE
    OBVIOUS
  <2>1. /\ iterator < Len(Table.ops) /\ Table.ops[iterator + 1].kind = "if"
        /\ ~Table.ops[iterator + 1].supported
    BY <1>1 DEF StepUnsupportedThrows, Simulates, NextOperation, Operation, Table
  <2>2. iterator + 1 \in DOMAIN Table.ops
    BY <1>1, <2>1, CircuitLength DEF Table
  <2> QED
    BY <2>1, <2>2 DEF Evaluable, FollowsTables
<1> QED
  BY <1>2, <1>3 DEF StepForward, StepForwardRefused, StepControl,
     StepPastAssertion, StepStopsAtAssertion, StepAssertionCrashes,
     StepCollapses, StepBarrier, StepGate, StepRunsOffCircuit, Fine

LEMMA BackwardIsFine ==
  ASSUME EngineInv, Evaluable, CanStepBackward, StepBackward
  PROVE  result' \in Fine
<1>1. /\ circuit = prog /\ iterator \in 0 .. Len(Table.ops)
  BY DEF EngineInv, TypeOK, CanStepBackward, Table
<1>2. ~BackUnsupportedThrows
  <2> SUFFICES ASSUME BackUnsupportedThrows
               PROVE  FALSE
    OBVIOUS
  <2>1. /\ iterator > 0 /\ Table.ops[iterator].kind = "if"
        /\ ~Table.ops[iterator].supported
    BY <1>1 DEF BackUnsupportedThrows, BackOver, Operation, Table
  <2>2. iterator \in DOMAIN Table.ops
    BY <1>1, <2>1, CircuitLength DEF Table
  <2> QED
    BY <2>1, <2>2 DEF Evaluable, FollowsTables
<1> QED
  BY <1>2 DEF StepBackward, StepBackwardRefused, BackPastControl,
     BackPastBarrier, BackPastGate, BackRunsOffCircuit, Fine

(* In a gate the program has not ended, and there is a way back.           *)
LEMMA InGate ==
  ASSUME EngineSound, ready, Evaluable, callReturnStack # <<>>
  PROVE  CanStepForward /\ CanStepBackward
<1>1. FlowInv /\ WayInStep /\ EngineInv
  BY DEF EngineSound, CommandInv, EngineInv, IterInv
<1>2. Nested(Table, Flow) /\ WellFormedFlow(Table) /\ Flow \in Flows(Table)
  BY <1>1, TableIsWellFormed DEF FlowInv, CallStackIsNesting
<1>3. currentInstruction # Table.n
  <2>1. Last(callReturnStack) \in CallsOf(Table)
    BY <1>1, StackDepth, PopPush
  <2>2. /\ Callee(Table, Last(callReturnStack)) # TopLevel
        /\ EnteredBody(Table, callReturnStack) =
             Callee(Table, Last(callReturnStack))
    BY <1>2, <2>1 DEF EnteredBody, Callee, TopLevel, CallsOf, WellFormedFlow
  <2> QED
    BY <1>2, <2>2 DEF Nested, Flow, WellFormedFlow
<1>4. currentInstruction < Table.n
  BY <1>1, <1>3, StackDepth
<1>5. PICK h : IsPath(Table, h, Flow) /\ InStep(Table, h, Flow, iterator)
  BY <1>1 DEF WayInStep, Evaluable
<1>6. PICK at, k : k \in Nat /\ Along(at, h, Flow, k)
  BY <1>5 DEF InStep
<1>7. previousInstructionStack # <<>>
  <2> SUFFICES ASSUME previousInstructionStack = <<>>
               PROVE  FALSE
    OBVIOUS
  <2>1. Len(h) = 0
    BY <1>5 DEF IsPath, Flow
  <2>2. Flow.calls = <<>>
    BY <1>6, <2>1 DEF Along, SamePlace
  <2> QED
    BY <2>2 DEF Flow
<1> QED
  BY <1>4, <1>7 DEF CanStepForward, CanStepBackward

(* The turns of the loops an entitled request runs.                        *)
LEMMA TurnIsFine ==
  ASSUME EngineSound, Alive, ready, Evaluable, LoopTurn, cmd # Idle,
         cmd.name \in {"run", "runBack", "over", "overBack", "out", "outBack"},
         cmd.name = "run" => ~IsFinished,
         cmd.name = "runBack" => CanStepBackward
  PROVE  /\ result' \in Fine
         /\ cmd' # Idle /\ cmd'.name = "run" => ~IsFinished'
         /\ cmd' # Idle /\ cmd'.name = "runBack" => CanStepBackward'
<1>1. EngineInv /\ CommandInv /\ CommandFrames
  BY DEF EngineSound, CommandInv
<1>2. cmd.name \in {"run", "over", "out"} => CanStepForward
  <2>1. CASE cmd.name = "run"
    BY <1>1, <2>1, StackDepth DEF CanStepForward, IsFinished
  <2>2. CASE cmd.name = "over"
    <3>1. CASE IsAtStart
      BY <1>1, <2>2, <3>1, CommandTypes DEF IsAtStart, CallsOf, CanStepForward
    <3>2. CASE IsPending(cmd.start)
      BY <1>1, <3>2, CommandTypes, StackDepth, InGate DEF IsPending
    <3> QED
      BY <1>1, <2>2, <3>1, <3>2 DEF CommandFrames
  <2>3. CASE cmd.name = "out"
    BY <1>1, <2>3, CommandTypes, StackDepth, InGate DEF CommandFrames
  <2> QED
    BY <2>1, <2>2, <2>3
<1>3. cmd.name \in {"runBack", "overBack", "outBack"} => CanStepBackward
  <2>1. CASE cmd.name = "overBack"
    <3>1. CASE IsAtStart /\ CameByReturn
      BY <3>1 DEF CameByReturn, CanStepBackward
    <3>2. CASE IsPending(cmd.start - 1)
      BY <1>1, <3>2, CommandTypes, StackDepth, InGate DEF IsPending
    <3> QED
      BY <1>1, <2>1, <3>1, <3>2 DEF CommandFrames
  <2>2. CASE cmd.name = "outBack"
    BY <1>1, <2>2, CommandTypes, StackDepth, InGate DEF CommandFrames
  <2> QED
    BY <2>1, <2>2
<1>4. ASSUME cmd.name \in {"run", "over", "out"}
      PROVE  result' \in Fine
  <2>1. TakePause \/ StepForward
    BY <1>4 DEF LoopTurn, RunTurn, RunBackTurn, RunAllTurn, OverTurn,
       OverBackTurn, OutForwardTurn, OutBackTurn, OutTurn, PausedTurn, Turn
  <2> QED
    BY <1>1, <1>2, <1>4, <2>1, ForwardIsFine DEF TakePause, Fine
<1>5. ASSUME cmd.name \in {"runBack", "overBack", "outBack"}
      PROVE  result' \in Fine
  <2>1. TakePause \/ StepBackward
    BY <1>5 DEF LoopTurn, RunTurn, RunBackTurn, RunAllTurn, OverTurn,
       OverBackTurn, OutForwardTurn, OutBackTurn, OutTurn, PausedTurn, Turn
  <2> QED
    BY <1>1, <1>3, <1>5, <2>1, BackwardIsFine DEF TakePause, Fine
<1>6. cmd' # Idle /\ cmd'.name = "run" => ~IsFinished'
  <2> SUFFICES ASSUME cmd' # Idle, cmd'.name = "run"
               PROVE  ~IsFinished'
    OBVIOUS
  <2>1. cmd' = cmd
    BY TurnGoesOnOrEnds
  <2> QED
    BY <2>1 DEF LoopTurn, RunTurn, RunBackTurn, RunAllTurn, OverTurn,
       OverBackTurn, OutForwardTurn, OutBackTurn, OutTurn, PausedTurn, Return,
       EndIf
<1>7. cmd' # Idle /\ cmd'.name = "runBack" => CanStepBackward'
  <2> SUFFICES ASSUME cmd' # Idle, cmd'.name = "runBack"
               PROVE  CanStepBackward'
    OBVIOUS
  <2>1. cmd' = cmd
    BY TurnGoesOnOrEnds
  <2> QED
    BY <2>1 DEF LoopTurn, RunTurn, RunBackTurn, RunAllTurn, OverTurn,
       OverBackTurn, OutForwardTurn, OutBackTurn, OutTurn, PausedTurn, Return,
       EndIf
<1> QED
  BY <1>4, <1>5, <1>6, <1>7

EntitledNames == {"next", "stepIn", "stepOut", "continue", "stepBack",
                  "reverseContinue", "pause", "stackTrace", "setBreakpoints",
                  "setVariable", "restartFrame", "exceptionInfo"}

(* What an entitled request asks of the engine, and where its calls start. *)
LEMMA EntitledCall ==
  ASSUME RequestInv, request # NoRequest, request.name \in EntitledNames,
         handler.todo # <<>>
  PROVE  LET c == Head(handler.todo)
         IN  /\ c \in {"over", "forward", "out", "run", "runBack", "stepBack",
                       "pause", "stackTrace", "clear", "set", "setVariable",
                       "restartFrame", "exceptionInfo"}
             /\ c = "restartFrame" <=> request.name = "restartFrame"
             /\ c = "runBack" => request.name = "reverseContinue"
             /\ c = "exceptionInfo" => request.name = "exceptionInfo"
             /\ request.name \notin {"setBreakpoints", "restartFrame"} =>
                  handler.call = "none"
             /\ c \in {"clear", "set"} <=> request.name = "setBreakpoints"
<1>1. request \in Pending /\ Stages
  BY DEF RequestInv
<1>2. CASE request.name = "setBreakpoints"
  <2>1. Head(handler.todo) \in {"clear", "set"}
    BY <1>2, NextCall
  <2> QED
    BY <1>2, <2>1
<1>3. CASE request.name \in EntitledNames \ {"setBreakpoints"}
  <2>1. Head(handler.todo) = OneCall(request.name)
    BY <1>3, NextCall DEF EntitledNames, Asked
  <2>2. SingleStages(request.name, handler.call, handler.todo)
    BY <1>1, <1>3 DEF Stages, EntitledNames, Starts
  <2>3. request.name # "restartFrame" => handler.call = "none"
    BY <2>2 DEF SingleStages
  <2> QED
    BY <1>3, <2>1, <2>3 DEF EntitledNames, OneCall
<1> QED
  BY <1>2, <1>3

(* A call of an entitled request is answered OK, or starts a loop that     *)
(* will be.                                                                *)
LEMMA CallIsFine ==
  ASSUME EngineSound, ready, Evaluable, cmd = Idle, NEW c, Perform(c),
         c \in {"over", "forward", "out", "run", "runBack", "stepBack", "clear",
                "stackTrace", "restartFrame", "exceptionInfo"},
         c \notin {"clear", "restartFrame"} => ~IsFinished,
         c = "runBack" => CanStepBackward,
         c = "exceptionInfo" => TypeOf(currentInstruction) = "ASSERTION",
         c = "restartFrame" /\ FrameIsLeft => ~IsFinished,
         c = "restartFrame" /\ ~FrameIsLeft => callReturnStack # <<>>
  PROVE  /\ cmd' = Idle => result' \in Fine
         /\ cmd'.name = "runBack" => CanStepBackward'
         /\ cmd'.name = "run" => ~IsFinished'
<1>1. EngineInv
  BY DEF EngineSound, CommandInv
<1>2. ~IsFinished => CanStepForward
  BY <1>1, StackDepth DEF IsFinished, CanStepForward
<1>3. ASSUME NEW name \in Commands, Begin(name),
             name = "run" => ~IsFinished, name = "runBack" => CanStepBackward
      PROVE  /\ cmd' # Idle
             /\ cmd'.name = "runBack" => CanStepBackward'
             /\ cmd'.name = "run" => ~IsFinished'
  <2>1. cmd'.name = name /\ UNCHANGED vars
    BY <1>3 DEF Begin
  <2> QED
    BY <1>3, <2>1 DEF Commands, Idle, vars, code, flow, IsFinished,
       CanStepBackward, Table
<1>4. ASSUME Once(StepForward), ~IsFinished
      PROVE  cmd' = Idle /\ result' \in Fine
  BY <1>1, <1>2, <1>4, ForwardIsFine DEF Once
<1>5. ASSUME Once(StepBackward), CanStepBackward
      PROVE  cmd' = Idle /\ result' \in Fine
  BY <1>1, <1>5, BackwardIsFine DEF Once
<1>6. ASSUME Refuse("OK")
      PROVE  cmd' = Idle /\ result' \in Fine
  BY <1>6 DEF Refuse, Fine
<1>7. Idle.name = "none"
  BY DEF Idle
<1>8. CASE c = "over" /\ StartOver
  BY <1>2, <1>3, <1>4, <1>7, <1>8 DEF StartOver, Commands
<1>9. CASE c = "forward" /\ Once(StepForward)
  BY <1>4, <1>7, <1>9
<1>10. CASE \/ c = "out" /\ StartOut
            \/ c = "run" /\ StartRun
  BY <1>2, <1>3, <1>7, <1>10 DEF StartOut, StartRun, Commands
<1>11. CASE c = "stepBack" /\ BackIfPossible
  BY <1>3, <1>5, <1>6, <1>7, <1>11 DEF BackIfPossible, StartOverBack, Nothing,
                                       Commands
<1>12. CASE \/ c = "restartFrame" /\ ~FrameIsLeft /\ StartOutBack
            \/ c = "runBack" /\ StartRunBack
  BY <1>3, <1>7, <1>12 DEF StartOutBack, StartRunBack, Commands
<1>13. CASE c = "restartFrame" /\ FrameIsLeft /\ Once(StepForward)
  BY <1>4, <1>7, <1>13
<1>14. CASE \/ /\ c = "stackTrace"
               /\ Looks(ready /\ ~IsFinished, "ERROR")
            \/ /\ c = "exceptionInfo"
               /\ Looks(~IsFinished /\ TypeOf(currentInstruction) = "ASSERTION",
                        "THROWN")
  BY <1>6, <1>7, <1>14 DEF Looks
<1>15. CASE c = "clear" /\ Once(ClearBreakpoints)
  BY <1>7, <1>15 DEF Once, ClearBreakpoints, Fine
<1> QED
  BY <1>8, <1>9, <1>10, <1>11, <1>12, <1>13, <1>14, <1>15 DEF Perform

(* What is left alone while an entitled request moves the engine.          *)
LEMMA EntitlementKept ==
  ASSUME OwedInv, request # NoRequest, handler.owed, UNCHANGED <<code, request>>
  PROVE  /\ ready' /\ Evaluable'
         /\ request'.name \notin Starts \cup {"terminate", "disconnect"}
         /\ request'.name = "restartFrame" => request'.frame > 1
<1>1. prog' = prog /\ ready' = ready /\ request' = request
  BY DEF code
<1>2. Evaluable => Evaluable'
  BY <1>1 DEF Evaluable, LoadedAssertions, Table
<1> QED
  BY <1>1, <1>2 DEF OwedInv

LEMMA OwedReceives ==
  ASSUME ServerInv, ToldInv, EndInv, NEW r \in Requests, Receive(r)
  PROVE  OwedInv'
<1> SUFFICES ASSUME handler'.owed
             PROVE  OwedInv'
  BY DEF OwedInv
<1>1. EngineSound /\ EngineInv /\ RequestInv
  BY DEF ServerInv, EngineSound, CommandInv
<1>2. /\ request' = r /\ handler'.call = "none" /\ Reasonable(r)
      /\ request = NoRequest /\ UNCHANGED <<controlVars, destroyed>>
  BY <1>1, Received DEF Receive
<1>3. Stays /\ ~destroyed /\ ready /\ Evaluable /\ ~told.exited
  BY <1>2 DEF NoRequest, Stays, Motions, Starts, Reasonable
<1>4. ~IsFinished
  BY <1>2, <1>3 DEF EndInv, Reasonable
<1>5. r.name = "exceptionInfo" => TypeOf(currentInstruction) = "ASSERTION"
  BY <1>1, <1>2, <1>3, Position DEF ToldInv, Reasonable
<1>6. /\ ready' /\ ~destroyed' /\ Evaluable' /\ ~IsFinished'
      /\ TypeOf(currentInstruction)' = TypeOf(currentInstruction)
      /\ cmd' = cmd /\ (CanStepBackward => CanStepBackward')
  BY <1>2, <1>3, <1>4 DEF controlVars, vars, code, flow, Evaluable,
     LoadedAssertions, Table, IsFinished, TypeOf, CanStepBackward
<1>7. /\ r.name \notin Starts \cup {"terminate", "disconnect"}
      /\ r.name = "restartFrame" => r.frame > 1
      /\ r.name = "reverseContinue" => CanStepBackward
  BY <1>2 DEF Reasonable, Starts
<1>8. cmd'.name = "none"
  BY <1>1, <1>2, <1>6 DEF RequestInv, Idle
<1>9. ~Raised'
  BY <1>2 DEF Raised, Caught
<1> QED
  BY <1>2, <1>5, <1>6, <1>7, <1>8, <1>9 DEF OwedInv

LEMMA OwedCalls ==
  ASSUME ServerInv, OwedInv, FrameInv, Alive, MakeCall
  PROVE  OwedInv'
<1>1. EngineSound /\ EngineInv /\ RequestInv /\ EngineInv'
  BY ServerStep DEF ServerInv, EngineSound, CommandInv, DNext, Serve
<1>2. /\ handler.todo # <<>> /\ handler'.owed = handler.owed
      /\ handler'.call = Head(handler.todo)
      /\ request' = request /\ request # NoRequest
      /\ cmd = Idle /\ ~Raised /\ Perform(Head(handler.todo))
      /\ destroyed' = (destroyed \/ Head(handler.todo) = "destroy")
  BY <1>1, CallMoves DEF MakeCall, CallDue, RequestInv
<1> SUFFICES ASSUME handler.owed
             PROVE  OwedInv'
  BY <1>2 DEF OwedInv
<1>3. ready /\ ~destroyed /\ Evaluable /\ request.name \in EntitledNames
  BY <1>1, <1>2 DEF OwedInv, RequestInv, Pending, Asked, Starts, EntitledNames
<1> DEFINE c == Head(handler.todo)
<1>4. /\ c \in {"over", "forward", "out", "run", "runBack", "stepBack",
                "pause", "stackTrace", "clear", "set", "setVariable",
                "restartFrame", "exceptionInfo"}
      /\ c = "restartFrame" <=> request.name = "restartFrame"
      /\ c = "runBack" => request.name = "reverseContinue"
      /\ c = "exceptionInfo" => request.name = "exceptionInfo"
      /\ request.name \notin {"setBreakpoints", "restartFrame"} =>
           handler.call = "none"
      /\ c \in {"clear", "set"} <=> request.name = "setBreakpoints"
  BY <1>1, <1>2, <1>3, EntitledCall
<1>5. Perform(c) /\ handler'.call = c /\ destroyed' = (destroyed \/ c = "destroy")
  BY <1>2
<1> HIDE DEF c
<1>6. UNCHANGED code
  BY <1>4, <1>5, KeepsCode
<1>7. ~destroyed'
  BY <1>3, <1>4, <1>5
<1>8. request'.name = "exceptionInfo" => TypeOf(currentInstruction)' = "ASSERTION"
  <2> SUFFICES ASSUME request.name = "exceptionInfo"
               PROVE  TypeOf(currentInstruction)' = "ASSERTION"
    BY <1>2
  <2>1. Stays
    BY DEF Stays, Motions, Starts
  <2>2. UNCHANGED <<prog, flow>>
    BY <1>1, <2>1, StaysStill
  <2>3. TypeOf(currentInstruction) = "ASSERTION"
    BY <1>2 DEF OwedInv
  <2> QED
    BY <2>2, <2>3 DEF flow, TypeOf, Table
<1>9. /\ cmd' = Idle /\ Alive' => ~Raised'
      /\ cmd'.name = "runBack" => CanStepBackward'
      /\ cmd'.name = "run" => ~IsFinished'
  <2>1. CASE c \in {"over", "forward", "out", "run", "runBack", "stepBack",
                    "clear", "stackTrace", "restartFrame", "exceptionInfo"}
    <3>1. c \notin {"clear", "restartFrame"} => ~IsFinished
      BY <1>2, <1>4, <2>1 DEF OwedInv
    <3>2. c = "exceptionInfo" => TypeOf(currentInstruction) = "ASSERTION"
      BY <1>2, <1>4 DEF OwedInv
    <3>3. c = "runBack" => CanStepBackward
      BY <1>2, <1>4 DEF OwedInv
    <3>4. c = "restartFrame" =>
            /\ request.frame \in Nat /\ request.frame > 1
            /\ Depth >= request.frame \/ AtItsCall
      <4>1. c = "restartFrame" => request.name = "restartFrame"
        BY <1>4
      <4> QED
        BY <1>1, <1>2, <4>1, FrameStages DEF OwedInv, FrameInv
    <3>5. c = "restartFrame" /\ FrameIsLeft => ~IsFinished
      BY <1>1, <3>4, StackDepth DEF FrameIsLeft, Depth, AtItsCall
    <3>6. c = "restartFrame" /\ ~FrameIsLeft => callReturnStack # <<>>
      BY <1>1, <3>4, StackDepth DEF FrameIsLeft, Depth
    <3>7. /\ cmd' = Idle => result' \in Fine
          /\ cmd'.name = "runBack" => CanStepBackward'
          /\ cmd'.name = "run" => ~IsFinished'
      BY <1>1, <1>2, <1>3, <1>5, <2>1, <3>1, <3>2, <3>3, <3>5, <3>6, CallIsFine
    <3> QED
      BY <3>7 DEF Raised, Alive, Fine
  <2>2. CASE c \in {"pause", "set", "setVariable"}
    <3>1. ~Raised'
      BY <1>5, <2>2 DEF Raised, Caught
    <3>2. cmd' = Idle
      BY <1>2, <1>5, <2>2, CallBegins, Zenon DEF Loops
    <3> QED
      BY <3>1, <3>2 DEF Idle
  <2> QED
    BY <1>4, <2>1, <2>2
<1>10. handler'.call # "none"
  BY <1>4, <1>5
<1>11. /\ ready' /\ Evaluable'
       /\ request'.name \notin Starts \cup {"terminate", "disconnect"}
       /\ request'.name = "restartFrame" => request'.frame > 1
  BY <1>2, <1>6, EntitlementKept
<1> QED
  BY <1>7, <1>8, <1>9, <1>10, <1>11 DEF OwedInv

LEMMA OwedComputes ==
  ASSUME ServerInv, OwedInv, Alive, Compute
  PROVE  OwedInv'
<1>1. EngineSound /\ RequestInv
  BY DEF ServerInv
<1>2. LoopTurn /\ UNCHANGED <<request, handler, destroyed>> /\ cmd # Idle
  BY DEF Compute, serverVars
<1> SUFFICES ASSUME request # NoRequest, handler.owed
             PROVE  OwedInv'
  BY <1>2 DEF OwedInv
<1>3. UNCHANGED code
  BY <1>2, TurnIsStep
<1>4. ready /\ ~destroyed /\ Evaluable
  BY DEF OwedInv
<1>5. /\ cmd.name \in {"run", "runBack", "over", "overBack", "out", "outBack"}
      /\ cmd.name = "run" => ~IsFinished
      /\ cmd.name = "runBack" => CanStepBackward
      /\ handler.call # "none"
  BY <1>1, <1>2 DEF RequestInv, Loops, OwedInv
<1>6. /\ result' \in Fine
      /\ cmd' # Idle /\ cmd'.name = "run" => ~IsFinished'
      /\ cmd' # Idle /\ cmd'.name = "runBack" => CanStepBackward'
  BY <1>1, <1>2, <1>4, <1>5, TurnIsFine
<1>7. /\ cmd'.name = "run" => ~IsFinished'
      /\ cmd'.name = "runBack" => CanStepBackward'
  BY <1>2, <1>5, <1>6, TurnGoesOnOrEnds DEF Idle
<1>8. request.name # "exceptionInfo"
  <2> SUFFICES ASSUME request.name = "exceptionInfo"
               PROVE  FALSE
    OBVIOUS
  <2>1. Stays
    BY DEF Stays, Motions, Starts
  <2> QED
    BY <1>1, <1>2, <2>1, StaysWithoutCommand
<1>9. Alive' => ~Raised'
  BY <1>6 DEF Raised, Alive, Fine
<1>10. /\ ready' /\ Evaluable'
       /\ request'.name \notin Starts \cup {"terminate", "disconnect"}
       /\ request'.name = "restartFrame" => request'.frame > 1
  BY <1>2, <1>3, EntitlementKept
<1> QED
  BY <1>2, <1>4, <1>5, <1>7, <1>8, <1>9, <1>10 DEF OwedInv

LEMMA OwedStep ==
  ASSUME ServerInv, ToldInv, EndInv, FrameInv, OwedInv, [DNext]_dapVars
  PROVE  OwedInv'
<1>1. CASE UNCHANGED <<controlVars, request, handler, destroyed>>
  BY <1>1 DEF OwedInv, controlVars, vars, code, flow, Evaluable,
     LoadedAssertions, Table, IsFinished, CanStepBackward, TypeOf, Raised, Alive
<1>2. CASE Answer
  BY <1>2 DEF Answer, OwedInv
<1>3. CASE Raise \/ Crash \/ UNCHANGED dapVars
  BY <1>1, <1>3 DEF Raise, Crash, EndSession, dapVars, serverVars
<1> QED
  BY <1>2, <1>3, OwedReceives, OwedCalls, OwedComputes DEF DNext, Serve

(* No exception of the engine and no null pointer ends the session of a    *)
(* stopped client that steps, runs, looks, restarts the frame of a gate,   *)
(* or runs back from where there is a way back. It goes by the events and  *)
(* the stack trace; only the last condition they do not tell it, and       *)
(* without it the statement is false (reverse_continue_dap_message.py:46). *)
THEOREM StoppedClientCorrect == DSpec => []StoppedClientIsServed
<1> DEFINE Inv == /\ ServerInv /\ MarksAreCleared /\ ToldInv
                  /\ HighlightsInv /\ EndInv /\ FrameInv /\ OwedInv
                  /\ StoppedClientIsServed
<1>1. DInit => Inv
  <2>1. ASSUME DInit
        PROVE  MarksAreCleared /\ ToldInv
    <3>1. /\ lastFailedAssertion = NoInstruction
          /\ lastMetBreakpoint = NoInstruction /\ told.stop = "none"
      BY <2>1 DEF DInit, CInit, Init
    <3> QED
      BY <3>1 DEF MarksAreCleared, ToldInv
  <2>2. ASSUME DInit
        PROVE  HighlightsInv /\ EndInv /\ FrameInv /\ OwedInv
               /\ StoppedClientIsServed
    BY <2>2 DEF DInit, CInit, Init, HighlightsInv, EndInv, FrameInv, OwedInv,
                StoppedClientIsServed, Serving, NoRequest
  <2> QED
    BY <2>1, <2>2, ServerInit
<1>2. ASSUME Inv, [DNext]_dapVars
      PROVE  StoppedClientIsServed'
  <2>1. ~(Alive /\ Raise /\ handler.owed) /\ ~(Alive /\ Crash /\ handler.owed)
    BY <1>2 DEF Raise, Crash, CallDue, Fatal, OwedInv
  <2>2. RequestInv
    BY <1>2 DEF ServerInv
  <2>3. ASSUME NEW r, Receive(r)
        PROVE  Serving'
    BY <2>3 DEF Receive, Serving
  <2>4. CASE MakeCall
    <3>1. handler'.owed = handler.owed
      BY <2>2, <2>4, CallMoves DEF RequestInv
    <3> QED
      BY <1>2, <2>4, <3>1 DEF MakeCall, Serving, StoppedClientIsServed
  <2>5. CASE Answer
    BY <2>5 DEF Answer, CallDue, Serving, StoppedClientIsServed
  <2>6. CASE Compute \/ UNCHANGED dapVars
    BY <1>2, <2>6 DEF Compute, dapVars, serverVars, Serving,
                      StoppedClientIsServed
  <2>7. CASE Alive /\ (Raise \/ Crash)
    BY <2>1, <2>7 DEF Raise, Crash, EndSession, StoppedClientIsServed
  <2> QED
    BY <1>2, <2>3, <2>4, <2>5, <2>6, <2>7 DEF DNext, Serve,
       StoppedClientIsServed
<1>3. Inv /\ [DNext]_dapVars => Inv'
  BY <1>2, ServerStep, MarksStep, ToldStep, HighlightsStep, EndStep, FrameStep,
     OwedStep
<1>4. Inv => StoppedClientIsServed
  OBVIOUS
<1> QED
  BY <1>1, <1>3, <1>4, PTL DEF DSpec

(* The server never leaves the engine in a state its own calls could not:  *)
(* what is proved of the engine and of its commands holds under it, also   *)
(* after the engine was destroyed and looked at.                           *)
THEOREM EngineServed ==
  DSpec => [](/\ CallStackIsNesting /\ IteratorInStep
              /\ FailureFlagIsTrue /\ CommandStaysInFrame)
<1>1. DInit => ServerInv
  BY ServerInit
<1>2. ServerInv /\ [DNext]_dapVars => ServerInv'
  BY ServerStep
<1>3. ASSUME ServerInv
      PROVE  /\ CallStackIsNesting /\ IteratorInStep
             /\ FailureFlagIsTrue /\ CommandStaysInFrame
  <2>1. /\ EngineSound /\ EngineInv /\ FlowInv /\ TypeOK /\ IterInv /\ CommandInv
    BY <1>3 DEF ServerInv, EngineSound, CommandInv, EngineInv
  <2>2. CallStackIsNesting /\ IteratorInStep
    BY <2>1, IterIsInStep DEF FlowInv
  <2>3. FailureFlagIsTrue
    BY <2>1, Position DEF FailureFlagIsTrue
  <2>4. CommandStaysInFrame
    BY <2>1, CommandTypes DEF CommandInv, CommandFrames, CommandStaysInFrame,
                              IsAtStart, IsPending, Idle
  <2> QED
    BY <2>2, <2>3, <2>4
<1>4. ServerInv => /\ CallStackIsNesting /\ IteratorInStep
                   /\ FailureFlagIsTrue /\ CommandStaysInFrame
  BY <1>3
<1> QED
  BY <1>1, <1>2, <1>4, PTL DEF DSpec

=============================================================================
