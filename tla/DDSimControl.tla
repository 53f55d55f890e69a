--------------------------- MODULE DDSimControl ---------------------------
(***************************************************************************)
(* The commands of the debugger that repeat single steps: run, runAll,     *)
(* step over and step out, in both directions, with the pause a second     *)
(* thread may request at any moment (debug.h:138-153, DDSimDebug.cpp).     *)
(*                                                                         *)
(* A command is a loop; an action is one turn of it. paused is read once   *)
(* in a turn and the engine never looks at it, so a request between two    *)
(* statements of a turn acts as one before or after the whole turn.        *)
(***************************************************************************)
EXTENDS DDSimDebug

CONSTANT MaxPauses  \* bound on the pauses requested during one command

ASSUME MaxPausesIsPositive == MaxPauses \in Nat \ {0}

(* A circuit with a gate that calls itself, directly or through others, is *)
(* not imported: inlining it never ends.                                   *)
ASSUME GatesDoNotRecurse ==
  \A p \in Programs \cup {NoProgram} : NeverRecursive(Code[p])

VARIABLES
  paused,
  cmd,               \* the command under way, with the locals of its loop
  failedAssertions,  \* runAll's count
  failures,          \* history: assertions that failed during the command
  pauses             \* history: pauses the command had to take up

controlVars == <<vars, paused, cmd, failedAssertions, failures, pauses>>

Idle == [name |-> "none", start |-> 0, depth |-> 0]
Commands == {"run", "runBack", "runAll", "over", "overBack", "out", "outBack"}
Directed == Commands \ {"runAll"}

One(condition) == IF condition THEN 1 ELSE 0

Begin(name) ==
  /\ cmd' = [name |-> name, start |-> currentInstruction,
             depth |-> Len(callReturnStack)]
  /\ failedAssertions' = 0
  /\ pauses' = One(paused)
  /\ UNCHANGED <<vars, paused, failures>>

Refuse(answer) ==
  /\ result' = answer
  /\ UNCHANGED <<code, flow, data, assertionInstructions, breakpoints, marks,
                 paused, cmd, failedAssertions, failures, pauses>>

(* A single engine step or edit as a whole command.                        *)
Once(action) ==
  /\ action
  /\ UNCHANGED <<paused, cmd, failedAssertions, failures, pauses>>

-----------------------------------------------------------------------------
(* Starting a command.                                                     *)

StartRun == IF CanStepForward THEN Begin("run") ELSE Refuse("ERROR")

StartRunBack == IF CanStepBackward THEN Begin("runBack") ELSE Refuse("ERROR")

StartRunAll ==
  CASE ~ready -> Refuse("ERROR")
    [] ready /\ IsFinished -> Refuse("OK")
    [] OTHER -> Begin("runAll")

StartOver ==
  CASE ~CanStepForward -> Refuse("ERROR")
    [] CanStepForward /\ TypeOf(currentInstruction) # "CALL" ->
         Once(StepForward)
    [] OTHER -> Begin("over")

StartOverBack ==
  CASE ~CanStepBackward -> Refuse("ERROR")
    [] CanStepBackward /\ TypeOf(Last(previousInstructionStack)) # "RETURN" ->
         Once(StepBackward)
    [] OTHER -> Begin("overBack")

StartOutAnywhere == Begin("out")                     \* mutant

StartOut == IF callReturnStack = <<>> THEN StartRun ELSE Begin("out")

StartOutBack ==
  IF callReturnStack = <<>> THEN StartRunBack ELSE Begin("outBack")

-----------------------------------------------------------------------------
(* One turn of a loop.                                                     *)

Return == cmd' = Idle
EndIf(over) == cmd' = IF over THEN Idle ELSE cmd

StoppedByFailure == DidAssertionFail                 \* mutant

Stopped == DidAssertionFail \/ WasBreakpointHit

(* Where the loops that move over or out of a gate are done.               *)
AnyReturn == TypeOf(currentInstruction) = "RETURN"   \* mutant

CallReturned ==
  /\ TypeOf(currentInstruction) = "RETURN"
  /\ Last(callReturnStack) = cmd.start

BackAtCall ==
  /\ TypeOf(currentInstruction') = "CALL"
  /\ Len(callReturnStack') = cmd.depth

LeftAllGates == callReturnStack' = <<>>              \* mutant
StaysInGate == Len(callReturnStack') = cmd.depth     \* mutant

LeftGate == Len(callReturnStack') = cmd.depth - 1

(* The turn finds the pause flag set, clears it and makes no step.         *)
TakePause ==
  /\ paused
  /\ paused' = FALSE
  /\ result' = "OK"
  /\ UNCHANGED <<code, flow, data, assertionInstructions, breakpoints, marks>>

(* The turn met an assertion that fails.                                   *)
FailsNow == lastFailedAssertion' \notin {lastFailedAssertion, NoInstruction}

Turn(step) ==
  /\ step
  /\ UNCHANGED paused

PausedTurnGoesOn ==                                  \* mutant
  TakePause /\ UNCHANGED <<cmd, failedAssertions>>

PausedTurn == TakePause /\ Return /\ UNCHANGED failedAssertions

RunTurn ==
  /\ cmd.name = "run"
  /\ \/ PausedTurn
     \/ /\ ~paused
        /\ Turn(StepForward)
        /\ EndIf(result' # "OK" \/ Stopped' \/ IsFinished')
        /\ UNCHANGED failedAssertions

RunBackUntilRefused ==                               \* mutant
  /\ cmd.name = "runBack"
  /\ \/ PausedTurn
     \/ /\ ~paused
        /\ Turn(StepBackward)
        /\ EndIf(result' # "OK" \/ Stopped')
        /\ UNCHANGED failedAssertions

RunBackTurn ==
  /\ cmd.name = "runBack"
  /\ \/ PausedTurn
     \/ /\ ~paused
        /\ Turn(StepBackward)
        /\ EndIf(result' # "OK" \/ Stopped' \/ ~CanStepBackward')
        /\ UNCHANGED failedAssertions

CountsBreakpoints == result' = "OK" /\ Stopped'      \* mutant

CountsAsFailure == result' = "OK" /\ DidAssertionFail'

(* runAll restarts the inner run whenever it returns OK, a pause included, *)
(* and counts the returns at a failed assertion.                           *)
RunAllTurn ==
  /\ cmd.name = "runAll"
  /\ \/ TakePause /\ UNCHANGED cmd
     \/ /\ ~paused
        /\ Turn(StepForward)
        /\ EndIf(result' # "OK" \/ IsFinished')
  /\ failedAssertions' =
       failedAssertions + One(CountsAsFailure)

OverTurn ==
  /\ cmd.name = "over"
  /\ \/ PausedTurn
     \/ /\ ~paused
        /\ Turn(StepForward)
        /\ EndIf(\/ result' # "OK"
                 \/ Stopped'
                 \/ CallReturned)
        /\ UNCHANGED failedAssertions

OverBackTurn ==
  /\ cmd.name = "overBack"
  /\ \/ PausedTurn
     \/ /\ ~paused
        /\ Turn(StepBackward)
        /\ EndIf(\/ result' # "OK"
                 \/ WasBreakpointHit'
                 \/ BackAtCall)
        /\ UNCHANGED failedAssertions

(* The step-out loops step first and look at the pause flag afterwards.    *)
OutTurn(name, step, stopped) ==
  /\ cmd.name = name
  /\ step
  /\ IF result' = "OK" /\ ~stopped /\ paused
     THEN paused' = FALSE /\ Return
     ELSE /\ UNCHANGED paused
          /\ EndIf(\/ result' # "OK"
                   \/ stopped
                   \/ LeftGate)
  /\ UNCHANGED failedAssertions

OutForwardTurn == OutTurn("out", StepForward, Stopped')
OutBackTurn == OutTurn("outBack", StepBackward, WasBreakpointHit')

LoopTurn ==
  /\ \/ RunTurn
     \/ RunBackTurn
     \/ RunAllTurn
     \/ OverTurn
     \/ OverBackTurn
     \/ OutForwardTurn
     \/ OutBackTurn
  /\ failures' = IF cmd' = Idle THEN 0 ELSE failures + One(FailsNow)
  /\ pauses' = IF cmd' = Idle THEN 0 ELSE pauses

-----------------------------------------------------------------------------

(* pauseSimulation, from this or from a concurrent thread.                 *)
PauseSimulation ==
  /\ cmd = Idle \/ pauses < MaxPauses
  /\ paused' = TRUE
  /\ pauses' = IF cmd = Idle THEN pauses ELSE pauses + 1
  /\ UNCHANGED <<vars, cmd, failedAssertions, failures>>

(* resetSimulationState, called by a load that is accepted and by a reset, *)
(* clears the flag.                                                        *)
Afresh(action) ==
  /\ action
  /\ paused' = FALSE
  /\ UNCHANGED <<cmd, failedAssertions, failures, pauses>>

StartAfresh == Afresh((\E p \in Programs : LoadCode(p)) \/ ResetSimulation)

Client ==
  \/ Once(StepForward)
  \/ Once(StepBackward)
  \/ Once(\E i \in 0 .. Table.n - 1 : SetBreakpoint(i))
  \/ Once(ClearBreakpoints)
  \/ Once(\E p \in Programs \cup {NoProgram} : LoadRejected(p))
  \/ Once(Editing /\ Edit)
  \/ StartAfresh
  \/ StartRun \/ StartRunBack \/ StartRunAll
  \/ StartOver \/ StartOverBack
  \/ StartOut \/ StartOutBack

CInit ==
  /\ Init
  /\ paused = FALSE
  /\ cmd = Idle
  /\ failedAssertions = 0
  /\ failures = 0
  /\ pauses = 0

CNext ==
  /\ Alive
  /\ \/ cmd = Idle /\ Client
     \/ cmd # Idle /\ LoopTurn
     \/ PauseSimulation

CSpec == CInit /\ [][CNext]_controlVars

(* The thread that runs a command is scheduled again and again until the   *)
(* loop returns; nothing obliges a client to issue a command or a pause.   *)
CFairSpec == CSpec /\ WF_controlVars(cmd # Idle /\ Alive /\ LoopTurn)

-----------------------------------------------------------------------------
(* Properties.                                                             *)

CTypeOK ==
  /\ paused \in BOOLEAN
  /\ \/ cmd = Idle
     \/ cmd \in [name : {"run", "runBack", "runAll", "overBack"},
                start : 0 .. Table.n, depth : Nat]
     \/ cmd \in [name : {"over"}, start : CallsOf(Table), depth : Nat]
     \/ cmd \in [name : {"out", "outBack"}, start : 0 .. Table.n,
                depth : Nat \ {0}]
  /\ {failedAssertions, failures} \subseteq Nat
  /\ pauses \in 0 .. MaxPauses

(* A command that steps over or out of a call never sees less of the call  *)
(* stack than it started with: it cannot run past the frame it is to stop  *)
(* in, whatever calls, assertions and pauses it meets on the way.          *)
CommandStaysInFrame ==
  cmd.name \in {"over", "overBack", "out", "outBack"}
    => Len(callReturnStack) >= cmd.depth

(* A command returned on its own, not at a failed assertion, a breakpoint, *)
(* a pause or an error.                                                    *)
ReturnsUndisturbed(name) ==
  /\ cmd.name = name /\ cmd' = Idle
  /\ result' = "OK" /\ ~paused
  /\ ~WasBreakpointHit'

(* Step over ends behind the call it started at, with the call stack it    *)
(* started with, and backward it ends at the call it went over.            *)
StepOverArrives ==
  [][/\ ReturnsUndisturbed("over") /\ ~DidAssertionFail' =>
          /\ currentInstruction' = cmd.start + 1
          /\ Len(callReturnStack') = cmd.depth
     /\ ReturnsUndisturbed("overBack") =>
          /\ currentInstruction' = cmd.start - 1
          /\ Len(callReturnStack') = cmd.depth]_controlVars

(* Step out ends behind the call of the gate it was started in, backward   *)
(* at that call: "until the current custom gate call returns" and "until   *)
(* the instruction calling the current custom gate is encountered"         *)
(* (debug.h).                                                              *)
StepOutArrives ==
  [][LET caller == callReturnStack[cmd.depth]
     IN  /\ ReturnsUndisturbed("out") /\ ~DidAssertionFail' =>
              currentInstruction' = caller + 1
         /\ ReturnsUndisturbed("outBack") =>
              currentInstruction' = caller]_controlVars

(* A command, runAll apart, makes at most one step under a pending pause:  *)
(* it has returned once the flag is taken or the step is made.             *)
PauseEndsCommand ==
  [][cmd.name \in Directed /\ paused /\ <<vars, paused>>' # <<vars, paused>>
       => cmd' = Idle]_controlVars

(* No command, runAll apart, runs past a breakpoint, and none that moves   *)
(* forward runs past an assertion that fails.                              *)
NothingMissed ==
  [][cmd.name \in Directed /\ cmd' = cmd /\ vars' # vars =>
       /\ ~WasBreakpointHit'
       /\ cmd.name \in {"run", "over", "out"} => ~FailsNow]_controlVars

(* runAll "runs the simulation until it finishes, even if assertions fail" *)
(* and reports how many failed (debug.h), when nobody pauses it.           *)
RunAllCounts ==
  [][cmd.name = "runAll" /\ cmd' = Idle /\ result' = "OK" =>
       /\ IsFinished'
       /\ pauses = 0 => failedAssertions' = failures + One(FailsNow)
    ]_controlVars

(* Every command returns, whatever the program and the pauses, or the      *)
(* debugger is dead.                                                       *)
CommandsReturn == cmd # Idle ~> (cmd = Idle \/ ~Alive)

(* What debug.h:141-142 promises of pauseSimulation ("the execution will   *)
(* stop as soon as possible") of runAll: it is refuted.                    *)
PauseStopsRunAll ==
  [][cmd.name = "runAll" /\ paused /\ ~paused' => cmd' = Idle]_controlVars

=============================================================================
