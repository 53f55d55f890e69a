----------------------------- MODULE DAPServer -----------------------------
(***************************************************************************)
(* The debug adapter: one thread serves one client, a request at a time,   *)
(* on top of the engine (src/python/mqt/debugger/dap/dap_server.py and its *)
(* messages). A request is a list of engine calls followed by a response   *)
(* and the events handle_client derives from the engine's state.           *)
(*                                                                         *)
(* The client may send any request at any time; the events it received are *)
(* kept in told. A call that is not OK raises RuntimeError in the binding, *)
(* which leaves handle_client and ends the session, unless the handler     *)
(* catches it.                                                             *)
(***************************************************************************)
EXTENDS DDSimControl

VARIABLES
  session,             \* "serving", "ended" by an exception, or "crashed"
  request,             \* the request under way
  handler,             \* its call, those still to make; may it be asked?
  source_file,         \* the program whose file the server names
  destroyed,           \* terminate or disconnect destroyed the engine
  can_step_back,
  prevent_exit,
  pending_highlights,  \* is the error of a rejected program to be shown?
  told                 \* what the events told the client

serverVars == <<session, request, handler, source_file, destroyed,
                can_step_back, prevent_exit, pending_highlights, told>>
dapVars == <<controlVars, serverVars>>

NoRequest == [name |-> "none"]
NoHandler == [todo |-> <<>>, call |-> "none", owed |-> FALSE]
Serving == session = "serving"

Depth == Len(callReturnStack) + 1

-----------------------------------------------------------------------------
(* Requests.                                                               *)

(* What a request names: the program its file holds and whether the engine *)
(* accepts it, stopOnEntry, a frame of the stack trace, a breakpoint (the  *)
(* instruction at its position, n where there is none).                    *)
Requests ==
  [name : {"next", "stepIn", "stepOut", "continue", "reverseContinue",
           "stepBack", "pause", "stackTrace", "exceptionInfo", "terminate",
           "disconnect", "setVariable"}]
  \cup [name : {"restartFrame"}, frame : 1 .. Depth]
  \cup [name : {"launch", "restart"}, program : Programs, entry : BOOLEAN,
        accepted : BOOLEAN]
  \cup [name : {"setBreakpoints"}, program : Programs,
        at : {s \in {{}} \cup {{i} : i \in 0 .. Table.n} :
                Cardinality(s) <= MaxBreakpoints}]

Motions == {"next", "stepBack", "stepIn", "stepOut", "continue",
            "reverseContinue", "restartFrame"}
Starts == {"launch", "restart"}

(* The engine calls of the handlers; those that only look count as one.    *)
RejectedWithoutReset == <<"reject">>                 \* mutant
RejectedCalls == <<"reject", "reset">>

LoadCalls(r) ==
  CASE ~r.accepted -> RejectedCalls
    [] r.accepted /\ r.entry -> <<"load">>
    [] OTHER -> <<"load", "run">>

BreakpointCalls(r) ==
  CASE r.program # source_file -> <<>>
    [] r.program = source_file /\ r.at = {} -> <<"clear">>
    [] OTHER -> <<"clear", "set">>

CallsFor(r) ==
  CASE r.name = "next" -> <<"over">>
    [] r.name = "stepIn" -> <<"forward">>
    [] r.name = "stepOut" -> <<"out">>
    [] r.name = "continue" -> <<"run">>
    [] r.name = "reverseContinue" -> <<"runBack">>
    [] r.name = "launch" -> LoadCalls(r)
    [] r.name = "restart" -> <<"reset">> \o LoadCalls(r)
    [] r.name = "setBreakpoints" -> BreakpointCalls(r)
    [] r.name \in {"terminate", "disconnect"} -> <<"destroy">>
    [] OTHER -> <<r.name>>

(* No assertion of the program throws when it is checked, and the circuit  *)
(* is the one the tables speak of, every if of it supported.               *)
Evaluable ==
  /\ \A i \in LoadedAssertions(prog) : Table.claim[i].entangled = {}
  /\ FollowsTables(Table)

(* What a stopped client asks, going by the events and the stack trace.    *)
(* They do not tell whether there is a way back: reverseContinue is        *)
(* reasonable where there is one, whether the client can know it or not. A *)
(* program without instructions is stopped at its end from the start,      *)
(* untold.                                                                 *)
Reasonable(r) ==
  /\ Evaluable /\ Table.n # 0
  /\ ready /\ ~destroyed /\ told.stop # "none" /\ ~told.exited
  /\ \/ r.name \in {"next", "stepIn", "stepOut", "continue", "stepBack",
                    "pause", "stackTrace", "setBreakpoints", "setVariable"}
     \/ r.name = "reverseContinue" /\ CanStepBackward
     \/ r.name = "restartFrame" /\ r.frame > 1
     \/ r.name = "exceptionInfo" /\ told.stop = "exception"

Receive(r) ==
  /\ Serving /\ request = NoRequest
  /\ request' = r
  /\ handler' = [todo |-> CallsFor(r), call |-> "none", owed |-> Reasonable(r)]
  /\ UNCHANGED <<controlVars, session, source_file, destroyed, can_step_back,
                 prevent_exit, pending_highlights, told>>

-----------------------------------------------------------------------------
(* Engine calls.                                                           *)

Looks(fine, raised) == Refuse(IF fine THEN "OK" ELSE raised)
Nothing == Refuse("OK")

BackAnyway == StartOverBack                          \* mutant
BackIfPossible == IF CanStepBackward THEN StartOverBack ELSE Nothing

FrameIsInner == Depth = request.frame                \* mutant
FrameIsLeft == Depth < request.frame

Forwards == {"over", "forward", "out", "run"}

(* destroy_ddsim_simulation_state.                                         *)
Destroy ==
  /\ ready' = FALSE
  /\ result' = "OK"
  /\ UNCHANGED <<prog, circuit, flow, data, assertionInstructions,
                 breakpoints, marks>>

Load == Afresh(LoadCode(request.program))
Reject == Once(\E p \in {request.program, NoProgram} : LoadRejected(p))

Set ==
  IF request.at \subseteq 0 .. Table.n - 1
  THEN Once(\E i \in request.at : SetBreakpoint(i))
  ELSE Refuse("ERROR")

Perform(c) ==
  \/ c = "over" /\ StartOver
  \/ c = "forward" /\ Once(StepForward)
  \/ c = "out" /\ StartOut
  \/ c = "run" /\ StartRun
  \/ c = "runBack" /\ StartRunBack
  \/ c = "stepBack" /\ BackIfPossible
  \/ c = "restartFrame" /\ ~FrameIsLeft /\ StartOutBack
  \/ c = "restartFrame" /\ FrameIsLeft /\ Once(StepForward)
  \/ c = "pause" /\ PauseSimulation
  \/ c = "stackTrace" /\ Looks(ready /\ ~IsFinished, "ERROR")
  \/ /\ c = "exceptionInfo"
     /\ Looks(~IsFinished /\ TypeOf(currentInstruction) = "ASSERTION", "THROWN")
  \/ c = "load" /\ Load
  \/ c = "reject" /\ Reject
  \/ c = "reset" /\ Afresh(ResetSimulation)
  \/ c = "clear" /\ Once(ClearBreakpoints)
  \/ c = "set" /\ Set
  \/ c = "setVariable" /\ (Nothing \/ (Editing /\ Once(Edit)))
  \/ c = "destroy" /\ Once(Destroy)

(* The handlers that catch an exception of their call.                     *)
Caught == {"none", "pause", "reject", "set", "setVariable"}

RaisedNever == FALSE                                 \* mutant
Raised == handler.call \notin Caught /\ result # "OK"

CallDueEarly == Serving /\ request # NoRequest       \* mutant
CallDue == Serving /\ request # NoRequest /\ cmd = Idle

Moved(r) == r.name \in Motions \/ (r.name \in Starts /\ ~r.entry)

(* A forward step on a destroyed state follows a null pointer, and so does *)
(* the report of a failed assertion.                                       *)
Fatal ==
  /\ destroyed
  /\ IF handler.todo # <<>>
     THEN Head(handler.todo) \in Forwards /\ CanStepForward
     ELSE Moved(request) /\ DidAssertionFail

MakeCall ==
  /\ CallDue /\ ~Raised /\ ~Fatal /\ handler.todo # <<>>
  /\ LET c == Head(handler.todo)
         again == c = "restartFrame" /\ ~FrameIsLeft
     IN  /\ Perform(c)
         /\ handler' = [handler EXCEPT !.call = c,
                                       !.todo = IF again THEN @ ELSE Tail(@)]
         /\ source_file' = IF c \in {"load", "reject"} THEN request.program
                                                       ELSE source_file
         /\ pending_highlights' = (pending_highlights \/ c = "reject")
         /\ destroyed' = (destroyed \/ c = "destroy")
  /\ UNCHANGED <<session, request, can_step_back, prevent_exit, told>>

(* The command a call started goes on.                                     *)
Compute == Serving /\ cmd # Idle /\ LoopTurn /\ UNCHANGED serverVars

EndSession(how) ==
  /\ session' = how
  /\ UNCHANGED <<controlVars, request, handler, source_file, destroyed,
                 can_step_back, prevent_exit, pending_highlights, told>>

Raise == CallDue /\ Raised /\ EndSession("ended")

Crash == CallDue /\ ~Raised /\ Fatal /\ EndSession("crashed")

-----------------------------------------------------------------------------
(* The response and the events that follow it.                             *)

StopReason ==
  CASE DidAssertionFail -> "exception"
    [] ~DidAssertionFail /\ WasBreakpointHit -> "breakpoint"
    [] OTHER -> "step"

StopTold(r) ==
  CASE Moved(r) -> StopReason
    [] r.name \in Starts /\ r.entry -> "entry"
    [] r.name = "pause" -> "pause"
    [] r.name = "terminate" -> "none"
    [] OTHER -> told.stop

AllowsOnStart(r) == r.name \in Starts                \* mutant
AllowsExit(r) == r.name \in Motions \cup Starts

ShowsErrors(r) == pending_highlights \/ (Moved(r) /\ DidAssertionFail)

(* regular_checks: a finished program is announced as exited, unless errors*)
(* were just shown; a change of can_step_back is noted and not announced.  *)
Exits == IsFinished /\ Table.n # 0 /\ ~prevent_exit'

Answer ==
  /\ CallDue /\ ~Raised /\ ~Fatal /\ handler.todo = <<>>
  /\ request' = NoRequest /\ handler' = NoHandler
  /\ pending_highlights' = FALSE
  /\ prevent_exit' =
       (ShowsErrors(request) \/ (prevent_exit /\ ~AllowsExit(request)))
  /\ can_step_back' = CanStepBackward
  /\ told' = [told EXCEPT
       !.stop = StopTold(request),
       !.exited = \/ Exits
                  \/ request.name = "terminate"
                  \/ @ /\ request.name \notin Starts]
  /\ UNCHANGED <<controlVars, session, source_file, destroyed>>

-----------------------------------------------------------------------------

(* After the initialize request, which announced supportsStepBack.         *)
DInit ==
  /\ CInit
  /\ session = "serving"
  /\ request = NoRequest /\ handler = NoHandler
  /\ source_file = NoProgram
  /\ destroyed = FALSE
  /\ can_step_back = FALSE
  /\ prevent_exit = FALSE
  /\ pending_highlights = FALSE
  /\ told = [stop |-> "none", exited |-> FALSE]

Serve == MakeCall \/ Compute \/ Raise \/ Crash \/ Answer

DNext ==
  /\ Alive
  /\ \/ \E r \in Requests : Receive(r)
     \/ Serve

DSpec == DInit /\ [][DNext]_dapVars

(* The server's one thread runs on; nothing obliges the client to ask.     *)
DFairSpec == DSpec /\ WF_dapVars(Alive /\ Serve)

-----------------------------------------------------------------------------
(* Properties.                                                             *)

DAPTypeOK ==
  /\ session \in {"serving", "ended", "crashed"}
  /\ source_file \in Programs \cup {NoProgram}
  /\ {destroyed, can_step_back, prevent_exit, pending_highlights}
       \subseteq BOOLEAN
  /\ told \in [stop : {"none", "entry", "step", "breakpoint", "exception",
                       "pause"}, exited : BOOLEAN]
  /\ cmd # Idle => request # NoRequest

(* What the client is told of the reason of a stop is true of the engine   *)
(* until the client moves again: at an exception there is an assertion, in *)
(* a loaded program, and a breakpoint is reported for a loaded program     *)
(* only, whatever was rejected or restarted in between (the stop events of *)
(* handle_client against the marks a rejected load keeps).                 *)
StopReasonIsTrue ==
  Serving /\ request = NoRequest /\ ~destroyed =>
    /\ told.stop \in {"exception", "breakpoint"} => ready
    /\ told.stop = "exception" =>
         /\ DidAssertionFail
         /\ TypeOf(currentInstruction) = "ASSERTION"
         /\ ~Editing => AssertionOutcome(currentInstruction) = "fails"

(* restartFrame goes back to the first instruction of the gate the frame   *)
(* stands for, however deep the engine is, with the call stack the frame   *)
(* had; frames are numbered as the stack trace lists them, 1 for main.     *)
RestartFrameArrives ==
  [][request.name = "restartFrame" /\ request' = NoRequest =>
       /\ Depth = request.frame
       /\ callReturnStack # <<>>
       /\ currentInstruction = Table.succ[Last(callReturnStack)]]_dapVars

(* When a request leaves the engine at the end of the program, the client  *)
(* is told that the program exited, whatever errors were shown before      *)
(* (_prevent_exit in dap_server.py).                                       *)
ProgramEndIsTold ==
  Serving /\ request = NoRequest /\ ready /\ IsFinished /\ Table.n # 0
    => told.exited

(* A stopped client that asks nothing unreasonable never ends the session: *)
(* no exception of the engine escapes a handler. Going back is reasonable  *)
(* as long as there is a way back, restarting a frame in a gate.           *)
StoppedClientIsServed == ~Serving => ~handler.owed

(* Every request is answered, or the session ends: also restartFrame,      *)
(* which steps out again and again.                                        *)
RequestsAnswered ==
  request # NoRequest ~> (request = NoRequest \/ ~Serving \/ ~Alive)

=============================================================================
