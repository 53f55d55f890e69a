---------------------------- MODULE TimeTravel ----------------------------
(***************************************************************************)
(* What a time-travel debugger promises of its position in the program,    *)
(* with no stacks to rebuild it from: it remembers the places it came      *)
(* through, goes back to exactly the last one, and forgets them only when  *)
(* the way back is closed for good.                                        *)
(***************************************************************************)
EXTENDS Integers, Sequences

CONSTANTS Start,        \* the place a program starts at
          Inside(_, _), \* Inside(p, here): program p goes on from here
          Step(_, _)    \* Step(p, here): the place after here in program p

VARIABLES program, here, past

Init == here = Start /\ past = <<>>

Onward ==
  /\ Inside(program, here)
  /\ here' = Step(program, here)
  /\ past' = Append(past, here)
  /\ UNCHANGED program

(* The step cannot be undone: a measurement was made.                      *)
OnwardForGood ==
  /\ Inside(program, here)
  /\ here' = Step(program, here)
  /\ past' = <<>>
  /\ UNCHANGED program

Back ==
  /\ past # <<>>
  /\ here' = past[Len(past)]
  /\ past' = SubSeq(past, 1, Len(past) - 1)
  /\ UNCHANGED program

(* A load or a reset.                                                      *)
StartOver ==
  /\ here' = Start
  /\ past' = <<>>

Next == Onward \/ OnwardForGood \/ Back \/ StartOver

Spec == Init /\ [][Next]_<<program, here, past>>

=============================================================================
