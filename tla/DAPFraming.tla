----------------------------- MODULE DAPFraming -----------------------------
(***************************************************************************)
(* How the DAP server cuts the byte stream of its one connection into      *)
(* messages: the reading loop of handle_client                             *)
(* (src/python/mqt/debugger/dap/dap_server.py).                            *)
(*                                                                         *)
(* A message is abstracted to the pieces the loop can tell apart: the two  *)
(* halves of the text "Content-Length:" it searches for and the braces of  *)
(* its JSON body.                                                          *)
(***************************************************************************)
EXTENDS Integers, SequencesExt

CONSTANTS
  Bodies,       \* shapes of JSON bodies: sequences of "{" and "}"
  MaxMessages,  \* bound on the messages the client writes
  MaxChunk,     \* pieces one recv returns at most (1024 bytes in the code)
  SplitHeaders  \* may a chunk end inside, or right behind, a header?

ASSUME FramingBounds ==
  {MaxMessages, MaxChunk} \subseteq Nat \ {0} /\ SplitHeaders \in BOOLEAN

VARIABLES
  written,      \* bodies of the messages the client wrote
  wire,         \* pieces written and not yet received
  open,         \* the client has not closed the connection
  data_str,
  message_str,
  data,         \* what the last recv returned
  handled,      \* messages given to handle_command
  loop          \* "running", "left" (break) or "raised"

vars == <<written, wire, open, data_str, message_str, data, handled, loop>>

Header == <<"Content-", "Length:">>

-----------------------------------------------------------------------------
(* The client.                                                             *)

Write(body) ==
  /\ open /\ Len(written) < MaxMessages
  /\ written' = Append(written, body)
  /\ wire' = wire \o Header \o body
  /\ UNCHANGED <<open, data_str, message_str, data, handled, loop>>

Close ==
  /\ open
  /\ open' = FALSE
  /\ UNCHANGED <<written, wire, data_str, message_str, data, handled, loop>>

-----------------------------------------------------------------------------
(* The loop.                                                               *)

(* connection.recv(1024): what is there, at most a chunk of it; nothing    *)
(* when the client has closed and everything was received.                 *)
InHeader(piece) == piece \in {"Content-", "Length:"}

Chunks ==
  IF wire = <<>> THEN IF open THEN {} ELSE {<<>>}
  ELSE {SubSeq(wire, 1, k) :
          k \in {k \in 1 .. Len(wire) :
                   k <= MaxChunk /\ (SplitHeaders \/ ~InHeader(wire[k]))}}

(* data_str.find("Content-Length:", 1), the message before it.             *)
HeadersAt(s) == {k \in 1 .. Len(s) - 1 : SubSeq(s, k, k + 1) = Header}
LaterHeadersAt(s) == HeadersAt(s) \ {1}

Count(s, piece) == Cardinality({k \in 1 .. Len(s) : s[k] = piece})

BalancedAlways(s) == TRUE                            \* mutant
Balanced(s) == Count(s, "{") = Count(s, "}")

(* The braces of a body balance where it ends and nowhere before: a body   *)
(* is one JSON object, and no string in it has a brace.                    *)
ASSUME BodiesAreObjects ==
  \A body \in Bodies :
    /\ body \in Seq({"{", "}"}) \ {<<>>}
    /\ \A k \in 1 .. Len(body) :
         LET start == SubSeq(body, 1, k)
         IN  Count(start, "{") = Count(start, "}") <=> k = Len(body)

(* json.loads(parts[-1]): the body of one whole message.                   *)
IsMessage(s) == \E body \in Bodies : s = Header \o body
BodyWithHeader(s) == s                               \* mutant
BodyOf(s) == SubSeq(s, 3, Len(s))

(* The message the loop cuts off the front, empty for "not yet".           *)
Cut(s) ==
  CASE LaterHeadersAt(s) # {} -> SubSeq(s, 1, Min(LaterHeadersAt(s)) - 1)
    [] LaterHeadersAt(s) = {} /\ Balanced(s) -> s
    [] OTHER -> <<>>

Waits(s) == LaterHeadersAt(s) = {} /\ ~Balanced(s)

(* Mutant of Rest: what follows the message is dropped.                    *)
RestDropped(s) == IF Waits(s) THEN s ELSE <<>>

Rest(s) == SubSeq(s, Len(Cut(s)) + 1, Len(s))

(* The message is parsed and handled, unless the connection has ended.     *)
Handle(s, received) ==
  CASE received = <<>> -> loop' = "left" /\ UNCHANGED handled
    [] received # <<>> /\ IsMessage(Cut(s)) ->
         handled' = Append(handled, BodyOf(Cut(s))) /\ UNCHANGED loop
    [] OTHER -> loop' = "raised" /\ UNCHANGED handled

Turn(s, received) ==
  /\ data' = received
  /\ data_str' = Rest(s)
  /\ message_str' = Cut(s)
  /\ IF Waits(s) THEN UNCHANGED <<handled, loop>> ELSE Handle(s, received)
  /\ UNCHANGED <<written, open>>

Receives == message_str = <<>> \/ data_str = <<>>

TurnWithRecv ==
  /\ loop = "running" /\ Receives
  /\ \E chunk \in Chunks :
       /\ Turn(data_str \o chunk, chunk)
       /\ wire' = SubSeq(wire, Len(chunk) + 1, Len(wire))

TurnOnBuffer ==
  /\ loop = "running" /\ ~Receives
  /\ Turn(data_str, data)
  /\ UNCHANGED wire

-----------------------------------------------------------------------------

Init ==
  /\ written = <<>> /\ wire = <<>> /\ open = TRUE
  /\ data_str = <<>> /\ message_str = <<>> /\ data = <<>>
  /\ handled = <<>> /\ loop = "running"

Next ==
  \/ \E body \in Bodies : Write(body)
  \/ Close
  \/ TurnWithRecv
  \/ TurnOnBuffer

(* The loop runs on; nothing obliges the client to write or to close.      *)
Spec == Init /\ [][Next]_vars /\ WF_vars(TurnWithRecv \/ TurnOnBuffer)

-----------------------------------------------------------------------------
(* Properties.                                                             *)

FramingTypeOK ==
  /\ written \in Seq(Bodies) /\ handled \in Seq(Bodies)
  /\ open \in BOOLEAN /\ loop \in {"running", "left", "raised"}
  /\ \A s \in {wire, data_str, message_str, data} :
       Range(s) \subseteq Range(Header) \cup {"{", "}"}

(* Whatever chunks the stream arrives in, the server handles the messages  *)
(* the client wrote, each once and in order, and gives up on none (the     *)
(* loop of handle_client). It is refuted when a chunk may end in or right  *)
(* behind a header.                                                        *)
HandledInOrder ==
  /\ IsPrefix(handled, written)
  /\ loop # "raised"

(* No message stays in the buffers: what was written is handled in the end,*)
(* and when the client closes, the loop is left after the last message     *)
(* ("if not parts or not data: break").                                    *)
EverythingHandled ==
  /\ \A k \in 1 .. MaxMessages : Len(written) = k ~> Len(handled) >= k
  /\ ~open ~> loop = "left" /\ handled = written

=============================================================================
