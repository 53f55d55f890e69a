------------------------- MODULE DAPFraming_proofs -------------------------
(***************************************************************************)
(* The reading loop hands on the messages the client wrote, each once and  *)
(* in order, whatever chunks the stream arrives in that end in a body.     *)
(*                                                                         *)
(* The invariant compares the buffer and the wire with the whole stream    *)
(* the client sent, laid out as a table of where each message ends: what   *)
(* is not handled yet is the rest of it behind the messages handled. The   *)
(* buffer ends at a brace, so that it holds headers whole or not at all.   *)
(***************************************************************************)
EXTENDS DAPFraming, SequenceTheorems, FiniteSetTheorems, FunctionTheorems,
        WellFoundedInduction, TLAPS

Braces == {"{", "}"}
Pieces == {"Content-", "Length:", "{", "}"}

TypeInv ==
  /\ written \in Seq(Bodies) /\ handled \in Seq(Bodies)
  /\ open \in BOOLEAN /\ loop \in {"running", "left", "raised"}
  /\ wire \in Seq(Pieces) /\ data_str \in Seq(Pieces)
  /\ message_str \in Seq(Pieces) /\ data \in Seq(Pieces)

-----------------------------------------------------------------------------
(* Stretches of a stream.                                                  *)

LEMMA Stretch ==
  ASSUME NEW S, NEW s \in Seq(S), NEW m \in Nat, NEW n \in Nat,
         m <= n, n <= Len(s)
  PROVE  /\ SubSeq(s, m + 1, n) \in Seq(S)
         /\ Len(SubSeq(s, m + 1, n)) = n - m
         /\ \A i \in 1 .. n - m : SubSeq(s, m + 1, n)[i] = s[m + i]
<1>1. Len(s) \in Nat
  BY LenProperties
<1>2. \A i \in m + 1 .. n : s[i] \in S
  BY <1>1, ElementOfSeq
<1>3. /\ SubSeq(s, m + 1, n) \in Seq(S)
      /\ Len(SubSeq(s, m + 1, n)) =
           IF m + 1 <= n THEN n - (m + 1) + 1 ELSE 0
      /\ \A i \in 1 .. n - (m + 1) + 1 :
           SubSeq(s, m + 1, n)[i] = s[(m + 1) + i - 1]
  BY <1>2, SubSeqProperties
<1> QED
  BY <1>3

(* Numbers have a least one.                                               *)
LEMMA LeastOf ==
  ASSUME NEW T \in SUBSET Nat, T # {}
  PROVE  Min(T) \in T /\ \A y \in T : Min(T) <= y
<1>1. PICK x \in T : \A y \in T : ~ (<<y, x>> \in OpToRel(<, Nat))
  <2> DEFINE R == OpToRel(<, Nat)
  <2>1. IsWellFoundedOn(R, Nat)
    BY NatLessThanWellFounded
  <2> HIDE DEF R
  <2>2. \E x \in T : \A y \in T : ~ (<<y, x>> \in R)
    BY <2>1, WFMin
  <2> QED
    BY <2>2 DEF R
<1>2. \A y \in T : x <= y
  <2> SUFFICES ASSUME NEW y \in T
               PROVE  x <= y
    OBVIOUS
  <2>1. x \in Nat /\ y \in Nat
    OBVIOUS
  <2>2. ~(y < x)
    BY <1>1, <2>1 DEF OpToRel
  <2> QED
    BY <2>1, <2>2
<1> QED
  BY <1>1, <1>2 DEF Min

LEMMA HeaderPieces ==
  /\ Header \in Seq(Pieces) /\ Len(Header) = 2
  /\ Header[1] = "Content-" /\ Header[2] = "Length:"
  /\ Range(Header) = {"Content-", "Length:"}
<1>1. /\ Len(<<"Content-", "Length:">>) = 2
      /\ <<"Content-", "Length:">>[1] = "Content-"
      /\ <<"Content-", "Length:">>[2] = "Length:"
      /\ <<"Content-", "Length:">> \in Seq({"Content-", "Length:"})
  OBVIOUS
<1>2. DOMAIN <<"Content-", "Length:">> = 1 .. 2
  BY <1>1, LenProperties
<1>3. Header \in Seq(Pieces)
  BY <1>1, SeqMonotonic DEF Header, Pieces
<1>4. Range(Header) = {"Content-", "Length:"}
  BY <1>1, <1>2 DEF Range, Header
<1> QED
  BY <1>1, <1>3, <1>4 DEF Header

(* A message is its header and its body, and the body is found in it.      *)
LEMMA MessagePieces ==
  ASSUME NEW body \in Bodies
  PROVE  /\ body \in Seq(Braces) /\ body \in Seq(Pieces)
         /\ Len(body) \in Nat \ {0}
         /\ Header \o body \in Seq(Pieces)
         /\ Len(Header \o body) = 2 + Len(body)
         /\ (Header \o body)[1] = "Content-" /\ (Header \o body)[2] = "Length:"
         /\ \A j \in 1 .. Len(body) : (Header \o body)[2 + j] = body[j]
         /\ BodyOf(Header \o body) = body
<1>1. body \in Seq(Braces) /\ body # <<>>
  BY BodiesAreObjects DEF Braces
<1>2. body \in Seq(Pieces)
  BY <1>1, SeqMonotonic DEF Braces, Pieces
<1>3. Len(body) \in Nat \ {0}
  BY <1>1, EmptySeq
<1>4. /\ Header \o body \in Seq(Pieces)
      /\ Len(Header \o body) = 2 + Len(body)
      /\ \A i \in 1 .. 2 + Len(body) :
           (Header \o body)[i] = IF i <= 2 THEN Header[i] ELSE body[i - 2]
  <2>1. /\ Header \o body \in Seq(Pieces)
        /\ Len(Header \o body) = Len(Header) + Len(body)
        /\ \A i \in 1 .. Len(Header) + Len(body) :
             (Header \o body)[i] =
               IF i <= Len(Header) THEN Header[i] ELSE body[i - Len(Header)]
    <3>1. Header \in Seq(Pieces)
      BY HeaderPieces
    <3> QED
      BY <1>2, <3>1, ConcatProperties
  <2> QED
    BY <2>1, HeaderPieces
<1>5. \A j \in 1 .. Len(body) : (Header \o body)[2 + j] = body[j]
  BY <1>3, <1>4
<1>6. (Header \o body)[1] = "Content-" /\ (Header \o body)[2] = "Length:"
  BY <1>3, <1>4, HeaderPieces
<1>7. BodyOf(Header \o body) = body
  <2> DEFINE m == Header \o body
             n == Len(m)
             b == SubSeq(m, 2 + 1, n)
  <2>1. m \in Seq(Pieces) /\ n = 2 + Len(body)
    BY <1>4
  <2>2. \A j \in 1 .. Len(body) : m[2 + j] = body[j]
    BY <1>5
  <2> HIDE DEF m
  <2>3. /\ b \in Seq(Pieces) /\ Len(b) = n - 2
        /\ \A i \in 1 .. n - 2 : b[i] = m[2 + i]
    BY <1>3, <2>1, Stretch
  <2>4. b = body
    <3>1. Len(b) = Len(body) /\ \A i \in 1 .. Len(b) : b[i] = body[i]
      BY <1>3, <2>1, <2>2, <2>3
    <3> QED
      BY <1>2, <2>3, <3>1, SeqEqual
  <2>5. BodyOf(m) = b
    BY DEF BodyOf
  <2> QED
    BY <2>4, <2>5 DEF m
<1> QED
  BY <1>1, <1>2, <1>3, <1>4, <1>5, <1>6, <1>7

-----------------------------------------------------------------------------
(* Types.                                                                  *)

LEMMA CutTypes ==
  ASSUME NEW s \in Seq(Pieces)
  PROVE  /\ Cut(s) \in Seq(Pieces) /\ Rest(s) \in Seq(Pieces)
         /\ Len(Cut(s)) \in 0 .. Len(s)
<1>1. Len(s) \in Nat
  BY LenProperties
<1>2. Cut(s) \in Seq(Pieces) /\ Len(Cut(s)) \in 0 .. Len(s)
  <2>1. CASE LaterHeadersAt(s) # {}
    <3>1. LaterHeadersAt(s) \subseteq 1 .. Len(s) - 1
      BY DEF LaterHeadersAt, HeadersAt
    <3>2. Min(LaterHeadersAt(s)) \in 1 .. Len(s) - 1
      <4>1. LaterHeadersAt(s) \in SUBSET Nat
        BY <1>1, <3>1
      <4> QED
        BY <2>1, <3>1, <4>1, LeastOf
    <3>3. PICK n \in Nat : n = Min(LaterHeadersAt(s)) - 1 /\ n <= Len(s)
      BY <1>1, <3>2
    <3>4. Cut(s) = SubSeq(s, 1, n)
      BY <2>1, <3>3 DEF Cut
    <3>5. SubSeq(s, 0 + 1, n) \in Seq(Pieces) /\ Len(SubSeq(s, 0 + 1, n)) = n - 0
      BY <1>1, <3>3, Stretch
    <3> QED
      BY <1>1, <3>3, <3>4, <3>5
  <2>2. CASE LaterHeadersAt(s) = {}
    <3>1. Cut(s) = s \/ Cut(s) = <<>>
      <4>1. Balanced(s) => Cut(s) = s
        BY <2>2 DEF Cut
      <4>2. ~Balanced(s) => Cut(s) = <<>>
        BY <2>2 DEF Cut
      <4> QED
        BY <4>1, <4>2
    <3>2. <<>> \in Seq(Pieces) /\ Len(<<>>) = 0
      BY EmptySeq
    <3>3. Cut(s) = s => Cut(s) \in Seq(Pieces) /\ Len(Cut(s)) \in 0 .. Len(s)
      BY <1>1
    <3>4. Cut(s) = <<>> =>
            Cut(s) \in Seq(Pieces) /\ Len(Cut(s)) \in 0 .. Len(s)
      <4> SUFFICES ASSUME Cut(s) = <<>>
                   PROVE  Cut(s) \in Seq(Pieces) /\ Len(Cut(s)) \in 0 .. Len(s)
        OBVIOUS
      <4>1. Len(Cut(s)) = 0
        BY <3>2
      <4> QED
        BY <1>1, <3>2, <4>1
    <3> QED
      BY <3>1, <3>3, <3>4
  <2> QED
    BY <2>1, <2>2
<1>3. Rest(s) \in Seq(Pieces)
  BY <1>1, <1>2, Stretch DEF Rest
<1> QED
  BY <1>2, <1>3

LEMMA ChunkTypes ==
  ASSUME TypeInv, NEW chunk \in Chunks
  PROVE  /\ chunk \in Seq(Pieces) /\ Len(chunk) \in 0 .. Len(wire)
         /\ chunk = SubSeq(wire, 1, Len(chunk))
         /\ chunk = <<>> => wire = <<>>
         /\ \A i \in 1 .. Len(chunk) : chunk[i] = wire[i]
         /\ chunk # <<>> /\ ~SplitHeaders => chunk[Len(chunk)] \in Braces
         /\ SubSeq(wire, Len(chunk) + 1, Len(wire)) \in Seq(Pieces)
         /\ Len(SubSeq(wire, Len(chunk) + 1, Len(wire))) =
              Len(wire) - Len(chunk)
         /\ \A i \in 1 .. Len(wire) - Len(chunk) :
              SubSeq(wire, Len(chunk) + 1, Len(wire))[i] = wire[Len(chunk) + i]
<1>1. wire \in Seq(Pieces) /\ Len(wire) \in Nat
  BY LenProperties DEF TypeInv
<1>2. PICK k \in 0 .. Len(wire) :
        /\ chunk = SubSeq(wire, 1, k)
        /\ k = 0 => wire = <<>>
        /\ k # 0 => SplitHeaders \/ ~InHeader(wire[k])
  <2>1. CASE wire = <<>>
    <3>1. chunk = <<>> /\ Len(wire) = 0
      BY <2>1, EmptySeq DEF Chunks
    <3>2. SubSeq(wire, 1, 0) = <<>>
      BY SubSeqEmpty
    <3> QED
      BY <2>1, <3>1, <3>2
  <2>2. CASE wire # <<>>
    <3>1. chunk \in {SubSeq(wire, 1, k) :
                     k \in {k \in 1 .. Len(wire) :
                              k <= MaxChunk /\ (SplitHeaders \/ ~InHeader(wire[k]))}}
      BY <2>2 DEF Chunks
    <3>2. PICK k \in 1 .. Len(wire) :
            chunk = SubSeq(wire, 1, k) /\ (SplitHeaders \/ ~InHeader(wire[k]))
      BY <3>1
    <3>3. k \in 0 .. Len(wire) /\ k # 0
      BY <1>1, <3>2
    <3> QED
      BY <3>2, <3>3
  <2> QED
    BY <2>1, <2>2
<1>3. /\ SubSeq(wire, 0 + 1, k) \in Seq(Pieces)
      /\ Len(SubSeq(wire, 0 + 1, k)) = k - 0
      /\ \A i \in 1 .. k - 0 : SubSeq(wire, 0 + 1, k)[i] = wire[0 + i]
  BY <1>1, Stretch
<1>4. /\ chunk \in Seq(Pieces) /\ Len(chunk) = k
      /\ \A i \in 1 .. k : chunk[i] = wire[i]
  BY <1>2, <1>3
<1>5. /\ SubSeq(wire, k + 1, Len(wire)) \in Seq(Pieces)
      /\ Len(SubSeq(wire, k + 1, Len(wire))) = Len(wire) - k
      /\ \A i \in 1 .. Len(wire) - k :
           SubSeq(wire, k + 1, Len(wire))[i] = wire[k + i]
  BY <1>1, Stretch
<1>6. chunk = <<>> <=> k = 0
  BY <1>4, EmptySeq
<1>7. chunk # <<>> /\ ~SplitHeaders => chunk[k] \in Braces
  <2> SUFFICES ASSUME chunk # <<>>, ~SplitHeaders
               PROVE  chunk[k] \in Braces
    OBVIOUS
  <2>1. k \in 1 .. Len(wire) /\ ~InHeader(wire[k])
    BY <1>2, <1>6
  <2>2. wire[k] \in Pieces
    BY <1>1, <2>1, ElementOfSeq
  <2>3. wire[k] \in Braces
    BY <2>1, <2>2 DEF InHeader, Braces, Pieces
  <2>4. k \in 1 .. k
    BY <1>1, <2>1
  <2> QED
    BY <1>4, <2>3, <2>4
<1> QED
  BY <1>2, <1>4, <1>5, <1>6, <1>7

(* What one turn makes of its string.                                      *)
LEMMA TurnTypes ==
  ASSUME TypeInv, NEW s \in Seq(Pieces), NEW received \in Seq(Pieces),
         Turn(s, received)
  PROVE  /\ data' \in Seq(Pieces) /\ data_str' \in Seq(Pieces)
         /\ message_str' \in Seq(Pieces)
         /\ handled' \in Seq(Bodies) /\ loop' \in {"running", "left", "raised"}
<1>1. /\ data' \in Seq(Pieces) /\ data_str' \in Seq(Pieces)
      /\ message_str' \in Seq(Pieces)
  BY CutTypes DEF Turn
<1>2. ASSUME IsMessage(Cut(s))
      PROVE  BodyOf(Cut(s)) \in Bodies
  BY <1>2, MessagePieces DEF IsMessage
<1>3. ASSUME IsMessage(Cut(s)), handled' = Append(handled, BodyOf(Cut(s)))
      PROVE  handled' \in Seq(Bodies)
  BY <1>2, <1>3, AppendProperties DEF TypeInv
<1>4. /\ loop' \in {"left", "raised", loop}
      /\ \/ UNCHANGED handled
         \/ IsMessage(Cut(s)) /\ handled' = Append(handled, BodyOf(Cut(s)))
  BY DEF Turn, Handle
<1>5. handled' \in Seq(Bodies) /\ loop' \in {"running", "left", "raised"}
  BY <1>3, <1>4 DEF TypeInv
<1> QED
  BY <1>1, <1>5

LEMMA TypeStep ==
  ASSUME TypeInv, [Next]_vars
  PROVE  TypeInv'
<1>1. ASSUME NEW body \in Bodies, Write(body)
      PROVE  TypeInv'
  <2>1. written' \in Seq(Bodies)
    BY <1>1, AppendProperties DEF Write, TypeInv
  <2>2. wire' \in Seq(Pieces)
    <3>1. wire \o Header \in Seq(Pieces)
      BY HeaderPieces, ConcatProperties DEF TypeInv
    <3>2. (wire \o Header) \o body \in Seq(Pieces)
      BY <3>1, MessagePieces, ConcatProperties
    <3> QED
      BY <1>1, <3>2 DEF Write
  <2> QED
    BY <1>1, <2>1, <2>2 DEF Write, TypeInv
<1>2. CASE Close
  BY <1>2 DEF Close, TypeInv
<1>3. CASE TurnWithRecv
  <2>1. PICK chunk \in Chunks :
          /\ Turn(data_str \o chunk, chunk)
          /\ wire' = SubSeq(wire, Len(chunk) + 1, Len(wire))
    BY <1>3 DEF TurnWithRecv
  <2>2. chunk \in Seq(Pieces) /\ wire' \in Seq(Pieces)
    BY <2>1, ChunkTypes
  <2>3. data_str \o chunk \in Seq(Pieces)
    BY <2>2, ConcatProperties DEF TypeInv
  <2>4. UNCHANGED <<written, open>>
    BY <2>1 DEF Turn
  <2> QED
    BY <2>1, <2>2, <2>3, <2>4, TurnTypes DEF TypeInv
<1>4. CASE TurnOnBuffer
  <2>1. Turn(data_str, data) /\ UNCHANGED wire
    BY <1>4 DEF TurnOnBuffer
  <2>2. UNCHANGED <<written, open>>
    BY <2>1 DEF Turn
  <2> QED
    BY <2>1, <2>2, TurnTypes DEF TypeInv
<1>5. CASE UNCHANGED vars
  BY <1>5 DEF vars, TypeInv
<1> QED
  BY <1>1, <1>2, <1>3, <1>4, <1>5 DEF Next

(* The buffers hold pieces of messages, and only bodies of messages are    *)
(* handled, however the stream is cut.                                     *)
THEOREM FramingTypeCorrect == Spec => []FramingTypeOK
<1>1. Init => TypeInv
  BY EmptySeq DEF Init, TypeInv
<1>2. TypeInv /\ [Next]_vars => TypeInv'
  BY TypeStep
<1>3. TypeInv => FramingTypeOK
  <2>1. ASSUME NEW s \in Seq(Pieces)
        PROVE  Range(s) \subseteq Range(Header) \cup {"{", "}"}
    <3>1. ASSUME NEW i \in DOMAIN s
          PROVE  s[i] \in Pieces
      BY <3>1, LenProperties
    <3> QED
      BY <3>1, HeaderPieces DEF Range, Pieces
  <2> QED
    BY <2>1 DEF TypeInv, FramingTypeOK
<1> QED
  BY <1>1, <1>2, <1>3, PTL DEF Spec

-----------------------------------------------------------------------------
(* The stream and where it stands.                                         *)

(* sent is the stream of the messages w; message k ends at place at[k].    *)
Laid(sent, w, at) ==
  /\ sent \in Seq(Pieces) /\ at \in [0 .. Len(w) -> Nat]
  /\ at[0] = 0 /\ at[Len(w)] = Len(sent)
  /\ \A k \in 0 .. Len(w) : at[k] <= Len(sent)
  /\ \A k \in 1 .. Len(w) :
       /\ at[k] = at[k - 1] + 2 + Len(w[k])
       /\ sent[at[k - 1] + 1] = "Content-" /\ sent[at[k - 1] + 2] = "Length:"
       /\ \A j \in 1 .. Len(w[k]) : sent[at[k - 1] + 2 + j] = w[k][j]

(* s and then rest are what is left of the stream behind a place.          *)
Behind(sent, place, s, rest) ==
  /\ place + Len(s) + Len(rest) = Len(sent)
  /\ \A i \in 1 .. Len(s) : s[i] = sent[place + i]
  /\ \A i \in 1 .. Len(rest) : rest[i] = sent[place + Len(s) + i]

EndsInBody(s) == s # <<>> => s[Len(s)] \in Braces

StreamInv ==
  \E sent \in Seq(Pieces) : \E at \in [0 .. Len(written) -> Nat] :
    /\ Laid(sent, written, at)
    /\ Behind(sent, at[Len(handled)], data_str, wire)

OrderInv ==
  /\ Len(handled) <= Len(written)
  /\ \A k \in 1 .. Len(handled) : handled[k] = written[k]
  /\ loop # "raised"
  /\ loop = "running" => EndsInBody(data_str) /\ StreamInv
  /\ loop = "running" /\ message_str # <<>> => data # <<>>

-----------------------------------------------------------------------------
(* One message at the front.                                               *)

LEMMA HeaderFound ==
  ASSUME NEW s \in Seq(Pieces), NEW k \in 1 .. Len(s) - 1
  PROVE  k \in HeadersAt(s) <=> s[k] = "Content-" /\ s[k + 1] = "Length:"
<1>1. Len(s) \in Nat
  BY LenProperties
<1>2. PICK n \in Nat : n = k - 1 /\ n <= n + 2 /\ n + 2 <= Len(s)
  BY <1>1
<1>3. n + 2 \in Nat
  BY <1>2
<1> DEFINE p == SubSeq(s, n + 1, n + 2)
<1>4. p \in Seq(Pieces) /\ Len(p) = (n + 2) - n
      /\ \A i \in 1 .. (n + 2) - n : p[i] = s[n + i]
  BY <1>2, <1>3, Stretch
<1>5. Len(p) = 2 /\ p[1] = s[k] /\ p[2] = s[k + 1]
  BY <1>2, <1>4
<1>6. p = Header <=> p[1] = "Content-" /\ p[2] = "Length:"
  <2>1. ASSUME p[1] = "Content-", p[2] = "Length:"
        PROVE  p = Header
    <3>1. \A i \in 1 .. Len(p) : p[i] = Header[i]
      BY <1>5, <2>1, HeaderPieces
    <3> QED
      BY <1>4, <1>5, <3>1, HeaderPieces, SeqEqual
  <2>2. p = Header => p[1] = "Content-" /\ p[2] = "Length:"
    BY HeaderPieces
  <2> QED
    BY <2>1, <2>2
<1>7. k \in HeadersAt(s) <=> p = Header
  BY <1>2 DEF HeadersAt
<1> QED
  BY <1>5, <1>6, <1>7

(* A header adds no braces.                                                *)
LEMMA CountBehindHeader ==
  ASSUME NEW s \in Seq(Pieces), NEW t \in Seq(Pieces), NEW piece \in Braces,
         Len(s) = 2 + Len(t), s[1] = "Content-", s[2] = "Length:",
         \A j \in 1 .. Len(t) : s[2 + j] = t[j]
  PROVE  Count(s, piece) = Count(t, piece)
<1> DEFINE A == {k \in 1 .. Len(s) : s[k] = piece}
           B == {k \in 1 .. Len(t) : t[k] = piece}
           f == [k \in B |-> 2 + k]
<1>1. Len(s) \in Nat /\ Len(t) \in Nat
  BY LenProperties
<1>2. IsFiniteSet(B)
  <2>1. IsFiniteSet(1 .. Len(t))
    BY <1>1, FS_Interval
  <2>2. B \in SUBSET (1 .. Len(t))
    OBVIOUS
  <2> QED
    BY <2>1, <2>2, FS_Subset
<1>3. f \in [B -> A]
  BY <1>1
<1>4. \A a, b \in B : f[a] = f[b] => a = b
  BY <1>1
<1>5. \A y \in A : \E x \in B : f[x] = y
  <2> SUFFICES ASSUME NEW y \in A
               PROVE  \E x \in B : f[x] = y
    OBVIOUS
  <2>1. y # 1 /\ y # 2
    BY DEF Braces
  <2>2. y \in 1 .. Len(s) /\ s[y] = piece
    OBVIOUS
  <2>3. y - 2 \in 1 .. Len(t) /\ 2 + (y - 2) = y
    BY <1>1, <2>1, <2>2
  <2>4. y - 2 \in B
    BY <2>2, <2>3
  <2> QED
    BY <2>3, <2>4
<1>6. f \in Bijection(B, A)
  <2> HIDE DEF f, A, B
  <2> QED
    BY <1>3, <1>4, <1>5, Fun_IsBij
<1>7. Cardinality(A) = Cardinality(B)
  BY <1>2, <1>6, FS_Bijection DEF ExistsBijection
<1> QED
  BY <1>7 DEF Count

(* The front of a buffer is one message or a part of it, or a message and  *)
(* the header of the next.                                                 *)
FrontIs(w, at, h, s) ==
  /\ h + 1 \in 1 .. Len(w) /\ w[h + 1] \in Bodies
  /\ at[h + 1] = at[h] + 2 + Len(w[h + 1])
  /\ s[1] = "Content-" /\ Len(s) > 2 /\ s[2] = "Length:"
  /\ \A j \in 1 .. Len(w[h + 1]) : 2 + j <= Len(s) => s[2 + j] = w[h + 1][j]
  /\ Len(s) > 2 + Len(w[h + 1]) =>
       /\ (2 + Len(w[h + 1])) + 1 < Len(s)
       /\ s[(2 + Len(w[h + 1])) + 1] = "Content-"
       /\ s[(2 + Len(w[h + 1])) + 2] = "Length:"

LEMMA FrontOfBuffer ==
  ASSUME NEW w \in Seq(Bodies), NEW sent \in Seq(Pieces),
         NEW at \in [0 .. Len(w) -> Nat], Laid(sent, w, at),
         NEW h \in 0 .. Len(w), NEW s \in Seq(Pieces), NEW rest \in Seq(Pieces),
         Behind(sent, at[h], s, rest), s # <<>>, EndsInBody(s)
  PROVE  FrontIs(w, at, h, s)
<1>1. /\ Len(w) \in Nat /\ Len(sent) \in Nat /\ Len(rest) \in Nat
      /\ Len(s) \in Nat /\ Len(s) # 0
  BY LenProperties, EmptySeq
<1>2. /\ at[h] \in Nat
      /\ at[h] + Len(s) + Len(rest) = Len(sent)
      /\ \A i \in 1 .. Len(s) : s[i] = sent[at[h] + i]
      /\ s[Len(s)] \in Braces
  BY <1>1 DEF Behind, EndsInBody
<1>3. h + 1 \in 1 .. Len(w) /\ (h + 1) - 1 = h
  <2>1. h # Len(w)
    BY <1>1, <1>2 DEF Laid
  <2> QED
    BY <1>1, <2>1
<1> DEFINE b == w[h + 1]
           l == 2 + Len(b)
<1>4. b \in Bodies
  BY <1>3, ElementOfSeq
<1>5. Len(b) \in Nat
  BY <1>4, MessagePieces
<1>6. /\ at[h + 1] = at[h] + 2 + Len(b)
      /\ sent[at[h] + 1] = "Content-" /\ sent[at[h] + 2] = "Length:"
      /\ \A j \in 1 .. Len(b) : sent[at[h] + 2 + j] = b[j]
  BY <1>3 DEF Laid
<1>7. s[1] = "Content-"
  <2>1. 1 \in 1 .. Len(s)
    BY <1>1
  <2> QED
    BY <1>2, <1>6, <2>1
<1>8. Len(s) # 1
  BY <1>2, <1>7 DEF Braces
<1>9. s[2] = "Length:"
  <2>1. 2 \in 1 .. Len(s)
    <3>1. PICK q \in Nat : q = Len(s)
      BY <1>1
    <3>2. q # 0 /\ q # 1
      BY <1>1, <1>8, <3>1
    <3> QED
      BY <3>1, <3>2
  <2> QED
    BY <1>2, <1>6, <2>1
<1>10. Len(s) > 2
  <2>1. Len(s) # 2
    BY <1>2, <1>9 DEF Braces
  <2>2. PICK q \in Nat : q = Len(s)
    BY <1>1
  <2>3. q # 0 /\ q # 1 /\ q # 2
    BY <1>1, <1>8, <2>1, <2>2
  <2>4. q > 2
    BY <2>3
  <2> QED
    BY <2>2, <2>4
<1>11. ASSUME NEW j \in 1 .. Len(b), 2 + j <= Len(s)
       PROVE  s[2 + j] = b[j]
  <2>1. 2 + j \in 1 .. Len(s) /\ at[h] + (2 + j) = at[h] + 2 + j
    BY <1>1, <1>2, <1>5, <1>11
  <2> QED
    BY <1>2, <1>6, <2>1
<1>12. ASSUME Len(s) > l
       PROVE  l + 1 < Len(s) /\ s[l + 1] = "Content-" /\ s[l + 2] = "Length:"
  <2>1. at[h + 1] < Len(sent)
    BY <1>1, <1>2, <1>5, <1>6, <1>12
  <2>2. h + 1 # Len(w)
    BY <1>1, <2>1 DEF Laid
  <2>3. h + 2 \in 1 .. Len(w) /\ (h + 2) - 1 = h + 1
    BY <1>1, <1>3, <2>2
  <2>4. sent[at[h + 1] + 1] = "Content-" /\ sent[at[h + 1] + 2] = "Length:"
    BY <2>3 DEF Laid
  <2>5. l + 1 \in 1 .. Len(s) /\ at[h] + (l + 1) = at[h + 1] + 1
    <3>1. PICK n \in Nat, p \in Nat : n = Len(b) /\ p = at[h]
      BY <1>2, <1>5
    <3>2. l = 2 + n /\ at[h + 1] = p + 2 + n
      BY <1>6, <3>1
    <3>3. PICK q \in Nat : q = Len(s)
      BY <1>1
    <3>4. 2 + n < q
      BY <1>12, <3>2, <3>3
    <3>5. (2 + n) + 1 \in 1 .. q /\ p + ((2 + n) + 1) = (p + 2 + n) + 1
      BY <3>4
    <3> QED
      BY <3>1, <3>2, <3>3, <3>5
  <2>6. s[l + 1] = "Content-"
    BY <1>2, <2>4, <2>5
  <2>7. l + 1 # Len(s)
    BY <1>2, <2>6 DEF Braces
  <2>8. l + 2 \in 1 .. Len(s) /\ at[h] + (l + 2) = at[h + 1] + 2
    <3>1. PICK n \in Nat, p \in Nat : n = Len(b) /\ p = at[h]
      BY <1>2, <1>5
    <3>2. l = 2 + n /\ at[h + 1] = p + 2 + n
      BY <1>6, <3>1
    <3>3. PICK q \in Nat : q = Len(s)
      BY <1>1
    <3>4. 2 + n < q /\ (2 + n) + 1 # q
      BY <1>12, <2>7, <3>2, <3>3
    <3>5. (2 + n) + 2 \in 1 .. q /\ p + ((2 + n) + 2) = (p + 2 + n) + 2
      BY <3>4
    <3> QED
      BY <3>1, <3>2, <3>3, <3>5
  <2>9. s[l + 2] = "Length:"
    BY <1>2, <2>4, <2>8
  <2> QED
    BY <1>1, <1>5, <2>5, <2>6, <2>7, <2>9
<1> QED
  BY <1>3, <1>4, <1>6, <1>7, <1>9, <1>10, <1>11, <1>12 DEF FrontIs

(* A buffer that holds more than its first message is cut behind it.       *)
LEMMA CutsAtHeader ==
  ASSUME NEW s \in Seq(Pieces), NEW b \in Bodies, Len(s) > 2 + Len(b),
         s[1] = "Content-", s[2] = "Length:",
         \A j \in 1 .. Len(b) : s[2 + j] = b[j],
         2 + Len(b) + 1 < Len(s),
         s[2 + Len(b) + 1] = "Content-", s[2 + Len(b) + 2] = "Length:"
  PROVE  ~Waits(s) /\ Cut(s) = Header \o b
<1> DEFINE l == 2 + Len(b)
<1>1. Len(s) \in Nat /\ Len(b) \in Nat \ {0} /\ b \in Seq(Braces)
  BY LenProperties, MessagePieces
<1>2. l + 1 \in LaterHeadersAt(s)
  <2>1. l + 1 \in 1 .. Len(s) - 1 /\ l + 1 # 1 /\ (l + 1) + 1 = l + 2
    BY <1>1
  <2>2. l + 1 \in HeadersAt(s)
    BY <2>1, HeaderFound
  <2> QED
    BY <2>1, <2>2 DEF LaterHeadersAt
<1>3. LaterHeadersAt(s) \subseteq 1 .. Len(s) - 1
  BY DEF LaterHeadersAt, HeadersAt
<1>4. ASSUME NEW k \in LaterHeadersAt(s)
      PROVE  l + 1 <= k
  <2>1. k \in 1 .. Len(s) - 1 /\ k # 1 /\ s[k] = "Content-"
    <3>1. k \in 1 .. Len(s) - 1
      BY <1>3
    <3>2. k \in HeadersAt(s) /\ k # 1
      BY DEF LaterHeadersAt
    <3> QED
      BY <3>1, <3>2, HeaderFound
  <2>2. k # 2
    BY <2>1
  <2>3. ASSUME k \in 3 .. l
        PROVE  FALSE
    <3>1. k - 2 \in 1 .. Len(b) /\ 2 + (k - 2) = k
      BY <1>1, <2>3
    <3>2. b[k - 2] \in Braces
      BY <1>1, <3>1, ElementOfSeq
    <3> QED
      BY <2>1, <3>1, <3>2 DEF Braces
  <2> QED
    BY <1>1, <2>1, <2>2, <2>3
<1>5. Min(LaterHeadersAt(s)) = l + 1
  <2>1. LaterHeadersAt(s) \in SUBSET Nat /\ LaterHeadersAt(s) # {}
    BY <1>1, <1>2, <1>3
  <2>2. /\ Min(LaterHeadersAt(s)) \in LaterHeadersAt(s)
        /\ \A y \in LaterHeadersAt(s) : Min(LaterHeadersAt(s)) <= y
    BY <2>1, LeastOf
  <2>3. /\ Min(LaterHeadersAt(s)) \in Nat /\ Min(LaterHeadersAt(s)) <= l + 1
        /\ l + 1 <= Min(LaterHeadersAt(s))
    BY <1>2, <1>4, <2>1, <2>2
  <2> QED
    BY <1>1, <2>3
<1>6. Cut(s) = SubSeq(s, 1, l)
  <2>1. Min(LaterHeadersAt(s)) - 1 = l
    BY <1>1, <1>5
  <2> QED
    BY <1>2, <2>1 DEF Cut
<1>7. /\ SubSeq(s, 0 + 1, l) \in Seq(Pieces) /\ Len(SubSeq(s, 0 + 1, l)) = l - 0
      /\ \A i \in 1 .. l - 0 : SubSeq(s, 0 + 1, l)[i] = s[0 + i]
  BY <1>1, Stretch
<1>8. /\ Cut(s) \in Seq(Pieces) /\ Len(Cut(s)) = l
      /\ \A i \in 1 .. l : Cut(s)[i] = s[i]
  BY <1>1, <1>6, <1>7
<1>9. Cut(s) = Header \o b
  <2> DEFINE m == Header \o b
  <2>1. /\ m \in Seq(Pieces) /\ Len(m) = l
        /\ m[1] = "Content-" /\ m[2] = "Length:"
        /\ \A j \in 1 .. Len(b) : m[2 + j] = b[j]
    BY MessagePieces
  <2> HIDE DEF m
  <2>2. ASSUME NEW i \in 1 .. l
        PROVE  Cut(s)[i] = m[i]
    <3>1. CASE i \in {1, 2}
      BY <1>1, <1>8, <2>1, <3>1
    <3>2. CASE i \notin {1, 2}
      <4>1. i - 2 \in 1 .. Len(b) /\ 2 + (i - 2) = i
        BY <1>1, <3>2
      <4> QED
        BY <1>8, <2>1, <4>1
    <3> QED
      BY <3>1, <3>2
  <2>3. Cut(s) = m
    BY <1>8, <2>1, <2>2, SeqEqual
  <2> QED
    BY <2>3 DEF m
<1> QED
  BY <1>2, <1>9 DEF Waits

(* A buffer that holds its first message or less is taken whole when its   *)
(* braces balance, and they do when the message is there.                  *)
LEMMA CutsAtBalance ==
  ASSUME NEW s \in Seq(Pieces), NEW b \in Bodies,
         Len(s) > 2, Len(s) <= 2 + Len(b),
         s[1] = "Content-", s[2] = "Length:",
         \A j \in 1 .. Len(b) : 2 + j <= Len(s) => s[2 + j] = b[j]
  PROVE  Waits(s) \/ (~Waits(s) /\ Cut(s) = Header \o b /\ s = Header \o b)
<1>1. PICK n \in Nat, e \in Nat \ {0} : n = Len(b) /\ 2 + e = Len(s) /\ e <= n
  <2>1. Len(s) \in Nat /\ Len(b) \in Nat
    BY LenProperties, MessagePieces
  <2>2. PICK n \in Nat, q \in Nat : n = Len(b) /\ q = Len(s)
    BY <2>1
  <2>3. q > 2 /\ q <= 2 + n
    BY <2>2
  <2>4. q - 2 \in Nat \ {0} /\ 2 + (q - 2) = q /\ q - 2 <= n
    BY <2>3
  <2> QED
    BY <2>2, <2>4
<1>2. b \in Seq(Braces) /\ b \in Seq(Pieces)
  BY MessagePieces
<1>3. \A j \in 1 .. e : s[2 + j] = b[j]
  <2> SUFFICES ASSUME NEW j \in 1 .. e
               PROVE  s[2 + j] = b[j]
    OBVIOUS
  <2>1. j \in 1 .. n /\ 2 + j <= 2 + e
    BY <1>1
  <2> QED
    BY <1>1, <2>1
<1>4. LaterHeadersAt(s) = {}
  <2> SUFFICES ASSUME NEW k \in LaterHeadersAt(s)
               PROVE  FALSE
    OBVIOUS
  <2>1. k \in 1 .. Len(s) - 1 /\ k \in HeadersAt(s) /\ k # 1
    BY DEF LaterHeadersAt, HeadersAt
  <2>2. s[k] = "Content-"
    BY <2>1, HeaderFound
  <2>3. k # 2
    BY <2>2
  <2>4. k - 2 \in 1 .. e /\ 2 + (k - 2) = k
    BY <1>1, <2>1, <2>3
  <2>5. k - 2 \in 1 .. Len(b)
    BY <1>1, <2>4
  <2>6. b[k - 2] \in Braces
    BY <1>2, <2>5, ElementOfSeq
  <2> QED
    BY <1>3, <2>2, <2>4, <2>6 DEF Braces
<1>5. Balanced(s) <=> e = n
  <2> DEFINE t == SubSeq(b, 0 + 1, e)
  <2>1. /\ t \in Seq(Pieces) /\ Len(t) = e - 0
        /\ \A j \in 1 .. e - 0 : t[j] = b[0 + j]
    BY <1>1, <1>2, Stretch
  <2>2. t = SubSeq(b, 1, e)
    OBVIOUS
  <2> HIDE DEF t
  <2>3. Len(s) = 2 + Len(t) /\ \A j \in 1 .. Len(t) : s[2 + j] = t[j]
    BY <1>1, <1>3, <2>1
  <2>4. Count(s, "{") = Count(t, "{") /\ Count(s, "}") = Count(t, "}")
    BY <2>1, <2>3, CountBehindHeader DEF Braces
  <2>5. Balanced(s) <=> Balanced(t)
    BY <2>4 DEF Balanced
  <2>6. e \in 1 .. Len(b)
    BY <1>1
  <2>7. Balanced(SubSeq(b, 1, e)) <=> e = Len(b)
    BY <2>6, BodiesAreObjects DEF Balanced
  <2> QED
    BY <1>1, <2>2, <2>5, <2>7
<1>6. CASE e # n
  BY <1>4, <1>5, <1>6 DEF Waits
<1>7. CASE e = n
  <2>1. Cut(s) = s
    BY <1>4, <1>5, <1>7 DEF Cut
  <2>2. ~Waits(s)
    BY <1>5, <1>7 DEF Waits
  <2> DEFINE m == Header \o b
  <2>3. /\ m \in Seq(Pieces) /\ Len(m) = 2 + n
        /\ m[1] = "Content-" /\ m[2] = "Length:"
        /\ \A j \in 1 .. n : m[2 + j] = b[j]
    BY <1>1, MessagePieces
  <2> HIDE DEF m
  <2>4. ASSUME NEW i \in 1 .. 2 + n
        PROVE  s[i] = m[i]
    <3>1. CASE i \in {1, 2}
      BY <2>3, <3>1
    <3>2. CASE i \notin {1, 2}
      <4>1. i - 2 \in 1 .. n /\ 2 + (i - 2) = i
        BY <3>2
      <4> QED
        BY <1>3, <1>7, <2>3, <4>1
    <3> QED
      BY <3>1, <3>2
  <2>5. s = m
    BY <1>1, <1>7, <2>3, <2>4, SeqEqual
  <2> QED
    BY <2>1, <2>2, <2>5 DEF m
<1> QED
  BY <1>6, <1>7

(* One turn on a buffer takes the first message off, or waits.             *)
LEMMA FrontIsTaken ==
  ASSUME NEW w \in Seq(Bodies), NEW sent \in Seq(Pieces),
         NEW at \in [0 .. Len(w) -> Nat], Laid(sent, w, at),
         NEW h \in 0 .. Len(w), NEW s \in Seq(Pieces), NEW rest \in Seq(Pieces),
         Behind(sent, at[h], s, rest), s # <<>>, EndsInBody(s)
  PROVE  \/ Waits(s) /\ Rest(s) = s
         \/ /\ ~Waits(s) /\ h + 1 \in 1 .. Len(w)
            /\ Cut(s) = Header \o w[h + 1]
            /\ Behind(sent, at[h + 1], Rest(s), rest) /\ EndsInBody(Rest(s))
<1> DEFINE b == w[h + 1]
           l == 2 + Len(b)
<1>1. /\ h + 1 \in 1 .. Len(w) /\ b \in Bodies
      /\ at[h + 1] = at[h] + 2 + Len(b)
      /\ s[1] = "Content-" /\ Len(s) > 2 /\ s[2] = "Length:"
      /\ \A j \in 1 .. Len(b) : 2 + j <= Len(s) => s[2 + j] = b[j]
      /\ Len(s) > l =>
           l + 1 < Len(s) /\ s[l + 1] = "Content-" /\ s[l + 2] = "Length:"
  <2>1. FrontIs(w, at, h, s)
    BY FrontOfBuffer
  <2> QED
    BY <2>1 DEF FrontIs
<1> HIDE DEF b
<1>2. PICK n \in Nat, q \in Nat, p \in Nat, r \in Nat :
        n = Len(b) /\ q = Len(s) /\ p = at[h] /\ r = Len(rest)
  <2>1. Len(b) \in Nat /\ Len(s) \in Nat /\ Len(rest) \in Nat /\ at[h] \in Nat
    BY <1>1, MessagePieces, LenProperties
  <2> QED
    BY <2>1
<1>3. \/ Waits(s)
      \/ ~Waits(s) /\ Cut(s) = Header \o b /\ l <= Len(s)
  <2>1. CASE Len(s) > l
    <3>1. \A j \in 1 .. Len(b) : s[2 + j] = b[j]
      <4> SUFFICES ASSUME NEW j \in 1 .. Len(b)
                   PROVE  s[2 + j] = b[j]
        OBVIOUS
      <4>1. 2 + n < q /\ j \in 1 .. n
        BY <1>2, <2>1
      <4>2. 2 + j <= q
        BY <4>1
      <4> QED
        BY <1>1, <1>2, <4>2
    <3>2. l + 1 < Len(s) /\ s[l + 1] = "Content-" /\ s[l + 2] = "Length:"
      BY <1>1, <2>1
    <3>3. ~Waits(s) /\ Cut(s) = Header \o b
      BY <1>1, <2>1, <3>1, <3>2, CutsAtHeader
    <3>4. l <= Len(s)
      <4>1. 2 + n < q
        BY <1>2, <2>1
      <4> QED
        BY <1>2, <4>1
    <3> QED
      BY <3>3, <3>4
  <2>2. CASE ~(Len(s) > l)
    <3>1. Len(s) <= l
      <4>1. ~(2 + n < q)
        BY <1>2, <2>2
      <4> QED
        BY <1>2, <4>1
    <3>2. Waits(s) \/ (~Waits(s) /\ Cut(s) = Header \o b /\ s = Header \o b)
      BY <1>1, <3>1, CutsAtBalance
    <3>3. Len(Header \o b) = l
      BY <1>1, MessagePieces
    <3>4. s = Header \o b => l <= Len(s)
      BY <1>2, <3>3
    <3> QED
      BY <3>2, <3>4
  <2> QED
    BY <2>1, <2>2
<1>4. CASE Waits(s)
  <2>1. Cut(s) = <<>>
    BY <1>4 DEF Cut, Waits
  <2>2. Rest(s) = SubSeq(s, 0 + 1, Len(s))
    <3>1. Len(Cut(s)) = 0
      BY <2>1, EmptySeq
    <3> QED
      BY <3>1 DEF Rest
  <2>3. SubSeq(s, 1, Len(s)) = s
    BY SubSeqFull
  <2> QED
    BY <1>4, <2>2, <2>3
<1>5. CASE ~Waits(s)
  <2>1. Cut(s) = Header \o b /\ 2 + n <= q
    BY <1>2, <1>3, <1>5
  <2>2. Len(Cut(s)) = 2 + n
    BY <1>1, <1>2, <2>1, MessagePieces
  <2>3. Rest(s) = SubSeq(s, (2 + n) + 1, q)
    BY <1>2, <2>2 DEF Rest
  <2>4. /\ Len(Rest(s)) = q - (2 + n)
        /\ \A i \in 1 .. q - (2 + n) : Rest(s)[i] = s[(2 + n) + i]
        /\ Rest(s) \in Seq(Pieces)
    <3>1. PICK m \in Nat : m = 2 + n /\ m <= q /\ q <= Len(s)
      BY <1>2, <2>1
    <3>2. /\ SubSeq(s, m + 1, q) \in Seq(Pieces)
          /\ Len(SubSeq(s, m + 1, q)) = q - m
          /\ \A i \in 1 .. q - m : SubSeq(s, m + 1, q)[i] = s[m + i]
      BY <3>1, Stretch
    <3> QED
      BY <2>3, <3>1, <3>2
  <2>5. /\ p + q + r = Len(sent)
        /\ \A i \in 1 .. q : s[i] = sent[p + i]
        /\ \A i \in 1 .. r : rest[i] = sent[p + q + i]
    BY <1>2 DEF Behind
  <2>6. at[h + 1] = p + 2 + n
    BY <1>1, <1>2
  <2>7. Behind(sent, at[h + 1], Rest(s), rest)
    <3>1. (p + 2 + n) + (q - (2 + n)) + r = Len(sent)
      <4>1. (p + 2 + n) + (q - (2 + n)) + r = p + q + r
        OBVIOUS
      <4> QED
        BY <2>5, <4>1
    <3>2. ASSUME NEW i \in 1 .. q - (2 + n)
          PROVE  Rest(s)[i] = sent[(p + 2 + n) + i]
      <4>1. (2 + n) + i \in 1 .. q /\ p + ((2 + n) + i) = (p + 2 + n) + i
        BY <2>1
      <4> QED
        BY <2>4, <2>5, <4>1
    <3>3. ASSUME NEW i \in 1 .. r
          PROVE  rest[i] = sent[(p + 2 + n) + (q - (2 + n)) + i]
      <4>1. (p + 2 + n) + (q - (2 + n)) + i = p + q + i
        OBVIOUS
      <4> QED
        BY <2>5, <4>1
    <3> QED
      BY <1>2, <2>4, <2>6, <3>1, <3>2, <3>3 DEF Behind
  <2>8. EndsInBody(Rest(s))
    <3> SUFFICES ASSUME Rest(s) # <<>>
                 PROVE  Rest(s)[Len(Rest(s))] \in Braces
      BY DEF EndsInBody
    <3>1. q - (2 + n) # 0
      BY <2>4, EmptySeq
    <3>2. q - (2 + n) \in 1 .. q - (2 + n) /\ (2 + n) + (q - (2 + n)) = q
      BY <2>1, <3>1
    <3>3. Rest(s)[q - (2 + n)] = s[q]
      BY <2>4, <3>2
    <3> QED
      BY <1>2, <2>4, <3>3 DEF EndsInBody
  <2> QED
    BY <1>1, <1>5, <2>1, <2>7, <2>8 DEF b
<1> QED
  BY <1>4, <1>5

-----------------------------------------------------------------------------
(* The steps.                                                              *)

(* The client writes one more message.                                     *)
LEMMA LaidMore ==
  ASSUME NEW w \in Seq(Bodies), NEW sent \in Seq(Pieces),
         NEW at \in [0 .. Len(w) -> Nat], Laid(sent, w, at),
         NEW h \in 0 .. Len(w), NEW s \in Seq(Pieces), NEW rest \in Seq(Pieces),
         Behind(sent, at[h], s, rest), NEW body \in Bodies
  PROVE  \E sent2 \in Seq(Pieces) : \E at2 \in [0 .. Len(Append(w, body)) -> Nat] :
           /\ Laid(sent2, Append(w, body), at2)
           /\ Behind(sent2, at2[h], s, (rest \o Header) \o body)
<1> DEFINE w2 == Append(w, body)
           sent2 == (sent \o Header) \o body
           rest2 == (rest \o Header) \o body
<1>1. PICK n \in Nat, q \in Nat, r \in Nat, x \in Nat, c \in Nat :
        n = Len(w) /\ q = Len(s) /\ r = Len(rest) /\ x = Len(sent) /\ c = Len(body)
  BY LenProperties, MessagePieces
<1>2. /\ w2 \in Seq(Bodies) /\ Len(w2) = n + 1 /\ w2[n + 1] = body
      /\ \A k \in 1 .. n : w2[k] = w[k]
  BY <1>1, AppendProperties
<1> DEFINE Longer(t, y, v) ==
             /\ v \in Seq(Pieces) /\ Len(v) = y + 2 + c
             /\ \A i \in 1 .. y : v[i] = t[i]
             /\ v[y + 1] = "Content-" /\ v[y + 2] = "Length:"
             /\ \A j \in 1 .. c : v[y + 2 + j] = body[j]
<1>3. ASSUME NEW t \in Seq(Pieces), NEW y \in Nat, y = Len(t)
      PROVE  Longer(t, y, (t \o Header) \o body)
  <2> DEFINE u == t \o Header
             v == u \o body
  <2>1. /\ u \in Seq(Pieces) /\ Len(u) = y + 2
        /\ \A i \in 1 .. y + 2 : u[i] = IF i <= y THEN t[i] ELSE Header[i - y]
    <3>1. /\ u \in Seq(Pieces) /\ Len(u) = Len(t) + Len(Header)
          /\ \A i \in 1 .. Len(t) + Len(Header) :
               u[i] = IF i <= Len(t) THEN t[i] ELSE Header[i - Len(t)]
      <4>1. Header \in Seq(Pieces)
        BY HeaderPieces
      <4> QED
        BY <4>1, ConcatProperties
    <3> QED
      BY <1>3, <3>1, HeaderPieces
  <2> HIDE DEF u
  <2>2. /\ v \in Seq(Pieces) /\ Len(v) = (y + 2) + c
        /\ \A i \in 1 .. (y + 2) + c :
             v[i] = IF i <= y + 2 THEN u[i] ELSE body[i - (y + 2)]
    <3>1. body \in Seq(Pieces)
      BY MessagePieces
    <3>2. /\ v \in Seq(Pieces) /\ Len(v) = Len(u) + Len(body)
          /\ \A i \in 1 .. Len(u) + Len(body) :
               v[i] = IF i <= Len(u) THEN u[i] ELSE body[i - Len(u)]
      BY <2>1, <3>1, ConcatProperties
    <3> QED
      BY <1>1, <2>1, <3>2
  <2> HIDE DEF v
  <2>3. ASSUME NEW i \in 1 .. y
        PROVE  v[i] = t[i]
    <3>1. i \in 1 .. (y + 2) + c /\ i \in 1 .. y + 2 /\ i <= y /\ i <= y + 2
      OBVIOUS
    <3> QED
      BY <2>1, <2>2, <3>1
  <2>4. v[y + 1] = "Content-" /\ v[y + 2] = "Length:"
    <3>1. /\ y + 1 \in 1 .. (y + 2) + c /\ y + 1 \in 1 .. y + 2
          /\ y + 1 <= y + 2 /\ ~(y + 1 <= y) /\ (y + 1) - y = 1
      OBVIOUS
    <3>2. /\ y + 2 \in 1 .. (y + 2) + c /\ y + 2 \in 1 .. y + 2
          /\ y + 2 <= y + 2 /\ ~(y + 2 <= y) /\ (y + 2) - y = 2
      OBVIOUS
    <3>3. u[y + 1] = Header[1] /\ u[y + 2] = Header[2]
      BY <2>1, <3>1, <3>2
    <3>4. v[y + 1] = u[y + 1] /\ v[y + 2] = u[y + 2]
      BY <2>2, <3>1, <3>2
    <3> QED
      BY <3>3, <3>4, HeaderPieces
  <2>5. ASSUME NEW j \in 1 .. c
        PROVE  v[y + 2 + j] = body[j]
    <3>1. /\ y + 2 + j \in 1 .. (y + 2) + c /\ ~(y + 2 + j <= y + 2)
          /\ (y + 2 + j) - (y + 2) = j
      OBVIOUS
    <3> QED
      BY <2>2, <3>1
  <2>6. Len(v) = y + 2 + c
    BY <2>2
  <2> QED
    BY <2>2, <2>3, <2>4, <2>5, <2>6 DEF v, u
<1>4. /\ sent2 \in Seq(Pieces) /\ Len(sent2) = x + 2 + c
      /\ \A i \in 1 .. x : sent2[i] = sent[i]
      /\ sent2[x + 1] = "Content-" /\ sent2[x + 2] = "Length:"
      /\ \A j \in 1 .. c : sent2[x + 2 + j] = body[j]
  <2>1. Longer(sent, x, sent2)
    <3> HIDE DEF Longer
    <3> QED
      BY <1>1, <1>3
  <2> QED
    BY <2>1
<1>5. /\ rest2 \in Seq(Pieces) /\ Len(rest2) = r + 2 + c
      /\ \A i \in 1 .. r : rest2[i] = rest[i]
      /\ rest2[r + 1] = "Content-" /\ rest2[r + 2] = "Length:"
      /\ \A j \in 1 .. c : rest2[r + 2 + j] = body[j]
  <2>1. Longer(rest, r, rest2)
    <3> HIDE DEF Longer
    <3> QED
      BY <1>1, <1>3
  <2> QED
    BY <2>1
<1> DEFINE at2 == [k \in 0 .. n + 1 |-> IF k <= n THEN at[k] ELSE x + 2 + c]
<1> HIDE DEF w2, sent2, rest2
<1>6. /\ at2 \in [0 .. n + 1 -> Nat] /\ at2[n + 1] = x + 2 + c
      /\ \A k \in 0 .. n : at2[k] = at[k]
  <2>1. \A k \in 0 .. n : at[k] \in Nat
    BY <1>1
  <2> QED
    BY <2>1
<1> HIDE DEF at2
<1>7. /\ at[0] = 0 /\ at[n] = x
      /\ \A k \in 0 .. n : at[k] \in Nat /\ at[k] <= x
      /\ \A k \in 1 .. n :
           /\ at[k] = at[k - 1] + 2 + Len(w[k])
           /\ sent[at[k - 1] + 1] = "Content-"
           /\ sent[at[k - 1] + 2] = "Length:"
           /\ \A j \in 1 .. Len(w[k]) : sent[at[k - 1] + 2 + j] = w[k][j]
  BY <1>1 DEF Laid
<1>8. Laid(sent2, w2, at2)
  <2>1. at2[0] = 0 /\ at2[Len(w2)] = Len(sent2)
    <3>1. 0 \in 0 .. n
      OBVIOUS
    <3> QED
      BY <1>2, <1>4, <1>6, <1>7, <3>1
  <2>2. \A k \in 0 .. Len(w2) : at2[k] <= Len(sent2)
    <3> SUFFICES ASSUME NEW k \in 0 .. n + 1
                 PROVE  at2[k] <= x + 2 + c
      BY <1>2, <1>4
    <3>1. CASE k = n + 1
      BY <1>6, <3>1
    <3>2. CASE k # n + 1
      <4>1. k \in 0 .. n
        BY <3>2
      <4>2. PICK y \in Nat : y = at[k] /\ y <= x
        BY <1>7, <4>1
      <4> QED
        BY <1>6, <4>1, <4>2
    <3> QED
      BY <3>1, <3>2
  <2>3. ASSUME NEW k \in 1 .. n
        PROVE  /\ at2[k] = at2[k - 1] + 2 + Len(w2[k])
               /\ sent2[at2[k - 1] + 1] = "Content-"
               /\ sent2[at2[k - 1] + 2] = "Length:"
               /\ \A j \in 1 .. Len(w2[k]) : sent2[at2[k - 1] + 2 + j] = w2[k][j]
    <3>1. k \in 0 .. n /\ k - 1 \in 0 .. n
      OBVIOUS
    <3>2. w2[k] = w[k] /\ at2[k] = at[k] /\ at2[k - 1] = at[k - 1]
      BY <1>2, <1>6, <3>1
    <3>3. w[k] \in Bodies
      BY <1>1, ElementOfSeq
    <3>4. PICK p \in Nat, m \in Nat : p = at[k - 1] /\ m = Len(w[k])
      BY <1>7, <3>1, <3>3, MessagePieces
    <3>5. p + 2 + m <= x
      BY <1>7, <3>1, <3>4
    <3>6. \A i \in 1 .. p + 2 + m : sent2[i] = sent[i]
      BY <1>4, <3>5
    <3>7. sent2[p + 1] = "Content-" /\ sent2[p + 2] = "Length:"
      <4>1. p + 1 \in 1 .. p + 2 + m /\ p + 2 \in 1 .. p + 2 + m
        OBVIOUS
      <4> QED
        BY <1>7, <3>4, <3>6, <4>1
    <3>8. ASSUME NEW j \in 1 .. m
          PROVE  sent2[p + 2 + j] = w[k][j]
      <4>1. p + 2 + j \in 1 .. p + 2 + m
        OBVIOUS
      <4> QED
        BY <1>7, <3>4, <3>6, <4>1
    <3> QED
      BY <1>7, <3>2, <3>4, <3>7, <3>8
  <2>4. /\ at2[n + 1] = at2[(n + 1) - 1] + 2 + Len(w2[n + 1])
        /\ sent2[at2[(n + 1) - 1] + 1] = "Content-"
        /\ sent2[at2[(n + 1) - 1] + 2] = "Length:"
        /\ \A j \in 1 .. Len(w2[n + 1]) :
             sent2[at2[(n + 1) - 1] + 2 + j] = w2[n + 1][j]
    <3>1. n \in 0 .. n /\ (n + 1) - 1 = n
      OBVIOUS
    <3>2. at2[(n + 1) - 1] = x
      BY <1>6, <1>7, <3>1
    <3> QED
      BY <1>1, <1>2, <1>4, <1>6, <3>2
  <2>5. ASSUME NEW k \in 1 .. Len(w2)
        PROVE  /\ at2[k] = at2[k - 1] + 2 + Len(w2[k])
               /\ sent2[at2[k - 1] + 1] = "Content-"
               /\ sent2[at2[k - 1] + 2] = "Length:"
               /\ \A j \in 1 .. Len(w2[k]) : sent2[at2[k - 1] + 2 + j] = w2[k][j]
    <3>1. k \in 1 .. n \/ k = n + 1
      BY <1>2
    <3> QED
      BY <2>3, <2>4, <3>1
  <2> QED
    BY <1>2, <1>4, <1>6, <2>1, <2>2, <2>5 DEF Laid
<1>9. Behind(sent2, at2[h], s, rest2)
  <2>1. h \in 0 .. n /\ at2[h] = at[h]
    BY <1>1, <1>6
  <2>2. PICK p \in Nat : p = at[h]
    BY <1>7, <2>1
  <2>3. /\ p + q + r = x
        /\ \A i \in 1 .. q : s[i] = sent[p + i]
        /\ \A i \in 1 .. r : rest[i] = sent[p + q + i]
    BY <1>1, <2>2 DEF Behind
  <2>7. p + q + r = x
    BY <2>3
  <2>4. p + q + (r + 2 + c) = x + 2 + c
    BY <2>7
  <2>5. ASSUME NEW i \in 1 .. q
        PROVE  s[i] = sent2[p + i]
    <3>1. p + i \in 1 .. x
      BY <2>7
    <3> QED
      BY <1>4, <2>3, <3>1
  <2>6. ASSUME NEW i \in 1 .. r + 2 + c
        PROVE  rest2[i] = sent2[p + q + i]
    <3>1. CASE i \in 1 .. r
      <4>1. p + q + i \in 1 .. x
        BY <2>7, <3>1
      <4> QED
        BY <1>4, <1>5, <2>3, <3>1, <4>1
    <3>2. CASE i = r + 1
      <4>1. p + q + i = x + 1
        BY <2>7, <3>2
      <4> QED
        BY <1>4, <1>5, <3>2, <4>1
    <3>3. CASE i = r + 2
      <4>1. p + q + i = x + 2
        BY <2>7, <3>3
      <4> QED
        BY <1>4, <1>5, <3>3, <4>1
    <3>4. CASE i > r + 2
      <4>1. PICK j \in 1 .. c : i = r + 2 + j
        <5>1. i - (r + 2) \in 1 .. c /\ i = r + 2 + (i - (r + 2))
          BY <3>4
        <5> QED
          BY <5>1
      <4>2. p + q + i = x + 2 + j
        <5>1. p + q + (r + 2 + j) = (p + q + r) + 2 + j
          OBVIOUS
        <5> QED
          BY <2>7, <4>1, <5>1
      <4> QED
        BY <1>4, <1>5, <4>1, <4>2
    <3>5. i \in 1 .. r \/ i = r + 1 \/ i = r + 2 \/ i > r + 2
      OBVIOUS
    <3> QED
      BY <3>1, <3>2, <3>3, <3>4, <3>5
  <2> QED
    BY <1>1, <1>4, <1>5, <2>1, <2>2, <2>4, <2>5, <2>6 DEF Behind
<1>10. at2 \in [0 .. Len(w2) -> Nat]
  BY <1>2, <1>6
<1> QED
  BY <1>4, <1>8, <1>9, <1>10 DEF w2, rest2

(* A chunk goes from the wire to the buffer.                               *)
LEMMA ChunkReceived ==
  ASSUME TypeInv, NEW sent \in Seq(Pieces), NEW place \in Nat,
         Behind(sent, place, data_str, wire), NEW chunk \in Chunks,
         NEW rest, rest = SubSeq(wire, Len(chunk) + 1, Len(wire))
  PROVE  rest \in Seq(Pieces) /\ Behind(sent, place, data_str \o chunk, rest)
<1>1. /\ chunk \in Seq(Pieces) /\ Len(chunk) \in 0 .. Len(wire)
      /\ \A i \in 1 .. Len(chunk) : chunk[i] = wire[i]
      /\ rest \in Seq(Pieces) /\ Len(rest) = Len(wire) - Len(chunk)
      /\ \A i \in 1 .. Len(wire) - Len(chunk) : rest[i] = wire[Len(chunk) + i]
  BY ChunkTypes
<1>2. data_str \in Seq(Pieces) /\ wire \in Seq(Pieces)
  BY DEF TypeInv
<1>3. PICK q \in Nat, x \in Nat, c \in Nat, z \in Nat :
        q = Len(data_str) /\ x = Len(wire) /\ c = Len(chunk) /\ z = Len(sent)
  BY <1>1, <1>2, LenProperties
<1>4. c <= x
  BY <1>1, <1>3
<1> DEFINE s == data_str \o chunk
<1>5. /\ Len(s) = q + c
      /\ \A i \in 1 .. q + c : s[i] = IF i <= q THEN data_str[i] ELSE chunk[i - q]
  <2>1. /\ Len(s) = Len(data_str) + Len(chunk)
        /\ \A i \in 1 .. Len(data_str) + Len(chunk) :
             s[i] = IF i <= Len(data_str) THEN data_str[i]
                    ELSE chunk[i - Len(data_str)]
    BY <1>1, <1>2, ConcatProperties
  <2> QED
    BY <1>3, <2>1
<1> HIDE DEF s
<1>6. /\ place + q + x = z
      /\ \A i \in 1 .. q : data_str[i] = sent[place + i]
      /\ \A i \in 1 .. x : wire[i] = sent[place + q + i]
  BY <1>3 DEF Behind
<1>7. place + (q + c) + (x - c) = z
  BY <1>6
<1>8. ASSUME NEW i \in 1 .. q + c
      PROVE  s[i] = sent[place + i]
  <2>1. CASE i <= q
    BY <1>5, <1>6, <2>1
  <2>2. CASE ~(i <= q)
    <3>1. PICK j \in 1 .. c : j = i - q
      BY <2>2
    <3>2. j \in 1 .. x /\ place + q + j = place + i
      BY <1>4, <3>1
    <3>3. s[i] = chunk[j] /\ chunk[j] = wire[j]
      BY <1>1, <1>3, <1>5, <2>2, <3>1
    <3> QED
      BY <1>6, <3>2, <3>3
  <2> QED
    BY <2>1, <2>2
<1>9. ASSUME NEW i \in 1 .. x - c
      PROVE  rest[i] = sent[place + (q + c) + i]
  <2>1. c + i \in 1 .. x /\ place + q + (c + i) = place + (q + c) + i
    BY <1>4
  <2>2. rest[i] = wire[c + i]
    BY <1>1, <1>3
  <2> QED
    BY <1>6, <2>1, <2>2
<1>10. Len(rest) = x - c
  BY <1>1, <1>3
<1>11. Behind(sent, place, s, rest)
  BY <1>3, <1>5, <1>7, <1>8, <1>9, <1>10 DEF Behind
<1> QED
  BY <1>1, <1>11 DEF s

(* A turn that received something, or had something left to take.          *)
LEMMA TurnTakesFront ==
  ASSUME TypeInv, OrderInv, loop = "running",
         NEW s \in Seq(Pieces), NEW received \in Seq(Pieces), Turn(s, received),
         s # <<>>, EndsInBody(s), received # <<>> \/ Waits(s),
         NEW sent \in Seq(Pieces), NEW at \in [0 .. Len(written) -> Nat],
         Laid(sent, written, at), wire' \in Seq(Pieces),
         Behind(sent, at[Len(handled)], s, wire')
  PROVE  OrderInv'
<1> DEFINE h == Len(handled)
<1>1. /\ written \in Seq(Bodies) /\ handled \in Seq(Bodies)
      /\ h \in Nat /\ Len(written) \in Nat /\ h <= Len(written)
      /\ \A k \in 1 .. h : handled[k] = written[k]
  BY LenProperties DEF TypeInv, OrderInv
<1>2. h \in 0 .. Len(written)
  BY <1>1
<1>3. \/ Waits(s) /\ Rest(s) = s
      \/ /\ ~Waits(s) /\ h + 1 \in 1 .. Len(written)
         /\ Cut(s) = Header \o written[h + 1]
         /\ Behind(sent, at[h + 1], Rest(s), wire') /\ EndsInBody(Rest(s))
  BY <1>1, <1>2, FrontIsTaken
<1>4. /\ data_str' = Rest(s) /\ written' = written
      /\ message_str' = Cut(s) /\ data' = received
  BY DEF Turn
<1>5. CASE Waits(s)
  <2>1. handled' = handled /\ loop' = loop /\ data_str' = s
    BY <1>3, <1>4, <1>5 DEF Turn
  <2>2. StreamInv'
    BY <1>4, <2>1 DEF StreamInv
  <2>3. message_str' = <<>>
    BY <1>4, <1>5 DEF Waits, Cut
  <2> QED
    BY <1>1, <1>4, <2>1, <2>2, <2>3 DEF OrderInv
<1>6. CASE ~Waits(s)
  <2>1. /\ h + 1 \in 1 .. Len(written)
        /\ Cut(s) = Header \o written[h + 1]
        /\ Behind(sent, at[h + 1], Rest(s), wire') /\ EndsInBody(Rest(s))
    BY <1>3, <1>6
  <2>2. written[h + 1] \in Bodies
    BY <1>1, <2>1, ElementOfSeq
  <2>3. IsMessage(Cut(s)) /\ BodyOf(Cut(s)) = written[h + 1]
    BY <2>1, <2>2, MessagePieces DEF IsMessage
  <2>4. Handle(s, received)
    BY <1>6 DEF Turn
  <2>5. handled' = Append(handled, written[h + 1]) /\ loop' = loop
    BY <1>6, <2>3, <2>4 DEF Handle
  <2>6. /\ Len(handled') = h + 1 /\ handled'[h + 1] = written[h + 1]
        /\ \A k \in 1 .. h : handled'[k] = handled[k]
    BY <1>1, <2>2, <2>5, AppendProperties
  <2>7. StreamInv'
    BY <1>4, <2>1, <2>6 DEF StreamInv
  <2>8. \A k \in 1 .. h + 1 : handled'[k] = written[k]
    <3> SUFFICES ASSUME NEW k \in 1 .. h + 1
                 PROVE  handled'[k] = written[k]
      OBVIOUS
    <3>1. k \in 1 .. h \/ k = h + 1
      BY <1>1
    <3> QED
      BY <1>1, <2>6, <3>1
  <2>9. h + 1 <= Len(written)
    BY <1>1, <2>1
  <2> QED
    BY <1>4, <1>6, <2>1, <2>5, <2>6, <2>7, <2>8, <2>9 DEF OrderInv
<1> QED
  BY <1>5, <1>6

LEMMA OrderStep ==
  ASSUME ~SplitHeaders, TypeInv, OrderInv, [Next]_vars
  PROVE  OrderInv'
<1>1. /\ written \in Seq(Bodies) /\ handled \in Seq(Bodies)
      /\ Len(handled) \in Nat /\ Len(written) \in Nat
      /\ Len(handled) <= Len(written) /\ Len(handled) \in 0 .. Len(written)
      /\ \A k \in 1 .. Len(handled) : handled[k] = written[k]
      /\ wire \in Seq(Pieces) /\ data_str \in Seq(Pieces) /\ data \in Seq(Pieces)
  BY LenProperties DEF TypeInv, OrderInv
<1>2. ASSUME NEW body \in Bodies, Write(body)
      PROVE  OrderInv'
  <2>1. /\ written' = Append(written, body) /\ wire' = (wire \o Header) \o body
        /\ UNCHANGED <<data_str, message_str, data, handled, loop>>
    BY <1>2 DEF Write
  <2>2. /\ Len(written') = Len(written) + 1
        /\ \A k \in 1 .. Len(written) : written'[k] = written[k]
    BY <1>1, <2>1, AppendProperties
  <2>3. Len(handled) <= Len(written')
    BY <1>1, <2>2
  <2>4. \A k \in 1 .. Len(handled) : handled[k] = written'[k]
    <3> SUFFICES ASSUME NEW k \in 1 .. Len(handled)
                 PROVE  handled[k] = written'[k]
      OBVIOUS
    <3>1. k \in 1 .. Len(written)
      BY <1>1
    <3> QED
      BY <1>1, <2>2, <3>1
  <2>5. ASSUME loop = "running"
        PROVE  StreamInv'
    <3>1. PICK sent \in Seq(Pieces), at \in [0 .. Len(written) -> Nat] :
            /\ Laid(sent, written, at)
            /\ Behind(sent, at[Len(handled)], data_str, wire)
      BY <2>5 DEF OrderInv, StreamInv
    <3>2. \E sent2 \in Seq(Pieces) :
            \E at2 \in [0 .. Len(Append(written, body)) -> Nat] :
              /\ Laid(sent2, Append(written, body), at2)
              /\ Behind(sent2, at2[Len(handled)], data_str,
                        (wire \o Header) \o body)
      BY <1>1, <3>1, LaidMore
    <3> QED
      BY <2>1, <3>2 DEF StreamInv
  <2> QED
    BY <2>1, <2>3, <2>4, <2>5 DEF OrderInv
<1>3. CASE Close
  BY <1>3 DEF Close, OrderInv, StreamInv
<1>4. CASE TurnWithRecv
  <2>1. PICK chunk \in Chunks :
          /\ Turn(data_str \o chunk, chunk)
          /\ wire' = SubSeq(wire, Len(chunk) + 1, Len(wire))
    BY <1>4 DEF TurnWithRecv
  <2>2. loop = "running" /\ EndsInBody(data_str)
    BY <1>4 DEF TurnWithRecv, OrderInv
  <2>3. PICK sent \in Seq(Pieces), at \in [0 .. Len(written) -> Nat] :
          /\ Laid(sent, written, at)
          /\ Behind(sent, at[Len(handled)], data_str, wire)
    BY <2>2 DEF OrderInv, StreamInv
  <2> DEFINE s == data_str \o chunk
  <2>4. chunk \in Seq(Pieces) /\ (chunk # <<>> => chunk[Len(chunk)] \in Braces)
    BY ChunkTypes
  <2>5. wire' \in Seq(Pieces) /\ Behind(sent, at[Len(handled)], s, wire')
    <3>1. at[Len(handled)] \in Nat
      BY <1>1
    <3> QED
      BY <2>1, <2>3, <3>1, ChunkReceived
  <2>6. /\ s \in Seq(Pieces) /\ Len(s) = Len(data_str) + Len(chunk)
        /\ \A i \in 1 .. Len(data_str) + Len(chunk) :
             s[i] = IF i <= Len(data_str) THEN data_str[i]
                    ELSE chunk[i - Len(data_str)]
    BY <1>1, <2>4, ConcatProperties
  <2>7. CASE chunk # <<>>
    <3>1. PICK q \in Nat, c \in Nat \ {0} : q = Len(data_str) /\ c = Len(chunk)
      BY <1>1, <2>4, <2>7, EmptySeq, LenProperties
    <3>2. Len(s) = q + c /\ s # <<>>
      <4>1. Len(s) = q + c
        BY <2>6, <3>1
      <4>2. Len(s) # 0
        BY <3>1, <4>1
      <4> QED
        BY <4>1, <4>2, EmptySeq
    <3>3. s[Len(s)] = chunk[c]
      <4>1. q + c \in 1 .. q + c /\ ~(q + c <= q) /\ (q + c) - q = c
        BY <3>1
      <4> QED
        BY <2>6, <3>1, <3>2, <4>1
    <3>4. EndsInBody(s)
      BY <2>4, <2>7, <3>1, <3>3 DEF EndsInBody
    <3> HIDE DEF s
    <3>5. Turn(s, chunk)
      BY <2>1 DEF s
    <3> QED
      BY <2>2, <2>3, <2>4, <2>5, <2>6, <2>7, <3>2, <3>4, <3>5, TurnTakesFront
  <2>8. CASE chunk = <<>>
    <3>1. s = data_str
      BY <1>1, <2>8, ConcatEmptySeq
    <3>2. CASE Waits(s)
      <4>1. s # <<>>
        <5> SUFFICES ASSUME s = <<>>
                     PROVE  FALSE
          OBVIOUS
        <5>1. Len(s) = 0
          BY EmptySeq
        <5>2. Count(s, "{") = Count(s, "}")
          <6>1. {k \in 1 .. 0 : s[k] = "{"} = {} /\ {k \in 1 .. 0 : s[k] = "}"} = {}
            OBVIOUS
          <6> QED
            BY <5>1, <6>1 DEF Count
        <5> QED
          BY <3>2, <5>2 DEF Waits, Balanced
      <4>2. EndsInBody(s)
        BY <2>2, <3>1
      <4> HIDE DEF s
      <4>3. Turn(s, chunk)
        BY <2>1 DEF s
      <4> QED
        BY <2>2, <2>3, <2>4, <2>5, <2>6, <3>2, <4>1, <4>2, <4>3, TurnTakesFront
    <3>3. CASE ~Waits(s)
      <4>1. written' = written /\ Handle(s, chunk)
        BY <2>1, <3>3 DEF Turn
      <4>2. loop' = "left" /\ handled' = handled
        BY <2>8, <4>1 DEF Handle
      <4> QED
        BY <1>1, <4>1, <4>2 DEF OrderInv
    <3> QED
      BY <3>2, <3>3
  <2> QED
    BY <2>7, <2>8
<1>5. CASE TurnOnBuffer
  <2>1. /\ loop = "running" /\ Turn(data_str, data) /\ wire' = wire
        /\ data_str # <<>> /\ message_str # <<>>
    BY <1>5 DEF TurnOnBuffer, Receives
  <2>2. EndsInBody(data_str)
    BY <2>1 DEF OrderInv
  <2>3. PICK sent \in Seq(Pieces), at \in [0 .. Len(written) -> Nat] :
          /\ Laid(sent, written, at)
          /\ Behind(sent, at[Len(handled)], data_str, wire)
    BY <2>1 DEF OrderInv, StreamInv
  <2>4. wire' \in Seq(Pieces) /\ Behind(sent, at[Len(handled)], data_str, wire')
    BY <1>1, <2>1, <2>3
  <2>5. data # <<>>
    BY <2>1 DEF OrderInv
  <2> QED
    BY <1>1, <2>1, <2>2, <2>3, <2>4, <2>5, TurnTakesFront
<1>6. CASE UNCHANGED vars
  BY <1>6 DEF vars, OrderInv, StreamInv
<1> QED
  BY <1>2, <1>3, <1>4, <1>5, <1>6 DEF Next


(* The messages handled are the messages written, each once and in order,  *)
(* and the loop raises no error: for every set of bodies, every bound and  *)
(* every way to cut the stream that ends no chunk at a header.             *)
THEOREM HandlingCorrect ==
  ASSUME ~SplitHeaders
  PROVE  Spec => []HandledInOrder
<1>1. Init => TypeInv /\ OrderInv
  <2> SUFFICES ASSUME Init
               PROVE  TypeInv /\ OrderInv
    OBVIOUS
  <2>1. TypeInv
    BY EmptySeq DEF Init, TypeInv
  <2>2. <<>> \in Seq(Pieces) /\ Len(<<>>) = 0
    BY EmptySeq
  <2> DEFINE at == [k \in {0} |-> 0]
  <2>3. 0 .. 0 = {0} /\ 1 .. 0 = {}
    OBVIOUS
  <2>4. at \in [0 .. 0 -> Nat] /\ at[0] = 0
    BY <2>3
  <2> HIDE DEF at
  <2>5. Laid(<<>>, <<>>, at)
    BY <2>2, <2>3, <2>4 DEF Laid
  <2>6. Behind(<<>>, 0, <<>>, <<>>)
    BY <2>2, <2>3 DEF Behind
  <2>7. StreamInv
    BY <2>2, <2>4, <2>5, <2>6 DEF Init, StreamInv
  <2>8. /\ Len(handled) <= Len(written) /\ 1 .. Len(handled) = {}
        /\ EndsInBody(data_str) /\ loop = "running" /\ message_str = <<>>
    BY <2>2, <2>3 DEF Init, EndsInBody
  <2> QED
    BY <2>1, <2>7, <2>8 DEF OrderInv
<1>2. TypeInv /\ OrderInv /\ [Next]_vars => (TypeInv /\ OrderInv)'
  BY TypeStep, OrderStep
<1>3. TypeInv /\ OrderInv => HandledInOrder
  <2> SUFFICES ASSUME TypeInv, OrderInv
               PROVE  HandledInOrder
    OBVIOUS
  <2>1. /\ written \in Seq(Bodies) /\ handled \in Seq(Bodies)
        /\ Len(handled) \in Nat /\ Len(written) \in Nat
        /\ Len(handled) <= Len(written)
        /\ \A k \in 1 .. Len(handled) : handled[k] = written[k]
    BY LenProperties DEF TypeInv, OrderInv
  <2>2. handled = SubSeq(written, 1, Len(handled))
    <3>1. /\ SubSeq(written, 0 + 1, Len(handled)) \in Seq(Bodies)
          /\ Len(SubSeq(written, 0 + 1, Len(handled))) = Len(handled) - 0
          /\ \A i \in 1 .. Len(handled) - 0 :
               SubSeq(written, 0 + 1, Len(handled))[i] = written[0 + i]
      BY <2>1, Stretch
    <3>2. \A i \in 1 .. Len(handled) :
            handled[i] = SubSeq(written, 0 + 1, Len(handled))[i]
      BY <2>1, <3>1
    <3>3. handled = SubSeq(written, 0 + 1, Len(handled))
      BY <2>1, <3>1, <3>2, SeqEqual
    <3> QED
      BY <3>3
  <2>3. IsPrefix(handled, written)
    BY <2>1, <2>2 DEF IsPrefix
  <2> QED
    BY <2>3 DEF HandledInOrder, OrderInv
<1> QED
  BY <1>1, <1>2, <1>3, PTL DEF Spec

=============================================================================
