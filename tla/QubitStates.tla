---------------------------- MODULE QubitStates ----------------------------
(***************************************************************************)
(* Exact instances of the quantum data: state vectors of a few qubits that *)
(* Clifford gates reach from |0...0>, up to a factor (the first amplitude  *)
(* that is not zero is 1). Qubit 0 is the low bit of a basis state.        *)
(***************************************************************************)
EXTENDS ComplexMathematics, Sequences, SequencesExt, TLC

(* The same function; TLC evaluates it once, here.                         *)
Evaluated(f) == f @@ <<>>

Flip(k, q) == IF Bit(k, q) = 1 THEN k - 2^q ELSE k + 2^q
Negate(a) == <<-a[1], -a[2]>>

(* Quotients of such amplitudes are Gaussian integers again.               *)
LOCAL Over(a, b) ==
  LET product == ComplexMultiplication(a, ComplexConjugate(b))
  IN  <<product[1] \div SquaredMagnitude(b), product[2] \div SquaredMagnitude(b)>>

Normal(v) ==
  LET w == Evaluated(v)
      first == w[CHOOSE k \in Support(w) : \A l \in Support(w) : k <= l]
  IN  Evaluated([k \in DOMAIN w |-> Over(w[k], first)])

LOCAL One(name, q, v) ==
  CASE name = "x" -> [k \in DOMAIN v |-> v[Flip(k, q)]]
    [] name = "z" -> [k \in DOMAIN v |->
                        IF Bit(k, q) = 1 THEN Negate(v[k]) ELSE v[k]]
    [] name = "s" -> [k \in DOMAIN v |->
                        IF Bit(k, q) = 1
                        THEN ComplexMultiplication(<<0, 1>>, v[k]) ELSE v[k]]
    [] name = "h" -> [k \in DOMAIN v |->
                        IF Bit(k, q) = 1
                        THEN ComplexAddition(v[Flip(k, q)], Negate(v[k]))
                        ELSE ComplexAddition(v[k], v[Flip(k, q)])]

(* A gate is its name and the qubits it acts on; a gate on one qubit that  *)
(* names several is applied to each.                                       *)
Applied(g, v) ==
  LET Each[m \in 0 .. Len(g[2])] ==
        IF m = 0 THEN v ELSE One(g[1], g[2][m], Each[m - 1])
  IN  Normal(
    CASE g[1] = "id" -> v
      [] g[1] = "cx" -> [k \in DOMAIN v |-> IF Bit(k, g[2][1]) = 1
                                            THEN v[Flip(k, g[2][2])] ELSE v[k]]
      [] OTHER -> Each[Len(g[2])])

AllZero(n) == [k \in 0 .. 2^n - 1 |-> IF k = 0 THEN <<1, 0>> ELSE Zero]

(* What gates reach from a state in at most d steps.                       *)
ReachedWithin(d, gates, v) ==
  LET Within[j \in 0 .. d] ==
        IF j = 0 THEN {v}
        ELSE LET S == Within[j - 1]
             IN  S \cup {Applied(g, w) : g \in gates, w \in S}
  IN  Within[d]

ActOn(gates, states) ==
  Evaluated([g \in gates |-> Evaluated([v \in states |-> Applied(g, v)])])

Always(v, q, bit) == \A k \in Support(v) : Bit(k, q) = bit

(* What a measurement of qubit q, and a reset, may leave of a state.       *)
Possible(v, q) == {Bit(k, q) : k \in Support(v)}
Projected(v, q, bit) ==
  Normal([k \in DOMAIN v |-> IF Bit(k, q) = bit THEN v[k] ELSE Zero])

MeasureQubitOf(states, q, b) ==
  Evaluated([v \in states |->
               {[bits |-> b :> (bit = 1), state |-> Projected(v, q, bit)] :
                  bit \in Possible(v, q)}])

ResetQubitOf(states, q) ==
  Evaluated([v \in states |->
               {[bits |-> <<>>,
                 state |-> IF bit = 1
                           THEN Applied(<<"x", <<q>>>>, Projected(v, q, bit))
                           ELSE Projected(v, q, bit)] :
                  bit \in Possible(v, q)}])

=============================================================================
