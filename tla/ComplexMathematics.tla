------------------------ MODULE ComplexMathematics ------------------------
(***************************************************************************)
(* The linear algebra behind the assertions                                *)
(* (src/src/common/ComplexMathematics.cpp), in exact arithmetic: a complex *)
(* number is a Gaussian integer <<re, im>> and a state vector of n qubits  *)
(* a function from 0 .. 2^n - 1 to such numbers that need not be of length *)
(* one. Where the code compares with 1, the model compares with the norm.  *)
(***************************************************************************)
EXTENDS Integers, FiniteSetsExt

Zero == <<0, 0>>
ComplexAddition(a, b) == <<a[1] + b[1], a[2] + b[2]>>
ComplexMultiplication(a, b) ==
  <<a[1] * b[1] - a[2] * b[2], a[1] * b[2] + a[2] * b[1]>>
ComplexConjugate(a) == <<a[1], -a[2]>>
SquaredMagnitude(a) == a[1] * a[1] + a[2] * a[2]

ComplexSum(S, term(_)) ==
  MapThenFoldSet(ComplexAddition, Zero, term, LAMBDA T : CHOOSE t \in T : TRUE, S)

NumQubits(v) == CHOOSE n \in 0 .. Cardinality(DOMAIN v) :
                  2^n = Cardinality(DOMAIN v)
Qubits(v) == 0 .. NumQubits(v) - 1
Support(v) == {k \in DOMAIN v : v[k] # Zero}
Conjugate(v) == [k \in DOMAIN v |-> ComplexConjugate(v[k])]
Norm(v) == MapThenSumSet(LAMBDA k : SquaredMagnitude(v[k]), DOMAIN v)

(* The value of qubit q in basis state k.                                  *)
Bit(k, q) == (k \div 2^q) % 2

(* The bits of k at some qubits, as a number of their own                  *)
(* (splitBitString).                                                       *)
Extracted(k, qubits) ==
  LET Place(q) == Cardinality({p \in qubits : p < q})
  IN  MapThenSumSet(LAMBDA q : Bit(k, q) * 2^Place(q), qubits)

-----------------------------------------------------------------------------
(* Partial traces. The second factor is the conjugate where the code       *)
(* starts from a density matrix, and the vector itself where it starts     *)
(* from a state vector.                                                    *)

PartialTrace(v, w, traceOut) ==
  LET kept == Qubits(v) \ traceOut
      size == 2^Cardinality(kept)
      In(r) == {k \in DOMAIN v : Extracted(k, kept) = r}
  IN  [rc \in (0 .. size - 1) \X (0 .. size - 1) |->
         ComplexSum({kl \in In(rc[1]) \X In(rc[2]) :
                       Extracted(kl[1], traceOut) = Extracted(kl[2], traceOut)},
                    LAMBDA kl : ComplexMultiplication(v[kl[1]], w[kl[2]]))]

PartialTraceFromDensity(v, traceOut) == PartialTrace(v, Conjugate(v), traceOut)
PartialTraceFromStateVector(v, traceOut) == PartialTrace(v, v, traceOut)

Trace(matrix) ==
  ComplexSum({rc \in DOMAIN matrix : rc[1] = rc[2]}, LAMBDA rc : matrix[rc])

TraceOfSquare(matrix) ==
  ComplexSum(DOMAIN matrix,
             LAMBDA rc : ComplexMultiplication(matrix[rc],
                                               matrix[<<rc[2], rc[1]>>]))

(* partialTraceIsPure.                                                     *)
PartialTraceIsPure(v, traceOut) ==
  TraceOfSquare(PartialTraceFromStateVector(v, traceOut)) = <<Norm(v)^2, 0>>

(* getSharedInformation is positive: the state of two qubits is not the    *)
(* product of the states of each.                                          *)
AreQubitsEntangled(v, qubit1, qubit2) ==
  LET Without(qubits) == PartialTraceFromDensity(v, Qubits(v) \ qubits)
      low == Min({qubit1, qubit2})
      high == Max({qubit1, qubit2})
      both == Without({low, high})
      norm == <<Norm(v), 0>>
  IN  \E rc \in DOMAIN both :
        ComplexMultiplication(norm, both[rc]) #
          ComplexMultiplication(
            Without({low})[<<rc[1] % 2, rc[2] % 2>>],
            Without({high})[<<rc[1] \div 2, rc[2] \div 2>>])

(* getSubStateVectorAmplitudes: the matrix has an eigenvalue 1 only when   *)
(* it is of rank one; its eigenvector is then any column but zero.         *)
HasSubStateVector(v, qubits) ==
  /\ PartialTraceIsPure(v, Qubits(v) \ qubits)
  /\ Trace(PartialTraceFromStateVector(v, Qubits(v) \ qubits)) = <<Norm(v), 0>>

SomeColumn(matrix) ==
  LET column == CHOOSE c \in {rc[2] : rc \in DOMAIN matrix} :
                  \E rc \in DOMAIN matrix : rc[2] = c /\ matrix[rc] # Zero
  IN  [r \in {rc[1] : rc \in DOMAIN matrix} |-> matrix[<<r, column>>]]

SubStateVectorAmplitudes(v, qubits) ==
  SomeColumn(PartialTraceFromStateVector(v, Qubits(v) \ qubits))

-----------------------------------------------------------------------------

(* The square of dotProduct, before the division by both norms.            *)
DotProduct(v, w) ==
  SquaredMagnitude(
    ComplexSum(DOMAIN v,
               LAMBDA k : ComplexMultiplication(v[k], ComplexConjugate(w[k]))))

(* Similarities are compared by their squares, in quarters: 4 is a         *)
(* similarity of 1, 2 one of 0.7071.                                       *)
IsSimilar(v, w, similarity) ==
  4 * DotProduct(v, w) >= similarity * Norm(v) * Norm(w)

=============================================================================
