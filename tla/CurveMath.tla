----------------------------- MODULE CurveMath -----------------------------
(* Scalars modulo the order N of the base point (curve/math.go). *)
EXTENDS Integers

CONSTANT N

Scalars == 0..(N - 1)

BigIntAdd(a, b) == (a + b) % N

BigIntMul(a, b) == (a * b) % N

\* ModInverse, of a scalar that has one.
GetInvert(a) == CHOOSE b \in Scalars : BigIntMul(a, b) = 1
=============================================================================
