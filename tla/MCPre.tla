------------------------------- MODULE MCPre -------------------------------
(* An instance of Pre for TLC: the field of integers modulo a prime N. *)
EXTENDS Pre, CurveMath

\* Hashes that tell the points and their order apart, zero among their values.
MCHash2(a, b) == (2 * a + 3 * b + 1) % N
MCHash3(a, b, c) == (a + 2 * b + 3 * c) % N
MCSha3(p) == N + p
=============================================================================
