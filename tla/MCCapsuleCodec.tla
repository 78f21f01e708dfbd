---------------------------- MODULE MCCapsuleCodec ----------------------------
(* An instance of Messages for TLC: numbers of three bits, of which none, one   *)
(* or all five of a capsule are short.                                          *)
EXTENDS Messages

MCEphemeral == <<4, 0, 1, 1, 0, 1, 1>>

MCFields ==
    {f \in [1..5 -> {2, 5}] : Cardinality({i \in 1..5 : f[i] = 2}) \in {0, 1, 5}}
=============================================================================
