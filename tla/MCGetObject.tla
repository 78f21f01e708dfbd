---------------------------- MODULE MCGetObject ----------------------------
(* An instance of GetObject for TLC: see GetObject.cfg. *)
EXTENDS GetObject
=============================================================================
