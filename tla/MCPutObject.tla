---------------------------- MODULE MCPutObject ----------------------------
(* An instance of PutObject for TLC: see PutObject.cfg. *)
EXTENDS PutObject
=============================================================================
