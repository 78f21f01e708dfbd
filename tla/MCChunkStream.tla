---------------------------- MODULE MCChunkStream ----------------------------
(* ChunkStream as TLC checks it. *)
EXTENDS ChunkStream

MCLengths == 0..5
=============================================================================
