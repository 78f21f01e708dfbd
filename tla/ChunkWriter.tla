----------------------------- MODULE ChunkWriter -----------------------------
(***************************************************************************)
(* What EncryptStream promises to the one that runs it: it takes its       *)
(* source chunk by chunk, each full but for the last, and succeeds only    *)
(* when the source answers io.EOF and all of it was taken.  ChunkStream    *)
(* implements it byte by byte; PutObject, whose pipes may block and whose   *)
(* context may be done at any time, contains it.                           *)
(***************************************************************************)
EXTENDS Integers

VARIABLES
    len,      \* what the source holds
    unit,     \* what a chunk holds
    clean,    \* the source answers io.EOF behind that, after one error at most
    taken,    \* what was taken of it
    state     \* "idle", "running", then "ok" or "error"

writerVars == <<len, unit, clean, taken, state>>

WriterInit ==
    /\ len \in Nat /\ unit \in Nat \ {0} /\ clean \in BOOLEAN
    /\ taken = 0 /\ state \in {"idle", "running"}

Start ==
    /\ state = "idle" /\ state' = "running"
    /\ UNCHANGED <<len, unit, clean, taken>>

AfterChunk == IF taken + unit <= len THEN taken + unit ELSE len

\* A chunk known to be the last ends the loop at once.
Take ==
    /\ state = "running" /\ taken < len
    /\ taken' = AfterChunk
    /\ state' = "running" \/ (clean /\ AfterChunk = len /\ state' = "ok")
    /\ UNCHANGED <<len, unit, clean>>

Finish ==
    /\ state = "running" /\ clean /\ taken = len
    /\ state' = "ok"
    /\ UNCHANGED <<len, unit, clean, taken>>

\* The loop fails before it has taken a chunk, or with it in hand.
Fail ==
    /\ state = "running"
    /\ taken' \in {taken, AfterChunk}
    /\ state' = "error"
    /\ UNCHANGED <<len, unit, clean>>

WriterNext == Start \/ Take \/ Finish \/ Fail

WriterSpec == WriterInit /\ [][WriterNext]_writerVars
=============================================================================
