----------------------------- MODULE ChunkReader -----------------------------
(***************************************************************************)
(* What DecryptStream promises to the one that runs it: it opens the       *)
(* chunks that its input holds whole, each once and in order, and succeeds *)
(* only when the input ends cleanly behind the last of them and all are    *)
(* opened.  ChunkStream implements it byte by byte; GetObject, whose       *)
(* network may break at any time, contains it.                             *)
(***************************************************************************)
EXTENDS Integers

VARIABLES
    whole,    \* the numbers of the chunks that the input holds whole
    clean,    \* it ends cleanly, behind a chunk
    opened,   \* chunks opened
    state     \* "idle", "running", then "ok" or "error"

readerVars == <<whole, clean, opened, state>>

ReaderInit == whole \subseteq Nat /\ clean \in BOOLEAN /\ opened = 0 /\ state = "idle"

Start ==
    /\ state = "idle" /\ state' = "running"
    /\ whole' \subseteq Nat /\ clean' \in BOOLEAN
    /\ UNCHANGED opened

\* The first n chunks are all there is.
All(n) == clean /\ whole = 1..n

\* A chunk known to be the last ends the loop at once.
Open ==
    /\ state = "running" /\ opened + 1 \in whole
    /\ opened' = opened + 1
    /\ state' = "running" \/ (All(opened + 1) /\ state' = "ok")
    /\ UNCHANGED <<whole, clean>>

Finish ==
    /\ state = "running" /\ All(opened)
    /\ state' = "ok"
    /\ UNCHANGED <<whole, clean, opened>>

Fail ==
    /\ state = "running"
    /\ state' = "error"
    /\ UNCHANGED <<whole, clean, opened>>

\* The input breaks: what has not been read of it may be lost.
Lose ==
    /\ 1..opened \subseteq whole' /\ whole' \subseteq whole /\ clean' = FALSE
    /\ UNCHANGED <<opened, state>>

ReaderNext == Start \/ Open \/ Finish \/ Fail \/ Lose

ReaderSpec == ReaderInit /\ [][ReaderNext]_readerVars
=============================================================================
