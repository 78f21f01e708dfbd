------------------------------- MODULE Upload -------------------------------
(***************************************************************************)
(* What PutObject promises its caller, whatever goroutines and pipes it    *)
(* uses: the gateway stores a beginning of the body at most once, and only *)
(* all of it if it waits for the end of the request; the call succeeds only*)
(* if a file was stored, and it may fail at any time, also afterwards.     *)
(***************************************************************************)
EXTENDS Integers, Sequences

CONSTANT MaxBlocks

VARIABLES
    len,       \* the body's length, in blocks
    readable,  \* it ends in what PutObject takes for an end
    waits,     \* the gateway stores a file only after the request has ended
    stored,    \* the gateway has a file
    file,      \* that file's blocks
    result     \* what the call returned

uploadVars == <<len, readable, waits, stored, file, result>>

Whole(n) == [i \in 1..n |-> i]

UploadInit ==
    /\ len \in 0..MaxBlocks /\ readable \in BOOLEAN /\ waits \in BOOLEAN
    /\ stored = FALSE /\ file = <<>> /\ result = "none"

StoreFile ==
    /\ ~stored
    /\ \E n \in 0..len :
        /\ waits => readable /\ n = len
        /\ stored' = TRUE /\ file' = Whole(n)
    /\ UNCHANGED <<len, readable, waits, result>>

Succeed ==
    /\ result = "none" /\ stored
    /\ result' = "ok"
    /\ UNCHANGED <<len, readable, waits, stored, file>>

Fail ==
    /\ result = "none"
    /\ result' = "error"
    /\ UNCHANGED <<len, readable, waits, stored, file>>

UploadNext == StoreFile \/ Succeed \/ Fail

UploadSpec == UploadInit /\ [][UploadNext]_uploadVars

\* The call returns.
UploadFairSpec == UploadSpec /\ WF_uploadVars(Succeed \/ Fail)
=============================================================================
