-------------------------------- MODULE Signer --------------------------------
(***************************************************************************)
(* What a caller of provider.Provider may count on during one Sign: at     *)
(* most one signature is made, an answer comes at most once, and success   *)
(* means a signature.  An error tells nothing: the signature may exist, or *)
(* be made later.  VaultSign implements it, Tokens is built on it.         *)
(***************************************************************************)
EXTENDS Naturals

VARIABLES
    made,     \* signatures made for this call
    answer    \* "none", "ok" or "error"

Init == made = 0 /\ answer = "none"

Make == made = 0 /\ made' = 1 /\ UNCHANGED answer

Succeed == made = 1 /\ answer = "none" /\ answer' = "ok" /\ UNCHANGED made

Fail == answer = "none" /\ answer' = "error" /\ UNCHANGED made

Next == Make \/ Succeed \/ Fail

Spec == Init /\ [][Next]_<<made, answer>>
=============================================================================
