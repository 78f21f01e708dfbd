------------------------------ MODULE Delivery ------------------------------
(***************************************************************************)
(* What the Body that GetObject returns promises to its reader: the        *)
(* object's content in order, an end of file only after the last of it,    *)
(* and otherwise an error or the reader's own Close.                       *)
(***************************************************************************)
EXTENDS Integers, Sequences

VARIABLES
    content,   \* what the Body has to deliver
    readable,  \* all of it can be delivered
    got,       \* what its reader has
    end        \* "none", then "eof", "error" or "closed"

deliveryVars == <<content, readable, got, end>>

DeliveryInit == content \in Seq(Int) /\ readable \in BOOLEAN /\ got = <<>> /\ end = "none"

Deliver ==
    /\ end = "none" /\ Len(got) < Len(content)
    /\ got' = Append(got, content[Len(got) + 1])
    /\ UNCHANGED <<content, readable, end>>

Finish ==
    /\ end = "none" /\ readable /\ got = content
    /\ end' = "eof"
    /\ UNCHANGED <<content, readable, got>>

Break ==
    /\ end = "none"
    /\ end' \in {"error", "closed"}
    /\ UNCHANGED <<content, readable, got>>

\* A Body that ended with an error or at its end can still be closed.
CloseEnded ==
    /\ end \in {"eof", "error"}
    /\ end' = "closed"
    /\ UNCHANGED <<content, readable, got>>

DeliveryNext == Deliver \/ Finish \/ Break \/ CloseEnded

DeliverySpec == DeliveryInit /\ [][DeliveryNext]_deliveryVars
=============================================================================
