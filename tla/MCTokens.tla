------------------------------- MODULE MCTokens -------------------------------
(* An instance of Tokens for TLC: see Tokens.cfg. *)
EXTENDS Tokens, TLC

CONSTANTS m1, m2, app, ann, bob, u1, u2

MCKnows == (u1 :> {app, ann, bob}) @@ (u2 :> {ann})

Cred(issuer, by, form, subject) ==
    [issuer |-> issuer, by |-> by, form |-> form, subject |-> subject,
     named |-> TRUE]

Good == Cred(ann, ann, "jwt", ("role" :> "owner"))
Renamed == Cred(bob, bob, "jwt", ("issuer" :> "ann") @@ ("cid" :> "c"))
Forged == Cred(ann, bob, "jwt", ("role" :> "owner"))
Embedded == Cred(ann, ann, "object", ("role" :> "owner"))
Unnamed == [Cred(bob, bob, "jwt", ("role" :> "viewer")) EXCEPT !.named = FALSE]
Garbage == Cred(None, None, "bad", <<>>)
MCTrust == Cred(app, app, "jwt", <<>>)

MCCredentials == {Good, Renamed, Forged, Embedded, Unnamed, Garbage, MCTrust}

Token(holder, by, creds) ==
    [holder |-> holder, by |-> by, creds |-> creds, listed |-> TRUE]

MCPresented ==
    {Token(ann, by, creds) : by \in {ann, bob},
        creds \in {<<Good>>, <<Good, Renamed>>, <<Renamed, Good>>,
                   <<Good, Forged>>, <<Good, Embedded>>, <<Unnamed>>}}
      \cup {Token(bob, bob, <<Good>>),
            [holder |-> ann, by |-> ann, creds |-> <<>>, listed |-> FALSE]}

Struct(typed, role) ==
    [pointer |-> TRUE, typed |-> typed,
     fields |-> ("role" :> role) @@ ("issuer" :> "")]

\* A fresh struct, one of an earlier call, one whose role is not a string, and
\* a value instead of a pointer.
Structs == {Struct({}, ""), Struct({}, "viewer"), Struct({"role"}, ""),
            [pointer |-> FALSE, typed |-> {}, fields |-> ("role" :> "")]}

MCTargets == {<<s>> : s \in Structs} \cup {<<s, t>> : s, t \in Structs}
=============================================================================
