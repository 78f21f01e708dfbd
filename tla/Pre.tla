--------------------------------- MODULE Pre ---------------------------------
(***************************************************************************)
(* The life of one file's capsule among users with key pairs: an owner's   *)
(* NewEncryptor makes it, CreateReCapsule re-encrypts it for a receiver,   *)
(* with whatever private key its caller passes and also from a re-capsule, *)
(* of which it decodes the first 185 bytes (didencrypt/pre.go).  What each *)
(* user's decryptor would derive is then a matter of PreAlgebra.           *)
(***************************************************************************)
EXTENDS PreAlgebra, Naturals, FiniteSets

CONSTANTS
    Users,
    MaxShares,     \* re-capsules made in one behaviour
    ChunkSizes,
    None           \* no owner, capsule or key yet

ASSUME NoneIsNoUser == None \notin Users

VARIABLES
    priv,     \* each user's private key
    owner,    \* whose public key the capsule was made for
    capsule,  \* the capsule
    key,      \* the AES key NewEncryptor put in the encryptor
    shares    \* the re-capsules made

vars == <<priv, owner, capsule, key, shares>>

NonZero == Scalar \ {Zero}

Init ==
    /\ priv \in [Users -> NonZero]
    /\ owner = None /\ capsule = None /\ key = None
    /\ shares = {}

\* NewEncryptor(pubKey, chunkSize): e and v come from GenerateKeys.  A sum of
\* zero multiplies the public key to a point without coordinates: a panic.
NewEncryptor(u, n, e, v) ==
    /\ owner = None
    /\ Plus(e, v) # Zero
    /\ owner' = u
    /\ capsule' = Capsule(e, v, n)
    /\ key' = EncryptorKey(PublicKey(priv[u]), e, v)
    /\ UNCHANGED <<priv, shares>>

\* A source of CreateReCapsule: the capsule or an earlier re-capsule.
Sources == {[cap |-> capsule, hops |-> 0]}
             \cup {[cap |-> s.cap, hops |-> s.hops] : s \in shares}

\* CreateReCapsule(ownerPrvKey, recieverPubKey, capsule), x from GenerateKeys.
\* A capsule that does not match is an error.  A blinding of zero, which has no
\* inverse, and a zero that multiplies a point in reEncryption are panics.
CreateReCapsule(by, to, src, x) ==
    /\ owner # None /\ Cardinality(shares) < MaxShares
    /\ src.cap.S # Zero /\ HashToCurve2(src.cap.E, src.cap.V) # Zero
    /\ Blinding(PublicKey(x), PublicKey(priv[to]),
                Times(PublicKey(priv[to]), x)) # Zero
    /\ Matches(src.cap)
    /\ shares' = shares \cup
        {[cap |-> ReEncrypted(RekeyScalar(priv[by], PublicKey(priv[to]), x), src.cap),
          pubX |-> PublicKey(x), by |-> by, to |-> to, hops |-> src.hops + 1]}
    /\ UNCHANGED <<priv, owner, capsule, key>>

Next ==
    \/ \E u \in Users, n \in ChunkSizes, e, v \in NonZero : NewEncryptor(u, n, e, v)
    \/ \E by, to \in Users, src \in Sources, x \in NonZero :
        CreateReCapsule(by, to, src, x)

Spec == Init /\ [][Next]_vars
-----------------------------------------------------------------------------
(* Properties *)

Capsules == [E : Scalar, V : Scalar, S : Scalar, chunkSize : ChunkSizes]

\* Every variable keeps its type.
TypeOK ==
    /\ priv \in [Users -> NonZero] /\ owner \in Users \cup {None}
    /\ owner # None => capsule \in Capsules
    /\ shares \subseteq [cap : Capsules, pubX : Scalar, by : Users, to : Users,
                         hops : Nat \ {0}]

\* The owner's private key opens the capsule made for its public key, and its
\* re-encryption is never refused: what generateAESKey puts in it passes the
\* comparison of reEncryption.
OwnerOpens ==
    owner # None =>
        /\ OwnerKey(priv[owner], capsule) = key
        /\ Matches(capsule)

\* A re-capsule that the owner made from the capsule gives its receiver, with
\* the receiver's own private key, the key the file was encrypted with, and the
\* chunk size it was encrypted in.
ReceiverOpens ==
    \A s \in shares :
        s.by = owner /\ s.hops = 1 =>
            /\ ReceiverKey(priv[s.to], s.cap, s.pubX) = key
            /\ s.cap.chunkSize = capsule.chunkSize
-----------------------------------------------------------------------------
(* The parts of the inductive invariant *)

\* The capsule and the key came from one call, for the owner's public key.
Made ==
    IF owner = None
    THEN shares = {}
    ELSE \E e, v \in NonZero, n \in ChunkSizes :
            /\ capsule = Capsule(e, v, n)
            /\ key = EncryptorKey(PublicKey(priv[owner]), e, v)

\* A re-capsule one hop away was made from the capsule.
Direct ==
    \A s \in shares :
        s.hops = 1 =>
            \E x \in NonZero :
                /\ Blinding(PublicKey(x), PublicKey(priv[s.to]),
                            Times(PublicKey(priv[s.to]), x)) # Zero
                /\ s.pubX = PublicKey(x)
                /\ s.cap = ReEncrypted(
                        RekeyScalar(priv[s.by], PublicKey(priv[s.to]), x), capsule)

Inv == TypeOK /\ Made /\ Direct
=============================================================================
