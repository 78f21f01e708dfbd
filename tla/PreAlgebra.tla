----------------------------- MODULE PreAlgebra -----------------------------
(***************************************************************************)
(* The proxy re-encryption of did-encryption/didencrypt/pre.go, which      *)
(* Recrypt.kt and PRE.swift compute term for term, over any field of       *)
(* scalars.  A point of the curve is represented by the scalar that        *)
(* multiplies the base point G to it, so the base point is One, adding     *)
(* points is Plus and multiplying a point by a scalar is Times.  The       *)
(* hashes are arbitrary functions: to a scalar from the points they are    *)
(* given, and Sha3 from a point to a key.                                  *)
(***************************************************************************)

CONSTANTS
    Scalar,                       \* the integers modulo the curve's order
    Zero, One,
    Plus(_, _), Times(_, _), Inverse(_),
    HashToCurve2(_, _),           \* HashToCurve of two concatenated points
    HashToCurve3(_, _, _),        \* HashToCurve of three
    Sha3(_)                       \* Sha3Hash of a point, the AES key

ASSUME Closed ==
    /\ Zero \in Scalar /\ One \in Scalar
    /\ \A a, b \in Scalar : Plus(a, b) \in Scalar /\ Times(a, b) \in Scalar
    /\ \A a \in Scalar \ {Zero} : Inverse(a) \in Scalar
    /\ \A a, b \in Scalar : HashToCurve2(a, b) \in Scalar
    /\ \A a, b, c \in Scalar : HashToCurve3(a, b, c) \in Scalar
ASSUME PlusCommutes == \A a, b \in Scalar : Plus(a, b) = Plus(b, a)
ASSUME TimesCommutes == \A a, b \in Scalar : Times(a, b) = Times(b, a)
ASSUME TimesAssociates ==
    \A a, b, c \in Scalar : Times(Times(a, b), c) = Times(a, Times(b, c))
ASSUME Distributes ==
    \A a, b, c \in Scalar : Times(Plus(a, b), c) = Plus(Times(a, c), Times(b, c))
ASSUME OneIsUnit == \A a \in Scalar : Times(a, One) = a
ASSUME InverseInverts == \A a \in Scalar \ {Zero} : Times(a, Inverse(a)) = One

\* A public key: the base point multiplied by the private key.
PublicKey(d) == Times(One, d)

\* Mutant: the challenge multiplies the other ephemeral key.
CapsuleSwapped(e, v, chunkSize) ==
    [E |-> PublicKey(e), V |-> PublicKey(v),
     S |-> Plus(e, Times(v, HashToCurve2(PublicKey(e), PublicKey(v)))),
     chunkSize |-> chunkSize]

\* generateAESKey: the capsule of two fresh ephemeral keys e and v ...
Capsule(e, v, chunkSize) ==
    [E |-> PublicKey(e), V |-> PublicKey(v),
     S |-> Plus(v, Times(e, HashToCurve2(PublicKey(e), PublicKey(v)))),
     chunkSize |-> chunkSize]

\* ... and the key that goes with it, for the owner's public key.
EncryptorKey(ownerPub, e, v) == Sha3(Times(ownerPub, Plus(e, v)))

\* decryptAESKeyByOwner
OwnerKey(d, cap) == Sha3(Times(Plus(cap.E, cap.V), d))

\* The scalar both ends of a share derive from its ephemeral public key.
Blinding(pubX, receiverPub, shared) == HashToCurve3(pubX, receiverPub, shared)

\* Mutant: the blinding is not inverted.
RekeyScalarPlain(ownerPriv, receiverPub, x) ==
    Times(ownerPriv, Blinding(PublicKey(x), receiverPub, Times(receiverPub, x)))

\* rekeyGenerate, for a fresh ephemeral key x: rk and the public key of x
RekeyScalar(ownerPriv, receiverPub, x) ==
    Times(ownerPriv,
          Inverse(Blinding(PublicKey(x), receiverPub, Times(receiverPub, x))))

\* The comparison of reEncryption: S*G = V + h*E.
Matches(cap) ==
    Times(One, cap.S)
        = Plus(cap.V, Times(cap.E, HashToCurve2(cap.E, cap.V)))

\* Mutant: the new capsule keeps the zero chunk size of a fresh struct.
ReEncryptedUnsized(rk, cap) ==
    [E |-> Times(cap.E, rk), V |-> Times(cap.V, rk), S |-> cap.S,
     chunkSize |-> 0]

\* The capsule of reEncryption: E and V multiplied, the rest kept.
ReEncrypted(rk, cap) ==
    [E |-> Times(cap.E, rk), V |-> Times(cap.V, rk), S |-> cap.S,
     chunkSize |-> cap.chunkSize]

\* decryptAESKey
ReceiverKey(d, cap, pubX) ==
    Sha3(Times(Plus(cap.E, cap.V),
               Blinding(pubX, PublicKey(d), Times(pubX, d))))
=============================================================================
