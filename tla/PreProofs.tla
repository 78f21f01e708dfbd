----------------------------- MODULE PreProofs -----------------------------
(***************************************************************************)
(* Proxy re-encryption opens what it should, for every field of scalars,   *)
(* every choice of the hashes and any number of users and re-capsules.     *)
(***************************************************************************)
EXTENDS Pre, TLAPS

\* One is a unit on both sides: a public key stands for its private key.
LEMMA PublicKeyIs ==
    ASSUME NEW d \in Scalar
    PROVE  PublicKey(d) = d
BY Closed, TimesCommutes, OneIsUnit DEF PublicKey

LEMMA NonZeroIsScalar == NonZero \subseteq Scalar
BY DEF NonZero

\* What generateAESKey returns is a capsule.
LEMMA CapsuleType ==
    ASSUME NEW e \in Scalar, NEW v \in Scalar, NEW n \in ChunkSizes
    PROVE  Capsule(e, v, n) \in Capsules
<1>1. PublicKey(e) = e /\ PublicKey(v) = v
  BY PublicKeyIs
<1>2. HashToCurve2(e, v) \in Scalar
  BY Closed
<1>3. Plus(v, Times(e, HashToCurve2(e, v))) \in Scalar
  BY <1>2, Closed
<1> QED
  BY <1>1, <1>3 DEF Capsule, Capsules

\* (e + v) * d is d * (e + v): the owner derives the encryptor's key.
LEMMA OwnerDerives ==
    ASSUME NEW d \in Scalar, NEW e \in Scalar, NEW v \in Scalar, NEW n
    PROVE  OwnerKey(d, Capsule(e, v, n)) = EncryptorKey(PublicKey(d), e, v)
<1>1. PublicKey(e) = e /\ PublicKey(v) = v /\ PublicKey(d) = d
  BY PublicKeyIs
<1>2. Plus(e, v) \in Scalar
  BY Closed
<1>3. Times(Plus(e, v), d) = Times(d, Plus(e, v))
  BY <1>2, TimesCommutes
<1>4. OwnerKey(d, Capsule(e, v, n)) = Sha3(Times(Plus(e, v), d))
  BY <1>1 DEF OwnerKey, Capsule
<1> QED
  BY <1>1, <1>3, <1>4 DEF EncryptorKey

\* The capsule of generateAESKey passes the comparison of reEncryption.
LEMMA CapsuleMatches ==
    ASSUME NEW e \in Scalar, NEW v \in Scalar, NEW n
    PROVE  Matches(Capsule(e, v, n))
<1> DEFINE h == HashToCurve2(e, v)
<1>1. PublicKey(e) = e /\ PublicKey(v) = v
  BY PublicKeyIs
<1>2. h \in Scalar /\ Times(e, h) \in Scalar
  BY Closed
<1>3. Plus(v, Times(e, h)) \in Scalar
  BY <1>2, Closed
<1>4. Times(One, Plus(v, Times(e, h))) = Plus(v, Times(e, h))
  BY <1>3, Closed, TimesCommutes, OneIsUnit
<1> QED
  BY <1>1, <1>4 DEF Matches, Capsule

\* Multiplying by a/b and then by b multiplies by a.
LEMMA BlindingCancels ==
    ASSUME NEW p \in Scalar, NEW a \in Scalar, NEW b \in Scalar \ {Zero}
    PROVE  Times(Times(p, Times(a, Inverse(b))), b) = Times(p, a)
<1>1. Inverse(b) \in Scalar
  BY Closed
<1>2. Times(a, Inverse(b)) \in Scalar
  BY <1>1, Closed
<1>3. Times(Times(p, Times(a, Inverse(b))), b)
        = Times(p, Times(Times(a, Inverse(b)), b))
  BY <1>2, TimesAssociates
<1>4. Times(Times(a, Inverse(b)), b) = Times(a, Times(Inverse(b), b))
  BY <1>1, TimesAssociates
<1>5. Times(Inverse(b), b) = One
  BY <1>1, TimesCommutes, InverseInverts
<1>6. Times(a, One) = a
  BY OneIsUnit
<1> QED
  BY <1>3, <1>4, <1>5, <1>6

\* What CreateReCapsule makes of the owner's capsule gives the receiver the
\* encryptor's key: both ends derive the same blinding, and it cancels.
LEMMA ReceiverDerives ==
    ASSUME NEW a \in Scalar, NEW r \in Scalar, NEW x \in Scalar,
           NEW e \in Scalar, NEW v \in Scalar, NEW n,
           Blinding(PublicKey(x), PublicKey(r), Times(PublicKey(r), x)) # Zero
    PROVE  ReceiverKey(r, ReEncrypted(RekeyScalar(a, PublicKey(r), x),
                                      Capsule(e, v, n)), PublicKey(x))
             = EncryptorKey(PublicKey(a), e, v)
<1> DEFINE b == HashToCurve3(x, r, Times(r, x))
           rk == Times(a, Inverse(b))
<1>1. /\ PublicKey(a) = a /\ PublicKey(r) = r /\ PublicKey(x) = x
      /\ PublicKey(e) = e /\ PublicKey(v) = v
  BY PublicKeyIs
<1>2. Times(r, x) \in Scalar /\ Times(r, x) = Times(x, r)
  BY Closed, TimesCommutes
<1>3. b \in Scalar \ {Zero}
  BY <1>1, <1>2, Closed DEF Blinding
<1>4. rk \in Scalar /\ Plus(e, v) \in Scalar
  BY <1>3, Closed
<1>5. RekeyScalar(a, PublicKey(r), x) = rk
  BY <1>1 DEF RekeyScalar, Blinding
<1>6. ReceiverKey(r, ReEncrypted(rk, Capsule(e, v, n)), PublicKey(x))
        = Sha3(Times(Plus(Times(e, rk), Times(v, rk)), b))
  BY <1>1, <1>2 DEF ReceiverKey, ReEncrypted, Capsule, Blinding
<1>7. Plus(Times(e, rk), Times(v, rk)) = Times(Plus(e, v), rk)
  BY <1>4, Distributes
<1>8. Times(Times(Plus(e, v), rk), b) = Times(Plus(e, v), a)
  BY <1>3, <1>4, BlindingCancels
<1>9. Times(Plus(e, v), a) = Times(a, Plus(e, v))
  BY <1>4, TimesCommutes
<1> QED
  BY <1>1, <1>5, <1>6, <1>7, <1>8, <1>9 DEF EncryptorKey

\* A re-encrypted capsule is a capsule.
LEMMA ReEncryptedType ==
    ASSUME NEW cap \in Capsules, NEW a \in Scalar, NEW r \in Scalar,
           NEW x \in Scalar,
           Blinding(PublicKey(x), r, Times(r, x)) # Zero
    PROVE  ReEncrypted(RekeyScalar(a, r, x), cap) \in Capsules
<1> DEFINE b == HashToCurve3(x, r, Times(r, x))
           rk == Times(a, Inverse(b))
<1>1. PublicKey(x) = x
  BY PublicKeyIs
<1>2. Times(r, x) \in Scalar
  BY Closed
<1>3. b \in Scalar \ {Zero}
  BY <1>1, <1>2, Closed DEF Blinding
<1>4. rk \in Scalar
  BY <1>3, Closed
<1>5. RekeyScalar(a, r, x) = rk
  BY <1>1 DEF RekeyScalar, Blinding
<1>6. /\ cap.E \in Scalar /\ cap.V \in Scalar /\ cap.S \in Scalar
      /\ cap.chunkSize \in ChunkSizes
  BY DEF Capsules
<1>7. Times(cap.E, rk) \in Scalar /\ Times(cap.V, rk) \in Scalar
  BY <1>4, <1>6, Closed
<1> QED
  BY <1>5, <1>6, <1>7 DEF ReEncrypted, Capsules
-----------------------------------------------------------------------------
LEMMA InitInv == Init => Inv
BY NoneIsNoUser DEF Init, Inv, TypeOK, Made, Direct, NonZero

\* NewEncryptor makes the capsule and the key in one go, and no share exists yet.
LEMMA EncryptorInv ==
    ASSUME Inv, NEW u \in Users, NEW n \in ChunkSizes,
           NEW e \in NonZero, NEW v \in NonZero, NewEncryptor(u, n, e, v)
    PROVE  Inv'
<1> USE DEF NewEncryptor
<1>1. e \in Scalar /\ v \in Scalar
  BY NonZeroIsScalar
<1>2. shares = {} /\ shares' = {}
  BY DEF Inv, Made
<1>3. TypeOK'
  BY <1>1, <1>2, CapsuleType, NoneIsNoUser DEF Inv, TypeOK
<1>4. Made'
  BY NoneIsNoUser DEF Made
<1>5. Direct'
  BY <1>2 DEF Direct
<1> QED
  BY <1>3, <1>4, <1>5 DEF Inv

\* CreateReCapsule adds one share, a hop further than its source.
LEMMA ReCapsuleInv ==
    ASSUME Inv, NEW by \in Users, NEW to \in Users, NEW src \in Sources,
           NEW x \in NonZero, CreateReCapsule(by, to, src, x)
    PROVE  Inv'
<1> DEFINE r == PublicKey(priv[to])
           new == [cap |-> ReEncrypted(RekeyScalar(priv[by], r, x), src.cap),
                   pubX |-> PublicKey(x), by |-> by, to |-> to,
                   hops |-> src.hops + 1]
<1>1. /\ shares' = shares \cup {new}
      /\ Blinding(PublicKey(x), r, Times(r, x)) # Zero
      /\ UNCHANGED <<priv, owner, capsule, key>> /\ owner # None
  BY DEF CreateReCapsule
<1>2. priv[by] \in Scalar /\ priv[to] \in Scalar /\ x \in Scalar
  BY NonZeroIsScalar DEF Inv, TypeOK
<1>3. r \in Scalar /\ PublicKey(x) \in Scalar
  BY <1>2, PublicKeyIs
<1>4. /\ src.cap \in Capsules /\ src.hops \in Nat
      /\ src.hops = 0 => src.cap = capsule
  BY <1>1 DEF Sources, Inv, TypeOK
<1>5. ReEncrypted(RekeyScalar(priv[by], r, x), src.cap) \in Capsules
  BY <1>1, <1>2, <1>3, <1>4, ReEncryptedType
<1>6. src.hops + 1 \in Nat \ {0}
  BY <1>4
<1>7. TypeOK'
  <2>1. new \in [cap : Capsules, pubX : Scalar, by : Users, to : Users,
                 hops : Nat \ {0}]
    BY <1>3, <1>5, <1>6
  <2>2. Capsules' = Capsules
    BY DEF Capsules
  <2> QED
    BY <1>1, <2>1, <2>2 DEF Inv, TypeOK
<1>8. Made'
  BY <1>1 DEF Inv, Made
<1>9. Direct'
  <2> SUFFICES ASSUME NEW s \in shares', s.hops = 1
               PROVE  \E y \in NonZero :
                        /\ Blinding(PublicKey(y), PublicKey(priv[s.to]),
                                    Times(PublicKey(priv[s.to]), y)) # Zero
                        /\ s.pubX = PublicKey(y)
                        /\ s.cap = ReEncrypted(
                             RekeyScalar(priv[s.by], PublicKey(priv[s.to]), y),
                             capsule)
    BY <1>1 DEF Direct
  <2>1. CASE s \in shares
    BY <2>1 DEF Inv, Direct
  <2>2. CASE s = new
    <3>1. src.hops = 0
      BY <1>4, <2>2
    <3>2. src.cap = capsule
      BY <3>1, <1>4
    <3> QED
      BY <1>1, <2>2, <3>2
  <2> QED
    BY <1>1, <2>1, <2>2
<1> QED
  BY <1>7, <1>8, <1>9 DEF Inv

LEMMA StepInv == Inv /\ [Next]_vars => Inv'
<1> SUFFICES ASSUME Inv, [Next]_vars PROVE Inv'
  OBVIOUS
<1>1. CASE UNCHANGED vars
  BY <1>1 DEF vars, Inv, TypeOK, Made, Direct, Capsules
<1>2. CASE \E u \in Users, n \in ChunkSizes, e, v \in NonZero :
             NewEncryptor(u, n, e, v)
  BY <1>2, EncryptorInv
<1>3. CASE \E by, to \in Users, src \in Sources, x \in NonZero :
             CreateReCapsule(by, to, src, x)
  BY <1>3, ReCapsuleInv
<1> QED
  BY <1>1, <1>2, <1>3 DEF Next

LEMMA Invariance == Spec => []Inv
BY InitInv, StepInv, PTL DEF Spec
-----------------------------------------------------------------------------
\* Every variable keeps its type.
THEOREM TypeCorrect == Spec => []TypeOK
<1>1. Inv => TypeOK
  BY DEF Inv
<1> QED
  BY <1>1, Invariance, PTL

\* NewDecryptorByOwner derives NewEncryptor's key, and CreateReCapsule never
\* answers that the owner's capsule does not match.
THEOREM Owner == Spec => []OwnerOpens
<1>1. Inv => OwnerOpens
  <2> SUFFICES ASSUME Inv, owner # None
               PROVE  /\ OwnerKey(priv[owner], capsule) = key
                      /\ Matches(capsule)
    BY DEF OwnerOpens
  <2>1. PICK e \in NonZero, v \in NonZero, n \in ChunkSizes :
          /\ capsule = Capsule(e, v, n)
          /\ key = EncryptorKey(PublicKey(priv[owner]), e, v)
    BY DEF Inv, Made
  <2>2. priv[owner] \in Scalar /\ e \in Scalar /\ v \in Scalar
    BY NonZeroIsScalar DEF Inv, TypeOK
  <2> QED
    BY <2>1, <2>2, OwnerDerives, CapsuleMatches
<1> QED
  BY <1>1, Invariance, PTL

\* NewDecryptor, with a re-capsule the owner made of the capsule, derives
\* NewEncryptor's key and its chunk size.
THEOREM Receiver == Spec => []ReceiverOpens
<1>1. Inv => ReceiverOpens
  <2> SUFFICES ASSUME Inv, NEW s \in shares, s.by = owner, s.hops = 1
               PROVE  /\ ReceiverKey(priv[s.to], s.cap, s.pubX) = key
                      /\ s.cap.chunkSize = capsule.chunkSize
    BY DEF ReceiverOpens
  <2>1. owner # None
    BY DEF Inv, Made
  <2>2. PICK e \in NonZero, v \in NonZero, n \in ChunkSizes :
          /\ capsule = Capsule(e, v, n)
          /\ key = EncryptorKey(PublicKey(priv[owner]), e, v)
    BY <2>1 DEF Inv, Made
  <2>3. PICK x \in NonZero :
          /\ Blinding(PublicKey(x), PublicKey(priv[s.to]),
                      Times(PublicKey(priv[s.to]), x)) # Zero
          /\ s.pubX = PublicKey(x)
          /\ s.cap = ReEncrypted(
                RekeyScalar(priv[s.by], PublicKey(priv[s.to]), x), capsule)
    BY DEF Inv, Direct
  <2>4. /\ priv[owner] \in Scalar /\ priv[s.to] \in Scalar
        /\ e \in Scalar /\ v \in Scalar /\ x \in Scalar
    BY <2>1, NonZeroIsScalar DEF Inv, TypeOK
  <2>5. ReceiverKey(priv[s.to], s.cap, s.pubX) = key
    BY <2>2, <2>3, <2>4, ReceiverDerives
  <2>6. s.cap.chunkSize = capsule.chunkSize
    BY <2>3 DEF ReEncrypted
  <2> QED
    BY <2>5, <2>6
<1> QED
  BY <1>1, Invariance, PTL
=============================================================================
