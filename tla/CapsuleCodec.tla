----------------------------- MODULE CapsuleCodec -----------------------------
(***************************************************************************)
(* The bytes of a capsule and of a re-capsule, and the three libraries     *)
(* that exchange them: Go (didencrypt/pre.go), Kotlin (Capsule.kt,         *)
(* Decryptor.kt) and Swift (Capsule.swift, API.swift).  Each writes five   *)
(* numbers, the coordinates of E and V and the scalar S, each behind its   *)
(* length, then the chunk size and a version.  Go writes the bytes a       *)
(* number needs, the others always Width bytes; every decryptor accepts    *)
(* one length only.  A byte is a digit of Base; a length word and the chunk *)
(* size take one cell here and four bytes in the code.                     *)
(***************************************************************************)
EXTENDS Integers, Sequences, FiniteSetsExt

CONSTANTS
    Base, Width,    \* 256 and 32 in the code
    MaxLost,        \* leading bytes of a number that may be zero, 12 in the code
    Values,         \* the numbers that occur
    Fields,         \* the five numbers of a capsule
    ChunkSizes,     \* the chunk sizes asked for
    SwiftMax,       \* didEncryptMaxChunkSize
    SignedMax,      \* the largest Int of Kotlin
    Ephemeral,      \* the bytes of a re-capsule's ephemeral point
    None

ASSUME Bytes == Base \in Nat \ {0, 1} /\ Width \in Nat /\ MaxLost \in 0..(Width - 1)

\* Five short numbers lose less than a point, so that no re-capsule has the
\* length of a capsule.  A number of the code loses more with probability 2^-104.
ASSUME LostIsLess == 5 * MaxLost < 1 + 2 * Width

\* Power[k] is Base to the k.
Power[k \in 0..Width] == IF k = 0 THEN 1 ELSE Base * Power[k - 1]

ASSUME ValuesFit == Values \subseteq Power[Width - MaxLost - 1]..(Power[Width] - 1)
ASSUME FieldsAreFive == Fields \subseteq [1..5 -> Values]
ASSUME PointIsBytes == Ephemeral \in Seq(Nat) /\ Len(Ephemeral) = 1 + 2 * Width
ASSUME Limits == SwiftMax \in Nat /\ SignedMax \in Nat /\ SwiftMax < SignedMax
ASSUME ChunkSizesFit == ChunkSizes \subseteq 0..(2 * SignedMax + 1)

Go == "go"
Kotlin == "kotlin"
Swift == "swift"
Libraries == {Go, Kotlin, Swift}

CapsuleSize == 5 * (1 + Width) + 2                \* 185
ReCapsuleSize == CapsuleSize + 1 + 2 * Width      \* 250

VARIABLES
    origin,     \* what the encryptor's capsule holds, and the library it is of
    capsule,    \* its bytes
    shares      \* the re-capsules, with what each holds

vars == <<origin, capsule, shares>>

\* None is neither what a capsule holds nor what one is read as.
ASSUME NoneIsNoCapsule ==
    /\ None \notin [fields : Seq(Nat), chunkSize : Int]
    /\ None \notin [lib : Libraries, fields : Fields, chunkSize : ChunkSizes]
-----------------------------------------------------------------------------
(* Encoding *)

\* The Width bytes of n, the most significant first.
Padded(n) == [i \in 1..Width |-> (n \div Power[Width - i]) % Base]

\* big.Int's Bytes: no leading zero.
Minimal(n) ==
    LET p == Padded(n)
        zeros == Max({k \in 0..Width : \A i \in 1..k : p[i] = 0})
    IN  SubSeq(p, zeros + 1, Width)

\* Mutant: Kotlin writes a number as Go does.
NumberAlikeFor(lib, n) == Minimal(n)

NumberFor(lib, n) == IF lib = Go THEN Minimal(n) ELSE Padded(n)

\* A number behind its length.
WriteField(lib, n) == <<Len(NumberFor(lib, n))>> \o NumberFor(lib, n)

\* Mutant: S goes before the points.
EncodeSFirst(lib, cap) ==
    WriteField(lib, cap.fields[5])
      \o WriteField(lib, cap.fields[1]) \o WriteField(lib, cap.fields[2])
      \o WriteField(lib, cap.fields[3]) \o WriteField(lib, cap.fields[4])
      \o <<cap.chunkSize, 0>>

\* encodeCapsule: E.X, E.Y, V.X, V.Y, S, the chunk size, the version.
Encode(lib, cap) ==
    WriteField(lib, cap.fields[1]) \o WriteField(lib, cap.fields[2])
      \o WriteField(lib, cap.fields[3]) \o WriteField(lib, cap.fields[4])
      \o WriteField(lib, cap.fields[5])
      \o <<cap.chunkSize, 0>>
-----------------------------------------------------------------------------
(* Decoding *)

\* The most significant byte first.
Number(bytes) ==
    LET value[i \in 0..Len(bytes)] ==
            IF i = 0 THEN 0 ELSE value[i - 1] * Base + bytes[i]
    IN  value[Len(bytes)]

Unread == [rest |-> <<>>, fields |-> <<>>, ok |-> FALSE]

\* Kotlin's get underflows when fewer bytes are left, as Swift's does; Swift
\* wants exactly Width.  Go's readBig ignores a short read, unless nothing is left.
Readable(lib, n, left) ==
    /\ lib # Go => n <= left
    /\ lib = Swift => n = Width
    /\ lib = Go => left > 0

Zeros(k) == [i \in 1..k |-> 0]

\* One length word and as many bytes; those Go does not get stay zero.
ReadField(lib, r) ==
    IF ~r.ok \/ r.rest = <<>> THEN Unread
    ELSE LET n == Head(r.rest)
             data == Tail(r.rest)
             have == Min({n, Len(data)})
             bytes == SubSeq(data, 1, have) \o Zeros(n - have)
         IN  IF ~Readable(lib, n, Len(data)) THEN Unread
             ELSE [rest |-> SubSeq(data, have + 1, Len(data)),
                   fields |-> Append(r.fields, Number(bytes)), ok |-> TRUE]

\* Only Swift looks at the version, at what follows it and at the chunk size.
EndReadable(lib, rest) ==
    /\ Len(rest) >= 2
    /\ lib = Swift => Len(rest) = 2 /\ rest[2] = 0 /\ rest[1] <= SwiftMax

\* The chunk size as the library's type holds it: Kotlin reads a signed Int.
ChunkSizeFor(lib, c) ==
    IF lib = Kotlin /\ c > SignedMax THEN c - 2 * (SignedMax + 1) ELSE c

\* decodeCapsule: what it reads, or None.
Decode(lib, bytes) ==
    LET read[i \in 0..5] ==
            IF i = 0 THEN [rest |-> bytes, fields |-> <<>>, ok |-> TRUE]
            ELSE ReadField(lib, read[i - 1])
        r == read[5]
    IN  IF ~r.ok \/ ~EndReadable(lib, r.rest) THEN None
        ELSE [fields |-> r.fields, chunkSize |-> ChunkSizeFor(lib, r.rest[1])]

\* NewDecryptorByOwner: a capsule, by its length.
ByOwner(lib, bytes) ==
    IF Len(bytes) # CapsuleSize THEN None ELSE Decode(lib, bytes)

\* NewDecryptor: a re-capsule, by its length; the rest is the point.
ByReceiver(lib, bytes) ==
    IF Len(bytes) # ReCapsuleSize THEN None
    ELSE Decode(lib, SubSeq(bytes, 1, CapsuleSize))

\* NewPreDecryptor of the Go client takes any other length for a re-capsule.
ByProvider(bytes) ==
    IF Len(bytes) = CapsuleSize THEN ByOwner(Go, bytes) ELSE ByReceiver(Go, bytes)
-----------------------------------------------------------------------------
Init == origin = None /\ capsule = None /\ shares = {}

\* NewEncryptor, with the coordinates and the scalar the fresh keys give.
\* Swift refuses a chunk size above its maximum.
NewEncryptor(lib, fields, c) ==
    /\ origin = None
    /\ lib = Swift => c <= SwiftMax
    /\ origin' = [lib |-> lib, fields |-> fields, chunkSize |-> c]
    /\ capsule' = Encode(lib, [fields |-> fields, chunkSize |-> c])
    /\ UNCHANGED shares

\* CreateReCapsule: no length is checked here, and reEncryption accepts what
\* was decoded only when it is the capsule that was encoded.  E and V get new
\* coordinates, S and the chunk size stay.
CreateReCapsule(lib, coordinates) ==
    /\ origin # None /\ shares = {}
    /\ Decode(lib, capsule) # None
    /\ Decode(lib, capsule).fields = origin.fields
    /\ LET cap == [fields |-> Append(coordinates, origin.fields[5]),
                   chunkSize |-> origin.chunkSize]
       IN  shares' = {[lib |-> lib, fields |-> cap.fields,
                       chunkSize |-> cap.chunkSize,
                       bytes |-> Encode(lib, cap) \o Ephemeral]}
    /\ UNCHANGED <<origin, capsule>>

Next ==
    \/ \E lib \in Libraries, f \in Fields, c \in ChunkSizes :
        NewEncryptor(lib, f, c)
    \/ \E lib \in Libraries, f \in Fields : CreateReCapsule(lib, SubSeq(f, 1, 4))

Spec == Init /\ [][Next]_vars
-----------------------------------------------------------------------------
(* Properties *)

Same(decoded, held) ==
    decoded.fields = held.fields /\ decoded.chunkSize = held.chunkSize

ChunkFits(lib, c) ==
    CASE lib = Go -> TRUE [] lib = Kotlin -> c <= SignedMax [] lib = Swift -> c <= SwiftMax

IsShort(fields) == \E i \in DOMAIN fields : fields[i] < Power[Width - 1]

\* No bytes are misread: a capsule or re-capsule that any library's decryptor
\* accepts, or that the Go client's provider tells apart by its length alone,
\* decodes to the coordinates, the scalar and the chunk size it was made of.
AcceptedIsRight ==
    /\ origin # None =>
        /\ ByProvider(capsule) # None => Same(ByProvider(capsule), origin)
        /\ \A lib \in Libraries :
             /\ ByReceiver(lib, capsule) = None
             /\ ByOwner(lib, capsule) # None /\ ChunkFits(lib, origin.chunkSize)
                  => Same(ByOwner(lib, capsule), origin)
    /\ \A s \in shares :
        /\ ByProvider(s.bytes) # None => Same(ByProvider(s.bytes), s)
        /\ \A lib \in Libraries :
             /\ ByOwner(lib, s.bytes) = None
             /\ ByReceiver(lib, s.bytes) # None /\ ChunkFits(lib, s.chunkSize)
                  => Same(ByReceiver(lib, s.bytes), s)

\* A refusal has one of two causes: the bytes are Go's and one of the numbers
\* is short, or the chunk size is above Swift's maximum.  So what Kotlin or
\* Swift writes opens everywhere, a re-capsule they made of Go's capsule too.
RefusedHasCause ==
    \A lib \in Libraries :
        /\ origin # None /\ ByOwner(lib, capsule) = None =>
            \/ origin.lib = Go /\ IsShort(origin.fields)
            \/ lib = Swift /\ origin.chunkSize > SwiftMax
        /\ \A s \in shares :
            ByReceiver(lib, s.bytes) = None =>
                \/ s.lib = Go /\ IsShort(s.fields)
                \/ lib = Swift /\ s.chunkSize > SwiftMax

\* What the Kotlin README says: a capsule or re-capsule produced by the Go
\* library can be decrypted by the Kotlin library.
GoOpensInKotlin ==
    /\ origin # None /\ origin.lib = Go => ByOwner(Kotlin, capsule) # None
    /\ \A s \in shares : s.lib = Go => ByReceiver(Kotlin, s.bytes) # None
-----------------------------------------------------------------------------
(* The inductive invariant: a capsule is the bytes of what its encryptor     *)
(* holds, a re-capsule those of what it holds and a point, and the chunk     *)
(* size is the same.                                                         *)
Holds == [lib : Libraries, fields : [1..5 -> Values], chunkSize : ChunkSizes]

CodecInv ==
    /\ origin = None => shares = {}
    /\ origin # None =>
        origin \in Holds /\ capsule = Encode(origin.lib, origin)
    /\ \A s \in shares :
        /\ [lib |-> s.lib, fields |-> s.fields, chunkSize |-> s.chunkSize] \in Holds
        /\ s.chunkSize = origin.chunkSize
        /\ s.bytes = Encode(s.lib, s) \o Ephemeral
=============================================================================
