------------------------------- MODULE Messages -------------------------------
(***************************************************************************)
(* From a capsule to a decrypted message: the decryptors that the three    *)
(* libraries make of the capsules of CapsuleCodec, what becomes of one that *)
(* is saved as hex and loaded again, perhaps by another library, and the   *)
(* single-message mode (recrypt.go, aesgcm.go), which the chunk size 0     *)
(* stands for.  AES-GCM is external: a message opens under its own key and *)
(* nonce only.  Owner and receiver have the right private keys, with which *)
(* Pre derives the key from what the capsule holds.                        *)
(***************************************************************************)
EXTENDS CapsuleCodec

CONSTANT MaxMoves    \* times a decryptor is saved and loaded

VARIABLES
    cipher,   \* what Encrypt answered: None, "refused" or the nonce it used
    dec,      \* the decryptor: its library, whether its key (and the nonce
              \* that goes with it) is right, its chunk size, how often it was
              \* moved, and, as history, whether it was whole each time
    text      \* what its Decrypt answered

\* None is no answer and no decryptor.
ASSUME NoneIsNoAnswer ==
    /\ None \notin {"derived", "prepended", "message", "refused", "error"}
    /\ None \notin [lib : Libraries, key : BOOLEAN, chunkSize : Int, moves : Nat,
                    intact : BOOLEAN]

messageVars == <<cipher, dec, text>>
allVars == <<vars, messageVars>>

MessageInit == Init /\ cipher = None /\ dec = None /\ text = None
-----------------------------------------------------------------------------
(* The mode *)

\* Mutant: a chunk size that Kotlin reads as negative counts as none.
NotPositive(c) == c <= 0

MessageMode(c) == c = 0

StreamMode(c) == c > 0

\* Go and Kotlin seal under the nonce that goes with the key.  Swift makes one
\* and puts it before the ciphertext, where its Decrypt looks for it.
NonceOf(lib) == IF lib = Swift THEN "prepended" ELSE "derived"

\* Encrypt: refused in stream mode.
Encrypt ==
    /\ origin # None /\ cipher = None
    /\ cipher' = IF MessageMode(ChunkSizeFor(origin.lib, origin.chunkSize))
                 THEN NonceOf(origin.lib) ELSE "refused"
    /\ UNCHANGED <<vars, dec, text>>
-----------------------------------------------------------------------------
(* Decryptors *)

\* The key is right if it is derived from the capsule as it was made.
Made(lib, decoded, held) ==
    [lib |-> lib, key |-> decoded.fields = held.fields,
     chunkSize |-> decoded.chunkSize, moves |-> 0, intact |-> TRUE]

NewDecryptorByOwner(lib) ==
    /\ origin # None /\ dec = None
    /\ ByOwner(lib, capsule) # None
    /\ dec' = Made(lib, ByOwner(lib, capsule), origin)
    /\ UNCHANGED <<vars, cipher, text>>

NewDecryptor(lib) ==
    /\ dec = None
    /\ \E s \in shares :
        /\ ByReceiver(lib, s.bytes) # None
        /\ dec' = Made(lib, ByReceiver(lib, s.bytes), s)
    /\ UNCHANGED <<vars, cipher, text>>

\* Hex: the key, the nonce that goes with it, and the chunk size in its bits.
Hex == [key |-> dec.key, chunkBits |-> dec.chunkSize % (2 * (SignedMax + 1))]

FromHex(lib, key, bits, intact) ==
    [lib |-> lib, key |-> key, chunkSize |-> ChunkSizeFor(lib, bits),
     moves |-> dec.moves + 1, intact |-> intact]

\* NewDecryptorFromHex: hex that is too short is refused, hex that is too long
\* by all but Go, which takes what it needs of it.
LoadWhole(lib) == dec' = FromHex(lib, Hex.key, Hex.chunkBits, dec.intact)

\* Other characters are refused by Go only.  Kotlin reads each as if its bits were
\* ones; Swift takes a sign for the first digit of a byte, as if it were a zero.
\* What they stand for may have been the same.
DamagedBits(lib) == IF lib = Kotlin THEN 2 * SignedMax + 1 ELSE 0

LoadDamaged(lib) ==
    /\ lib # Go
    /\ \E key \in {FALSE, dec.key}, bits \in {Hex.chunkBits, DamagedBits(lib)} :
        dec' = FromHex(lib, key, bits, FALSE)

Move(lib) ==
    /\ dec # None /\ dec.moves < MaxMoves
    /\ LoadWhole(lib) \/ LoadDamaged(lib)
    /\ text' = None
    /\ UNCHANGED <<vars, cipher>>

\* gcmDecrypt: the key that sealed the message, and the nonce where it is looked for.
Opens == dec.key /\ cipher = NonceOf(dec.lib)

\* Decrypt and DecryptByOwner, of what Encrypt answered or, where that is
\* refused, EncryptStream.
Decrypt ==
    /\ dec # None /\ cipher # None /\ text = None
    /\ text' = IF ~MessageMode(dec.chunkSize) THEN "refused"
               ELSE IF Opens THEN "message" ELSE "error"
    /\ UNCHANGED <<vars, cipher, dec>>

MessageNext ==
    \/ Next /\ UNCHANGED messageVars
    \/ Encrypt
    \/ \E lib \in Libraries : NewDecryptorByOwner(lib) \/ NewDecryptor(lib)
    \/ \E lib \in Libraries : Move(lib)
    \/ Decrypt

MessageSpec == MessageInit /\ [][MessageNext]_allVars
-----------------------------------------------------------------------------
(* Properties *)

\* A decryptor has its encryptor's mode and key, whichever libraries wrote the
\* capsule, shared it, made the decryptor, saved and loaded it; only a chunk
\* size above Kotlin's Int is neither mode there.
DecryptorAgrees ==
    dec # None /\ dec.intact =>
        /\ dec.key
        /\ MessageMode(dec.chunkSize) <=> origin.chunkSize = 0
        /\ StreamMode(dec.chunkSize) <=>
            /\ origin.chunkSize > 0
            /\ dec.lib = Kotlin => origin.chunkSize <= SignedMax

\* A message decrypts if Swift has both encrypted and decrypts it or neither.
\* What was encrypted as a stream is refused, unless a damaged decryptor takes
\* it for a message, which is an error.
MessageOpens ==
    /\ DecryptorAgrees
    /\ text = "message" => origin.chunkSize = 0 /\ dec.key
    /\ text # None /\ dec.intact =>
        /\ text = "refused" <=> origin.chunkSize # 0
        /\ text = "message" <=>
            origin.chunkSize = 0 /\ (origin.lib = Swift <=> dec.lib = Swift)
-----------------------------------------------------------------------------
(* The inductive invariant: an unmoved decryptor, and one moved as it was,   *)
(* has the key and its library's reading of the chunk size, and the answers  *)
(* of Encrypt and Decrypt are still those that the state they left gives.    *)
Decrypting ==
    dec # None =>
        /\ origin # None
        /\ dec \in [lib : Libraries, key : BOOLEAN, chunkSize : Int, moves : Nat,
                    intact : BOOLEAN]
        /\ dec.intact =>
            dec.key /\ dec.chunkSize = ChunkSizeFor(dec.lib, origin.chunkSize)

Encrypted ==
    cipher # None =>
        /\ origin # None
        /\ cipher = IF MessageMode(origin.chunkSize)
                    THEN NonceOf(origin.lib) ELSE "refused"

Answered ==
    text # None =>
        /\ dec # None /\ cipher # None
        /\ text = IF ~MessageMode(dec.chunkSize) THEN "refused"
                  ELSE IF Opens THEN "message" ELSE "error"

Inv == CodecInv /\ Decrypting /\ Encrypted /\ Answered
=============================================================================
