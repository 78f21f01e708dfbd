----------------------------- MODULE ChunkStream -----------------------------
(***************************************************************************)
(* Stream mode of the three libraries: EncryptStream of one, a store that  *)
(* may lose the end of what it holds, and DecryptStream of another         *)
(* (recrypt_stream.go; Encryptor.kt and Decryptor.kt; DIDEncryptor.swift   *)
(* and DIDDecryptor.swift).  Each loop seals or opens one chunk under a    *)
(* nonce that ends in the chunk's number, modulo 2^32.  A sealed chunk is   *)
(* its plaintext and a tag, and opens only as a whole, at the place where   *)
(* it was written and under its nonce.                                     *)
(***************************************************************************)
EXTENDS Integers, Sequences, FiniteSetsExt

CONSTANTS
    Lengths,        \* of the plaintext, whose bytes are 1, 2, 3, ...
    ChunkSizes,
    Tag,            \* bytes of the tag: 16
    Counter,        \* the numbers a nonce can hold: 2^32
    MaxChunks       \* chunks the encryptor may seal in a behaviour

ASSUME Sizes == Lengths \subseteq Nat /\ ChunkSizes \subseteq Nat \ {0}
ASSUME Numbers == Tag \in Nat \ {0} /\ Counter \in Nat \ {0} /\ MaxChunks \in Nat

Go == "go"
Kotlin == "kotlin"
Swift == "swift"
Libraries == {Go, Kotlin, Swift}

\* How a reader ends: at its end ("eof"); with an error at every further Read
\* ("error"); and in Go, whose io.Reader need not repeat an error: with
\* io.ErrUnexpectedEOF at every further Read ("cut", an HTTP client's body), with
\* that at one Read and io.EOF after it ("once", an HTTP server's body), or with
\* any error at the Read that fills a chunk, where io.ReadFull drops it, and
\* io.EOF after it ("lost").
Endings(lib) ==
    IF lib = Go THEN {"eof", "error", "cut", "once", "lost"} ELSE {"eof", "error"}

\* The last of the bytes fill a chunk.
Fills(bytes, unit) == bytes > 0 /\ bytes % unit = 0

\* What a Read behind the bytes is answered, when an error was told before or not.
Answer(ending, told) ==
    IF ending = "lost" \/ (ending = "once" /\ told) THEN "eof"
    ELSE IF ending = "once" THEN "cut" ELSE ending

VARIABLES
    size, chunk,    \* the plaintext's length and the chunk size
    enc,            \* the encryptor: library, source's ending, result, bytes read
    sealed,         \* the chunks it has written
    dec,            \* the decryptor: library, ending of what it reads, result, place
    avail,          \* the bytes it can read before the ending
    out             \* the plaintext it has written

vars == <<size, chunk, enc, sealed, dec, avail, out>>

Init ==
    /\ size \in Lengths /\ chunk \in ChunkSizes
    /\ enc \in {[lib |-> l, ending |-> e, result |-> "running", read |-> 0] :
                    l \in Libraries, e \in UNION {Endings(k) : k \in Libraries}}
    /\ enc.ending \in Endings(enc.lib)
    /\ enc.ending = "lost" => Fills(size, chunk)
    /\ sealed = <<>>
    /\ dec = [lib |-> Go, ending |-> "eof", result |-> "idle", at |-> 0, number |-> 0]
    /\ avail = 0 /\ out = <<>>

\* Where a sealed chunk ends, and with it all that is written so far.
EndOf(c) == c.start + Len(c.payload) + Tag

Written == IF sealed = <<>> THEN 0 ELSE EndOf(sealed[Len(sealed)])
-----------------------------------------------------------------------------
(* Encryption *)

\* Bytes that ReadFull, readFull or readUpTo gets of the next chunk.
Got == Min({chunk, size - enc.read})

\* Mutant: the whole buffer is sealed, with what an earlier chunk left in it.
PayloadStale(n) == [i \in 1..chunk |-> IF i <= n THEN enc.read + i ELSE i]

Payload(n) == [i \in 1..n |-> enc.read + i]

\* Mutant: the counter has a byte less than the chunks need.
NonceShort(number) == number % (Counter - 1)

\* The number in a nonce.
Nonce(number) == number % Counter

\* The chunk after those sealed.
Seal(n, result) ==
    /\ Len(sealed) < MaxChunks
    /\ sealed' = Append(sealed, [start |-> Written, payload |-> Payload(n),
                                 nonce |-> Nonce(Len(sealed))])
    /\ enc' = [enc EXCEPT !.read = @ + n, !.result = result]

StopEncrypting(result) ==
    enc' = [enc EXCEPT !.result = result] /\ UNCHANGED sealed

\* The next Read behind the source's bytes: an error it tells comes with a short
\* chunk, perhaps an empty one.
Told == sealed # <<>> /\ Len(sealed[Len(sealed)].payload) < chunk
SourceAnswer == Answer(enc.ending, Told)

\* Mutant: an error of the source ends the stream as its end does.
SourceFailsQuietly(n) ==
    /\ n < chunk /\ enc.ending = "error"
    /\ StopEncrypting("ok")

\* Any other error drops what was read of the chunk.
SourceFails(n) ==
    /\ n < chunk /\ enc.ending = "error"
    /\ StopEncrypting("error")

\* EncryptStream in Go: an unexpected end of the source is taken for a short
\* chunk, an empty one too, and the loop goes on: if io.EOF is next, to success.
EncryptGo(n) ==
    \/ n = chunk /\ Seal(n, "running")
    \/ n < chunk /\ SourceAnswer = "cut" /\ Seal(n, "running")
    \/ n < chunk /\ n > 0 /\ SourceAnswer = "eof" /\ Seal(n, "running")
    \/ n = 0 /\ SourceAnswer = "eof" /\ StopEncrypting("ok")
    \/ SourceFails(n)

\* encryptStream in Kotlin: a short chunk is the last.
EncryptKotlin(n) ==
    \/ n = chunk /\ Seal(n, "running")
    \/ n < chunk /\ n > 0 /\ enc.ending = "eof" /\ Seal(n, "ok")
    \/ n = 0 /\ enc.ending = "eof" /\ StopEncrypting("ok")
    \/ SourceFails(n)

\* Mutant: the end of the source is one more chunk, an empty one.
EncryptSwiftEmpty(n) ==
    \/ n = chunk /\ Seal(n, "running")
    \/ n < chunk /\ enc.ending = "eof" /\ Seal(n, "running")
    \/ SourceFails(n)

\* encryptStream in Swift: until nothing is read.
EncryptSwift(n) ==
    \/ n = chunk /\ Seal(n, "running")
    \/ n < chunk /\ n > 0 /\ enc.ending = "eof" /\ Seal(n, "running")
    \/ n = 0 /\ enc.ending = "eof" /\ StopEncrypting("ok")
    \/ SourceFails(n)

Encrypt ==
    /\ enc.result = "running"
    /\ \/ enc.lib = Go /\ EncryptGo(Got)
       \/ enc.lib = Kotlin /\ EncryptKotlin(Got)
       \/ enc.lib = Swift /\ EncryptSwift(Got)
    /\ UNCHANGED <<size, chunk, dec, avail, out>>

\* The context is done before a chunk is read, or the chunk cannot be written.
EncryptGivesUp ==
    /\ enc.result = "running"
    /\ \E n \in {0, Got} : enc' = [enc EXCEPT !.read = @ + n, !.result = "error"]
    /\ UNCHANGED <<size, chunk, sealed, dec, avail, out>>
-----------------------------------------------------------------------------
(* The store, and decryption *)

\* What was sealed is read back, up to some byte and with some ending.
Fetch(lib, ending, bytes) ==
    /\ enc.result = "ok" /\ dec.result = "idle"
    /\ ending \in Endings(lib)
    /\ ending = "lost" => Fills(bytes, chunk + Tag)
    /\ dec' = [dec EXCEPT !.lib = lib, !.ending = ending, !.result = "running"]
    /\ avail' = bytes
    /\ UNCHANGED <<size, chunk, enc, sealed, out>>

Want == chunk + Tag
Have == Min({Want, avail - dec.at})

\* The next Read behind those bytes, in Go.
ToldLast == dec.number > 0 /\ Len(sealed[dec.number].payload) < chunk
InputAnswer == Answer(dec.ending, ToldLast)

\* The chunks that the next n bytes are, under the decryptor's nonce.
Opening(n) == {i \in DOMAIN sealed :
                 /\ sealed[i].start = dec.at
                 /\ Len(sealed[i].payload) + Tag = n
                 /\ sealed[i].nonce = Nonce(dec.number)}

StopDecrypting(result) ==
    dec' = [dec EXCEPT !.result = result] /\ UNCHANGED out

\* Open and Write, or the error of Open.
OpenNext(n, result) ==
    \/ \E i \in Opening(n) :
        /\ out' = out \o sealed[i].payload
        /\ dec' = [dec EXCEPT !.at = @ + n, !.number = @ + 1, !.result = result]
    \/ Opening(n) = {} /\ StopDecrypting("error")

BodyFails(n) ==
    /\ n < Want /\ dec.ending = "error"
    /\ StopDecrypting("error")

\* Mutant: an unexpected end is taken for the end.
DecryptGoLenient(n) ==
    \/ n = Want /\ OpenNext(n, "running")
    \/ n < Want /\ n > 0 /\ dec.ending # "error" /\ OpenNext(n, "running")
    \/ n = 0 /\ dec.ending # "error" /\ StopDecrypting("ok")
    \/ BodyFails(n)

\* DecryptStream in Go: an unexpected end is a short chunk, which opens only if
\* it is whole, and an empty one never does.
DecryptGo(n) ==
    \/ n = Want /\ OpenNext(n, "running")
    \/ n < Want /\ n > 0 /\ dec.ending # "error" /\ OpenNext(n, "running")
    \/ n = 0 /\ InputAnswer = "cut" /\ StopDecrypting("error")
    \/ n = 0 /\ InputAnswer = "eof" /\ StopDecrypting("ok")
    \/ BodyFails(n)

\* Mutant: what is left of a torn chunk is dropped.
DecryptPortsDropsTorn(n) ==
    \/ n = Want /\ OpenNext(n, "running")
    \/ n < Want /\ dec.ending = "eof" /\ Opening(n) = {} /\ StopDecrypting("ok")
    \/ n < Want /\ dec.ending = "eof" /\ OpenNext(n, "ok")
    \/ BodyFails(n)

\* decryptStream in Kotlin and in Swift: a short chunk is the last.  Fewer
\* bytes than a tag do not open in either.
DecryptPorts(n) ==
    \/ n = Want /\ OpenNext(n, "running")
    \/ n < Want /\ n > 0 /\ dec.ending = "eof" /\ OpenNext(n, "ok")
    \/ n = 0 /\ dec.ending = "eof" /\ StopDecrypting("ok")
    \/ BodyFails(n)

Decrypt ==
    /\ dec.result = "running"
    /\ IF dec.lib = Go THEN DecryptGo(Have) ELSE DecryptPorts(Have)
    /\ UNCHANGED <<size, chunk, enc, sealed, avail>>

\* The same, with a part of the chunk written or nothing.
DecryptGivesUp ==
    /\ dec.result = "running"
    /\ dec' = [dec EXCEPT !.result = "error"]
    /\ \/ UNCHANGED out
       \/ \E i \in Opening(Have), n \in 0..chunk :
            out' = out \o SubSeq(sealed[i].payload, 1, Min({n, Len(sealed[i].payload)}))
    /\ UNCHANGED <<size, chunk, enc, sealed, avail>>

Next ==
    \/ Encrypt
    \/ EncryptGivesUp
    \/ DecryptGivesUp
    \/ \E lib \in Libraries, ending \in Endings(Go), bytes \in 0..Written :
        Fetch(lib, ending, bytes)
    \/ Decrypt

Spec == Init /\ [][Next]_vars

\* A call's loop keeps running as long as it has a step to take.
FairSpec == Spec /\ WF_vars(Encrypt) /\ WF_vars(Decrypt)
-----------------------------------------------------------------------------
(* Properties *)

\* Where chunks end.
Boundaries == {0} \cup {EndOf(sealed[i]) : i \in DOMAIN sealed}

\* Every variable keeps its type.
TypeOK ==
    /\ size \in Lengths /\ chunk \in ChunkSizes
    /\ enc.read \in 0..size
    /\ \A i \in DOMAIN sealed : sealed[i].nonce \in 0..(Counter - 1)
    /\ dec.at \in 0..avail /\ dec.number \in 0..Len(sealed) /\ avail \in 0..Written

\* What a decryptor writes is a beginning of the plaintext, whichever library
\* sealed it, wherever what it reads ends, and also while it runs.
OutIsPrefix == Len(out) <= size /\ out = [i \in 1..Len(out) |-> i]

\* The encryptor's source ends with io.EOF; in Go an error answered once may come
\* before it.
SourceClean == enc.ending \notin {"cut", "error"}

\* An encryptor that succeeds has sealed all that its source gave and has then met
\* its end: an error of the source makes it fail, whatever was sealed before, as
\* long as the source repeats it.  One that a Go source tells once may go by.
SealedIsWhole ==
    enc.result = "ok" => SourceClean /\ enc.read = size

\* What was stored whole opens, in every pair of libraries, chunk by chunk; and a
\* decryptor succeeds with less than the plaintext only if what it read ended
\* between two chunks, cleanly or with an error that io.ReadFull dropped: every
\* other loss is an error.
IntactOpens ==
    /\ avail = Written /\ dec.ending = "eof" /\ dec.result = "running"
        /\ dec.at < avail => Opening(Have) # {}
    /\ dec.result = "ok" /\ Len(out) < size =>
        dec.ending \in {"eof", "lost"} /\ avail < Written /\ avail \in Boundaries

\* The chunks that the decryptor's input holds whole; whether it ends behind one,
\* with no error left to tell by then.
InputWhole == {i \in DOMAIN sealed : EndOf(sealed[i]) <= avail}
EndsShort ==
    \E i \in InputWhole : EndOf(sealed[i]) = avail /\ Len(sealed[i].payload) < chunk
InputClean == Answer(dec.ending, EndsShort) = "eof" /\ avail \in Boundaries

Reader == INSTANCE ChunkReader WITH
    whole <- InputWhole, clean <- InputClean, opened <- dec.number, state <- dec.result

\* DecryptStream of each library implements ChunkReader, the loop that GetObject
\* contains: of a stream that another library sealed and that ends at any byte it
\* opens whole chunks in order, and succeeds with no others than all of them.
ImplementsReader == Reader!ReaderSpec

Writer == INSTANCE ChunkWriter WITH
    len <- size, unit <- chunk, clean <- SourceClean,
    taken <- enc.read, state <- enc.result

\* Both loops keep to their interfaces: EncryptStream of each library implements
\* ChunkWriter, the loop that PutObject contains, and DecryptStream ChunkReader;
\* neither takes a cut or failing stream for one that ended, unless it is told of
\* the error once only.
ImplementsBoth == Writer!WriterSpec /\ ImplementsReader

\* Two chunks of a stream share a nonce only 2^32 chunks apart.
NoncesRepeatLate ==
    \A i, j \in DOMAIN sealed :
        i < j /\ sealed[i].nonce = sealed[j].nonce => j - i >= Counter

\* The calls return: a decryptor whatever it reads, an encryptor unless a Go
\* source keeps answering an unexpected end, of which it seals empty chunks until
\* its context is done.
Returns ==
    /\ (enc.result = "running" /\ enc.ending # "cut") ~> (enc.result # "running")
    /\ (dec.result = "running") ~> (dec.result # "running")

\* The comment of both loops: a nonce for each chunk, to avoid the same nonce.
NoncesDiffer ==
    \A i, j \in DOMAIN sealed : i # j => sealed[i].nonce # sealed[j].nonce
-----------------------------------------------------------------------------
(* The inductive invariant *)

\* Where chunk i + 1 starts, or will start.
StartOf(i) == IF i = Len(sealed) THEN Written ELSE sealed[i + 1].start

\* The chunks lie one after the other, each has the bytes that follow those of
\* the chunks before it, and the nonce of its number.
Chain ==
    \A i \in DOMAIN sealed :
        LET c == sealed[i]
            before == c.start - (i - 1) * Tag
        IN  /\ before \in 0..size /\ Len(c.payload) \in 0..chunk
            /\ before + Len(c.payload) <= size
            /\ c.payload = [k \in 1..Len(c.payload) |-> before + k]
            /\ c.nonce = Nonce(i - 1)
            /\ c.start = IF i = 1 THEN 0 ELSE EndOf(sealed[i - 1])

\* A chunk starts after the earlier ones have ended.
Order == \A i, j \in DOMAIN sealed : i < j => EndOf(sealed[i]) <= sealed[j].start

\* What has been read has been sealed; unless the source keeps answering an
\* unexpected end, only the last chunk is short, and empty only if it told one.
Reading ==
    /\ enc.result # "error" => enc.read = Written - Len(sealed) * Tag
    /\ enc.ending # "cut" =>
        \A i \in DOMAIN sealed :
            /\ Len(sealed[i].payload) = 0 => enc.ending = "once"
            /\ i < Len(sealed) => Len(sealed[i].payload) = chunk
            /\ Len(sealed[i].payload) < chunk /\ enc.result # "error" =>
                enc.read = size

\* The decryptor stands before the chunk of its number, and has written what
\* is in those before it, or, when it gave up, perhaps a part of that one too.
Place ==
    /\ dec.result = "idle" => dec.number = 0
    /\ dec.result # "idle" => enc.result = "ok"
    /\ dec.at = StartOf(dec.number)
    /\ dec.at - dec.number * Tag <= Len(out)
    /\ dec.result # "error" => Len(out) = dec.at - dec.number * Tag

\* A decryptor that succeeds has read all there was.
Finished == dec.result = "ok" => dec.at = avail /\ InputAnswer = "eof"

Types ==
    /\ enc \in [lib : Libraries, ending : Endings(Go),
                result : {"running", "ok", "error"}, read : Nat]
    /\ sealed \in Seq([start : Nat, payload : Seq(Nat), nonce : Nat])
    /\ dec \in [lib : Libraries, ending : Endings(Go),
                result : {"idle", "running", "ok", "error"}, at : Nat, number : Nat]
    /\ avail \in Nat /\ out \in Seq(Nat)

Inv == Types /\ TypeOK /\ Chain /\ Order /\ Reading /\ Place /\ Finished
         /\ OutIsPrefix /\ SealedIsWhole
=============================================================================
