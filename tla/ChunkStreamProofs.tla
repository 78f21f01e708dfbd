-------------------------- MODULE ChunkStreamProofs --------------------------
(***************************************************************************)
(* Proofs about ChunkStream, for any lengths, chunk sizes, tag, size of the *)
(* counter and number of chunks.                                           *)
(***************************************************************************)
EXTENDS ChunkStream, SequenceTheorems, TLAPS

Chunks == [start : Nat, payload : Seq(Nat), nonce : Nat]

LEMMA ChunkIs ==
    ASSUME NEW c \in Chunks, Tag \in Nat
    PROVE /\ c.start \in Nat /\ Len(c.payload) \in Nat /\ EndOf(c) \in Nat
          /\ EndOf(c) = c.start + Len(c.payload) + Tag
<1>1. c.start \in Nat /\ c.payload \in Seq(Nat)
    BY DEF Chunks
<1>2. Len(c.payload) \in Nat
    BY <1>1
<1> QED BY <1>1, <1>2 DEF EndOf

(* The first conjuncts, in a form the arithmetic steps can use.               *)
LEMMA Numeric ==
    ASSUME Inv
    PROVE /\ size \in Nat /\ chunk \in Nat \ {0} /\ Tag \in Nat \ {0}
          /\ Counter \in Nat \ {0}
          /\ sealed \in Seq(Chunks)
          /\ enc.read \in 0..size /\ enc.read \in Nat
          /\ dec.at \in 0..avail /\ dec.at \in Nat /\ dec.number \in 0..Len(sealed)
          /\ avail \in 0..Written /\ avail \in Nat /\ out \in Seq(Nat)
BY Sizes, Numbers DEF Inv, Types, TypeOK, Chunks

LEMMA MinOfTwo ==
    ASSUME NEW a \in Int, NEW b \in Int
    PROVE Min({a, b}) = IF a <= b THEN a ELSE b
<1>1. CASE a <= b
    BY <1>1 DEF Min
<1>2. CASE ~(a <= b)
    BY <1>2 DEF Min
<1> QED BY <1>1, <1>2

(* A read is a whole chunk, or all that is left.                              *)
LEMMA GotIs ==
    ASSUME Inv
    PROVE /\ Got \in 0..chunk /\ Got <= size - enc.read
          /\ Got < chunk => Got = size - enc.read
<1>1. chunk \in Int /\ size - enc.read \in Nat /\ chunk \in Nat
    BY Numeric
<1>2. Got = IF chunk <= size - enc.read THEN chunk ELSE size - enc.read
    BY <1>1, MinOfTwo DEF Got
<1> QED BY <1>1, <1>2

LEMMA HaveIs ==
    ASSUME Inv
    PROVE /\ Have \in 0..Want /\ Have <= avail - dec.at
          /\ Have < Want => Have = avail - dec.at
          /\ Want = chunk + Tag
<1>1. Want \in Nat /\ avail - dec.at \in Nat /\ Want = chunk + Tag
    BY Numeric DEF Want
<1>2. Have = IF Want <= avail - dec.at THEN Want ELSE avail - dec.at
    BY <1>1, MinOfTwo DEF Have
<1> QED BY <1>1, <1>2

(* Where the chunks lie.                                                      *)
LEMMA Layout ==
    ASSUME Inv
    PROVE /\ Written \in Nat
          /\ StartOf(0) = 0
          /\ \A i \in DOMAIN sealed :
                /\ sealed[i].start \in Nat /\ Len(sealed[i].payload) \in Nat
                /\ EndOf(sealed[i]) = sealed[i].start + Len(sealed[i].payload) + Tag
                /\ EndOf(sealed[i]) <= Written
                /\ StartOf(i) = EndOf(sealed[i])
                /\ StartOf(i - 1) = sealed[i].start
<1>0. sealed \in Seq(Chunks) /\ Tag \in Nat \ {0}
    BY Numeric
<1>1. ASSUME NEW i \in DOMAIN sealed
      PROVE /\ sealed[i].start \in Nat /\ Len(sealed[i].payload) \in Nat
            /\ EndOf(sealed[i]) = sealed[i].start + Len(sealed[i].payload) + Tag
            /\ i \in 1..Len(sealed) /\ EndOf(sealed[i]) \in Nat
  <2>1. sealed[i] \in Chunks /\ i \in 1..Len(sealed)
    BY <1>0
  <2> QED BY <1>0, <2>1, ChunkIs
<1>2. Written \in Nat
  <2>1. sealed # <<>> => Len(sealed) \in DOMAIN sealed
    BY <1>0
  <2> QED BY <1>1, <2>1 DEF Written
<1>3. ASSUME NEW i \in DOMAIN sealed PROVE EndOf(sealed[i]) <= Written
  <2>1. Written = EndOf(sealed[Len(sealed)]) /\ Len(sealed) \in DOMAIN sealed
    BY <1>0, <1>1 DEF Written
  <2>2. CASE i < Len(sealed)
    <3>1. EndOf(sealed[i]) <= sealed[Len(sealed)].start
      BY <2>1, <2>2 DEF Inv, Order
    <3>2. sealed[Len(sealed)].start <= EndOf(sealed[Len(sealed)])
      BY <1>0, <1>1, <2>1
    <3>3. sealed[Len(sealed)].start \in Nat /\ EndOf(sealed[Len(sealed)]) \in Nat
      BY <1>1, <2>1
    <3> QED BY <1>1, <2>1, <3>1, <3>2, <3>3
  <2>3. CASE i = Len(sealed)
    BY <1>1, <2>1, <2>3
  <2>4. i <= Len(sealed) /\ i \in Nat /\ Len(sealed) \in Nat
    BY <1>0, <1>1
  <2> QED BY <2>2, <2>3, <2>4
<1>4. StartOf(0) = 0
  <2>1. CASE Len(sealed) = 0
    BY <1>0, <2>1 DEF StartOf, Written
  <2>2. CASE Len(sealed) # 0
    <3>1. 1 \in DOMAIN sealed
      BY <1>0, <2>2
    <3>2. sealed[1].start = 0
      BY <3>1 DEF Inv, Chain
    <3> QED BY <2>2, <3>2 DEF StartOf
  <2> QED BY <2>1, <2>2
<1>5. ASSUME NEW i \in DOMAIN sealed
      PROVE StartOf(i) = EndOf(sealed[i]) /\ StartOf(i - 1) = sealed[i].start
  <2>1. CASE i < Len(sealed)
    <3>1. i + 1 \in DOMAIN sealed /\ i + 1 # 1 /\ (i + 1) - 1 = i
      BY <1>0, <1>1, <2>1
    <3>2. sealed[i + 1].start = EndOf(sealed[i])
      BY <3>1 DEF Inv, Chain
    <3> QED BY <1>0, <1>1, <2>1, <3>2 DEF StartOf
  <2>2. CASE i = Len(sealed)
    BY <1>0, <1>1, <2>2 DEF StartOf, Written
  <2> QED BY <1>0, <1>1, <2>1, <2>2
<1> QED BY <1>1, <1>2, <1>3, <1>4, <1>5
-----------------------------------------------------------------------------
(* Encryption *)

(* While the encryptor runs, nothing has been fetched.                        *)
LEMMA Idle ==
    ASSUME Inv, enc.result # "ok"
    PROVE dec.result = "idle" /\ dec.number = 0 /\ dec.at = 0 /\ Len(out) = 0
<1>1. dec.result = "idle" /\ dec.number = 0
    BY DEF Inv, Place
<1>2. dec.at = 0
    BY <1>1, Layout DEF Inv, Place
<1> QED BY <1>1, <1>2, Numeric DEF Inv, Place

LEMMA AnswerStays ==
    ASSUME UNCHANGED <<chunk, sealed>>,
           dec'.number = dec.number, dec'.ending = dec.ending
    PROVE InputAnswer' = InputAnswer
BY DEF InputAnswer, ToldLast

(* What all steps of the encryptor keep.                                      *)
LEMMA Unfetched ==
    ASSUME Inv, enc.result = "running", UNCHANGED <<size, chunk, dec, avail, out>>,
           Written' \in Nat, Written <= Written',
           StartOf(0)' = 0, Len(sealed)' \in Nat
    PROVE /\ Place' /\ Finished' /\ OutIsPrefix'
          /\ dec'.at \in 0..avail' /\ dec'.number \in 0..Len(sealed')
          /\ avail' \in 0..Written'
<1>1. dec.result = "idle" /\ dec.number = 0 /\ dec.at = 0 /\ Len(out) = 0
    BY Idle
<1>2. dec'.at = 0 /\ dec'.number = 0 /\ dec'.result = "idle" /\ Len(out') = 0
    BY <1>1
<1>3. Place'
    BY <1>2, Numeric DEF Place
<1>4. Finished' /\ OutIsPrefix'
    BY <1>2 DEF Finished, OutIsPrefix, Inv
<1> QED BY <1>2, <1>3, <1>4, Numeric, Layout

LEMMA SealKeeps ==
    ASSUME Inv, enc.result = "running", UNCHANGED <<size, chunk, dec, avail, out>>,
           NEW result \in {"running", "ok"}, Seal(Got, result),
           Got < chunk /\ enc.ending # "cut" => Got > 0 \/ (enc.ending = "once" /\ ~Told),
           result = "ok" => Got < chunk /\ enc.ending = "eof"
    PROVE Inv'
<1> DEFINE n == Got
           new == [start |-> Written, payload |-> Payload(n), nonce |-> Nonce(Len(sealed))]
<1>0. /\ size \in Nat /\ chunk \in Nat \ {0} /\ Tag \in Nat \ {0} /\ Counter \in Nat \ {0}
      /\ sealed \in Seq(Chunks)
      /\ enc.read \in 0..size /\ enc.read \in Nat /\ Written \in Nat
    BY Numeric, Layout
<1>1. n \in 0..chunk /\ n \in Nat /\ n <= size - enc.read /\ (n < chunk => n = size - enc.read)
    BY <1>0, GotIs
<1> HIDE DEF n
<1>2. /\ Payload(n) = [k \in 1..n |-> enc.read + k]
      /\ Payload(n) \in Seq(Nat) /\ Len(Payload(n)) = n
    BY <1>0, <1>1 DEF Payload
<1>3. Nonce(Len(sealed)) \in 0..(Counter - 1) /\ Nonce(Len(sealed)) \in Nat
    BY <1>0 DEF Nonce
<1>4. new \in Chunks
    BY <1>0, <1>2, <1>3 DEF Chunks
<1>5. sealed' = Append(sealed, new) /\ enc' = [enc EXCEPT !.read = @ + n, !.result = result]
    BY DEF Seal, n
<1>6. /\ new.start = Written /\ new.payload = Payload(n) /\ new.nonce = Nonce(Len(sealed))
      /\ EndOf(new) = Written + n + Tag
    BY <1>2 DEF EndOf
<1> HIDE DEF new
<1>7. /\ sealed' \in Seq(Chunks)
      /\ Len(sealed') = Len(sealed) + 1 /\ Len(sealed) \in Nat
      /\ DOMAIN sealed' = DOMAIN sealed \cup {Len(sealed) + 1}
      /\ \A i \in DOMAIN sealed : i \in 1..Len(sealed) /\ sealed'[i] = sealed[i]
      /\ sealed'[Len(sealed) + 1] = new
    BY <1>0, <1>4, <1>5
<1>8. Written' = Written + n + Tag
    BY <1>6, <1>7 DEF Written, EndOf
<1>9. /\ enc'.read = enc.read + n /\ enc'.result = result
      /\ enc'.ending = enc.ending /\ enc'.lib = enc.lib
      /\ enc' \in [lib : Libraries, ending : Endings(Go),
                   result : {"running", "ok", "error"}, read : Nat]
  <2>1. enc \in [lib : Libraries, ending : Endings(Go),
                 result : {"running", "ok", "error"}, read : Nat]
    BY DEF Inv, Types
  <2>2. enc.read + n \in Nat
    BY <1>0, <1>1
  <2> QED BY <1>5, <2>1, <2>2
<1>10. Written = IF Len(sealed) = 0 THEN 0 ELSE EndOf(sealed[Len(sealed)])
    BY <1>0 DEF Written
<1>11. enc.read = Written - Len(sealed) * Tag
    BY DEF Inv, Reading
<1>12. Chain'
  <2> SUFFICES ASSUME NEW i \in DOMAIN sealed'
               PROVE LET c == sealed'[i]
                         before == c.start - (i - 1) * Tag
                     IN  /\ before \in 0..size /\ Len(c.payload) \in 0..chunk
                         /\ before + Len(c.payload) <= size
                         /\ c.payload = [k \in 1..Len(c.payload) |-> before + k]
                         /\ c.nonce = Nonce(i - 1)
                         /\ c.start = IF i = 1 THEN 0 ELSE EndOf(sealed'[i - 1])
    BY DEF Chain, Nonce, EndOf
  <2>1. CASE i \in DOMAIN sealed
    <3>1. i # 1 => i - 1 \in DOMAIN sealed
      BY <1>0, <1>7, <2>1
    <3>2. sealed'[i] = sealed[i] /\ (i # 1 => sealed'[i - 1] = sealed[i - 1])
      BY <1>7, <2>1, <3>1
    <3> QED BY <2>1, <3>2 DEF Inv, Chain
  <2>2. CASE i = Len(sealed) + 1
    <3>1. sealed'[i] = new /\ i - 1 = Len(sealed)
      BY <1>7, <2>2
    <3>2. new.start - (i - 1) * Tag = enc.read
      BY <1>6, <1>11, <3>1
    <3>3. new.start = IF i = 1 THEN 0 ELSE EndOf(sealed'[i - 1])
      <4>1. CASE i = 1
        BY <1>6, <1>10, <3>1, <4>1
      <4>2. CASE i # 1
        <5>1. i - 1 \in DOMAIN sealed
          BY <1>0, <1>7, <2>2, <4>2
        <5> QED BY <1>6, <1>7, <1>10, <3>1, <4>2, <5>1
      <4> QED BY <4>1, <4>2
    <3>4. new.payload = [k \in 1..n |-> enc.read + k] /\ Len(new.payload) = n
      BY <1>2, <1>6
    <3>5. new.nonce = Nonce(i - 1)
      BY <1>6, <3>1
    <3>6. enc.read \in 0..size' /\ n \in 0..chunk' /\ enc.read + n <= size'
      BY <1>0, <1>1
    <3> QED BY <3>1, <3>2, <3>3, <3>4, <3>5, <3>6
  <2> QED BY <1>7, <2>1, <2>2
<1>13. Order'
  <2> SUFFICES ASSUME NEW i \in DOMAIN sealed', NEW j \in DOMAIN sealed', i < j
               PROVE EndOf(sealed'[i]) <= sealed'[j].start
    BY DEF Order, EndOf
  <2>1. i \in DOMAIN sealed
    BY <1>7
  <2>2. CASE j \in DOMAIN sealed
    BY <1>7, <2>1, <2>2 DEF Inv, Order
  <2>3. CASE j = Len(sealed) + 1
    BY <1>6, <1>7, <2>1, <2>3, Layout
  <2> QED BY <1>7, <2>2, <2>3
<1>14. Reading'
  <2>1. enc'.read = Written' - Len(sealed') * Tag
    <3>1. (Len(sealed) + 1) * Tag = Len(sealed) * Tag + Tag /\ Len(sealed) * Tag \in Nat
      BY <1>0, <1>7
    <3> QED BY <1>0, <1>1, <1>7, <1>8, <1>9, <1>11, <3>1
  <2>2. ASSUME enc'.ending # "cut", NEW i \in DOMAIN sealed'
        PROVE /\ Len(sealed'[i].payload) = 0 => enc'.ending = "once"
              /\ i < Len(sealed') => Len(sealed'[i].payload) = chunk'
              /\ Len(sealed'[i].payload) < chunk' /\ enc'.result # "error" =>
                    enc'.read = size'
    <3>1. /\ enc.ending # "cut"
          /\ n > 0 \/ (n = 0 /\ enc.read = size /\ enc.ending = "once" /\ ~Told)
      BY <1>0, <1>1, <1>9, <2>2 DEF n
    <3>2. CASE i = Len(sealed) + 1
      BY <1>0, <1>1, <1>2, <1>6, <1>7, <1>9, <3>1, <3>2
    <3>3. CASE i \in DOMAIN sealed
      <4>1. /\ Len(sealed[i].payload) = 0 => enc.ending = "once"
            /\ i < Len(sealed) => Len(sealed[i].payload) = chunk
            /\ Len(sealed[i].payload) < chunk => enc.read = size
            /\ Len(sealed[i].payload) \in 0..chunk
        BY <3>1, <3>3 DEF Inv, Reading, Chain
      <4>2. CASE n > 0
        <5>1. enc.read # size
          BY <1>0, <1>1, <4>2
        <5> QED BY <1>0, <1>7, <1>9, <3>3, <4>1, <5>1
      <4>3. CASE n = 0
        <5>1. sealed # <<>> /\ i \in 1..Len(sealed) /\ Len(sealed) \in Nat
          BY <1>0, <3>3
        <5>2. i = Len(sealed) => ~(Len(sealed[i].payload) < chunk)
          BY <3>1, <4>3, <5>1 DEF Told
        <5>3. Len(sealed[i].payload) = chunk
          BY <1>0, <4>1, <5>1, <5>2
        <5> QED BY <1>0, <1>7, <3>3, <5>3
      <4> QED BY <3>1, <4>2, <4>3
    <3> QED BY <1>7, <3>2, <3>3
  <2> QED BY <2>1, <2>2 DEF Reading
<1>15. StartOf(0)' = 0
  <2>1. sealed'[1].start = 0 /\ 1 \in DOMAIN sealed'
    <3>1. 1 \in DOMAIN sealed'
      BY <1>7
    <3> QED BY <1>12, <3>1, Zenon DEF Chain
  <2>2. Len(sealed') # 0
    BY <1>7
  <2> QED BY <2>1, <2>2 DEF StartOf
<1>16. /\ Place' /\ Finished' /\ OutIsPrefix'
       /\ dec'.at \in 0..avail' /\ dec'.number \in 0..Len(sealed')
       /\ avail' \in 0..Written'
    BY <1>0, <1>1, <1>7, <1>8, <1>15, Unfetched
<1>17. SealedIsWhole'
    BY <1>0, <1>1, <1>9 DEF SealedIsWhole, SourceClean, n
<1>18. TypeOK'
  <2>1. enc'.read \in 0..size'
    BY <1>0, <1>1, <1>9
  <2>2. \A i \in DOMAIN sealed' : sealed'[i].nonce \in 0..(Counter - 1)
    BY <1>3, <1>6, <1>7 DEF Inv, TypeOK
  <2>3. size' \in Lengths /\ chunk' \in ChunkSizes
    BY DEF Inv, TypeOK
  <2> QED BY <1>16, <2>1, <2>2, <2>3 DEF TypeOK
<1>19. Types'
    BY <1>7, <1>9 DEF Inv, Types, Chunks
<1> QED BY <1>12, <1>13, <1>14, <1>16, <1>17, <1>18, <1>19 DEF Inv

(* A step that seals nothing keeps the store, and keeps the invariant if it   *)
(* ends the loop with all read or with an error.                              *)
LEMMA EndKeeps ==
    ASSUME Inv, enc.result = "running",
           UNCHANGED <<size, chunk, sealed, dec, avail, out>>,
           NEW n \in Nat, NEW result \in {"ok", "error"},
           enc' = [enc EXCEPT !.read = enc.read + n, !.result = result],
           enc.read + n <= size,
           result = "ok" => n = 0 /\ enc.ending \notin {"cut", "error"} /\ enc.read = size
    PROVE Inv'
<1>1. /\ enc \in [lib : Libraries, ending : Endings(Go),
                  result : {"running", "ok", "error"}, read : Nat]
      /\ enc.read \in Nat /\ enc.read + n \in Nat /\ size \in Nat
    BY Numeric DEF Inv, Types
<1>2. /\ enc'.read = enc.read + n /\ enc'.result = result
      /\ enc'.ending = enc.ending /\ enc'.lib = enc.lib
      /\ enc' \in [lib : Libraries, ending : Endings(Go),
                   result : {"running", "ok", "error"}, read : Nat]
    BY <1>1
<1>3. Types' /\ TypeOK'
    BY <1>1, <1>2 DEF Inv, Types, TypeOK, Written, EndOf
<1>4. Chain' /\ Order'
    BY DEF Inv, Chain, Order, EndOf, Nonce
<1>5. Reading'
  <2>1. Written' = Written
    BY DEF Written, EndOf
  <2>2. result = "ok" => enc'.read = enc.read
    BY <1>1, <1>2
  <2> QED BY <1>2, <2>1, <2>2 DEF Inv, Reading
<1>6. Place'
  <2>1. dec.result = "idle"
    BY Idle
  <2> QED BY <2>1 DEF Inv, Place, StartOf, Written, EndOf
<1>7. SealedIsWhole'
    BY <1>1, <1>2 DEF SealedIsWhole, SourceClean
<1>8. Finished' /\ OutIsPrefix'
    BY AnswerStays DEF Inv, Finished, OutIsPrefix
<1> QED BY <1>3, <1>4, <1>5, <1>6, <1>7, <1>8 DEF Inv

(* What the next Read of the source means for the way it ends.                *)
LEMMA SourceSays ==
    /\ SourceAnswer = "cut" => enc.ending = "cut" \/ (enc.ending = "once" /\ ~Told)
    /\ SourceAnswer = "eof" => SourceClean
<1>1. CASE Told
    BY <1>1 DEF SourceAnswer, Answer, SourceClean
<1>2. CASE ~Told
    BY <1>2 DEF SourceAnswer, Answer, SourceClean
<1> QED BY <1>1, <1>2

LEMMA EncryptKeeps == Inv /\ Encrypt => Inv'
<1> SUFFICES ASSUME Inv, Encrypt PROVE Inv'
    OBVIOUS
<1>1. enc.result = "running" /\ UNCHANGED <<size, chunk, dec, avail, out>>
    BY DEF Encrypt
<1>2. /\ Got \in 0..chunk /\ Got <= size - enc.read
      /\ Got < chunk => Got = size - enc.read
      /\ enc.read \in 0..size /\ size \in Nat /\ chunk \in Nat \ {0}
    BY GotIs, Numeric
<1>3. enc \in [lib : Libraries, ending : Endings(Go),
               result : {"running", "ok", "error"}, read : Nat]
    BY DEF Inv, Types
<1>4. ASSUME NEW result \in {"ok", "error"}, StopEncrypting(result),
             result = "ok" => Got = 0 /\ SourceClean
      PROVE Inv'
  <2>1. enc' = [enc EXCEPT !.read = enc.read + 0, !.result = result]
    <3>1. enc.read + 0 = enc.read
      BY <1>2
    <3>2. enc' = [enc EXCEPT !.result = result]
      BY <1>4 DEF StopEncrypting
    <3> QED BY <1>3, <3>1, <3>2
  <2>3. sealed' = sealed
    BY <1>4 DEF StopEncrypting
  <2>2. /\ enc.read + 0 <= size
        /\ result = "ok" =>
              0 = 0 /\ enc.ending \notin {"cut", "error"} /\ enc.read = size
    BY <1>2, <1>4 DEF SourceClean
  <2> QED BY <1>1, <2>1, <2>2, <2>3, EndKeeps
<1>5. ASSUME SourceFails(Got) PROVE Inv'
    BY <1>4, <1>5 DEF SourceFails
<1>6. CASE EncryptGo(Got)
  <2>1. ASSUME Seal(Got, "running"),
               Got < chunk /\ enc.ending # "cut" => Got > 0 \/ (enc.ending = "once" /\ ~Told)
        PROVE Inv'
    BY <1>1, <2>1, SealKeeps
  <2>2. ASSUME SourceAnswer = "cut" PROVE enc.ending = "cut" \/ (enc.ending = "once" /\ ~Told)
    BY <2>2, SourceSays
  <2>3. ASSUME SourceAnswer = "eof" PROVE SourceClean
    BY <2>3, SourceSays
  <2>4. CASE Got = chunk /\ Seal(Got, "running")
    BY <1>2, <2>1, <2>4
  <2>5. CASE Got < chunk /\ SourceAnswer = "cut" /\ Seal(Got, "running")
    BY <2>1, <2>2, <2>5
  <2>6. CASE Got < chunk /\ Got > 0 /\ Seal(Got, "running")
    BY <2>1, <2>6
  <2>7. CASE Got = 0 /\ SourceAnswer = "eof" /\ StopEncrypting("ok")
    BY <1>4, <2>3, <2>7
  <2> QED BY <1>2, <1>5, <1>6, <2>4, <2>5, <2>6, <2>7 DEF EncryptGo
<1>7. CASE EncryptKotlin(Got)
  <2>1. ASSUME Seal(Got, "running"), Got = chunk PROVE Inv'
    BY <1>1, <1>2, <2>1, SealKeeps
  <2>2. ASSUME Seal(Got, "ok"), Got < chunk, Got > 0, enc.ending = "eof" PROVE Inv'
    BY <1>1, <2>2, SealKeeps
  <2> QED BY <1>4, <1>5, <1>7, <2>1, <2>2 DEF EncryptKotlin, SourceClean
<1>8. CASE EncryptSwift(Got)
  <2>1. ASSUME Seal(Got, "running"), Got < chunk => Got > 0
        PROVE Inv'
    BY <1>1, <2>1, SealKeeps
  <2> QED BY <1>2, <1>4, <1>5, <1>8, <2>1 DEF EncryptSwift, SourceClean
<1> QED BY <1>6, <1>7, <1>8 DEF Encrypt

LEMMA EncryptGivesUpKeeps == Inv /\ EncryptGivesUp => Inv'
<1> SUFFICES ASSUME Inv, EncryptGivesUp PROVE Inv'
    OBVIOUS
<1>1. PICK n \in {0, Got} : enc' = [enc EXCEPT !.read = @ + n, !.result = "error"]
    BY DEF EncryptGivesUp
<1>2. n \in Nat /\ enc.read + n <= size
    BY GotIs, Numeric
<1> QED BY <1>1, <1>2, EndKeeps DEF EncryptGivesUp
-----------------------------------------------------------------------------
(* The store, and decryption *)

LEMMA FetchKeeps ==
    ASSUME Inv, NEW lib \in Libraries, NEW ending \in Endings(Go),
           NEW bytes \in 0..Written, Fetch(lib, ending, bytes)
    PROVE Inv'
<1>1. /\ enc.result = "ok" /\ dec.result = "idle" /\ avail' = bytes
      /\ dec' = [dec EXCEPT !.lib = lib, !.ending = ending, !.result = "running"]
      /\ UNCHANGED <<size, chunk, enc, sealed, out>>
    BY DEF Fetch
<1>2. dec.number = 0 /\ dec.at = 0 /\ Len(out) = 0
    BY <1>1, Numeric, Layout DEF Inv, Place
<1>3. /\ dec'.number = 0 /\ dec'.at = 0 /\ dec'.result = "running"
      /\ dec' \in [lib : Libraries, ending : Endings(Go),
                   result : {"idle", "running", "ok", "error"}, at : Nat, number : Nat]
    BY <1>1, <1>2 DEF Inv, Types
<1>4. Written \in Nat /\ bytes \in Nat /\ Tag \in Nat /\ sealed \in Seq(Chunks)
    BY Layout, Numeric
<1>5. Written' = Written /\ StartOf(0)' = 0
    BY <1>1, Layout DEF Written, EndOf, StartOf
<1>6. Types'
    BY <1>1, <1>3, <1>4 DEF Inv, Types
<1>7. TypeOK'
    BY <1>1, <1>3, <1>4, <1>5 DEF Inv, TypeOK
<1>8. Chain' /\ Order' /\ Reading' /\ SealedIsWhole' /\ OutIsPrefix'
  <2>1. Chain' /\ Order'
    BY <1>1 DEF Inv, Chain, Order, EndOf, Nonce
  <2>2. Reading'
    BY <1>1, <1>5 DEF Inv, Reading
  <2> QED BY <1>1, <2>1, <2>2 DEF Inv, SealedIsWhole, SourceClean, OutIsPrefix
<1>9. Place' /\ Finished'
    BY <1>1, <1>2, <1>3, <1>4, <1>5 DEF Place, Finished
<1> QED BY <1>6, <1>7, <1>8, <1>9 DEF Inv

(* At most the chunk of the decryptor's number starts where it reads.         *)
LEMMA OpeningIs ==
    ASSUME Inv, NEW n \in Nat, NEW i \in Opening(n)
    PROVE /\ i = dec.number + 1 /\ i \in DOMAIN sealed
          /\ dec.at = sealed[i].start /\ n = Len(sealed[i].payload) + Tag
          /\ EndOf(sealed[i]) = dec.at + n
          /\ StartOf(i) = dec.at + n
<1>1. /\ i \in DOMAIN sealed /\ sealed[i].start = dec.at
      /\ Len(sealed[i].payload) + Tag = n
    BY DEF Opening
<1>2. /\ sealed \in Seq(Chunks) /\ Tag \in Nat \ {0} /\ dec.number \in 0..Len(sealed)
      /\ dec.at = StartOf(dec.number)
    BY Numeric DEF Inv, Place
<1>3. /\ sealed[i].start \in Nat /\ Len(sealed[i].payload) \in Nat /\ Written \in Nat
      /\ EndOf(sealed[i]) = dec.at + n /\ sealed[i].start < EndOf(sealed[i])
      /\ EndOf(sealed[i]) <= Written /\ StartOf(i) = dec.at + n
    BY <1>1, <1>2, Layout
<1>4. dec.number # Len(sealed)
    BY <1>1, <1>3, <1>2 DEF StartOf
<1>5. DEFINE j == dec.number + 1
<1>6. j \in DOMAIN sealed /\ sealed[j].start = dec.at
    BY <1>2, <1>4 DEF StartOf
<1>7. /\ EndOf(sealed[j]) \in Nat /\ sealed[j].start < EndOf(sealed[j])
  <2>1. sealed[j] \in Chunks
    BY <1>2, <1>6
  <2> HIDE DEF j
  <2>2. /\ sealed[j].start \in Nat /\ Len(sealed[j].payload) \in Nat
        /\ EndOf(sealed[j]) = sealed[j].start + Len(sealed[j].payload) + Tag
    BY <1>2, <2>1, ChunkIs
  <2> QED BY <1>2, <2>2
<1>8. CASE i < j
  <2>1. EndOf(sealed[i]) <= sealed[j].start
    BY <1>1, <1>6, <1>8 DEF Inv, Order
  <2> QED BY <1>1, <1>3, <1>6, <2>1
<1>9. CASE j < i
  <2>1. EndOf(sealed[j]) <= sealed[i].start
    BY <1>1, <1>6, <1>9 DEF Inv, Order
  <2> QED BY <1>1, <1>3, <1>6, <1>7, <2>1
<1>10. i \in Nat /\ j \in Nat
    BY <1>1, <1>2
<1> QED BY <1>1, <1>3, <1>8, <1>9, <1>10

(* What is written before a chunk, and with it, is a beginning of the text.   *)
LEMMA Grows ==
    ASSUME Inv, dec.result # "error", NEW i \in DOMAIN sealed, i = dec.number + 1,
           dec.at = sealed[i].start, NEW p \in 0..Len(sealed[i].payload),
           NEW text, text = out \o SubSeq(sealed[i].payload, 1, p)
    PROVE /\ text \in Seq(Nat) /\ Len(text) = Len(out) + p
          /\ Len(text) <= size /\ text = [k \in 1..Len(text) |-> k]
<1>0. /\ sealed[i].payload \in Seq(Nat) /\ Len(sealed[i].payload) \in Nat
      /\ sealed[i].start \in Nat
  <2>1. sealed[i] \in Chunks
    BY Numeric
  <2> QED BY <2>1 DEF Chunks
<1>1. /\ Len(out) = sealed[i].start - dec.number * Tag /\ out \in Seq(Nat)
      /\ out = [k \in 1..Len(out) |-> k] /\ Len(out) \in Nat
      /\ dec.number \in Nat /\ size \in Nat
    BY Numeric DEF Inv, Place, OutIsPrefix
<1>2. /\ Len(out) + Len(sealed[i].payload) <= size
      /\ sealed[i].payload = [k \in 1..Len(sealed[i].payload) |-> Len(out) + k]
  <2>1. i - 1 = dec.number
    BY <1>1
  <2>2. sealed[i].start - (i - 1) * Tag = Len(out)
    BY <1>1, <2>1
  <2> QED BY <2>2 DEF Inv, Chain
<1> DEFINE part == SubSeq(sealed[i].payload, 1, p)
<1>3. /\ part \in Seq(Nat) /\ Len(part) = p
      /\ \A k \in 1..p : part[k] = sealed[i].payload[k]
    BY <1>0
<1> HIDE DEF part
<1>4. text = out \o part
    BY DEF part
<1>5. /\ text \in Seq(Nat) /\ Len(text) = Len(out) + p
      /\ \A k \in 1..Len(text) :
            text[k] = IF k <= Len(out) THEN out[k] ELSE part[k - Len(out)]
  <2>1. out \in Seq(Nat) /\ part \in Seq(Nat)
    BY <1>1, <1>3
  <2>2. /\ out \o part \in Seq(Nat) /\ Len(out \o part) = Len(out) + Len(part)
        /\ \A k \in 1..(Len(out) + Len(part)) :
              (out \o part)[k] = IF k <= Len(out) THEN out[k] ELSE part[k - Len(out)]
    BY <2>1, ConcatProperties, Zenon
  <2>3. Len(part) = p
    BY <1>3
  <2> QED BY <1>4, <2>2, <2>3, Zenon
<1>6. ASSUME NEW k \in 1..Len(text) PROVE text[k] = k
  <2>1. CASE k <= Len(out)
    BY <1>1, <1>5, <2>1
  <2>2. CASE ~(k <= Len(out))
    <3>1. k - Len(out) \in 1..p
      BY <1>1, <1>5, <2>2
    <3>2. /\ part[k - Len(out)] = sealed[i].payload[k - Len(out)]
          /\ k - Len(out) \in 1..Len(sealed[i].payload)
      BY <1>0, <1>3, <3>1
    <3>3. sealed[i].payload[k - Len(out)] = Len(out) + (k - Len(out))
      BY <1>2, <3>2
    <3>4. text[k] = part[k - Len(out)] /\ k \in Nat
      BY <1>1, <1>5, <2>2
    <3> QED BY <1>1, <3>2, <3>3, <3>4
  <2> QED BY <2>1, <2>2
<1>7. text = [k \in 1..Len(text) |-> k]
  <2>1. text = [k \in 1..Len(text) |-> text[k]]
    BY <1>5
  <2> QED BY <1>6, <2>1
<1>8. Len(text) <= size
  <2>1. p <= Len(sealed[i].payload) /\ p \in Nat
    BY <1>0
  <2> QED BY <1>0, <1>1, <1>2, <1>5, <2>1
<1> QED BY <1>5, <1>7, <1>8

(* What the decryptor's steps leave alone.                                    *)
LEMMA Still ==
    ASSUME Inv, UNCHANGED <<size, chunk, enc, sealed, avail>>
    PROVE /\ Chain' /\ Order' /\ Reading' /\ SealedIsWhole'
          /\ Written' = Written /\ \A i : StartOf(i)' = StartOf(i)
<1>1. Written' = Written /\ \A i : StartOf(i)' = StartOf(i)
    BY DEF Written, EndOf, StartOf
<1>2. Chain' /\ Order'
    BY DEF Inv, Chain, Order, EndOf, Nonce
<1>3. Reading' /\ SealedIsWhole'
    BY <1>1 DEF Inv, Reading, SealedIsWhole, SourceClean
<1> QED BY <1>1, <1>2, <1>3

LEMMA DecIs ==
    ASSUME Inv
    PROVE dec \in [lib : Libraries, ending : Endings(Go),
                   result : {"idle", "running", "ok", "error"}, at : Nat, number : Nat]
BY DEF Inv, Types

LEMMA OpenKeeps ==
    ASSUME Inv, dec.result = "running", UNCHANGED <<size, chunk, enc, sealed, avail>>,
           NEW i \in Opening(Have), NEW result \in {"running", "ok"},
           out' = out \o sealed[i].payload,
           dec' = [dec EXCEPT !.at = @ + Have, !.number = @ + 1, !.result = result],
           result = "ok" => dec.at + Have = avail /\ dec.ending = "eof"
    PROVE Inv'
<1>1. /\ Have \in Nat /\ Have <= avail - dec.at /\ dec.at \in Nat /\ avail \in Nat
      /\ dec.number \in Nat /\ Tag \in Nat \ {0} /\ sealed \in Seq(Chunks)
      /\ out \in Seq(Nat)
    BY HaveIs, Numeric DEF Want
<1>2. /\ i = dec.number + 1 /\ i \in DOMAIN sealed
      /\ dec.at = sealed[i].start /\ Have = Len(sealed[i].payload) + Tag
      /\ StartOf(i) = dec.at + Have
    BY <1>1, OpeningIs
<1>3. /\ dec'.at = dec.at + Have /\ dec'.number = dec.number + 1
      /\ dec'.result = result /\ dec'.ending = dec.ending
      /\ dec' \in [lib : Libraries, ending : Endings(Go),
                   result : {"idle", "running", "ok", "error"}, at : Nat, number : Nat]
  <2>1. dec.at + Have \in Nat /\ dec.number + 1 \in Nat
    BY <1>1
  <2> QED BY <2>1, DecIs
<1>4. /\ sealed[i].payload \in Seq(Nat) /\ Len(sealed[i].payload) \in Nat
      /\ i \in 1..Len(sealed)
  <2>1. sealed[i] \in Chunks /\ i \in 1..Len(sealed)
    BY <1>1, <1>2
  <2> QED BY <2>1 DEF Chunks
<1>5. SubSeq(sealed[i].payload, 1, Len(sealed[i].payload)) = sealed[i].payload
    BY <1>4
<1>6. /\ out' \in Seq(Nat) /\ Len(out') = Len(out) + Len(sealed[i].payload)
      /\ Len(out') <= size /\ out' = [k \in 1..Len(out') |-> k]
  <2>1. Len(sealed[i].payload) \in 0..Len(sealed[i].payload)
    BY <1>4
  <2>2. out' = out \o SubSeq(sealed[i].payload, 1, Len(sealed[i].payload))
    BY <1>5
  <2> QED BY <1>2, <2>1, <2>2, Grows
<1>7. Len(out) = dec.at - dec.number * Tag /\ Len(out) \in Nat
    BY <1>1 DEF Inv, Place
<1>8. Place'
  <2>1. dec'.at = StartOf(dec.number)'
    <3>1. dec'.number = i
      BY <1>2, <1>3
    <3>2. StartOf(i)' = StartOf(i)
      BY Still
    <3>3. StartOf(dec.number)' = StartOf(i)'
      BY <3>1 DEF StartOf
    <3> QED BY <1>2, <1>3, <3>2, <3>3
  <2>2. Len(out') = dec'.at - dec'.number * Tag
    <3>1. (dec.number + 1) * Tag = dec.number * Tag + Tag /\ dec.number * Tag \in Nat
      BY <1>1
    <3>2. dec'.number * Tag = dec.number * Tag + Tag
      BY <1>3, <3>1
    <3>3. Len(out') = Len(out) + Have - Tag
      BY <1>1, <1>2, <1>4, <1>6, <1>7
    <3> QED BY <1>1, <1>3, <1>7, <3>1, <3>2, <3>3
  <2>3. dec'.at - dec'.number * Tag <= Len(out')
    BY <1>1, <1>6, <2>2
  <2>4. enc'.result = "ok" /\ dec'.result # "idle"
    BY <1>3 DEF Inv, Place
  <2> QED BY <2>1, <2>2, <2>3, <2>4 DEF Place
<1>9. Finished' /\ OutIsPrefix'
  <2>1. result = "ok" => InputAnswer' = "eof"
    BY <1>3 DEF InputAnswer, Answer
  <2> QED BY <1>3, <1>6, <2>1 DEF Finished, OutIsPrefix
<1>10. Types'
    BY <1>3, <1>6 DEF Inv, Types
<1>11. TypeOK'
  <2>1. dec'.at \in 0..avail' /\ dec'.number \in 0..Len(sealed')
    <3>1. dec'.at \in 0..avail
      BY <1>1, <1>3
    <3>2. dec'.number \in 0..Len(sealed)
      BY <1>1, <1>2, <1>3, <1>4
    <3> QED BY <3>1, <3>2
  <2> QED BY <2>1, Still DEF Inv, TypeOK
<1> QED BY <1>8, <1>9, <1>10, <1>11, Still DEF Inv

(* A clean end is answered as one at any place.                               *)
LEMMA CleanAnswer == dec.ending = "eof" => InputAnswer = "eof"
BY DEF InputAnswer, Answer

(* The end of the loop, after which at most a part of a chunk was written.    *)
LEMMA StopKeeps ==
    ASSUME Inv, dec.result = "running", UNCHANGED <<size, chunk, enc, sealed, avail>>,
           NEW result \in {"ok", "error"},
           dec' = [dec EXCEPT !.result = result],
           result = "ok" => dec.at = avail /\ InputAnswer = "eof" /\ out' = out,
           out' \in Seq(Nat), Len(out) <= Len(out'), Len(out') <= size,
           out' = [k \in 1..Len(out') |-> k]
    PROVE Inv'
<1>1. /\ dec'.at = dec.at /\ dec'.number = dec.number
      /\ dec'.result = result /\ dec'.ending = dec.ending
      /\ dec' \in [lib : Libraries, ending : Endings(Go),
                   result : {"idle", "running", "ok", "error"}, at : Nat, number : Nat]
    BY DecIs
<1>2. StartOf(dec.number)' = StartOf(dec.number)
  <2>1. PICK d : d = dec.number
    OBVIOUS
  <2>2. StartOf(dec.number)' = StartOf(d)'
    BY <1>1, <2>1 DEF StartOf
  <2>3. StartOf(d)' = StartOf(d)
    BY Still
  <2> QED BY <2>1, <2>2, <2>3
<1>3. Place'
  <2>1. /\ enc.result = "ok" /\ dec.at = StartOf(dec.number)
        /\ Len(out) = dec.at - dec.number * Tag
    BY DEF Inv, Place
  <2>2. dec'.at - dec'.number * Tag <= Len(out')
    BY <1>1, <2>1
  <2> QED BY <1>1, <1>2, <2>1, <2>2 DEF Place
<1>4. Finished' /\ OutIsPrefix'
    BY <1>1, AnswerStays DEF Finished, OutIsPrefix
<1>5. Types'
    BY <1>1 DEF Inv, Types
<1>6. TypeOK'
    BY <1>1, Still DEF Inv, TypeOK
<1> QED BY <1>3, <1>4, <1>5, <1>6, Still DEF Inv

LEMMA DecryptKeeps == Inv /\ Decrypt => Inv'
<1> SUFFICES ASSUME Inv, Decrypt PROVE Inv'
    OBVIOUS
<1>1. dec.result = "running" /\ UNCHANGED <<size, chunk, enc, sealed, avail>>
    BY DEF Decrypt
<1>2. /\ Have \in 0..Want /\ Have <= avail - dec.at
      /\ Have < Want => Have = avail - dec.at
      /\ Want \in Nat /\ Want > 0 /\ dec.at \in Nat /\ avail \in Nat
    BY HaveIs, Numeric
<1>3. /\ out \in Seq(Nat) /\ Len(out) \in Nat /\ Len(out) <= size
      /\ out = [k \in 1..Len(out) |-> k]
    BY Numeric DEF Inv, OutIsPrefix
<1>4. ASSUME NEW result \in {"ok", "error"}, StopDecrypting(result),
             result = "ok" => Have = 0 /\ InputAnswer = "eof"
      PROVE Inv'
  <2>1. dec' = [dec EXCEPT !.result = result] /\ out' = out
    BY <1>4 DEF StopDecrypting
  <2>2. result = "ok" => dec.at = avail
    BY <1>2, <1>4
  <2>3. Len(out) <= Len(out')
    BY <1>3, <2>1
  <2> QED BY <1>1, <1>3, <1>4, <2>1, <2>2, <2>3, StopKeeps
<1>5. ASSUME NEW result \in {"running", "ok"}, OpenNext(Have, result),
             result = "ok" => Have < Want /\ dec.ending = "eof"
      PROVE Inv'
  <2>1. CASE Opening(Have) = {} /\ StopDecrypting("error")
    BY <1>4, <2>1
  <2>2. ASSUME NEW i \in Opening(Have),
               out' = out \o sealed[i].payload,
               dec' = [dec EXCEPT !.at = @ + Have, !.number = @ + 1, !.result = result]
        PROVE Inv'
    <3>1. result = "ok" => dec.at + Have = avail /\ dec.ending = "eof"
      BY <1>2, <1>5
    <3> QED BY <1>1, <2>2, <3>1, OpenKeeps
  <2> QED BY <1>5, <2>1, <2>2 DEF OpenNext
<1>6. ASSUME BodyFails(Have) PROVE Inv'
    BY <1>4, <1>6 DEF BodyFails
<1>7. CASE DecryptGo(Have)
    BY <1>4, <1>5, <1>6, <1>7 DEF DecryptGo
<1>8. CASE DecryptPorts(Have)
    BY <1>4, <1>5, <1>6, <1>8, CleanAnswer DEF DecryptPorts
<1> QED BY <1>7, <1>8 DEF Decrypt

LEMMA DecryptGivesUpKeeps == Inv /\ DecryptGivesUp => Inv'
<1> SUFFICES ASSUME Inv, DecryptGivesUp PROVE Inv'
    OBVIOUS
<1>1. /\ dec.result = "running" /\ UNCHANGED <<size, chunk, enc, sealed, avail>>
      /\ dec' = [dec EXCEPT !.result = "error"]
    BY DEF DecryptGivesUp
<1>2. /\ out \in Seq(Nat) /\ Len(out) \in Nat /\ Len(out) <= size
      /\ out = [k \in 1..Len(out) |-> k]
    BY Numeric DEF Inv, OutIsPrefix
<1>3. CASE UNCHANGED out
  <2>1. Len(out) <= Len(out')
    BY <1>2, <1>3
  <2> QED BY <1>1, <1>2, <1>3, <2>1, StopKeeps
<1>4. ASSUME NEW i \in Opening(Have), NEW n \in 0..chunk,
             out' = out \o SubSeq(sealed[i].payload, 1,
                                  Min({n, Len(sealed[i].payload)}))
      PROVE Inv'
  <2>1. /\ i = dec.number + 1 /\ i \in DOMAIN sealed /\ dec.at = sealed[i].start
    BY OpeningIs, HaveIs, Numeric DEF Want
  <2>2. Min({n, Len(sealed[i].payload)}) \in 0..Len(sealed[i].payload)
    <3>1. n \in Nat /\ Len(sealed[i].payload) \in Nat
      BY <2>1, Layout, Numeric
    <3> QED BY <3>1, MinOfTwo
  <2> DEFINE p == Min({n, Len(sealed[i].payload)})
  <2> HIDE DEF p
  <2>3. p \in 0..Len(sealed[i].payload) /\ p \in Nat
    BY <2>2, <2>1, Layout DEF p
  <2>4. out' = out \o SubSeq(sealed[i].payload, 1, p)
    BY <1>4 DEF p
  <2>5. /\ out' \in Seq(Nat) /\ Len(out') = Len(out) + p
        /\ Len(out') <= size /\ out' = [k \in 1..Len(out') |-> k]
    BY <1>1, <2>1, <2>3, <2>4, Grows
  <2>6. Len(out) <= Len(out')
    BY <1>2, <2>3, <2>5
  <2> QED BY <1>1, <2>5, <2>6, StopKeeps
<1> QED BY <1>3, <1>4 DEF DecryptGivesUp

THEOREM Invariance == Spec => []Inv
<1>1. Init => Inv
  <2> SUFFICES ASSUME Init PROVE Inv
    OBVIOUS
  <2>1. /\ size \in Nat /\ sealed = <<>> /\ out = <<>> /\ avail = 0
        /\ enc.read = 0 /\ enc.result = "running" /\ enc.ending \in Endings(Go)
        /\ dec.at = 0 /\ dec.number = 0 /\ dec.result = "idle"
    BY Sizes DEF Init, Endings
  <2>2. Written = 0 /\ StartOf(0) = 0 /\ Len(sealed) = 0 /\ DOMAIN sealed = {}
    BY <2>1 DEF Written, StartOf
  <2>3. Types
    BY <2>1 DEF Init, Types, Libraries, Go, Endings
  <2>4. TypeOK
    BY <2>1, <2>2, Numbers DEF TypeOK, Init
  <2>5. Chain /\ Order /\ Finished /\ OutIsPrefix /\ SealedIsWhole
    BY <2>1, <2>2 DEF Chain, Order, Finished, OutIsPrefix, SealedIsWhole
  <2>6. Reading /\ Place
    BY <2>1, <2>2, Numbers DEF Reading, Place
  <2> QED BY <2>3, <2>4, <2>5, <2>6 DEF Inv
<1>2. Inv /\ [Next]_vars => Inv'
  <2> SUFFICES ASSUME Inv, [Next]_vars PROVE Inv'
    OBVIOUS
  <2>1. CASE UNCHANGED vars
    <3>1. /\ UNCHANGED <<size, chunk, enc, sealed, avail>>
          /\ dec' = dec /\ out' = out
      BY <2>1 DEF vars
    <3>2. Types' /\ TypeOK'
      BY <3>1, Still DEF Inv, Types, TypeOK
    <3>3. Finished' /\ OutIsPrefix'
      BY <3>1, AnswerStays DEF Inv, Finished, OutIsPrefix
    <3>4. Place'
      BY <3>1 DEF Inv, Place, StartOf, Written, EndOf
    <3> QED BY <3>1, <3>2, <3>3, <3>4, Still DEF Inv
  <2>2. CASE Next
    BY <2>2, EncryptKeeps, EncryptGivesUpKeeps, DecryptGivesUpKeeps, FetchKeeps,
       DecryptKeeps DEF Next
  <2> QED BY <2>1, <2>2
<1> QED BY <1>1, <1>2, PTL DEF Spec
-----------------------------------------------------------------------------
(* The lengths, counters and places stay in their ranges.                     *)
THEOREM TypeCorrect == Spec => []TypeOK
<1>1. Inv => TypeOK
    BY DEF Inv
<1> QED BY <1>1, Invariance, PTL

(* Whatever the two libraries, wherever what is read ends: what DecryptStream *)
(* writes is a beginning of the plaintext, also while it runs.                *)
THEOREM Prefix == Spec => []OutIsPrefix
<1>1. Inv => OutIsPrefix
    BY DEF Inv
<1> QED BY <1>1, Invariance, PTL

(* EncryptStream of each library succeeds only when it met the end of its     *)
(* source and sealed all of it: no error that the source repeats goes by.     *)
THEOREM Sealed == Spec => []SealedIsWhole
<1>1. Inv => SealedIsWhole
    BY DEF Inv
<1> QED BY <1>1, Invariance, PTL

(* Two numbers with the same remainder are a multiple apart.                  *)
LEMMA SameRemainder ==
    ASSUME NEW c \in Nat \ {0}, NEW a \in Nat, NEW b \in Nat, a < b,
           a % c = b % c
    PROVE b - a >= c
<1>1. /\ a = c * (a \div c) + (a % c) /\ a \div c \in Int /\ a % c \in Int
      /\ b = c * (b \div c) + (b % c) /\ b \div c \in Int
    OBVIOUS
<1>2. ASSUME NEW x \in Int, NEW y \in Int, NEW r \in Int,
             a = c * x + r, b = c * y + r
      PROVE b - a >= c
  <2>1. b - a = c * (y - x)
    BY <1>2
  <2>2. y - x >= 1
    BY <1>2, <2>1
  <2>3. c * (y - x) >= c
    BY <1>2, <2>2
  <2> QED BY <2>1, <2>3
<1> QED BY <1>1, <1>2

(* Two chunks share a nonce only as many chunks apart as the counter has      *)
(* numbers.                                                                   *)
THEOREM Nonces == Spec => []NoncesRepeatLate
<1>1. Inv => NoncesRepeatLate
  <2> SUFFICES ASSUME Inv, NEW i \in DOMAIN sealed, NEW j \in DOMAIN sealed,
                      i < j, sealed[i].nonce = sealed[j].nonce
               PROVE j - i >= Counter
    BY DEF NoncesRepeatLate
  <2>1. /\ i - 1 \in Nat /\ j - 1 \in Nat /\ i - 1 < j - 1 /\ i \in Int /\ j \in Int
        /\ Counter \in Nat \ {0}
    BY Numeric
  <2>2. (i - 1) % Counter = (j - 1) % Counter
    BY DEF Inv, Chain, Nonce
  <2>3. (j - 1) - (i - 1) >= Counter
    BY <2>1, <2>2, SameRemainder
  <2> QED BY <2>1, <2>3
<1> QED BY <1>1, Invariance, PTL

(* A number and the one a modulus later have one remainder.                   *)
LEMMA OneTurnLater ==
    ASSUME NEW c \in Nat \ {0}, NEW a \in Nat
    PROVE (a + c) % c = a % c
<1>1. /\ a = c * (a \div c) + (a % c) /\ a \div c \in Int
      /\ a % c \in 0..(c - 1)
      /\ a + c = c * ((a + c) \div c) + ((a + c) % c) /\ (a + c) \div c \in Int
      /\ (a + c) % c \in 0..(c - 1)
    OBVIOUS
<1>2. ASSUME NEW x \in Int, NEW y \in Int, NEW r \in 0..(c - 1), NEW s \in 0..(c - 1),
             a = c * x + r, a + c = c * y + s
      PROVE s = r
  <2> DEFINE d == y - x - 1
  <2>1. d \in Int /\ c * d = r - s
    BY <1>2
  <2>2. c * d < c /\ c * d > -c
    BY <2>1
  <2> HIDE DEF d
  <2>3. CASE d >= 1
    <3>1. c * d >= c
      BY <2>1, <2>3
    <3> QED BY <2>1, <2>2, <3>1
  <2>4. CASE d <= -1
    <3>1. c * d <= -c
      BY <2>1, <2>4
    <3> QED BY <2>1, <2>2, <3>1
  <2>5. CASE d = 0
    BY <2>1, <2>5
  <2> QED BY <2>1, <2>3, <2>4, <2>5
<1> QED BY <1>1, <1>2

(* Chunks as many apart as the counter has numbers do share a nonce: nothing  *)
(* checks the cut of the number in EncryptStream, however long the stream.    *)
NoncesWrap ==
    \A i, j \in DOMAIN sealed : j = i + Counter => sealed[i].nonce = sealed[j].nonce

THEOREM NonceReuse == Spec => []NoncesWrap
<1>1. Inv => NoncesWrap
  <2> SUFFICES ASSUME Inv, NEW i \in DOMAIN sealed, NEW j \in DOMAIN sealed,
                      j = i + Counter
               PROVE sealed[i].nonce = sealed[j].nonce
    BY DEF NoncesWrap
  <2>1. i - 1 \in Nat /\ Counter \in Nat \ {0} /\ j - 1 = (i - 1) + Counter
    BY Numeric
  <2>2. ((i - 1) + Counter) % Counter = (i - 1) % Counter
    BY <2>1, OneTurnLater
  <2>3. sealed[i].nonce = (i - 1) % Counter /\ sealed[j].nonce = (j - 1) % Counter
    BY DEF Inv, Chain, Nonce
  <2> QED BY <2>1, <2>2, <2>3
<1> QED BY <1>1, Invariance, PTL

(* An intact stream opens chunk by chunk in every pair of libraries, and only *)
(* an end between two chunks, clean or with an error that was dropped, makes a *)
(* decryptor succeed with less than the plaintext.                            *)
THEOREM Intact == Spec => []IntactOpens
<1>1. ASSUME Inv, avail = Written, dec.ending = "eof", dec.result = "running",
             dec.at < avail
      PROVE Opening(Have) # {}
  <2>1. /\ enc.result = "ok" /\ dec.at = StartOf(dec.number)
        /\ dec.number \in 0..Len(sealed) /\ sealed \in Seq(Chunks)
        /\ dec.at \in Nat /\ Written \in Nat /\ Tag \in Nat \ {0} /\ chunk \in Nat
    BY <1>1, Numeric, Layout DEF Inv, Place
  <2>2. dec.number # Len(sealed)
    BY <1>1, <2>1 DEF StartOf
  <2> DEFINE i == dec.number + 1
  <2>3. i \in DOMAIN sealed /\ i - 1 = dec.number /\ sealed[i].start = dec.at
        /\ i \in Nat /\ i <= Len(sealed) /\ Len(sealed) \in Nat
    BY <2>1, <2>2 DEF StartOf
  <2> HIDE DEF i
  <2>4. sealed[i].nonce = Nonce(dec.number)
    BY <1>1, <2>3 DEF Inv, Chain
  <2>5. /\ Len(sealed[i].payload) \in 0..chunk
        /\ i < Len(sealed) => Len(sealed[i].payload) = chunk
    BY <1>1, <2>1, <2>3 DEF Inv, Chain, Reading, SealedIsWhole, SourceClean
  <2>6. EndOf(sealed[i]) = dec.at + Len(sealed[i].payload) + Tag /\ EndOf(sealed[i]) <= Written
    BY <1>1, <2>3, Layout
  <2>7. i = Len(sealed) => EndOf(sealed[i]) = Written
    BY <2>3 DEF Written
  <2>8. Have = Len(sealed[i].payload) + Tag
    <3>1. /\ Have \in 0..Want /\ Have <= Written - dec.at
          /\ Have < Want => Have = Written - dec.at
          /\ Want = chunk + Tag
      BY <1>1, HaveIs
    <3>2. CASE i = Len(sealed)
      BY <2>1, <2>5, <2>6, <2>7, <3>1, <3>2
    <3>3. CASE i < Len(sealed)
      <4>1. Len(sealed[i].payload) = chunk
        BY <2>5, <3>3
      <4>2. dec.at + chunk + Tag <= Written
        BY <2>1, <2>6, <4>1
      <4>3. Have = Want
        BY <2>1, <3>1, <4>2
      <4> QED BY <3>1, <4>1, <4>3
    <3> QED BY <2>3, <3>2, <3>3
  <2>9. i \in Opening(Have)
    BY <2>3, <2>4, <2>8 DEF Opening
  <2> QED BY <2>9
<1>2. ASSUME Inv, dec.result = "ok", Len(out) < size
      PROVE dec.ending \in {"eof", "lost"} /\ avail < Written /\ avail \in Boundaries
  <2>1. /\ dec.at = avail /\ InputAnswer = "eof" /\ dec.at = StartOf(dec.number)
        /\ Len(out) = dec.at - dec.number * Tag /\ enc.result = "ok"
        /\ dec.number \in 0..Len(sealed) /\ sealed \in Seq(Chunks)
        /\ avail \in 0..Written /\ Written \in Nat /\ Tag \in Nat \ {0}
    BY <1>2, Numeric, Layout DEF Inv, Place, Finished
  <2>2. avail \in Boundaries
    <3>1. CASE dec.number = 0
      BY <1>2, <2>1, <3>1, Layout DEF Boundaries
    <3>2. CASE dec.number # 0
      <4>1. dec.number \in DOMAIN sealed
        BY <2>1, <3>2
      <4>2. StartOf(dec.number) = EndOf(sealed[dec.number])
        BY <1>2, <4>1, Layout
      <4> QED BY <2>1, <4>1, <4>2 DEF Boundaries
    <3> QED BY <3>1, <3>2
  <2>3. avail # Written
    <3> SUFFICES ASSUME avail = Written PROVE FALSE
      OBVIOUS
    <3>1. CASE dec.number = Len(sealed)
      <4>1. Len(out) = enc.read /\ enc.read = size
        BY <1>2, <2>1, <3>1 DEF Inv, Reading, SealedIsWhole
      <4> QED BY <1>2, <4>1, Numeric
    <3>2. CASE dec.number # Len(sealed)
      <4> DEFINE i == dec.number + 1
      <4>1. i \in DOMAIN sealed /\ sealed[i].start = dec.at
        BY <2>1, <3>2 DEF StartOf
      <4> HIDE DEF i
      <4>2. /\ sealed[i].start \in Nat /\ Len(sealed[i].payload) \in Nat
            /\ EndOf(sealed[i]) = sealed[i].start + Len(sealed[i].payload) + Tag
            /\ EndOf(sealed[i]) <= Written
        BY <1>2, <4>1, Layout
      <4> QED BY <2>1, <4>1, <4>2
    <3> QED BY <3>1, <3>2
  <2>4. ~ToldLast
    <3> SUFFICES ASSUME ToldLast PROVE FALSE
      OBVIOUS
    <3>1. dec.number \in DOMAIN sealed /\ Len(sealed[dec.number].payload) < chunk
      BY <2>1 DEF ToldLast
    <3>2. /\ dec.number < Len(sealed) => Len(sealed[dec.number].payload) = chunk
          /\ Len(sealed[dec.number].payload) \in 0..chunk
      BY <1>2, <2>1, <3>1 DEF Inv, Chain, Reading, SealedIsWhole, SourceClean
    <3>3. dec.number = Len(sealed)
      BY <2>1, <3>1, <3>2, Numeric, <1>2
    <3> QED BY <2>1, <2>3, <3>3 DEF StartOf
  <2>5. dec.ending \in {"eof", "lost"}
    BY <2>1, <2>4 DEF InputAnswer, Answer
  <2> QED BY <2>1, <2>2, <2>3, <2>5
<1>3. Inv => IntactOpens
    BY <1>1, <1>2 DEF IntactOpens
<1> QED BY <1>3, Invariance, PTL
-----------------------------------------------------------------------------
(* The decrypting loop as a reader of chunks *)

(* Bytes that end where chunk k does hold the first k chunks, and no other.   *)
LEMMA WholeIs ==
    ASSUME Inv, NEW k \in 0..Len(sealed), avail = StartOf(k)
    PROVE InputWhole = 1..k /\ avail \in Boundaries
<1>1. /\ sealed \in Seq(Chunks) /\ Tag \in Nat \ {0} /\ avail \in Nat
      /\ DOMAIN sealed = 1..Len(sealed) /\ Len(sealed) \in Nat
    BY Numeric
<1>2. ASSUME NEW i \in DOMAIN sealed
      PROVE /\ sealed[i].start \in Nat /\ EndOf(sealed[i]) \in Nat
            /\ sealed[i].start < EndOf(sealed[i])
  <2>1. /\ sealed[i].start \in Nat /\ Len(sealed[i].payload) \in Nat
        /\ EndOf(sealed[i]) = sealed[i].start + Len(sealed[i].payload) + Tag
    BY Layout
  <2> QED BY <1>1, <2>1
<1>3. ASSUME NEW i \in DOMAIN sealed, i <= k PROVE EndOf(sealed[i]) <= avail
  <2>1. k \in DOMAIN sealed
    BY <1>1, <1>3
  <2>2. avail = EndOf(sealed[k])
    BY <2>1, Layout
  <2>3. CASE i = k
    BY <1>1, <2>2, <2>3
  <2>4. CASE i < k
    <3>1. EndOf(sealed[i]) <= sealed[k].start
      BY <2>1, <2>4 DEF Inv, Order
    <3>2. /\ EndOf(sealed[i]) \in Nat /\ sealed[k].start \in Nat
          /\ EndOf(sealed[k]) \in Nat /\ sealed[k].start < EndOf(sealed[k])
      BY <1>2, <2>1
    <3> QED BY <2>2, <3>1, <3>2
  <2> QED BY <1>1, <1>3, <2>3, <2>4
<1>4. ASSUME NEW i \in DOMAIN sealed, i > k PROVE ~(EndOf(sealed[i]) <= avail)
  <2> DEFINE j == k + 1
  <2>1. j \in DOMAIN sealed /\ j - 1 = k
    BY <1>1, <1>4
  <2>2. sealed[j].start = avail
    <3>1. StartOf(j - 1) = sealed[j].start
      BY <2>1, Layout
    <3> QED BY <2>1, <3>1
  <2> HIDE DEF j
  <2>3. /\ sealed[j].start \in Nat /\ EndOf(sealed[j]) \in Nat
        /\ sealed[j].start < EndOf(sealed[j])
        /\ sealed[i].start \in Nat /\ EndOf(sealed[i]) \in Nat
        /\ sealed[i].start < EndOf(sealed[i])
    BY <1>2, <2>1
  <2>4. CASE i = j
    BY <1>1, <2>2, <2>3, <2>4
  <2>5. CASE j < i
    <3>1. EndOf(sealed[j]) <= sealed[i].start
      BY <2>1, <2>5 DEF Inv, Order
    <3> QED BY <1>1, <2>2, <2>3, <3>1
  <2> QED BY <1>1, <1>4, <2>4, <2>5 DEF j
<1>5. InputWhole = 1..k
  <2>1. ASSUME NEW i \in DOMAIN sealed PROVE EndOf(sealed[i]) <= avail <=> i <= k
    <3>1. i <= k \/ i > k
      BY <1>1
    <3> QED BY <1>3, <1>4, <3>1
  <2>2. InputWhole = {i \in DOMAIN sealed : i <= k}
    BY <2>1 DEF InputWhole
  <2> QED BY <1>1, <2>2
<1>6. avail \in Boundaries
  <2>1. CASE k = 0
    BY <2>1, Layout DEF Boundaries
  <2>2. CASE k # 0
    <3>1. k \in DOMAIN sealed
      BY <1>1, <2>2
    <3>2. avail = EndOf(sealed[k])
      BY <3>1, Layout
    <3> QED BY <3>1, <3>2 DEF Boundaries
  <2> QED BY <2>1, <2>2
<1> QED BY <1>5, <1>6

(* A loop that has read all, with no error left to tell, has opened all.      *)
LEMMA AllRead ==
    ASSUME Inv, NEW k \in 0..Len(sealed), avail = StartOf(k),
           dec.ending = "eof" \/ (k = dec.number /\ InputAnswer = "eof")
    PROVE Reader!All(k)
<1>1. InputWhole = 1..k /\ avail \in Boundaries
    BY WholeIs
<1>2. ASSUME k = dec.number, ToldLast PROVE EndsShort
  <2>1. k \in 1..k /\ k \in DOMAIN sealed
    BY <1>2, Numeric DEF ToldLast
  <2>2. EndOf(sealed[k]) = avail
    BY <2>1, Layout
  <2> QED BY <1>1, <1>2, <2>1, <2>2 DEF EndsShort, ToldLast
<1>3. CASE dec.ending = "eof"
    BY <1>1, <1>3 DEF Reader!All, InputClean, Answer
<1>4. CASE k = dec.number /\ InputAnswer = "eof"
  <2>1. Answer(dec.ending, EndsShort) = "eof"
    <3>1. CASE ToldLast
      BY <1>2, <1>4, <3>1 DEF InputAnswer, Answer
    <3>2. CASE ~ToldLast
      BY <1>4, <3>2 DEF InputAnswer, Answer
    <3> QED BY <3>1, <3>2
  <2> QED BY <1>1, <2>1 DEF Reader!All, InputClean
<1> QED BY <1>3, <1>4

LEMMA InputStays ==
    ASSUME UNCHANGED <<chunk, sealed, avail>>, dec'.ending = dec.ending
    PROVE InputWhole' = InputWhole /\ InputClean' = InputClean
<1>1. InputWhole' = InputWhole /\ Boundaries' = Boundaries
    BY DEF InputWhole, Boundaries, EndOf
<1>2. EndsShort' = EndsShort
    BY <1>1 DEF EndsShort, EndOf
<1> QED BY <1>1, <1>2 DEF InputClean

(* A chunk sealed before the fetch is not in what is fetched.                 *)
LEMMA SealReads ==
    ASSUME Inv, UNCHANGED <<chunk, dec, avail>>, NEW result, Seal(Got, result)
    PROVE UNCHANGED Reader!readerVars
<1> DEFINE c == [start |-> Written, payload |-> Payload(Got), nonce |-> Nonce(Len(sealed))]
           m == Len(sealed) + 1
<1>1. sealed' = Append(sealed, c) /\ sealed \in Seq(Chunks) /\ Len(sealed) \in Nat
    BY Numeric DEF Seal
<1>2. EndOf(c) > avail
  <2>1. Got \in Nat
    BY GotIs, Numeric
  <2>2. Len(Payload(Got)) = Got
    BY <2>1 DEF Payload
  <2>3. avail \in 0..Written /\ Written \in Nat /\ Tag \in Nat \ {0}
    BY Numeric, Layout
  <2> QED BY <2>1, <2>2, <2>3 DEF EndOf
<1> HIDE DEF c
<1>3. /\ DOMAIN sealed' = 1..m /\ DOMAIN sealed = 1..Len(sealed)
      /\ \A i \in DOMAIN sealed : sealed'[i] = sealed[i]
      /\ sealed'[m] = c
    BY <1>1
<1>4. /\ DOMAIN sealed' = DOMAIN sealed \cup {m}
    BY <1>1, <1>3
<1>5. InputWhole' = {i \in DOMAIN sealed' : EndOf(sealed'[i]) <= avail}
    BY DEF InputWhole, EndOf
<1>6. Boundaries' = {0} \cup {EndOf(sealed'[i]) : i \in DOMAIN sealed'}
    BY DEF Boundaries, EndOf
<1>7. ~(EndOf(sealed'[m]) <= avail) /\ EndOf(sealed'[m]) # avail
  <2>1. avail \in Nat
    BY Numeric
  <2>2. EndOf(c) \in Int
    BY <1>1, <1>2, GotIs, Numeric, Layout DEF c, EndOf, Payload
  <2> QED BY <1>2, <1>3, <2>1, <2>2
<1>8. \A i \in DOMAIN sealed : EndOf(sealed'[i]) = EndOf(sealed[i])
    BY <1>3
<1> HIDE DEF m
<1>9. InputWhole' = InputWhole
    BY <1>4, <1>5, <1>7, <1>8 DEF InputWhole
<1>10. avail \in Boundaries' <=> avail \in Boundaries
    BY <1>4, <1>6, <1>7, <1>8 DEF Boundaries
<1>11. EndsShort' <=> EndsShort
  <2>1. \A i \in InputWhole : i \in DOMAIN sealed
    BY DEF InputWhole
  <2>2. EndsShort' <=> \E i \in InputWhole' :
                          EndOf(sealed'[i]) = avail /\ Len(sealed'[i].payload) < chunk
    BY DEF EndsShort, EndOf
  <2> QED BY <1>3, <1>8, <1>9, <2>1, <2>2 DEF EndsShort
<1>12. InputClean' = InputClean
  <2>1. dec'.ending = dec.ending
    OBVIOUS
  <2>2. InputClean' <=> Answer(dec.ending, EndsShort) = "eof" /\ avail \in Boundaries
    <3>1. CASE EndsShort
      BY <1>10, <1>11, <2>1, <3>1 DEF InputClean, Answer
    <3>2. CASE ~EndsShort
      BY <1>10, <1>11, <2>1, <3>2 DEF InputClean, Answer
    <3> QED BY <3>1, <3>2
  <2> QED BY <2>2, Zenon DEF InputClean
<1> QED BY <1>9, <1>12 DEF Reader!readerVars

LEMMA EncryptReads ==
    ASSUME Inv, Encrypt \/ EncryptGivesUp
    PROVE UNCHANGED Reader!readerVars
<1>1. UNCHANGED <<chunk, dec, avail>>
    BY DEF Encrypt, EncryptGivesUp
<1>2. CASE sealed' = sealed
    BY <1>1, <1>2, InputStays DEF Reader!readerVars
<1>3. ASSUME NEW result \in {"running", "ok"}, Seal(Got, result)
      PROVE UNCHANGED Reader!readerVars
    BY <1>1, <1>3, SealReads
<1>4. CASE Encrypt
    BY <1>2, <1>3, <1>4 DEF Encrypt, EncryptGo, EncryptKotlin, EncryptSwift,
       StopEncrypting, SourceFails
<1>5. CASE EncryptGivesUp
    BY <1>2, <1>5 DEF EncryptGivesUp
<1> QED BY <1>4, <1>5

LEMMA FetchReads ==
    ASSUME Inv, NEW lib, NEW ending, NEW bytes, Fetch(lib, ending, bytes)
    PROVE Reader!Start
<1>1. dec.result = "idle" /\ dec'.result = "running" /\ dec'.number = dec.number
    BY DecIs DEF Fetch
<1>2. InputWhole' \subseteq Nat
  <2>1. DOMAIN sealed' \subseteq Nat
    BY Numeric DEF Fetch
  <2> QED BY <2>1 DEF InputWhole
<1>3. InputClean' \in BOOLEAN
    BY Zenon DEF InputClean
<1> QED BY <1>1, <1>2, <1>3 DEF Reader!Start

(* The chunk that is opened is the next one, and the input holds it whole.    *)
LEMMA OpenReads ==
    ASSUME Inv, dec.result = "running", UNCHANGED <<chunk, sealed, avail>>,
           NEW i \in Opening(Have), NEW result \in {"running", "ok"},
           dec' = [dec EXCEPT !.at = @ + Have, !.number = @ + 1, !.result = result],
           result = "ok" => dec.at + Have = avail /\ dec.ending = "eof"
    PROVE Reader!Open
<1>1. /\ Have \in Nat /\ Have <= avail - dec.at /\ dec.at \in Nat /\ avail \in Nat
      /\ sealed \in Seq(Chunks)
    BY HaveIs, Numeric DEF Want
<1>2. /\ i = dec.number + 1 /\ i \in DOMAIN sealed
      /\ EndOf(sealed[i]) = dec.at + Have /\ StartOf(i) = dec.at + Have
    BY <1>1, OpeningIs
<1>3. i \in InputWhole
    BY <1>1, <1>2 DEF InputWhole
<1>4. result = "ok" => Reader!All(i)
  <2>1. i \in 0..Len(sealed)
    BY <1>1, <1>2
  <2> QED BY <1>2, <2>1, AllRead
<1>5. dec'.result = result /\ dec'.number = dec.number + 1 /\ dec'.ending = dec.ending
    BY DecIs
<1>6. InputWhole' = InputWhole /\ InputClean' = InputClean
    BY <1>5, InputStays
<1> QED BY <1>2, <1>3, <1>4, <1>5, <1>6 DEF Reader!Open

LEMMA StopReads ==
    ASSUME Inv, dec.result = "running", UNCHANGED <<chunk, sealed, avail>>,
           NEW result \in {"ok", "error"}, dec' = [dec EXCEPT !.result = result],
           result = "ok" => dec.at = avail /\ InputAnswer = "eof"
    PROVE Reader!Finish \/ Reader!Fail
<1>1. dec'.result = result /\ dec'.number = dec.number /\ dec'.ending = dec.ending
    BY DecIs
<1>2. InputWhole' = InputWhole /\ InputClean' = InputClean
    BY <1>1, InputStays
<1>3. CASE result = "ok"
  <2>1. dec.number \in 0..Len(sealed) /\ avail = StartOf(dec.number)
    BY <1>3, Numeric DEF Inv, Place
  <2>2. Reader!All(dec.number)
    BY <1>3, <2>1, AllRead
  <2> QED BY <1>1, <1>2, <1>3, <2>2 DEF Reader!Finish
<1>4. CASE result = "error"
    BY <1>1, <1>2, <1>4 DEF Reader!Fail
<1> QED BY <1>3, <1>4

LEMMA DecryptReads == Inv /\ Decrypt => Reader!ReaderNext
<1> SUFFICES ASSUME Inv, Decrypt PROVE Reader!ReaderNext
    OBVIOUS
<1>1. dec.result = "running" /\ UNCHANGED <<chunk, sealed, avail>>
    BY DEF Decrypt
<1>2. /\ Have \in 0..Want /\ Have <= avail - dec.at
      /\ Have < Want => Have = avail - dec.at
      /\ Want \in Nat /\ dec.at \in Nat /\ avail \in Nat /\ Want > 0
    BY HaveIs, Numeric
<1>3. ASSUME NEW result \in {"ok", "error"}, StopDecrypting(result),
             result = "ok" => Have = 0 /\ InputAnswer = "eof"
      PROVE Reader!ReaderNext
  <2>1. dec' = [dec EXCEPT !.result = result]
    BY <1>3 DEF StopDecrypting
  <2>2. result = "ok" => dec.at = avail /\ InputAnswer = "eof"
    BY <1>2, <1>3
  <2> QED BY <1>1, <2>1, <2>2, StopReads DEF Reader!ReaderNext
<1>4. ASSUME NEW result \in {"running", "ok"}, OpenNext(Have, result),
             result = "ok" => Have < Want /\ dec.ending = "eof"
      PROVE Reader!ReaderNext
  <2>1. CASE Opening(Have) = {} /\ StopDecrypting("error")
    BY <1>3, <2>1
  <2>2. ASSUME NEW i \in Opening(Have),
               dec' = [dec EXCEPT !.at = @ + Have, !.number = @ + 1, !.result = result]
        PROVE Reader!ReaderNext
    <3>1. result = "ok" => dec.at + Have = avail /\ dec.ending = "eof"
      BY <1>2, <1>4
    <3> QED BY <1>1, <2>2, <3>1, OpenReads DEF Reader!ReaderNext
  <2> QED BY <1>4, <2>1, <2>2 DEF OpenNext
<1>5. ASSUME BodyFails(Have) PROVE Reader!ReaderNext
    BY <1>3, <1>5 DEF BodyFails
<1>6. CASE DecryptGo(Have)
    BY <1>3, <1>4, <1>5, <1>6 DEF DecryptGo
<1>7. CASE DecryptPorts(Have)
    BY <1>3, <1>4, <1>5, <1>7, CleanAnswer DEF DecryptPorts
<1> QED BY <1>6, <1>7 DEF Decrypt

(* Whatever the library, the stream's length and the place where its store     *)
(* ends it, DecryptStream opens whole chunks in order and succeeds only with   *)
(* all of a stream that ends behind them with no error left to tell: the loop  *)
(* that GetObject has.                                                        *)
THEOREM Reads == Spec => ImplementsReader
<1>1. Init => Reader!ReaderInit
  <2> SUFFICES ASSUME Init PROVE Reader!ReaderInit
    OBVIOUS
  <2>1. InputWhole \subseteq Nat /\ dec.number = 0 /\ dec.result = "idle"
    BY DEF Init, InputWhole
  <2>2. InputClean \in BOOLEAN
    BY Zenon DEF InputClean
  <2> QED BY <2>1, <2>2 DEF Reader!ReaderInit
<1>2. Inv /\ [Next]_vars => [Reader!ReaderNext]_(Reader!readerVars)
  <2> SUFFICES ASSUME Inv, [Next]_vars
               PROVE  [Reader!ReaderNext]_(Reader!readerVars)
    OBVIOUS
  <2>1. CASE UNCHANGED vars
    BY <2>1, InputStays DEF vars, Reader!readerVars
  <2>2. CASE Encrypt \/ EncryptGivesUp
    BY <2>2, EncryptReads
  <2>3. CASE DecryptGivesUp
    BY <2>3, StopReads DEF DecryptGivesUp, Reader!ReaderNext
  <2>4. CASE \E lib \in Libraries, ending \in Endings(Go), bytes \in 0..Written :
               Fetch(lib, ending, bytes)
    BY <2>4, FetchReads DEF Reader!ReaderNext
  <2>5. CASE Decrypt
    BY <2>5, DecryptReads
  <2> QED BY <2>1, <2>2, <2>3, <2>4, <2>5 DEF Next
<1> QED BY <1>1, <1>2, Invariance, PTL DEF Spec, ImplementsReader, Reader!ReaderSpec
-----------------------------------------------------------------------------
(* The encrypting loop is a ChunkWriter *)

(* What one read takes, as ChunkWriter counts it.                             *)
LEMMA GotIsChunk ==
    ASSUME Inv
    PROVE enc.read + Got = Writer!AfterChunk
<1>1. /\ Got \in 0..chunk /\ Got <= size - enc.read
      /\ Got < chunk => Got = size - enc.read
      /\ enc.read \in 0..size /\ size \in Nat /\ chunk \in Nat \ {0}
    BY GotIs, Numeric
<1>2. CASE Got = chunk
    BY <1>1, <1>2 DEF Writer!AfterChunk
<1>3. CASE Got < chunk
    BY <1>1, <1>3 DEF Writer!AfterChunk
<1> QED BY <1>1, <1>2, <1>3

(* What a step makes of the encryptor, field by field.                        *)
LEMMA EncIs ==
    ASSUME Inv, NEW n \in Nat, NEW result,
           enc' = [enc EXCEPT !.read = @ + n, !.result = result]
    PROVE /\ enc'.read = enc.read + n /\ enc'.result = result
          /\ enc'.ending = enc.ending
BY DEF Inv, Types

LEMMA EndingStays ==
    ASSUME enc'.ending = enc.ending
    PROVE SourceClean' = SourceClean
BY DEF SourceClean

(* A sealed chunk is one more taken, or an empty one of an unexpected end.    *)
LEMMA SealWrites ==
    ASSUME Inv, enc.result = "running", UNCHANGED <<size, chunk>>,
           NEW result \in {"running", "ok"}, Seal(Got, result),
           result = "ok" => SourceClean /\ Got > 0 /\ Got < chunk
    PROVE [Writer!WriterNext]_(Writer!writerVars)
<1>1. /\ Got \in 0..chunk /\ Got <= size - enc.read /\ Got \in Nat
      /\ Got < chunk => Got = size - enc.read
      /\ enc.read \in 0..size /\ size \in Nat /\ chunk \in Nat \ {0}
    BY GotIs, Numeric
<1>2. /\ enc'.read = enc.read + Got /\ enc'.result = result
      /\ enc'.ending = enc.ending
    BY <1>1, EncIs DEF Seal
<1>3. SourceClean' = SourceClean
    BY <1>2, EndingStays
<1>4. CASE Got > 0
  <2>1. enc.read < size
    BY <1>1, <1>4
  <2>2. enc'.read = Writer!AfterChunk
    BY <1>2, GotIsChunk
  <2>3. result = "ok" => Writer!AfterChunk = size
    BY <1>1, GotIsChunk
  <2>4. Writer!Take
    BY <1>2, <1>3, <2>1, <2>2, <2>3 DEF Writer!Take
  <2> QED BY <2>4 DEF Writer!WriterNext
<1>5. CASE Got = 0
  <2>1. enc'.read = enc.read /\ result = "running"
    BY <1>1, <1>2, <1>5
  <2> QED BY <1>2, <1>3, <2>1 DEF Writer!writerVars
<1> QED BY <1>1, <1>4, <1>5

LEMMA StopWrites ==
    ASSUME Inv, enc.result = "running", UNCHANGED <<size, chunk>>,
           NEW result \in {"ok", "error"}, StopEncrypting(result),
           result = "ok" => Got = 0 /\ SourceClean
    PROVE Writer!WriterNext
<1>1. /\ enc'.result = result /\ enc'.read = enc.read
      /\ enc'.ending = enc.ending
    BY DEF StopEncrypting, Inv, Types
<1>2. SourceClean' = SourceClean
    BY <1>1, EndingStays
<1>3. CASE result = "ok"
  <2>1. /\ Got < chunk => Got = size - enc.read
        /\ enc.read \in 0..size /\ size \in Nat /\ chunk \in Nat \ {0}
    BY GotIs, Numeric
  <2>2. enc.read = size
    BY <1>3, <2>1
  <2>3. Writer!Finish
    BY <1>1, <1>2, <1>3, <2>2 DEF Writer!Finish
  <2> QED BY <2>3 DEF Writer!WriterNext
<1>4. CASE result = "error"
  <2>1. Writer!Fail
    BY <1>1, <1>2, <1>4 DEF Writer!Fail
  <2> QED BY <2>1 DEF Writer!WriterNext
<1> QED BY <1>3, <1>4

LEMMA EncryptWrites == Inv /\ Encrypt => [Writer!WriterNext]_(Writer!writerVars)
<1> SUFFICES ASSUME Inv, Encrypt PROVE [Writer!WriterNext]_(Writer!writerVars)
    OBVIOUS
<1>1. enc.result = "running" /\ UNCHANGED <<size, chunk>>
    BY DEF Encrypt
<1>2. ASSUME SourceFails(Got) PROVE Writer!WriterNext
    BY <1>1, <1>2, StopWrites DEF SourceFails
<1>3. ASSUME Got = 0, SourceClean, StopEncrypting("ok")
      PROVE Writer!WriterNext
    BY <1>1, <1>3, StopWrites
<1>4. ASSUME Seal(Got, "running") PROVE [Writer!WriterNext]_(Writer!writerVars)
    BY <1>1, <1>4, SealWrites
<1>5. ASSUME Seal(Got, "ok"), Got < chunk, Got > 0, enc.ending = "eof"
      PROVE [Writer!WriterNext]_(Writer!writerVars)
    BY <1>1, <1>5, SealWrites DEF SourceClean
<1>6. CASE EncryptGo(Got)
    BY <1>2, <1>3, <1>4, <1>6, SourceSays DEF EncryptGo
<1>7. CASE EncryptKotlin(Got)
    BY <1>2, <1>3, <1>4, <1>5, <1>7 DEF EncryptKotlin, SourceClean
<1>8. CASE EncryptSwift(Got)
    BY <1>2, <1>3, <1>4, <1>8 DEF EncryptSwift, SourceClean
<1> QED BY <1>6, <1>7, <1>8 DEF Encrypt

LEMMA GivesUpWrites == Inv /\ EncryptGivesUp => Writer!WriterNext
<1> SUFFICES ASSUME Inv, EncryptGivesUp PROVE Writer!WriterNext
    OBVIOUS
<1>1. PICK n \in {0, Got} : enc' = [enc EXCEPT !.read = @ + n, !.result = "error"]
    BY DEF EncryptGivesUp
<1>2. n \in Nat /\ enc.read \in Nat
    BY <1>1, GotIs, Numeric
<1>3. /\ enc'.read = enc.read + n /\ enc'.result = "error"
      /\ enc'.ending = enc.ending
    BY <1>1, <1>2, EncIs
<1>4. enc.read + n \in {enc.read, Writer!AfterChunk}
    BY <1>1, <1>2, GotIsChunk
<1>5. SourceClean' = SourceClean
    BY <1>3, EndingStays
<1>6. Writer!Fail
    BY <1>3, <1>4, <1>5 DEF EncryptGivesUp, Writer!Fail
<1> QED BY <1>6 DEF Writer!WriterNext

(* Whatever the library, the source's length and the way it ends,             *)
(* EncryptStream takes it chunk by chunk, each full but for the last, and     *)
(* succeeds only with all of a source that answers its end, if not right away  *)
(* then after one error: PutObject's loop.                                    *)
THEOREM Writes == Spec => Writer!WriterSpec
<1>1. Init => Writer!WriterInit
  <2> SUFFICES ASSUME Init PROVE Writer!WriterInit
    OBVIOUS
  <2>1. size \in Nat /\ chunk \in Nat \ {0} /\ enc.read = 0 /\ enc.result = "running"
    BY Sizes DEF Init
  <2>2. SourceClean \in BOOLEAN
    BY Zenon DEF SourceClean
  <2> QED BY <2>1, <2>2 DEF Writer!WriterInit
<1>2. Inv /\ [Next]_vars => [Writer!WriterNext]_(Writer!writerVars)
  <2> SUFFICES ASSUME Inv, [Next]_vars
               PROVE  [Writer!WriterNext]_(Writer!writerVars)
    OBVIOUS
  <2>1. CASE UNCHANGED <<size, chunk, enc>>
    <3>1. SourceClean' = SourceClean
      BY <2>1, EndingStays
    <3> QED BY <2>1, <3>1 DEF Writer!writerVars
  <2>2. CASE Encrypt
    BY <2>2, EncryptWrites
  <2>3. CASE EncryptGivesUp
    BY <2>3, GivesUpWrites
  <2> QED BY <2>1, <2>2, <2>3 DEF Next, vars, DecryptGivesUp, Fetch, Decrypt
<1> QED BY <1>1, <1>2, Invariance, PTL DEF Spec, Writer!WriterSpec

(* Both loops of every library keep to the interfaces that the client's two   *)
(* pipelines are built on.                                                    *)
THEOREM Refinement == Spec => ImplementsBoth
BY Reads, Writes, PTL DEF ImplementsBoth
=============================================================================
