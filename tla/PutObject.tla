------------------------------ MODULE PutObject ------------------------------
(***************************************************************************)
(* One call of Client.PutObject (file-application/api-put-object.go) as the*)
(* processes that run it:                                                  *)
(*   caller     the goroutine that called PutObject                        *)
(*   enc        the goroutine that encrypts a private body (line 190)      *)
(*   mp         the goroutine that writes the multipart form (line 206)    *)
(*   transport  http.Client.Do and the gateway behind it (external)        *)
(* enc hands its chunks to mp through one io.Pipe, mp hands the form to the*)
(* transport through another.  An io.Pipe has no buffer: a Write and the   *)
(* Read that takes it are one step here, and a Write waits until there is a*)
(* Read or the other end is closed.                                        *)
(*                                                                         *)
(* A block stands for one read of the body: a chunk of encryptorChunkSize  *)
(* bytes in a private upload, a copy buffer in a public one.  The body is  *)
(* the blocks 1..len, then what its reader answers from there on.          *)
(***************************************************************************)
EXTENDS Integers, Sequences, FiniteSets

CONSTANT MaxBlocks     \* the longest body, in blocks

ASSUME MaxBlocksIsNat == MaxBlocks \in Nat

VARIABLES
    call,      \* the call's arguments, what its checks find, the gateway's kind
    ctx,       \* the caller's context: "live" or "done"
    caller,    \* where PutObject is
    result,    \* what it returned
    enc,       \* where the encrypting goroutine is
    sealed,    \* the block it waits to write, 0 for an empty chunk
    encEnd,    \* how it closed its pipe
    told,      \* it was told that the body ended unexpectedly
    taken,     \* blocks read from the caller's body
    mp,        \* where the multipart goroutine is
    held,      \* the block it waits to write
    failed,    \* the error it will close its pipe with (TRUE) or none
    mpEnd,     \* how it closed its pipe
    prClosed,  \* the transport has closed the request body
    conn,      \* the exchange with the gateway
    formed,    \* form items on the wire
    data,      \* blocks on the wire
    closed,    \* the closing boundary is on the wire
    ended,     \* the request body has ended, without error
    stored,    \* the gateway has stored a file
    file,      \* the blocks of that file
    reply      \* the gateway's answer

callerVars == <<caller, result>>
encVars    == <<enc, sealed, encEnd, told>>
mpVars     == <<mp, held, failed, mpEnd>>
wireVars   == <<prClosed, conn, formed, data, closed, ended>>
gwVars     == <<stored, file, reply>>
vars == <<call, ctx, callerVars, encVars, taken, mpVars, wireVars, gwVars>>
-----------------------------------------------------------------------------
(* The call.  "early" is the check at which PutObject gives up before Do:  *)
(* a missing argument or configuration, the resolver of the owner's key,   *)
(* NewRequest, the Authorization header, the verifiable presentation.      *)
(* "end" is what the body's reader answers after its last block: io.EOF; an*)
(* error at every further Read, or io.ErrUnexpectedEOF at every one ("cut", *)
(* the body of an HTTP response or of a gzip stream); or one error and     *)
(* io.EOF after it ("once"), which is io.ErrUnexpectedEOF with the last    *)
(* block or alone, as of the body of an HTTP server's request, or any with *)
(* a last block that is full.  A gateway "waits" for the end of the request*)
(* before it stores a file, or stores it at the closing boundary of the    *)
(* form ("eager"): the repository does not hold the gateway.               *)

Calls == [access : {"public", "private"}, len : 0..MaxBlocks,
          end : {"eof", "error", "cut", "once"}, chunkSize : {0, 1},
          early : {"none", "input", "resolver", "request", "header", "vp"},
          gateway : {"waits", "eager"}]

GatewayWaits == call.gateway = "waits"

Private == call.access = "private"

\* issuer_did, owner_did, access_level, [capsule,] and the file part's header
FormItems == IF Private THEN 5 ELSE 4

Init ==
    /\ call \in Calls
    /\ ctx = "live"
    /\ caller = "start" /\ result = "none"
    /\ enc = "off" /\ sealed = 0 /\ encEnd = "open" /\ told = FALSE
    /\ taken = 0
    /\ mp = "off" /\ held = 0 /\ failed = FALSE /\ mpEnd = "open"
    /\ prClosed = FALSE /\ conn = "idle"
    /\ formed = 0 /\ data = <<>> /\ closed = FALSE /\ ended = FALSE
    /\ stored = FALSE /\ file = <<>> /\ reply = "none"
-----------------------------------------------------------------------------
(* caller *)

Return(r) == caller' = "returned" /\ result' = r

\* The checks that come before any goroutine is started.
Reject ==
    /\ caller = "start"
    /\ call.early = "input" \/ (Private /\ call.early = "resolver")
    /\ Return("error")
    /\ UNCHANGED <<call, ctx, encVars, taken, mpVars, wireVars, gwVars>>

\* Past them, both goroutines start before the request is even built.
StartPipeline ==
    /\ caller = "start"
    /\ call.early # "input" /\ ~(Private /\ call.early = "resolver")
    /\ caller' = "request"
    /\ enc' = IF Private THEN "read" ELSE "off"
    /\ mp' = "form"
    /\ UNCHANGED <<call, ctx, result, sealed, encEnd, told, taken, held, failed,
                   mpEnd, wireVars, gwVars>>

LateChecks == {"request", "header", "vp"}

\* Mutant: the error return waits for the multipart goroutine.
GivesUpWhenDrained ==
    caller = "request" /\ call.early \in LateChecks /\ mp = "done"

\* An error between there and Do: nothing closes the pipes.
GivesUp == caller = "request" /\ call.early \in LateChecks

GiveUpBeforeDo ==
    /\ GivesUp
    /\ Return("error")
    /\ UNCHANGED <<call, ctx, encVars, taken, mpVars, wireVars, gwVars>>

Do ==
    /\ caller = "request"
    /\ call.early \notin LateChecks
    /\ caller' = "do"
    /\ conn' = "open"
    /\ UNCHANGED <<call, ctx, result, encVars, taken, mpVars, prClosed, formed,
                   data, closed, ended, gwVars>>

DoFails ==
    /\ caller = "do" /\ conn = "lost"
    /\ Return("error")
    /\ UNCHANGED <<call, ctx, encVars, taken, mpVars, wireVars, gwVars>>

DoReturns ==
    /\ caller = "do" /\ reply # "none"
    /\ caller' = "response"
    /\ UNCHANGED <<call, ctx, result, encVars, taken, mpVars, wireVars, gwVars>>

\* The status check and the decoding of the answer.
RefuseResponse ==
    /\ caller = "response"
    /\ reply \in {"refused", "garbled"}
    /\ Return("error")
    /\ UNCHANGED <<call, ctx, encVars, taken, mpVars, wireVars, gwVars>>

\* With a CID the owner's credential is made first, and that may fail.
Finish(r) ==
    /\ caller = "response"
    /\ \/ reply = "cid"
       \/ reply = "noCid" /\ r = "ok"
    /\ Return(r)
    /\ UNCHANGED <<call, ctx, encVars, taken, mpVars, wireVars, gwVars>>

Cancel ==
    /\ ctx = "live"
    /\ ctx' = "done"
    /\ UNCHANGED <<call, callerVars, encVars, taken, mpVars, wireVars, gwVars>>
-----------------------------------------------------------------------------
(* enc: EncryptStream(ctx, body, encW) and the close that follows it *)

\* Mutant: the loop reads once more at the end of the body.
EncReadPastEnd ==
    /\ sealed' = taken + 1 /\ taken' = taken + 1
    /\ enc' = "write" /\ UNCHANGED <<encEnd, told>>

\* What a Read behind the last block is answered.
BodyAnswer ==
    IF call.end # "once" THEN call.end ELSE IF told THEN "eof" ELSE "cut"

\* Whether the read of the next block is told: at the last one it may be.
Telling == IF taken + 1 = call.len THEN BOOLEAN ELSE {FALSE}

\* The read of a block: io.ReadFull answers a chunk, or ErrUnexpectedEOF with
\* the bytes it has, perhaps none, or an error.  ErrUnexpectedEOF is no error to
\* the loop: what follows it is the next Read's answer.
EncReadBlock ==
    /\ \/ /\ taken < call.len
          /\ sealed' = taken + 1 /\ taken' = taken + 1
          /\ told' \in Telling
       \/ /\ taken = call.len /\ BodyAnswer = "cut"
          /\ sealed' = 0 /\ told' = TRUE /\ UNCHANGED taken
    /\ enc' = "write" /\ UNCHANGED encEnd

\* The end of the loop: io.EOF closes the pipe, an error closes it with the
\* error (CloseWithError).  chunkSize and ctx are looked at before each read.
EncCloses ==
    \/ call.chunkSize = 0 \/ ctx = "done"
    \/ taken = call.len /\ BodyAnswer \in {"eof", "error"}

\* Mutant: an error closes the pipe as the end of the body does.
EncCloseKindDropped == "eof"

\* Mutant: the error return forgets the pipe.
EncCloseKindForgotten ==
    IF call.chunkSize # 0 /\ ctx # "done" /\ BodyAnswer = "eof"
    THEN "eof" ELSE "open"

EncCloseKind ==
    IF call.chunkSize # 0 /\ ctx # "done" /\ BodyAnswer = "eof"
    THEN "eof" ELSE "error"

EncRead ==
    /\ enc = "read"
    /\ IF EncCloses
       THEN /\ enc' = "done" /\ encEnd' = EncCloseKind
            /\ UNCHANGED <<sealed, told, taken>>
       ELSE EncReadBlock
    /\ UNCHANGED <<call, ctx, callerVars, mpVars, wireVars, gwVars>>
-----------------------------------------------------------------------------
(* mp: the form, its file part copied from the body or from enc's pipe *)

\* A Write taken by the transport's Read: see Wire below.
WireOpen == conn = "open" /\ ~prClosed /\ ~ended

WriteItem ==
    /\ mp = "form" /\ WireOpen
    /\ formed' = formed + 1
    /\ mp' = IF formed + 1 = FormItems THEN "copy" ELSE "form"
    /\ UNCHANGED <<call, ctx, callerVars, encVars, taken, held, failed, mpEnd,
                   prClosed, conn, data, closed, ended, gwVars>>

\* Mutant: bodyReader is still the caller's body in a private upload.
ReadsBodyAlways == mp = "copy"

ReadsBody == mp = "copy" /\ ~Private

\* io.CopyBuffer reads a public body itself, to its first error ...
CopyFromBody ==
    /\ ReadsBody
    /\ \/ /\ taken < call.len
          /\ taken' = taken + 1 /\ held' = taken + 1
          /\ mp' = "data" /\ UNCHANGED failed
       \/ /\ taken = call.len
          /\ mp' = "boundary" /\ failed' = (call.end # "eof")
          /\ UNCHANGED <<taken, held>>
    /\ UNCHANGED <<call, ctx, callerVars, encVars, mpEnd, wireVars, gwVars>>

\* ... and a private one from enc's pipe.
CopyFromEnc ==
    /\ mp = "copy" /\ Private
    /\ \/ /\ enc = "write"
          /\ held' = sealed /\ enc' = "read"
          /\ mp' = "data" /\ UNCHANGED failed
       \/ /\ encEnd # "open"
          /\ mp' = "boundary" /\ failed' = (encEnd = "error")
          /\ UNCHANGED <<held, enc>>
    /\ UNCHANGED <<call, ctx, callerVars, sealed, encEnd, told, taken, mpEnd,
                   wireVars, gwVars>>

\* An empty chunk carries a tag and no plaintext: it adds no block.
WriteData ==
    /\ mp = "data" /\ WireOpen
    /\ data' = IF held = 0 THEN data ELSE Append(data, held)
    /\ mp' = "copy"
    /\ UNCHANGED <<call, ctx, callerVars, encVars, taken, held, failed, mpEnd,
                   prClosed, conn, formed, closed, ended, gwVars>>

\* Mutant: pw.Close after an error too.
CloseKindDropped == "eof"

\* pw.Close, or pw.CloseWithError
CloseKind == IF failed THEN "error" ELSE "eof"

\* The deferred writer.Close writes the closing boundary whatever the copy
\* came to, and only then is the pipe closed.
WriteBoundary ==
    /\ mp = "boundary" /\ WireOpen
    /\ closed' = TRUE
    /\ mp' = "close"
    /\ UNCHANGED <<call, ctx, callerVars, encVars, taken, held, failed, mpEnd,
                   prClosed, conn, formed, data, ended, gwVars>>

ClosePipe ==
    /\ mp = "close"
    /\ mp' = "done" /\ mpEnd' = CloseKind
    /\ UNCHANGED <<call, ctx, callerVars, encVars, taken, held, failed,
                   wireVars, gwVars>>

\* Mutant: the error of a Write is dropped.
WriteErrorDropped == failed

\* The error of the closing boundary's Write is dropped, that of any other
\* ends the form.
WriteError == failed \/ mp # "boundary"

\* A Write on a pipe whose reader is closed fails.
WriteFails ==
    /\ mp \in {"form", "data", "boundary"} /\ prClosed
    /\ mp' = "close"
    /\ failed' = WriteError
    /\ UNCHANGED <<call, ctx, callerVars, encVars, taken, held, mpEnd,
                   wireVars, gwVars>>
-----------------------------------------------------------------------------
(* transport and gateway *)

ReadEnd ==
    /\ WireOpen
    /\ \/ mpEnd = "eof" /\ ended' = TRUE /\ UNCHANGED conn
       \/ mpEnd = "error" /\ conn' = "lost" /\ UNCHANGED ended
    /\ UNCHANGED <<call, ctx, callerVars, encVars, taken, mpVars, prClosed,
                   formed, data, closed, gwVars>>

\* The network fails, the client's Timeout passes or its context is done.
Lose ==
    /\ conn = "open" /\ caller = "do"
    /\ conn' = "lost"
    /\ UNCHANGED <<call, ctx, callerVars, encVars, taken, mpVars, prClosed,
                   formed, data, closed, ended, gwVars>>

\* The transport always closes the request body, perhaps after Do returned.
CloseBody ==
    /\ conn # "idle" /\ ~prClosed
    /\ ended \/ conn = "lost" \/ caller \in {"response", "returned"}
    /\ prClosed' = TRUE
    /\ UNCHANGED <<call, ctx, callerVars, encVars, taken, mpVars, conn, formed,
                   data, closed, ended, gwVars>>

\* A multipart body is complete at its closing boundary: a gateway may store
\* the file there, or wait for the end of the request.
StoreReady == closed /\ (GatewayWaits => ended)

Store ==
    /\ StoreReady /\ ~stored
    /\ stored' = TRUE /\ file' = data
    /\ UNCHANGED <<call, ctx, callerVars, encVars, taken, mpVars, wireVars,
                   reply>>

\* An error status may come at any time, a success only after the file is
\* stored.  "garbled": a success whose body is cut or is not the JSON expected.
Reply(r) ==
    /\ conn = "open" /\ reply = "none"
    /\ r \in {"cid", "noCid", "garbled"} => stored
    /\ reply' = r
    /\ UNCHANGED <<call, ctx, callerVars, encVars, taken, mpVars, wireVars,
                   stored, file>>
-----------------------------------------------------------------------------
\* Where the whole may stop.  After an error before Do both goroutines stay in
\* their first Write; after a lost exchange enc may stay in a Write that the
\* ended mp will never read.
MpLeaked  == conn = "idle" /\ mp = "form" /\ formed = 0
EncLeaked == enc = "write" /\ (MpLeaked \/ (mp = "done" /\ failed))

Stop ==
    /\ caller = "returned"
    /\ mp \in {"off", "done"} \/ MpLeaked
    /\ enc \in {"off", "done"} \/ EncLeaked
    /\ conn # "idle" => prClosed
    /\ UNCHANGED vars

CallerStep == \/ Reject \/ StartPipeline \/ GiveUpBeforeDo \/ Do \/ DoFails
              \/ DoReturns \/ RefuseResponse \/ (\E r \in {"ok", "error"} : Finish(r))

MpStep == \/ WriteItem \/ CopyFromBody \/ CopyFromEnc \/ WriteData
          \/ WriteBoundary \/ ClosePipe \/ WriteFails

TransportStep == ReadEnd \/ Lose \/ CloseBody

GatewayStep == Store \/ \E r \in {"refused", "garbled", "cid", "noCid"} : Reply(r)

Next == CallerStep \/ Cancel \/ EncRead \/ MpStep \/ TransportStep
        \/ GatewayStep \/ Stop

\* Runnable goroutines run; a body's Read returns; the transport takes what is
\* written or closes the body; and http.Client has a Timeout (Lose).
Fairness ==
    /\ WF_vars(CallerStep) /\ WF_vars(EncRead) /\ WF_vars(MpStep)
    /\ WF_vars(ReadEnd) /\ WF_vars(Lose) /\ WF_vars(CloseBody)

Spec == Init /\ [][Next]_vars
FairSpec == Spec /\ Fairness
-----------------------------------------------------------------------------
(* Properties *)

Blocks == 0..MaxBlocks

\* Every variable keeps its type.
TypeOK ==
    /\ call \in Calls /\ ctx \in {"live", "done"}
    /\ caller \in {"start", "request", "do", "response", "returned"}
    /\ result \in {"none", "ok", "error"}
    /\ enc \in {"off", "read", "write", "done"} /\ sealed \in Blocks
    /\ encEnd \in {"open", "eof", "error"} /\ taken \in Blocks
    /\ told \in BOOLEAN
    /\ mp \in {"off", "form", "copy", "data", "boundary", "close", "done"}
    /\ held \in Blocks /\ failed \in BOOLEAN
    /\ mpEnd \in {"open", "eof", "error"}
    /\ prClosed \in BOOLEAN /\ conn \in {"idle", "open", "lost"}
    /\ formed \in 0..5 /\ data \in Seq(Blocks)
    /\ closed \in BOOLEAN /\ ended \in BOOLEAN
    /\ stored \in BOOLEAN /\ file \in Seq(Blocks)
    /\ reply \in {"none", "refused", "garbled", "cid", "noCid"}

Whole(n) == [i \in 1..n |-> i]

\* The wire carries the body's blocks in order, none twice and none skipped,
\* and none before every form item (the capsule among them) is on it: enc
\* and mp read one body between them and never both.
WireInOrder ==
    /\ data = Whole(Len(data)) /\ Len(data) <= taken
    /\ data # <<>> \/ closed => formed = FormItems

\* The ends of a body that PutObject takes for its end: io.EOF, and in a private
\* upload also an error that the body's reader tells only once.
EndsWell == call.end = "eof" \/ (Private /\ call.end = "once")

\* With a gateway that waits for the end of the request PutObject returns
\* success only when all that the body's reader gave is stored, the body ended in
\* io.EOF, and both goroutines are past their last read of it: no error of either
\* is lost on the way through the two pipes.  The one that may be lost is lost
\* before them, in EncryptStream: io.ErrUnexpectedEOF told once.
SuccessIsWhole ==
    result = "ok" /\ GatewayWaits =>
        /\ stored /\ file = Whole(call.len) /\ EndsWell
        /\ mp = "done" /\ enc \in {"off", "done"}

\* A file shorter than the body is stored only when mp holds an error it is
\* about to close the request with: the closing boundary that writer.Close
\* writes ahead of that error makes the cut form look complete.  (What an error
\* told once cut off a private body is not known to anyone.)
TruncationIsReported ==
    stored => failed \/ (file = Whole(call.len) /\ EndsWell)

\* The encrypting goroutine is left in a Write that nobody reads only if mp
\* ended with an error: the regular end of an upload ends both.
RegularEndEndsBoth ==
    mp = "done" /\ ~failed => enc \in {"off", "done"}

\* Once Do was called the multipart goroutine ends, whatever body, gateway and
\* context do (an error before Do leaves it in its first Write for ever).
MultipartEnds == (caller = "do") ~> (mp = "done")

\* Once Do was called the encrypting goroutine ends, or is left in its Write
\* by an upload that failed.
EncryptorSettles ==
    (caller = "do" /\ Private) ~> (enc = "done" \/ EncLeaked)

Abstract == INSTANCE Upload WITH
    len <- call.len, readable <- EndsWell, waits <- GatewayWaits

\* The pipeline implements Upload, for either gateway; and it always returns.
ImplementsUpload == Abstract!UploadFairSpec

\* What the encrypting goroutine has taken of the body, and what became of it.
BlocksTaken == IF Private THEN taken ELSE 0
LoopState ==
    IF enc = "off" THEN "idle"
    ELSE IF encEnd = "open" THEN "running"
    ELSE IF encEnd = "eof" THEN "ok" ELSE "error"

Writer == INSTANCE ChunkWriter WITH
    len <- call.len, unit <- 1, clean <- EndsWell,
    taken <- BlocksTaken, state <- LoopState

\* The pipeline implements Upload; and the goroutine that encrypts a private
\* body does to its blocks what ChunkWriter allows, as EncryptStream does to the
\* bytes: it closes its pipe as at an end only after all of a body that answers
\* io.EOF, and after one error at most.
ImplementsBoth == ImplementsUpload /\ Writer!WriterSpec
-----------------------------------------------------------------------------
(* The inductive invariant: where each block of the body is, what each end of *)
(* a pipe says of the work behind it, and what the gateway may conclude.      *)

Copying == mp \in {"form", "copy", "data"}

\* Blocks on the wire or in mp's hands.
Passed == Len(data) + IF mp = "data" /\ held # 0 THEN 1 ELSE 0

Before ==
    /\ caller = "start" =>
        /\ mp = "off" /\ enc = "off" /\ taken = 0 /\ mpEnd = "open"
    /\ caller # "returned" => result = "none"

EveryBlock ==
    /\ data = Whole(Len(data)) /\ Len(data) <= taken /\ taken <= call.len
    /\ mp \in {"off", "form"} => data = <<>>
    /\ mp = "data" /\ held # 0 => held = Len(data) + 1
    /\ enc = "write" /\ sealed # 0 => sealed = taken
    /\ Copying =>
        taken = Passed + IF enc = "write" /\ sealed # 0 THEN 1 ELSE 0

Ends ==
    /\ enc # "off" => Private
    /\ Private /\ mp # "off" => enc # "off"
    /\ encEnd = "open" <=> enc # "done"
    /\ encEnd = "eof" => taken = call.len /\ EndsWell
    /\ mp = "off" \/ Copying => ~failed
    /\ mpEnd = "open" <=> mp # "done"
    /\ mpEnd = "eof" => ~failed
    /\ mp \in {"boundary", "close", "done"} /\ ~failed =>
        /\ EndsWell /\ Len(data) = call.len /\ enc \in {"off", "done"}

Form ==
    /\ mp = "off" => formed = 0
    /\ mp = "form" => formed < FormItems
    /\ mp \in {"copy", "data", "boundary"} => formed = FormItems
    /\ data # <<>> \/ closed => formed = FormItems
    /\ closed => mp \in {"close", "done"}
    /\ mp \in {"close", "done"} /\ ~failed /\ ~prClosed => closed
    /\ ended => mp = "done" /\ ~failed /\ closed

Exchange ==
    /\ stored => closed /\ file = data /\ (GatewayWaits => ended)
    /\ reply \in {"cid", "noCid", "garbled"} => stored
    /\ result = "ok" => reply \in {"cid", "noCid"}

Inv == TypeOK /\ Before /\ EveryBlock /\ Ends /\ Form /\ Exchange
=============================================================================
