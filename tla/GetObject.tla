------------------------------ MODULE GetObject ------------------------------
(***************************************************************************)
(* One call of Client.GetObject (file-application/api-get-object.go) and   *)
(* the reading of the Body it returns, as the processes that run them:     *)
(*   caller    the goroutine in GetObject                                  *)
(*   dec       the goroutine that decrypts a private object (line 198)     *)
(*   consumer  whoever reads and closes the Body                           *)
(*   network   http.Client.Do, the response body and the gateway (external)*)
(* The object is a file of chunks 1..len as PutObject stored it; a torn    *)
(* file has part of one more chunk at its end.  The Body delivers n for the*)
(* plaintext of chunk n, -n for its ciphertext, 0 for a torn chunk's bytes.*)
(***************************************************************************)
EXTENDS Integers, Sequences

CONSTANT MaxChunks   \* the longest object, in chunks
ASSUME MaxChunksIsNat == MaxChunks \in Nat

VARIABLES
    call,        \* the object asked for and what the call's checks will find
    ctx,         \* the caller's context: "live" or "done"
    caller,      \* where GetObject is
    result,      \* what it returned
    body,        \* the Body of its output: the response's or a pipe
    resp,        \* the response body: "none", "open" or "closed"
    net,         \* its connection: "up", "fin" (cut), "failed" (error)
    read,        \* chunks read from it
    torn,        \* the torn chunk was read from it
    dec,         \* where the decrypting goroutine is
    plain,       \* the plaintext it waits to write
    pipeEnd,     \* how it closed the pipe
    pipeClosed,  \* the consumer closed the pipe
    got,         \* what the consumer has read
    end          \* what ended its reading

callerVars == <<caller, result, body>>
respVars   == <<resp, net, read, torn>>
decVars    == <<dec, plain, pipeEnd>>
userVars   == <<pipeClosed, got, end>>
vars == <<call, ctx, callerVars, respVars, decVars, userVars>>
-----------------------------------------------------------------------------
(* "capsule" is what CapsuleFromJWT finds in the caller's token: none (also *)
(* when it fails), one no decryptor can be made of, one whose key opens the *)
(* object's chunks, or one of another file.  "early": the check the call    *)
(* fails before Do, if any.                                                 *)
Calls == [access : {"public", "private"}, len : 0..MaxChunks, torn : BOOLEAN,
          capsule : {"none", "malformed", "right", "other"},
          early : BOOLEAN]

Init ==
    /\ call \in Calls
    /\ ctx = "live"
    /\ caller = "start" /\ result = "none" /\ body = "none"
    /\ resp = "none" /\ net = "up" /\ read = 0 /\ torn = FALSE
    /\ dec = "off" /\ plain = 0 /\ pipeEnd = "open"
    /\ pipeClosed = FALSE /\ got = <<>> /\ end = "none"
-----------------------------------------------------------------------------
(* caller *)

Return(r) == caller' = "returned" /\ result' = r

\* Arguments, configuration, Authorization header and presentation: nothing
\* is open yet.
Reject ==
    /\ caller = "start" /\ call.early
    /\ Return("error")
    /\ UNCHANGED <<call, ctx, body, respVars, decVars, userVars>>

DoFails ==
    /\ caller = "start" /\ ~call.early
    /\ Return("error")
    /\ UNCHANGED <<call, ctx, body, respVars, decVars, userVars>>

DoReturns ==
    /\ caller = "start" /\ ~call.early
    /\ caller' = "response" /\ resp' = "open"
    /\ UNCHANGED <<call, ctx, result, body, net, read, torn, decVars, userVars>>

\* Mutant: the deferred close is forgotten.
CloseOnErrorForgotten == resp

\* shouldCloseBody is still TRUE: the deferred function closes the response.
CloseOnError == "closed"

\* A status of 400 or more, or a capsule no decryptor can be made of.
ReturnError ==
    /\ caller = "response"
    /\ Return("error")
    /\ resp' = CloseOnError
    /\ UNCHANGED <<call, ctx, body, net, read, torn, decVars, userVars>>

\* The output's Body: the response's own, or the pipe dec writes to.
ReturnBody ==
    /\ caller = "response"
    /\ call.capsule # "malformed"
    /\ Return("ok")
    /\ IF call.capsule = "none"
       THEN body' = "response" /\ UNCHANGED dec
       ELSE body' = "pipe" /\ dec' = "read"
    /\ UNCHANGED <<call, ctx, respVars, plain, pipeEnd, userVars>>

Cancel ==
    /\ ctx = "live"
    /\ ctx' = "done"
    /\ UNCHANGED <<call, callerVars, respVars, decVars, userVars>>
-----------------------------------------------------------------------------
(* The response body, as both its readers see it *)

\* The connection is cut (io.ErrUnexpectedEOF from there on), or it fails:
\* a reset, the client's Timeout, a context that is done.
NetBreaks ==
    /\ resp = "open" /\ net = "up"
    /\ net' \in {"fin", "failed"}
    /\ UNCHANGED <<call, ctx, callerVars, resp, read, torn, decVars, userVars>>

MoreChunks == net = "up" /\ read < call.len
TornChunk  == net = "up" /\ read = call.len /\ call.torn /\ ~torn
AtEnd      == net = "up" /\ read = call.len /\ (call.torn => torn)
-----------------------------------------------------------------------------
(* dec: DecryptStream(ctx, response, pipe), the pipe's close, the response's *)

\* The capsule's key opens a chunk of this object; chunk n has nonce n, so it
\* opens in its place only.
Opens == call.access = "private" /\ call.capsule = "right"

\* Mutant: an io.ErrUnexpectedEOF without data ends the loop as io.EOF does.
EndOfStreamLoose == AtEnd \/ net = "fin"

\* err == io.EOF: the response ended, and at a chunk's boundary.
EndOfStream == AtEnd

\* Mutant: what is left of a torn chunk is handed on as a chunk.
OpenedTorn == (MoreChunks \/ TornChunk) /\ Opens

\* What was read opens: a whole chunk under the right key.  A torn chunk and
\* the empty read after a cut connection do not.
Opened == MoreChunks /\ Opens

\* Mutant: only the regular end closes the pipe.
DecClosesPipeAtEnd(kind) ==
    /\ dec' = "close"
    /\ pipeEnd' = IF kind = "eof" THEN kind ELSE pipeEnd
    /\ UNCHANGED <<plain, read, torn>>

DecClosesPipe(kind) ==
    /\ dec' = "close"
    /\ pipeEnd' = kind
    /\ UNCHANGED <<plain, read, torn>>

DecRead ==
    /\ dec = "read"
    /\ IF ctx = "done" \/ net = "failed" THEN DecClosesPipe("error")
       ELSE IF EndOfStream THEN DecClosesPipe("eof")
       ELSE IF ~Opened THEN DecClosesPipe("error")
       ELSE /\ dec' = "write" /\ plain' = read + 1 /\ read' = read + 1
            /\ UNCHANGED <<pipeEnd, torn>>
    /\ UNCHANGED <<call, ctx, callerVars, resp, net, userVars>>

\* The consumer closed the pipe: out.Write fails, DecryptStream returns it.
DecWriteFails ==
    /\ dec = "write" /\ pipeClosed
    /\ dec' = "close" /\ pipeEnd' = "error"
    /\ UNCHANGED <<call, ctx, callerVars, respVars, plain, userVars>>

\* Mutant: the goroutine leaves the response open.
DecLeavesOpen == resp

\* defer body.Close()
DecReleases == "closed"

DecEnds ==
    /\ dec = "close"
    /\ dec' = "done" /\ resp' = DecReleases
    /\ UNCHANGED <<call, ctx, callerVars, net, read, torn, plain, pipeEnd, userVars>>
-----------------------------------------------------------------------------
(* consumer *)

Reading == caller = "returned" /\ result = "ok" /\ end = "none"

Ends(kind) == end' = kind /\ UNCHANGED <<got, read, torn>>

\* The Body is the response itself.
ReadResponse ==
    /\ Reading /\ body = "response"
    /\ \/ /\ MoreChunks
          /\ read' = read + 1
          /\ got' = Append(got, IF call.access = "public" THEN read + 1
                                                          ELSE -(read + 1))
          /\ UNCHANGED <<torn, end>>
       \/ /\ TornChunk
          /\ torn' = TRUE /\ got' = Append(got, 0)
          /\ UNCHANGED <<read, end>>
       \/ AtEnd /\ Ends("eof")
       \/ net \in {"fin", "failed"} /\ Ends("error")
    /\ UNCHANGED <<call, ctx, callerVars, resp, net, decVars, pipeClosed>>

\* The Body is the pipe.
ReadPipe ==
    /\ Reading /\ body = "pipe"
    /\ \/ /\ dec = "write"
          /\ got' = Append(got, plain) /\ dec' = "read"
          /\ UNCHANGED end
       \/ /\ pipeEnd # "open"
          /\ end' = pipeEnd
          /\ UNCHANGED <<got, dec>>
    /\ UNCHANGED <<call, ctx, callerVars, respVars, plain, pipeEnd, pipeClosed>>

CloseOutput ==
    /\ caller = "returned" /\ result = "ok" /\ end # "closed"
    /\ end' = "closed"
    /\ IF body = "pipe"
       THEN pipeClosed' = TRUE /\ UNCHANGED resp
       ELSE resp' = "closed" /\ UNCHANGED pipeClosed
    /\ UNCHANGED <<call, ctx, callerVars, net, read, torn, decVars, got>>
-----------------------------------------------------------------------------
\* A consumer that stops reading without Close leaves dec in its Write and the
\* response open.
Stop ==
    /\ caller = "returned"
    /\ dec \in {"off", "done"} \/ (dec = "write" /\ ~pipeClosed)
    /\ UNCHANGED vars

CallerStep == Reject \/ DoFails \/ DoReturns \/ ReturnError \/ ReturnBody
DecStep    == DecRead \/ DecWriteFails \/ DecEnds
Read       == ReadResponse \/ ReadPipe

Next == CallerStep \/ Cancel \/ NetBreaks \/ DecStep \/ Read \/ CloseOutput \/ Stop

Spec == Init /\ [][Next]_vars

\* Goroutines run, and a Read of the response returns (the client's Timeout
\* covers the body).
FairSpec == Spec /\ WF_vars(CallerStep) /\ WF_vars(DecStep)
-----------------------------------------------------------------------------
(* Properties *)

\* Every variable keeps its type.
TypeOK ==
    /\ call \in Calls /\ ctx \in {"live", "done"}
    /\ caller \in {"start", "response", "returned"}
    /\ result \in {"none", "ok", "error"}
    /\ body \in {"none", "response", "pipe"}
    /\ resp \in {"none", "open", "closed"} /\ net \in {"up", "fin", "failed"}
    /\ read \in 0..MaxChunks /\ torn \in BOOLEAN
    /\ dec \in {"off", "read", "write", "close", "done"}
    /\ plain \in 0..MaxChunks /\ pipeEnd \in {"open", "eof", "error"}
    /\ pipeClosed \in BOOLEAN /\ got \in Seq(Int)
    /\ end \in {"none", "eof", "error", "closed"}

Whole(n) == [i \in 1..n |-> i]

\* One owner of the response at a time: an error return leaves none open, and
\* nobody closes it under the decrypting goroutine.
ResponseOwned ==
    /\ result = "error" => resp # "open"
    /\ dec \in {"read", "write", "close"} => resp = "open"

\* Closing the Body, or reading the pipe to its end or its error, ends the
\* decrypting goroutine and closes the response.
ReleasedAtEnd ==
    (end = "closed" \/ (body = "pipe" /\ end # "none"))
        ~> (resp = "closed" /\ dec \in {"off", "done"})

\* A consumer that keeps reading gets to an end of the Body: the goroutine
\* always closes the pipe, whatever stops it.
DrainEnds == WF_vars(Read) => (result = "ok") ~> (end # "none")

\* What the output's Body has to deliver.
ContentLen ==
    IF call.capsule = "none" THEN call.len + IF call.torn THEN 1 ELSE 0
    ELSE IF Opens THEN call.len ELSE 0

Content ==
    [i \in 1..ContentLen |->
        IF i > call.len THEN 0
        ELSE IF call.access = "public" \/ call.capsule # "none" THEN i ELSE -i]

Deliverable ==
    call.capsule # "none" => ~call.torn /\ (Opens \/ call.len = 0)

Abstract == INSTANCE Delivery WITH content <- Content, readable <- Deliverable

\* The response, the goroutine and the pipe implement Delivery: through the pipe
\* comes the plaintext of this object only, in order, and nothing without its
\* key; an end of file comes only after all of it, so that neither a torn file
\* nor a connection cut in mid-transfer looks like a shorter file.
ImplementsDelivery == Abstract!DeliverySpec

\* What the goroutine can read, whether it ends cleanly, and what became of it.
InputWhole == IF net = "up" THEN 1..call.len ELSE 1..read
InputClean == net = "up" /\ ~call.torn
ChunksOpened == IF dec = "off" THEN 0 ELSE read
LoopState ==
    IF dec = "off" THEN "idle"
    ELSE IF pipeEnd = "open" THEN "running"
    ELSE IF pipeEnd = "eof" THEN "ok" ELSE "error"

Reader == INSTANCE ChunkReader WITH
    whole <- InputWhole, clean <- InputClean, opened <- ChunksOpened, state <- LoopState

\* The Body implements Delivery, and the goroutine behind it does to the chunks
\* of the response what ChunkReader allows, as DecryptStream does to the bytes.
ImplementsBoth == ImplementsDelivery /\ Reader!ReaderSpec
-----------------------------------------------------------------------------
(* The inductive invariant *)

Stages ==
    /\ caller = "start" => resp = "none" /\ result = "none"
    /\ caller = "response" => resp = "open" /\ result = "none"
    /\ caller # "returned" => /\ body = "none" /\ got = <<>> /\ read = 0
                            /\ ~torn /\ end = "none"
    /\ result = "ok" <=> body # "none"
    /\ body = "pipe" <=> dec # "off"
    /\ dec = "off" => pipeEnd = "open"
    /\ result = "error" => resp # "open"

Hand == IF dec = "write" THEN 1 ELSE 0

Decrypting ==
    body = "pipe" =>
        /\ got = Whole(Len(got)) /\ (got # <<>> => Opens)
        /\ dec \in {"read", "write"} => Len(got) + Hand = read
        /\ dec = "write" => plain = read /\ Opens
        /\ dec \in {"read", "write", "close"} => resp = "open"
        /\ pipeEnd # "open" <=> dec \in {"close", "done"}
        /\ pipeEnd = "eof" => Len(got) = call.len /\ ~call.torn
        /\ end = "eof" => pipeEnd = "eof"
        /\ ~torn

Copying ==
    body = "response" =>
        /\ Len(got) = read + IF torn THEN 1 ELSE 0
        /\ torn => call.torn /\ read = call.len

FirstOf(s, n) == [i \in 1..n |-> s[i]]

Delivered ==
    /\ got = FirstOf(Content, Len(got))
    /\ Len(got) <= ContentLen /\ read <= call.len
    /\ body = "response" <=> result = "ok" /\ call.capsule = "none"
    /\ body = "pipe" => call.capsule # "none"

Inv == TypeOK /\ Stages /\ Decrypting /\ Copying /\ Delivered
=============================================================================
