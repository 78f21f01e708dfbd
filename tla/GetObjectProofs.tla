-------------------------- MODULE GetObjectProofs --------------------------
(* Proofs about GetObject, for objects of every length. *)
EXTENDS GetObject, TLAPS

(* A consumer that has the first n chunks has the first n + 1 of them with  *)
(* chunk n + 1.                                                             *)
LEMMA AppendWhole ==
    ASSUME NEW s \in Seq(Int), s = Whole(Len(s)), NEW b \in Int,
           b = Len(s) + 1
    PROVE  Append(s, b) = Whole(Len(Append(s, b)))
BY DEF Whole

(* The same for what is delivered of any content. *)
LEMMA AppendFirst ==
    ASSUME NEW c, NEW s \in Seq(Int), s = FirstOf(c, Len(s)), NEW b \in Int,
           b = c[Len(s) + 1]
    PROVE  /\ Append(s, b) = FirstOf(c, Len(Append(s, b)))
           /\ Len(Append(s, b)) = Len(s) + 1
BY DEF FirstOf

(* What the Body has to deliver depends on the call alone. *)
LEMMA ContentStable ==
    ASSUME UNCHANGED call
    PROVE  Content' = Content /\ ContentLen' = ContentLen
BY DEF Content, ContentLen, Opens

LEMMA InitInv == Init => Inv
<1> SUFFICES ASSUME Init PROVE Inv
    OBVIOUS
<1> USE MaxChunksIsNat DEF Init
<1>1. TypeOK
  <2>1. torn \in BOOLEAN /\ pipeClosed \in BOOLEAN
    BY Zenon
  <2> QED BY <2>1 DEF TypeOK
<1>2. Stages
    BY DEF Stages
<1>3. Decrypting
    BY DEF Decrypting
<1>4. Copying
    BY DEF Copying
<1>5. Delivered
    BY DEF Delivered, ContentLen, Opens, Calls, FirstOf
<1> QED BY <1>1, <1>2, <1>3, <1>4, <1>5 DEF Inv

LEMMA StepInv == Inv /\ [Next]_vars => Inv'
<1> SUFFICES ASSUME Inv, [Next]_vars PROVE Inv'
    OBVIOUS
<1> USE MaxChunksIsNat DEF Inv, callerVars, respVars, decVars, userVars
<1> call.len \in 0..MaxChunks
    BY DEF TypeOK, Calls
<1>1. CASE Reject
  <2> USE <1>1 DEF Reject, Return
  <2>1. TypeOK' BY DEF TypeOK, MoreChunks, TornChunk, AtEnd
  <2>2. Stages' BY DEF TypeOK, Stages
  <2>3. Decrypting' BY DEF TypeOK, Stages, Decrypting, Hand, Opens, Whole, MoreChunks, AtEnd, EndOfStream, Opened
  <2>4. Copying' BY DEF TypeOK, Stages, Copying
  <2>5. Delivered' BY ContentStable DEF TypeOK, Stages, Delivered
  <2> QED BY <2>1, <2>2, <2>3, <2>4, <2>5
<1>2. CASE DoFails
  <2> USE <1>2 DEF DoFails, Return
  <2>1. TypeOK' BY DEF TypeOK, MoreChunks, TornChunk, AtEnd
  <2>2. Stages' BY DEF TypeOK, Stages
  <2>3. Decrypting' BY DEF TypeOK, Stages, Decrypting, Hand, Opens, Whole, MoreChunks, AtEnd, EndOfStream, Opened
  <2>4. Copying' BY DEF TypeOK, Stages, Copying
  <2>5. Delivered' BY ContentStable DEF TypeOK, Stages, Delivered
  <2> QED BY <2>1, <2>2, <2>3, <2>4, <2>5
<1>3. CASE DoReturns
  <2> USE <1>3 DEF DoReturns
  <2>1. TypeOK' BY DEF TypeOK, MoreChunks, TornChunk, AtEnd
  <2>2. Stages' BY DEF TypeOK, Stages
  <2>3. Decrypting' BY DEF TypeOK, Stages, Decrypting, Hand, Opens, Whole, MoreChunks, AtEnd, EndOfStream, Opened
  <2>4. Copying' BY DEF TypeOK, Stages, Copying
  <2>5. Delivered' BY ContentStable DEF TypeOK, Stages, Delivered
  <2> QED BY <2>1, <2>2, <2>3, <2>4, <2>5
<1>4. CASE ReturnError
  <2> USE <1>4 DEF ReturnError, Return, CloseOnError
  <2>1. TypeOK' BY DEF TypeOK, MoreChunks, TornChunk, AtEnd
  <2>2. Stages' BY DEF TypeOK, Stages
  <2>3. Decrypting' BY DEF TypeOK, Stages, Decrypting, Hand, Opens, Whole, MoreChunks, AtEnd, EndOfStream, Opened
  <2>4. Copying' BY DEF TypeOK, Stages, Copying
  <2>5. Delivered' BY ContentStable DEF TypeOK, Stages, Delivered
  <2> QED BY <2>1, <2>2, <2>3, <2>4, <2>5
<1>5. CASE ReturnBody
  <2> USE <1>5 DEF ReturnBody, Return
  <2>1. TypeOK' BY DEF TypeOK, MoreChunks, TornChunk, AtEnd
  <2>2. Stages' BY DEF TypeOK, Stages
  <2>3. Decrypting'
    <3>1. CASE call.capsule = "none"
      BY <3>1 DEF Decrypting
    <3>2. CASE call.capsule # "none"
      <4>1. /\ dec' = "read" /\ got' = <<>> /\ read' = 0 /\ end' = "none"
            /\ resp' = "open" /\ pipeEnd' = pipeEnd /\ torn' = torn /\ ~torn
        BY <3>2 DEF Stages
      <4>2. pipeEnd = "open"
        BY <3>2 DEF Stages
      <4> QED BY <4>1, <4>2 DEF Decrypting, Hand, Whole
    <3> QED BY <3>1, <3>2
  <2>4. Copying' BY DEF TypeOK, Stages, Copying
  <2>5. Delivered' BY ContentStable DEF TypeOK, Stages, Delivered
  <2> QED BY <2>1, <2>2, <2>3, <2>4, <2>5
<1>6. CASE Cancel
  <2> USE <1>6 DEF Cancel
  <2>1. TypeOK' BY DEF TypeOK, MoreChunks, TornChunk, AtEnd
  <2>2. Stages' BY DEF TypeOK, Stages
  <2>3. Decrypting' BY DEF TypeOK, Stages, Decrypting, Hand, Opens, Whole, MoreChunks, AtEnd, EndOfStream, Opened
  <2>4. Copying' BY DEF TypeOK, Stages, Copying
  <2>5. Delivered' BY ContentStable DEF TypeOK, Stages, Delivered
  <2> QED BY <2>1, <2>2, <2>3, <2>4, <2>5
<1>7. CASE NetBreaks
  <2> USE <1>7 DEF NetBreaks
  <2>1. TypeOK' BY DEF TypeOK, MoreChunks, TornChunk, AtEnd
  <2>2. Stages' BY DEF TypeOK, Stages
  <2>3. Decrypting' BY DEF TypeOK, Stages, Decrypting, Hand, Opens, Whole, MoreChunks, AtEnd, EndOfStream, Opened
  <2>4. Copying' BY DEF TypeOK, Stages, Copying
  <2>5. Delivered' BY ContentStable DEF TypeOK, Stages, Delivered
  <2> QED BY <2>1, <2>2, <2>3, <2>4, <2>5
<1>8. CASE DecRead
  <2> USE <1>8 DEF DecRead, DecClosesPipe
  <2>1. TypeOK'
    <3>1. (Opened => read + 1 \in 0..MaxChunks) /\ dec' \in {"close", "write"}
      BY DEF TypeOK, Opened, MoreChunks
    <3> QED BY <3>1 DEF TypeOK
  <2>2. Stages' BY DEF TypeOK, Stages
  <2>3. Decrypting' BY DEF TypeOK, Stages, Decrypting, Hand, Opens, Whole, MoreChunks, AtEnd, EndOfStream, Opened
  <2>4. Copying' BY DEF TypeOK, Stages, Copying
  <2>5. Delivered'
    <3>1. read' <= call.len
      BY DEF TypeOK, Delivered, Opened, MoreChunks
    <3> QED BY <3>1, ContentStable DEF Delivered
  <2> QED BY <2>1, <2>2, <2>3, <2>4, <2>5
<1>9. CASE DecWriteFails
  <2> USE <1>9 DEF DecWriteFails
  <2>1. TypeOK' BY DEF TypeOK, MoreChunks, TornChunk, AtEnd
  <2>2. Stages' BY DEF TypeOK, Stages
  <2>3. Decrypting' BY DEF TypeOK, Stages, Decrypting, Hand, Opens, Whole, MoreChunks, AtEnd, EndOfStream, Opened
  <2>4. Copying' BY DEF TypeOK, Stages, Copying
  <2>5. Delivered' BY ContentStable DEF TypeOK, Stages, Delivered
  <2> QED BY <2>1, <2>2, <2>3, <2>4, <2>5
<1>10. CASE DecEnds
  <2> USE <1>10 DEF DecEnds, DecReleases
  <2>1. TypeOK' BY DEF TypeOK, MoreChunks, TornChunk, AtEnd
  <2>2. Stages' BY DEF TypeOK, Stages
  <2>3. Decrypting' BY DEF TypeOK, Stages, Decrypting, Hand, Opens, Whole, MoreChunks, AtEnd, EndOfStream, Opened
  <2>4. Copying' BY DEF TypeOK, Stages, Copying
  <2>5. Delivered' BY ContentStable DEF TypeOK, Stages, Delivered
  <2> QED BY <2>1, <2>2, <2>3, <2>4, <2>5
<1>11. CASE ReadResponse
  <2> USE <1>11 DEF ReadResponse, Reading, Ends
  <2>1. TypeOK'
    <3>1. torn' \in BOOLEAN
      BY Zenon DEF TypeOK
    <3>2. read' \in 0..MaxChunks
      BY DEF TypeOK, MoreChunks
    <3>3. \A x \in Int : Append(got, x) \in Seq(Int)
      BY DEF TypeOK
    <3>4. read + 1 \in Int /\ -(read + 1) \in Int /\ 0 \in Int
      BY DEF TypeOK
    <3>5. got' \in Seq(Int)
      BY <3>3, <3>4 DEF TypeOK
    <3> QED BY <3>1, <3>2, <3>5 DEF TypeOK
  <2>2. Stages' BY DEF TypeOK, Stages
  <2>3. Decrypting' BY DEF TypeOK, Stages, Decrypting
  <2>4. Copying'
    <3>1. Len(got) = read + IF torn THEN 1 ELSE 0
      BY DEF Copying
    <3>2. CASE MoreChunks /\ read' = read + 1
      <4>1. ~torn
        BY <3>2 DEF Copying, TypeOK, MoreChunks
      <4>2. Len(got') = Len(got) + 1 /\ torn' = torn
        BY <3>2 DEF TypeOK
      <4> QED BY <3>1, <3>2, <4>1, <4>2 DEF Copying, TypeOK
    <3>3. CASE TornChunk /\ torn'
      <4>1. Len(got') = Len(got) + 1 /\ read' = read /\ ~torn /\ read = call.len
        <5>1. ~torn /\ read = call.len /\ ~MoreChunks
          BY <3>3 DEF TypeOK, TornChunk, MoreChunks
        <5>2. got' = Append(got, 0) /\ read' = read
          BY <3>3, <5>1 DEF TypeOK
        <5> QED BY <5>1, <5>2 DEF TypeOK
      <4> QED BY <3>1, <3>3, <4>1 DEF Copying, TornChunk
    <3>4. CASE UNCHANGED <<got, read, torn>>
      BY <3>1, <3>4 DEF Copying
    <3> QED BY <3>2, <3>3, <3>4
  <2>5. Delivered'
    <3>1. /\ Len(got) = read + IF torn THEN 1 ELSE 0
          /\ call.capsule = "none" /\ read \in Nat
      <4>1. Len(got) = read + IF torn THEN 1 ELSE 0
        BY DEF Copying
      <4>2. call.capsule = "none" /\ read \in Nat
        BY DEF Delivered, TypeOK
      <4> QED BY <4>1, <4>2
    <3>2. got \in Seq(Int) /\ got = FirstOf(Content, Len(got))
      BY DEF TypeOK, Delivered
    <3>3. CASE MoreChunks /\ read' = read + 1
      <4>1. ~torn /\ read < call.len
        BY <3>3 DEF Copying, TypeOK, MoreChunks
      <4>2. PICK b \in {read + 1, -(read + 1)} :
                /\ got' = Append(got, b)
                /\ b = IF call.access = "public" THEN read + 1 ELSE -(read + 1)
        BY <3>3, <3>1
      <4>3. b = Content[Len(got) + 1] /\ Len(got) + 1 <= ContentLen /\ b \in Int
        BY <3>1, <4>1, <4>2 DEF Content, ContentLen
      <4>4. got' = FirstOf(Content, Len(got')) /\ Len(got') = Len(got) + 1
        BY <3>2, <4>2, <4>3, AppendFirst
      <4>5. read' <= call.len /\ UNCHANGED <<call, body, result>>
        BY <3>1, <3>3, <4>1
      <4>6. Len(got') <= ContentLen
        BY <4>3, <4>4
      <4> QED BY <4>4, <4>5, <4>6, ContentStable DEF Delivered
    <3>4. CASE TornChunk /\ torn'
      <4>1. got' = Append(got, 0) /\ read' = read /\ ~torn /\ read = call.len
        BY <3>4 DEF TornChunk
      <4>2. 0 = Content[Len(got) + 1] /\ Len(got) + 1 <= ContentLen
        BY <3>1, <3>4, <4>1 DEF Content, ContentLen, TornChunk
      <4>3. got' = FirstOf(Content, Len(got')) /\ Len(got') = Len(got) + 1
        BY <3>2, <4>1, <4>2, AppendFirst
      <4> QED BY <4>1, <4>2, <4>3, ContentStable DEF Delivered
    <3>5. CASE UNCHANGED <<got, read, torn>>
      BY <3>5, ContentStable DEF Delivered
    <3> QED BY <3>3, <3>4, <3>5
  <2> QED BY <2>1, <2>2, <2>3, <2>4, <2>5
<1>12. CASE ReadPipe
  <2> USE <1>12 DEF ReadPipe, Reading
  <2>1. TypeOK'
    <3>1. CASE dec = "write"
      <4>1. got' = Append(got, plain) /\ dec' = "read" /\ end' = end
        BY <3>1 DEF Stages, Decrypting
      <4>2. Append(got, plain) \in Seq(Int)
        BY DEF TypeOK
      <4> QED BY <4>1, <4>2 DEF TypeOK
    <3>2. CASE pipeEnd # "open"
      BY <3>2 DEF TypeOK, Stages, Decrypting
    <3> QED BY <3>1, <3>2
  <2>2. Stages' BY DEF TypeOK, Stages
  <2>3. Decrypting'
    <3>1. CASE dec = "write"
      <4>1. plain = Len(got) + 1 /\ Opens /\ pipeEnd = "open"
        BY <3>1 DEF TypeOK, Decrypting, Hand
      <4>2. got' = Append(got, plain) /\ dec' = "read" /\ end' = end
        BY <3>1, <4>1
      <4>3. Append(got, plain) = Whole(Len(got)+1) /\ Len(Append(got, plain)) = Len(got) + 1
        BY <4>1, AppendWhole DEF TypeOK, Decrypting
      <4> QED BY <3>1, <4>1, <4>2, <4>3 DEF TypeOK, Decrypting, Hand, Opens
    <3>2. CASE pipeEnd # "open"
      BY <3>2 DEF TypeOK, Decrypting, Hand, Opens
    <3> QED BY <3>1, <3>2
  <2>4. Copying' BY DEF TypeOK, Stages, Copying
  <2>5. Delivered'
    <3>1. CASE dec = "write"
      <4>1. /\ got' = Append(got, plain) /\ plain = Len(got) + 1
            /\ plain = read /\ plain \in Int /\ Opens
        BY <3>1 DEF TypeOK, Stages, Decrypting, Hand
      <4>2. plain \in 1..call.len /\ call.capsule # "none"
        BY <4>1 DEF TypeOK, Delivered
      <4>3. plain = Content[Len(got) + 1] /\ plain <= ContentLen
        BY <4>1, <4>2 DEF Content, ContentLen
      <4>4. got \in Seq(Int) /\ got = FirstOf(Content, Len(got))
        BY DEF TypeOK, Delivered
      <4>5. got' = FirstOf(Content, Len(got')) /\ Len(got') = plain
        BY <4>1, <4>3, <4>4, AppendFirst
      <4> QED BY <4>3, <4>5, ContentStable DEF Delivered
    <3>2. CASE pipeEnd # "open"
      BY <3>2, ContentStable DEF Delivered, Stages, Decrypting
    <3> QED BY <3>1, <3>2
  <2> QED BY <2>1, <2>2, <2>3, <2>4, <2>5
<1>13. CASE CloseOutput
  <2> USE <1>13 DEF CloseOutput
  <2>1. TypeOK' BY DEF TypeOK, MoreChunks, TornChunk, AtEnd
  <2>2. Stages' BY DEF TypeOK, Stages
  <2>3. Decrypting' BY DEF TypeOK, Stages, Decrypting, Hand, Opens, Whole, MoreChunks, AtEnd, EndOfStream, Opened
  <2>4. Copying' BY DEF TypeOK, Stages, Copying
  <2>5. Delivered' BY ContentStable DEF TypeOK, Stages, Delivered
  <2> QED BY <2>1, <2>2, <2>3, <2>4, <2>5
<1>14. CASE UNCHANGED vars
  <2> USE <1>14 DEF vars
  <2>1. TypeOK' BY DEF TypeOK
  <2>2. Stages' BY DEF Stages
  <2>3. Decrypting' BY DEF Decrypting, Hand, Opens
  <2>4. Copying' BY DEF TypeOK, Stages, Copying
  <2>5. Delivered' BY ContentStable DEF TypeOK, Stages, Delivered
  <2> QED BY <2>1, <2>2, <2>3, <2>4, <2>5
<1> QED
    BY <1>1, <1>2, <1>3, <1>4, <1>5, <1>6, <1>7, <1>8, <1>9, <1>10, <1>11, <1>12, <1>13, <1>14 DEF Next, CallerStep, DecStep, Read, Stop

LEMMA SpecInv == Spec => []Inv
<1> QED BY InitInv, StepInv, PTL DEF Spec

(* For objects of any length the response has one owner at a time.            *)
THEOREM Ownership == Spec => []ResponseOwned
<1>1. Inv => ResponseOwned
    BY DEF Inv, TypeOK, Stages, Decrypting, ResponseOwned
<1> QED BY <1>1, SpecInv, PTL

LEMMA ContentIsSeq == Inv => Content \in Seq(Int) /\ Len(Content) = ContentLen
<1> SUFFICES ASSUME Inv PROVE Content \in Seq(Int) /\ Len(Content) = ContentLen
    OBVIOUS
<1>1. call.len \in Nat /\ ContentLen \in Nat
    BY MaxChunksIsNat DEF Inv, TypeOK, Calls, ContentLen, Opens
<1> QED BY <1>1 DEF Content

(* A consumer that has ContentLen entries of the content has the content. *)
LEMMA AllDelivered ==
    ASSUME Inv, Len(got) = ContentLen PROVE got = Content
<1>1. got = FirstOf(Content, ContentLen)
    BY DEF Inv, Delivered
<1> QED BY <1>1 DEF FirstOf, Content

(* A read that appends to what the consumer has is a Deliver. *)
LEMMA AppendIsDeliver ==
    ASSUME Inv, Inv', NEW b \in Int, got' = Append(got, b), UNCHANGED <<call, end>>,
           end = "none"
    PROVE  Abstract!Deliver
<1>1. Content' = Content /\ ContentLen' = ContentLen /\ Deliverable' = Deliverable
    BY ContentStable DEF Deliverable, Opens
<1>2. got \in Seq(Int) /\ Len(got') = Len(got) + 1 /\ got'[Len(got) + 1] = b
    BY DEF Inv, TypeOK
<1>3. got' = FirstOf(Content, Len(got')) /\ Len(got') <= ContentLen
    BY <1>1 DEF Inv, Delivered
<1>4. b = Content[Len(got) + 1]
  <2>1. Len(got) + 1 \in 1..(Len(got) + 1)
    BY <1>2
  <2>2. FirstOf(Content, Len(got) + 1)[Len(got) + 1] = Content[Len(got) + 1]
    BY <2>1 DEF FirstOf
  <2> QED BY <1>2, <1>3, <2>2
<1>5. Len(got) < Len(Content)
    BY <1>2, <1>3, ContentIsSeq DEF Inv, TypeOK, ContentLen, Calls
<1> QED BY <1>1, <1>4, <1>5 DEF Abstract!Deliver

(* Every step is a step of Delivery or leaves what the consumer sees.        *)
LEMMA StepImplements ==
    ASSUME Inv, Inv', [Next]_vars
    PROVE  [Abstract!DeliveryNext]_(Abstract!deliveryVars)
<1> USE DEF Abstract!deliveryVars, callerVars, respVars, decVars, userVars
<1>1. ASSUME UNCHANGED call
      PROVE  Content' = Content /\ Deliverable' = Deliverable
    BY <1>1, ContentStable DEF Deliverable, Opens
<1>2. ASSUME UNCHANGED <<call, got, end>>
      PROVE  [Abstract!DeliveryNext]_(Abstract!deliveryVars)
    BY <1>1, <1>2
<1>3. CASE ReadResponse
  <2> USE <1>3 DEF ReadResponse, Reading
  <2>1. CASE UNCHANGED end
    <3>1. PICK b \in {read + 1, -(read + 1), 0} : got' = Append(got, b)
      BY <2>1 DEF Ends
    <3>2. b \in Int
      BY DEF Inv, TypeOK
    <3> QED BY <2>1, <3>1, <3>2, AppendIsDeliver DEF Abstract!DeliveryNext
  <2>2. CASE AtEnd /\ Ends("eof")
    <3>1. Len(got) = ContentLen /\ call.capsule = "none"
      BY <2>2 DEF Inv, TypeOK, Copying, Delivered, AtEnd, ContentLen
    <3>2. got = Content /\ Deliverable
      BY <3>1, AllDelivered DEF Deliverable
    <3>3. Abstract!Finish
      BY <1>1, <2>2, <3>2 DEF Ends, Abstract!Finish
    <3> QED BY <3>3 DEF Abstract!DeliveryNext
  <2>3. CASE Ends("error")
    BY <1>1, <2>3 DEF Ends, Abstract!DeliveryNext, Abstract!Break
  <2> QED BY <2>1, <2>2, <2>3
<1>4. CASE ReadPipe
  <2> USE <1>4 DEF ReadPipe, Reading
  <2>1. CASE dec = "write" /\ got' = Append(got, plain) /\ UNCHANGED end
    <3>1. plain \in Int
      BY DEF Inv, TypeOK
    <3> QED BY <2>1, <3>1, AppendIsDeliver DEF Abstract!DeliveryNext
  <2>2. CASE pipeEnd # "open" /\ end' = pipeEnd /\ got' = got
    <3>1. CASE pipeEnd = "eof"
      <4>1. /\ Len(got) = call.len /\ ~call.torn /\ (got # <<>> => Opens)
            /\ call.capsule # "none" /\ got \in Seq(Int)
        BY <3>1 DEF Inv, TypeOK, Decrypting, Delivered
      <4>2. ContentLen = call.len
        BY <4>1, MaxChunksIsNat DEF ContentLen, Inv, TypeOK, Calls
      <4>3. got = Content /\ Deliverable
        BY <4>1, <4>2, AllDelivered DEF Deliverable
      <4>4. Abstract!Finish
        BY <1>1, <2>2, <3>1, <4>3 DEF Abstract!Finish
      <4> QED BY <4>4 DEF Abstract!DeliveryNext
    <3>2. CASE pipeEnd = "error"
      BY <1>1, <2>2, <3>2 DEF Abstract!DeliveryNext, Abstract!Break
    <3> QED BY <2>2, <3>1, <3>2 DEF Inv, TypeOK
  <2> QED BY <2>1, <2>2
<1>5. CASE CloseOutput
  <2>1. end \in {"none", "eof", "error"} /\ end' = "closed" /\ UNCHANGED <<call, got>>
    BY <1>5 DEF CloseOutput, Inv, TypeOK
  <2> QED BY <1>1, <2>1 DEF Abstract!DeliveryNext, Abstract!Break, Abstract!CloseEnded
<1>6. CASE CallerStep \/ Cancel \/ NetBreaks \/ DecStep \/ UNCHANGED vars
    BY <1>2, <1>6 DEF CallerStep, Reject, DoFails, DoReturns, ReturnError,
        ReturnBody, Cancel, NetBreaks, DecStep, DecRead, DecWriteFails, DecEnds, vars
<1> QED BY <1>3, <1>4, <1>5, <1>6 DEF Next, Read, Stop

(* The state keeps its types, for objects of any length.                       *)
THEOREM TypeCorrect == Spec => []TypeOK
<1>1. Inv => TypeOK
    BY DEF Inv
<1> QED BY <1>1, SpecInv, PTL

(* GetObject implements Delivery: whatever the token, the network and the      *)
(* goroutine do, its Body delivers a prefix of its content, and an end of file *)
(* only after all of it.                                                       *)
THEOREM Implements == Spec => ImplementsDelivery
<1>1. Init => Abstract!DeliveryInit
  <2> SUFFICES ASSUME Init PROVE Abstract!DeliveryInit
      OBVIOUS
  <2>1. Deliverable \in BOOLEAN
    BY Zenon DEF Deliverable
  <2>2. Content \in Seq(Int)
    BY InitInv, ContentIsSeq
  <2> QED BY <2>1, <2>2 DEF Init, Abstract!DeliveryInit
<1>2. Inv /\ Inv' /\ [Next]_vars => [Abstract!DeliveryNext]_(Abstract!deliveryVars)
    BY StepImplements
<1> QED BY <1>1, <1>2, SpecInv, PTL DEF Spec, ImplementsDelivery, Abstract!DeliverySpec
-----------------------------------------------------------------------------
(* The goroutine as a reader of chunks *)

LEMMA InitReader == Init => Reader!ReaderInit
<1> SUFFICES ASSUME Init PROVE Reader!ReaderInit
    OBVIOUS
<1>1. InputWhole \subseteq Nat /\ ChunksOpened = 0 /\ LoopState = "idle"
    BY MaxChunksIsNat DEF Init, Calls, InputWhole, ChunksOpened, LoopState
<1>2. InputClean \in BOOLEAN
    BY Zenon DEF InputClean
<1> QED BY <1>1, <1>2 DEF Reader!ReaderInit

(* A step that neither reads a chunk nor breaks the connection leaves the     *)
(* input as it is, however much of a response the caller itself reads.        *)
LEMMA InputStays ==
    ASSUME UNCHANGED <<call, net>>, net = "up" \/ read' = read
    PROVE  InputWhole' = InputWhole /\ InputClean' = InputClean
BY DEF InputWhole, InputClean

(* What the goroutine does is a step of ChunkReader: a whole chunk is opened, *)
(* the loop ends, or nothing.                                                 *)
LEMMA DecReads ==
    ASSUME Inv, Inv', DecStep
    PROVE  [Reader!ReaderNext]_(Reader!readerVars)
<1> USE DEF Reader!readerVars, callerVars, respVars, decVars, userVars
<1>1. CASE DecRead
  <2> USE <1>1 DEF DecRead
  <2>1. /\ dec = "read" /\ pipeEnd = "open" /\ ~torn /\ UNCHANGED <<call, net>>
        /\ read \in Nat /\ read <= call.len /\ call.len \in Nat
    BY MaxChunksIsNat DEF Inv, TypeOK, Calls, Stages, Decrypting, Delivered
  <2>2. LoopState = "running" /\ ChunksOpened = read
    BY <2>1 DEF LoopState, ChunksOpened
  <2>3. CASE DecClosesPipe("error")
    <3>1. LoopState' = "error" /\ ChunksOpened' = ChunksOpened
      BY <2>1, <2>3 DEF DecClosesPipe, LoopState, ChunksOpened
    <3>2. InputWhole' = InputWhole /\ InputClean' = InputClean
      BY <2>1, <2>3, InputStays DEF DecClosesPipe
    <3> QED BY <2>2, <3>1, <3>2 DEF Reader!ReaderNext, Reader!Fail
  <2>4. CASE EndOfStream /\ DecClosesPipe("eof")
    <3>1. LoopState' = "ok" /\ ChunksOpened' = ChunksOpened
      BY <2>1, <2>4 DEF DecClosesPipe, LoopState, ChunksOpened
    <3>2. InputWhole' = InputWhole /\ InputClean' = InputClean
      BY <2>1, <2>4, InputStays DEF DecClosesPipe
    <3>3. Reader!All(ChunksOpened)
      BY <2>1, <2>2, <2>4 DEF EndOfStream, AtEnd, Reader!All, InputWhole, InputClean
    <3> QED BY <2>2, <3>1, <3>2, <3>3 DEF Reader!ReaderNext, Reader!Finish
  <2>5. CASE Opened /\ dec' = "write" /\ read' = read + 1 /\ UNCHANGED pipeEnd
    <3>1. LoopState' = "running" /\ ChunksOpened' = ChunksOpened + 1
      BY <2>1, <2>2, <2>5 DEF LoopState, ChunksOpened
    <3>2. InputWhole' = InputWhole /\ InputClean' = InputClean
      BY <2>1, <2>5, InputStays DEF Opened, MoreChunks
    <3>3. ChunksOpened + 1 \in InputWhole
      BY <2>1, <2>2, <2>5 DEF Opened, MoreChunks, InputWhole
    <3> QED BY <2>2, <3>1, <3>2, <3>3 DEF Reader!ReaderNext, Reader!Open
  <2> QED BY <2>3, <2>4, <2>5
<1>2. CASE DecWriteFails
  <2> USE <1>2 DEF DecWriteFails
  <2>1. dec = "write" /\ pipeEnd = "open"
    BY DEF Inv, Stages, Decrypting, TypeOK
  <2>2. LoopState = "running" /\ LoopState' = "error" /\ ChunksOpened' = ChunksOpened
    BY <2>1 DEF LoopState, ChunksOpened
  <2>3. InputWhole' = InputWhole /\ InputClean' = InputClean
    BY InputStays
  <2> QED BY <2>2, <2>3 DEF Reader!ReaderNext, Reader!Fail
<1>3. CASE DecEnds
  <2> USE <1>3 DEF DecEnds
  <2>1. LoopState' = LoopState /\ ChunksOpened' = ChunksOpened
    BY DEF LoopState, ChunksOpened
  <2>2. InputWhole' = InputWhole /\ InputClean' = InputClean
    BY InputStays
  <2> QED BY <2>1, <2>2
<1> QED BY <1>1, <1>2, <1>3 DEF DecStep

LEMMA StepReads ==
    ASSUME Inv, Inv', [Next]_vars
    PROVE  [Reader!ReaderNext]_(Reader!readerVars)
<1> USE DEF Reader!readerVars, callerVars, respVars, decVars, userVars
<1>1. ASSUME UNCHANGED <<call, net, read, dec, pipeEnd>>
      PROVE  UNCHANGED Reader!readerVars
  <2>1. LoopState' = LoopState /\ ChunksOpened' = ChunksOpened
    BY <1>1 DEF LoopState, ChunksOpened
  <2>2. InputWhole' = InputWhole /\ InputClean' = InputClean
    BY <1>1, InputStays
  <2> QED BY <2>1, <2>2
<1>2. CASE ReturnBody
  <2> USE <1>2 DEF ReturnBody, Return
  <2>1. dec = "off" /\ pipeEnd = "open" /\ read = 0
    BY DEF Inv, Stages
  <2>2. InputWhole' = InputWhole /\ InputClean' = InputClean
    BY InputStays
  <2>3. CASE dec' = "read"
    <3>1. LoopState = "idle" /\ LoopState' = "running" /\ ChunksOpened' = ChunksOpened
      BY <2>1, <2>3 DEF LoopState, ChunksOpened
    <3>2. InputWhole' \subseteq Nat
      BY <2>1, MaxChunksIsNat DEF InputWhole, Inv, TypeOK, Calls
    <3>3. InputClean' \in BOOLEAN
      BY Zenon DEF InputClean
    <3> QED BY <2>2, <3>1, <3>2, <3>3 DEF Reader!ReaderNext, Reader!Start
  <2>4. CASE dec' = dec
    BY <1>1, <2>4
  <2> QED BY <2>3, <2>4
<1>3. CASE NetBreaks
  <2> USE <1>3 DEF NetBreaks
  <2>1. LoopState' = LoopState /\ ChunksOpened' = ChunksOpened
    BY DEF LoopState, ChunksOpened
  <2>2. read \in Nat /\ read <= call.len /\ call.len \in Nat /\ net = "up" /\ net' # "up"
    BY MaxChunksIsNat DEF Inv, TypeOK, Calls, Delivered
  <2>3. InputWhole = 1..call.len /\ InputWhole' = 1..read /\ InputClean' = FALSE
    BY <2>2 DEF InputWhole, InputClean
  <2>4. 1..ChunksOpened \subseteq InputWhole' /\ InputWhole' \subseteq InputWhole
    BY <2>2, <2>3 DEF ChunksOpened
  <2> QED BY <2>1, <2>3, <2>4 DEF Reader!ReaderNext, Reader!Lose
<1>4. CASE ReadResponse
  <2> USE <1>4 DEF ReadResponse, Reading
  <2>1. dec = "off" /\ UNCHANGED <<dec, pipeEnd, call, net>>
    BY DEF Inv, Stages
  <2>2. LoopState' = LoopState /\ ChunksOpened' = ChunksOpened
    BY <2>1 DEF LoopState, ChunksOpened
  <2>3. net = "up" \/ read' = read
    BY DEF MoreChunks, TornChunk, AtEnd, Ends
  <2>4. InputWhole' = InputWhole /\ InputClean' = InputClean
    BY <2>1, <2>3, InputStays
  <2> QED BY <2>2, <2>4
<1>5. CASE ReadPipe
  <2> USE <1>5 DEF ReadPipe, Reading
  <2>1. LoopState' = LoopState /\ ChunksOpened' = ChunksOpened
    BY DEF LoopState, ChunksOpened
  <2>2. InputWhole' = InputWhole /\ InputClean' = InputClean
    BY InputStays
  <2> QED BY <2>1, <2>2
<1>6. CASE DecStep
    BY <1>6, DecReads
<1>7. CASE Reject \/ DoFails \/ DoReturns \/ ReturnError \/ Cancel \/ CloseOutput
             \/ UNCHANGED vars
  <2>1. UNCHANGED <<call, net, read, dec, pipeEnd>>
    BY <1>7 DEF Reject, DoFails, DoReturns, ReturnError, Cancel, CloseOutput, vars
  <2> QED BY <1>1, <2>1
<1> QED BY <1>2, <1>3, <1>4, <1>5, <1>6, <1>7 DEF Next, CallerStep, Read, Stop

(* GetObject implements both its abstract specifications: Delivery, and the    *)
(* reader of chunks that DecryptStream of every library implements.            *)
THEOREM Refinement == Spec => ImplementsBoth
<1>1. Inv /\ Inv' /\ [Next]_vars => [Reader!ReaderNext]_(Reader!readerVars)
    BY StepReads
<1>2. Spec => Reader!ReaderSpec
    BY InitReader, <1>1, SpecInv, PTL DEF Spec, Reader!ReaderSpec
<1> QED BY <1>2, Implements, PTL DEF ImplementsBoth
=============================================================================
