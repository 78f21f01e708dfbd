--------------------------- MODULE PutObjectProofs ---------------------------
(* Proofs about PutObject, for bodies of every length and both gateways. *)
EXTENDS PutObject, TLAPS

(* A wire that holds the first n blocks holds the first n + 1 of them when *)
(* block n + 1 is written next.                                            *)
LEMMA AppendWhole ==
    ASSUME NEW s \in Seq(Blocks), s = Whole(Len(s)), NEW b \in Blocks,
           b = Len(s) + 1
    PROVE  Append(s, b) = Whole(Len(Append(s, b)))
BY DEF Whole, Blocks

(* How the body ends is an argument of the call.                           *)
LEMMA EndStays == call' = call => EndsWell' = EndsWell
BY DEF EndsWell, Private

(* io.EOF is met behind a body that has no other end, or had told it.       *)
LEMMA AnswerIs == BodyAnswer = "eof" => call.end \in {"eof", "once"}
<1>1. CASE told
    BY <1>1 DEF BodyAnswer
<1>2. CASE ~told
    BY <1>2 DEF BodyAnswer
<1> QED BY <1>1, <1>2

LEMMA InitInv == Init => Inv
<1> SUFFICES ASSUME Init PROVE Inv
    OBVIOUS
<1> USE MaxBlocksIsNat DEF Init
<1>1. TypeOK
  <2>1. /\ failed \in BOOLEAN /\ prClosed \in BOOLEAN /\ closed \in BOOLEAN
        /\ ended \in BOOLEAN /\ stored \in BOOLEAN /\ told \in BOOLEAN
    BY Zenon
  <2> QED BY <2>1 DEF TypeOK, Blocks
<1>2. Before /\ EveryBlock /\ Ends /\ Form /\ Exchange
    BY DEF Before, EveryBlock, Ends, Form, Exchange, Whole, Copying, Calls,
           Private, FormItems
<1> QED BY <1>1, <1>2 DEF Inv

LEMMA StepInv == Inv /\ [Next]_vars => Inv'
<1> SUFFICES ASSUME Inv, [Next]_vars PROVE Inv'
    OBVIOUS
<1> USE MaxBlocksIsNat DEF Inv, callerVars, encVars, mpVars, wireVars, gwVars, GatewayWaits, EndsWell
<1> call.len \in 0..MaxBlocks
    BY DEF TypeOK, Calls
<1>1. CASE Reject
  <2> USE <1>1 DEF Reject, Return
  <2>1. TypeOK' BY DEF TypeOK, Blocks, Form, FormItems, Private, Calls
  <2>2. Before' BY DEF TypeOK, Before
  <2>3. EveryBlock' BY DEF TypeOK, Before, EveryBlock, Ends, Copying, Passed, Whole, Private, Blocks
  <2>4. Ends' BY DEF TypeOK, Before, EveryBlock, Ends, Copying, Passed, Private
  <2>5. Form' BY DEF TypeOK, Before, EveryBlock, Ends, Form, Copying, FormItems, Private
  <2>6. Exchange' BY DEF TypeOK, Before, Form, Exchange
  <2> QED BY <2>1, <2>2, <2>3, <2>4, <2>5, <2>6
<1>2. CASE StartPipeline
  <2> USE <1>2 DEF StartPipeline
  <2>1. TypeOK' BY DEF TypeOK, Blocks, Form, FormItems, Private, Calls
  <2>2. Before' BY DEF TypeOK, Before
  <2>3. EveryBlock' BY DEF TypeOK, Before, EveryBlock, Ends, Copying, Passed, Whole, Private, Blocks
  <2>4. Ends' BY DEF TypeOK, Before, EveryBlock, Ends, Copying, Passed, Private
  <2>5. Form' BY DEF TypeOK, Before, EveryBlock, Ends, Form, Copying, FormItems, Private
  <2>6. Exchange' BY DEF TypeOK, Before, Form, Exchange
  <2> QED BY <2>1, <2>2, <2>3, <2>4, <2>5, <2>6
<1>3. CASE GiveUpBeforeDo
  <2> USE <1>3 DEF GiveUpBeforeDo, Return, GivesUp, LateChecks
  <2>1. TypeOK' BY DEF TypeOK, Blocks, Form, FormItems, Private, Calls
  <2>2. Before' BY DEF TypeOK, Before
  <2>3. EveryBlock' BY DEF TypeOK, Before, EveryBlock, Ends, Copying, Passed, Whole, Private, Blocks
  <2>4. Ends' BY DEF TypeOK, Before, EveryBlock, Ends, Copying, Passed, Private
  <2>5. Form' BY DEF TypeOK, Before, EveryBlock, Ends, Form, Copying, FormItems, Private
  <2>6. Exchange' BY DEF TypeOK, Before, Form, Exchange
  <2> QED BY <2>1, <2>2, <2>3, <2>4, <2>5, <2>6
<1>4. CASE Do
  <2> USE <1>4 DEF Do, LateChecks
  <2>1. TypeOK' BY DEF TypeOK, Blocks, Form, FormItems, Private, Calls
  <2>2. Before' BY DEF TypeOK, Before
  <2>3. EveryBlock' BY DEF TypeOK, Before, EveryBlock, Ends, Copying, Passed, Whole, Private, Blocks
  <2>4. Ends' BY DEF TypeOK, Before, EveryBlock, Ends, Copying, Passed, Private
  <2>5. Form' BY DEF TypeOK, Before, EveryBlock, Ends, Form, Copying, FormItems, Private
  <2>6. Exchange' BY DEF TypeOK, Before, Form, Exchange
  <2> QED BY <2>1, <2>2, <2>3, <2>4, <2>5, <2>6
<1>5. CASE DoFails
  <2> USE <1>5 DEF DoFails, Return
  <2>1. TypeOK' BY DEF TypeOK, Blocks, Form, FormItems, Private, Calls
  <2>2. Before' BY DEF TypeOK, Before
  <2>3. EveryBlock' BY DEF TypeOK, Before, EveryBlock, Ends, Copying, Passed, Whole, Private, Blocks
  <2>4. Ends' BY DEF TypeOK, Before, EveryBlock, Ends, Copying, Passed, Private
  <2>5. Form' BY DEF TypeOK, Before, EveryBlock, Ends, Form, Copying, FormItems, Private
  <2>6. Exchange' BY DEF TypeOK, Before, Form, Exchange
  <2> QED BY <2>1, <2>2, <2>3, <2>4, <2>5, <2>6
<1>6. CASE DoReturns
  <2> USE <1>6 DEF DoReturns
  <2>1. TypeOK' BY DEF TypeOK, Blocks, Form, FormItems, Private, Calls
  <2>2. Before' BY DEF TypeOK, Before
  <2>3. EveryBlock' BY DEF TypeOK, Before, EveryBlock, Ends, Copying, Passed, Whole, Private, Blocks
  <2>4. Ends' BY DEF TypeOK, Before, EveryBlock, Ends, Copying, Passed, Private
  <2>5. Form' BY DEF TypeOK, Before, EveryBlock, Ends, Form, Copying, FormItems, Private
  <2>6. Exchange' BY DEF TypeOK, Before, Form, Exchange
  <2> QED BY <2>1, <2>2, <2>3, <2>4, <2>5, <2>6
<1>7. CASE RefuseResponse
  <2> USE <1>7 DEF RefuseResponse, Return
  <2>1. TypeOK' BY DEF TypeOK, Blocks, Form, FormItems, Private, Calls
  <2>2. Before' BY DEF TypeOK, Before
  <2>3. EveryBlock' BY DEF TypeOK, Before, EveryBlock, Ends, Copying, Passed, Whole, Private, Blocks
  <2>4. Ends' BY DEF TypeOK, Before, EveryBlock, Ends, Copying, Passed, Private
  <2>5. Form' BY DEF TypeOK, Before, EveryBlock, Ends, Form, Copying, FormItems, Private
  <2>6. Exchange' BY DEF TypeOK, Before, Form, Exchange
  <2> QED BY <2>1, <2>2, <2>3, <2>4, <2>5, <2>6
<1>8. ASSUME NEW r \in {"ok", "error"}, Finish(r) PROVE Inv'
  <2> USE <1>8 DEF Finish, Return
  <2>1. TypeOK' BY DEF TypeOK, Blocks, Form, FormItems, Private, Calls
  <2>2. Before' BY DEF TypeOK, Before
  <2>3. EveryBlock' BY DEF TypeOK, Before, EveryBlock, Ends, Copying, Passed, Whole, Private, Blocks
  <2>4. Ends' BY DEF TypeOK, Before, EveryBlock, Ends, Copying, Passed, Private
  <2>5. Form' BY DEF TypeOK, Before, EveryBlock, Ends, Form, Copying, FormItems, Private
  <2>6. Exchange' BY DEF TypeOK, Before, Form, Exchange
  <2> QED BY <2>1, <2>2, <2>3, <2>4, <2>5, <2>6
<1>9. CASE Cancel
  <2> USE <1>9 DEF Cancel
  <2>1. TypeOK' BY DEF TypeOK, Blocks, Form, FormItems, Private, Calls
  <2>2. Before' BY DEF TypeOK, Before
  <2>3. EveryBlock' BY DEF TypeOK, Before, EveryBlock, Ends, Copying, Passed, Whole, Private, Blocks
  <2>4. Ends' BY DEF TypeOK, Before, EveryBlock, Ends, Copying, Passed, Private
  <2>5. Form' BY DEF TypeOK, Before, EveryBlock, Ends, Form, Copying, FormItems, Private
  <2>6. Exchange' BY DEF TypeOK, Before, Form, Exchange
  <2> QED BY <2>1, <2>2, <2>3, <2>4, <2>5, <2>6
<1>10. CASE EncRead
  <2> USE <1>10 DEF EncRead, EncReadBlock, EncCloses, EncCloseKind
  <2>0. encEnd' = "eof" => encEnd = "eof" \/ (taken = call.len /\ BodyAnswer = "eof")
    BY Zenon
  <2>1. TypeOK'
    <3>1. told' \in BOOLEAN
      BY Zenon DEF TypeOK, Telling
    <3> QED BY <3>1 DEF TypeOK, Blocks, Form, FormItems, Private, Calls
  <2>2. Before' BY DEF TypeOK, Before
  <2>3. EveryBlock'
    <3>1. CASE EncCloses
      BY <3>1 DEF TypeOK, EveryBlock, Ends, Copying, Passed, Private, Blocks
    <3>2. CASE ~EncCloses
      <4>1. enc = "read" /\ EncReadBlock /\ UNCHANGED <<data, mp, held, call>>
        BY <3>2
      <4>2. CASE taken < call.len
        <5>1. sealed' = taken + 1 /\ taken' = taken + 1 /\ enc' = "write"
          BY <4>1, <4>2 DEF EncReadBlock, TypeOK, Blocks
        <5>2. (data = Whole(Len(data)))'
          BY <4>1 DEF EveryBlock
        <5>3. Copying' <=> Copying
          BY <4>1 DEF Copying
        <5>4. (Copying => taken = Passed) /\ Passed' = Passed /\ Passed \in Nat
          BY <4>1 DEF TypeOK, EveryBlock, Passed, Blocks
        <5>5. (Copying => taken = Passed + IF enc = "write" /\ sealed # 0 THEN 1 ELSE 0)'
          BY <4>1, <5>1, <5>3, <5>4 DEF TypeOK, Blocks
        <5> QED BY <4>1, <4>2, <5>1, <5>2, <5>5 DEF TypeOK, EveryBlock, Blocks
      <4>3. CASE taken = call.len
        <5>1. sealed' = 0 /\ taken' = taken /\ enc' = "write"
          BY <4>1, <4>3 DEF EncReadBlock, TypeOK, Blocks
        <5> QED BY <4>1, <5>1 DEF TypeOK, EveryBlock, Copying, Passed, Blocks
      <4> QED BY <4>1, <4>2, <4>3
    <3> QED BY <3>1, <3>2
  <2>4. Ends'
    <3>1. CASE EncCloses
      <4>1. enc' = "done" /\ encEnd' = EncCloseKind /\ UNCHANGED <<call, mp, taken>>
        BY <3>1
      <4>2. encEnd' = "eof" => taken = call.len /\ call.end \in {"eof", "once"}
        BY <2>0, AnswerIs DEF Ends
      <4> QED BY <4>1, <4>2 DEF TypeOK, Before, EveryBlock, Ends, Copying, Passed, Private
    <3>2. CASE ~EncCloses
      <4>1. enc' = "write" /\ UNCHANGED <<call, mp, encEnd>>
        BY <3>2
      <4> QED BY <4>1 DEF TypeOK, Before, EveryBlock, Ends, Copying, Passed, Private
    <3> QED BY <3>1, <3>2
  <2>5. Form' BY DEF TypeOK, Before, EveryBlock, Ends, Form, Copying, FormItems, Private
  <2>6. Exchange' BY DEF TypeOK, Before, Form, Exchange
  <2> QED BY <2>1, <2>2, <2>3, <2>4, <2>5, <2>6
<1>11. CASE WriteItem
  <2> USE <1>11 DEF WriteItem, WireOpen
  <2>1. TypeOK' BY DEF TypeOK, Blocks, Form, FormItems, Private, Calls
  <2>2. Before' BY DEF TypeOK, Before
  <2>3. EveryBlock' BY DEF TypeOK, Before, EveryBlock, Ends, Copying, Passed, Whole, Private, Blocks
  <2>4. Ends' BY DEF TypeOK, Before, EveryBlock, Ends, Copying, Passed, Private
  <2>5. Form' BY DEF TypeOK, Before, EveryBlock, Ends, Form, Copying, FormItems, Private
  <2>6. Exchange' BY DEF TypeOK, Before, Form, Exchange
  <2> QED BY <2>1, <2>2, <2>3, <2>4, <2>5, <2>6
<1>12. CASE CopyFromBody
  <2> USE <1>12 DEF CopyFromBody, ReadsBody
  <2>1. TypeOK'
    <3>1. failed' \in BOOLEAN
      BY Zenon DEF TypeOK
    <3> QED BY <3>1 DEF TypeOK, Blocks, Form, FormItems, Private, Calls
  <2>2. Before' BY DEF TypeOK, Before
  <2>3. EveryBlock'
    <3>1. CASE taken < call.len
      <4>1. /\ taken' = taken + 1 /\ held' = taken + 1 /\ mp' = "data"
            /\ UNCHANGED <<data, enc, sealed, call>>
        BY <3>1 DEF TypeOK, Blocks
      <4>2. enc = "off" /\ taken = Len(data)
        BY DEF TypeOK, EveryBlock, Ends, Copying, Passed
      <4> QED BY <3>1, <4>1, <4>2 DEF TypeOK, EveryBlock, Copying, Passed, Blocks
    <3>2. CASE taken = call.len
      <4>1. /\ mp' = "boundary" /\ UNCHANGED <<taken, data, enc, sealed, call>>
        BY <3>2 DEF TypeOK, Blocks
      <4> QED BY <3>2, <4>1 DEF EveryBlock, Copying
    <3> QED BY <3>1, <3>2
  <2>4. Ends'
    <3>1. CASE taken < call.len
      BY <3>1 DEF TypeOK, EveryBlock, Ends, Copying, Passed, Private
    <3>2. CASE taken = call.len
      <4>1. failed' <=> call.end # "eof"
        <5>1. ~(taken < call.len)
          BY <3>2 DEF TypeOK, Blocks
        <5> QED BY <5>1, Zenon
      <4>2. Len(data) = call.len /\ enc = "off"
        BY <3>2 DEF TypeOK, EveryBlock, Ends, Copying, Passed, Private
      <4> QED BY <3>2, <4>1, <4>2 DEF TypeOK, Ends, Copying, Private
    <3> QED BY <3>1, <3>2
  <2>5. Form' BY DEF TypeOK, Before, EveryBlock, Ends, Form, Copying, FormItems, Private
  <2>6. Exchange' BY DEF TypeOK, Before, Form, Exchange
  <2> QED BY <2>1, <2>2, <2>3, <2>4, <2>5, <2>6
<1>13. CASE CopyFromEnc
  <2> USE <1>13 DEF CopyFromEnc
  <2>1. TypeOK'
    <3>1. failed' \in BOOLEAN
      BY Zenon DEF TypeOK
    <3> QED BY <3>1 DEF TypeOK, Blocks, Form, FormItems, Private, Calls
  <2>2. Before' BY DEF TypeOK, Before
  <2>3. EveryBlock'
    <3>1. CASE enc = "write"
      BY <3>1 DEF TypeOK, EveryBlock, Ends, Copying, Passed, Private, Blocks
    <3>2. CASE encEnd # "open"
      BY <3>2 DEF TypeOK, EveryBlock, Ends, Copying, Passed, Private, Blocks
    <3> QED BY <3>1, <3>2
  <2>4. Ends'
    <3>1. CASE enc = "write"
      BY <3>1 DEF TypeOK, EveryBlock, Ends, Copying, Passed, Private
    <3>2. CASE encEnd # "open"
      <4>1. enc = "done" /\ mp' = "boundary" /\ enc' = enc
        BY <3>2 DEF TypeOK, Ends
      <4>2. failed' <=> encEnd = "error"
        BY <3>2, <4>1
      <4>3. taken = Len(data)
        BY <4>1 DEF TypeOK, EveryBlock, Copying, Passed
      <4> QED BY <3>2, <4>1, <4>2, <4>3 DEF TypeOK, Ends, Copying, Private
    <3> QED BY <3>1, <3>2
  <2>5. Form' BY DEF TypeOK, Before, EveryBlock, Ends, Form, Copying, FormItems, Private
  <2>6. Exchange' BY DEF TypeOK, Before, Form, Exchange
  <2> QED BY <2>1, <2>2, <2>3, <2>4, <2>5, <2>6
<1>14. CASE WriteData
  <2> USE <1>14 DEF WriteData, WireOpen
  <2>0. held # 0 => /\ held = Len(data) + 1 /\ held <= taken
                    /\ Append(data, held) \in Seq(Blocks)
                    /\ Append(data, held) = Whole(Len(data) + 1)
                    /\ Len(Append(data, held)) = Len(data) + 1
    <3> SUFFICES ASSUME held # 0 PROVE /\ held = Len(data) + 1 /\ held <= taken
                    /\ Append(data, held) \in Seq(Blocks)
                    /\ Append(data, held) = Whole(Len(data) + 1)
                    /\ Len(Append(data, held)) = Len(data) + 1
      OBVIOUS
    <3>1. held = Len(data) + 1 /\ held <= taken
      BY DEF TypeOK, EveryBlock, Copying, Passed, Blocks
    <3>2. data \in Seq(Blocks) /\ held \in Blocks /\ data = Whole(Len(data))
      BY DEF TypeOK, EveryBlock
    <3> QED BY <3>1, <3>2, AppendWhole
  <2>1. TypeOK' BY <2>0 DEF TypeOK, Form, FormItems, Private
  <2>2. Before' BY DEF TypeOK, Before
  <2>3. EveryBlock'
    <3>1. CASE held = 0
      BY <3>1 DEF TypeOK, EveryBlock, Ends, Copying, Passed, Private, Blocks
    <3>2. CASE held # 0
      BY <2>0, <3>2 DEF TypeOK, EveryBlock, Ends, Copying, Passed, Private, Blocks
    <3> QED BY <3>1, <3>2
  <2>4. Ends' BY DEF TypeOK, Before, EveryBlock, Ends, Copying, Passed, Private
  <2>5. Form' BY DEF TypeOK, Before, EveryBlock, Ends, Form, Copying, FormItems, Private
  <2>6. Exchange' BY DEF TypeOK, Before, Form, Exchange
  <2> QED BY <2>1, <2>2, <2>3, <2>4, <2>5, <2>6
<1>15. CASE WriteBoundary
  <2> USE <1>15 DEF WriteBoundary, WireOpen
  <2>1. TypeOK' BY DEF TypeOK, Blocks, Form, FormItems, Private, Calls
  <2>2. Before' BY DEF TypeOK, Before
  <2>3. EveryBlock' BY DEF TypeOK, Before, EveryBlock, Ends, Copying, Passed, Whole, Private, Blocks
  <2>4. Ends' BY DEF TypeOK, Before, EveryBlock, Ends, Copying, Passed, Private
  <2>5. Form' BY DEF TypeOK, Before, EveryBlock, Ends, Form, Copying, FormItems, Private
  <2>6. Exchange' BY DEF TypeOK, Before, Form, Exchange
  <2> QED BY <2>1, <2>2, <2>3, <2>4, <2>5, <2>6
<1>16. CASE ClosePipe
  <2> USE <1>16 DEF ClosePipe, CloseKind
  <2>1. TypeOK' BY DEF TypeOK, Blocks, Form, FormItems, Private, Calls
  <2>2. Before' BY DEF TypeOK, Before
  <2>3. EveryBlock' BY DEF TypeOK, Before, EveryBlock, Ends, Copying, Passed, Whole, Private, Blocks
  <2>4. Ends' BY DEF TypeOK, Before, EveryBlock, Ends, Copying, Passed, Private
  <2>5. Form' BY DEF TypeOK, Before, EveryBlock, Ends, Form, Copying, FormItems, Private
  <2>6. Exchange' BY DEF TypeOK, Before, Form, Exchange
  <2> QED BY <2>1, <2>2, <2>3, <2>4, <2>5, <2>6
<1>17. CASE WriteFails
  <2> USE <1>17 DEF WriteFails, WriteError
  <2>1. TypeOK' BY DEF TypeOK, Blocks, Form, FormItems, Private, Calls
  <2>2. Before' BY DEF TypeOK, Before
  <2>3. EveryBlock' BY DEF TypeOK, Before, EveryBlock, Ends, Copying, Passed, Whole, Private, Blocks
  <2>4. Ends' BY DEF TypeOK, Before, EveryBlock, Ends, Copying, Passed, Private
  <2>5. Form' BY DEF TypeOK, Before, EveryBlock, Ends, Form, Copying, FormItems, Private
  <2>6. Exchange' BY DEF TypeOK, Before, Form, Exchange
  <2> QED BY <2>1, <2>2, <2>3, <2>4, <2>5, <2>6
<1>18. CASE ReadEnd
  <2> USE <1>18 DEF ReadEnd, WireOpen
  <2>1. TypeOK'
    <3>1. ended' \in BOOLEAN
      BY Zenon DEF TypeOK
    <3> QED BY <3>1 DEF TypeOK, Blocks, Form, FormItems, Private, Calls
  <2>2. Before' BY DEF TypeOK, Before
  <2>3. EveryBlock' BY DEF TypeOK, Before, EveryBlock, Ends, Copying, Passed, Whole, Private, Blocks
  <2>4. Ends' BY DEF TypeOK, Before, EveryBlock, Ends, Copying, Passed, Private
  <2>5. Form' BY DEF TypeOK, Before, EveryBlock, Ends, Form, Copying, FormItems, Private
  <2>6. Exchange' BY DEF TypeOK, Before, Form, Exchange
  <2> QED BY <2>1, <2>2, <2>3, <2>4, <2>5, <2>6
<1>19. CASE Lose
  <2> USE <1>19 DEF Lose
  <2>1. TypeOK' BY DEF TypeOK, Blocks, Form, FormItems, Private, Calls
  <2>2. Before' BY DEF TypeOK, Before
  <2>3. EveryBlock' BY DEF TypeOK, Before, EveryBlock, Ends, Copying, Passed, Whole, Private, Blocks
  <2>4. Ends' BY DEF TypeOK, Before, EveryBlock, Ends, Copying, Passed, Private
  <2>5. Form' BY DEF TypeOK, Before, EveryBlock, Ends, Form, Copying, FormItems, Private
  <2>6. Exchange' BY DEF TypeOK, Before, Form, Exchange
  <2> QED BY <2>1, <2>2, <2>3, <2>4, <2>5, <2>6
<1>20. CASE CloseBody
  <2> USE <1>20 DEF CloseBody
  <2>1. TypeOK' BY DEF TypeOK, Blocks, Form, FormItems, Private, Calls
  <2>2. Before' BY DEF TypeOK, Before
  <2>3. EveryBlock' BY DEF TypeOK, Before, EveryBlock, Ends, Copying, Passed, Whole, Private, Blocks
  <2>4. Ends' BY DEF TypeOK, Before, EveryBlock, Ends, Copying, Passed, Private
  <2>5. Form' BY DEF TypeOK, Before, EveryBlock, Ends, Form, Copying, FormItems, Private
  <2>6. Exchange' BY DEF TypeOK, Before, Form, Exchange
  <2> QED BY <2>1, <2>2, <2>3, <2>4, <2>5, <2>6
<1>21. CASE Store
  <2> USE <1>21 DEF Store, StoreReady
  <2>1. TypeOK' BY DEF TypeOK, Blocks, Form, FormItems, Private, Calls
  <2>2. Before' BY DEF TypeOK, Before
  <2>3. EveryBlock' BY DEF TypeOK, Before, EveryBlock, Ends, Copying, Passed, Whole, Private, Blocks
  <2>4. Ends' BY DEF TypeOK, Before, EveryBlock, Ends, Copying, Passed, Private
  <2>5. Form' BY DEF TypeOK, Before, EveryBlock, Ends, Form, Copying, FormItems, Private
  <2>6. Exchange' BY DEF TypeOK, Before, Form, Exchange
  <2> QED BY <2>1, <2>2, <2>3, <2>4, <2>5, <2>6
<1>22. ASSUME NEW r \in {"refused", "garbled", "cid", "noCid"}, Reply(r) PROVE Inv'
  <2> USE <1>22 DEF Reply
  <2>1. TypeOK' BY DEF TypeOK, Blocks, Form, FormItems, Private, Calls
  <2>2. Before' BY DEF TypeOK, Before
  <2>3. EveryBlock' BY DEF TypeOK, Before, EveryBlock, Ends, Copying, Passed, Whole, Private, Blocks
  <2>4. Ends' BY DEF TypeOK, Before, EveryBlock, Ends, Copying, Passed, Private
  <2>5. Form' BY DEF TypeOK, Before, EveryBlock, Ends, Form, Copying, FormItems, Private
  <2>6. Exchange' BY DEF TypeOK, Before, Form, Exchange
  <2> QED BY <2>1, <2>2, <2>3, <2>4, <2>5, <2>6
<1>23. CASE UNCHANGED vars
  <2> USE <1>23 DEF vars
  <2>1. TypeOK' BY DEF TypeOK
  <2>2. Before' BY DEF Before
  <2>3. EveryBlock' BY DEF EveryBlock, Copying, Passed
  <2>4. Ends' BY DEF Ends, Copying, Private
  <2>5. Form' BY DEF Form, FormItems, Private
  <2>6. Exchange' BY DEF Exchange
  <2> QED BY <2>1, <2>2, <2>3, <2>4, <2>5, <2>6
<1> QED
    BY <1>1, <1>2, <1>3, <1>4, <1>5, <1>6, <1>7, <1>8, <1>9, <1>10, <1>11, <1>12, <1>13, <1>14, <1>15, <1>16, <1>17, <1>18, <1>19, <1>20, <1>21, <1>22, <1>23 DEF Next, CallerStep, MpStep, TransportStep, GatewayStep, Stop

LEMMA SpecInv == Spec => []Inv
<1> QED BY InitInv, StepInv, PTL DEF Spec

(* Every variable of the pipeline keeps its type: in particular no goroutine  *)
(* reads past the end of the body and the form never has a sixth item.        *)
THEOREM TypeCorrect == Spec => []TypeOK
<1>1. Inv => TypeOK
    BY DEF Inv
<1> QED BY <1>1, SpecInv, PTL

(* For every body the wire carries its blocks in order, each once, and no     *)
(* block before the form items: two goroutines share one reader safely.       *)
THEOREM OrderOnTheWire == Spec => []WireInOrder
<1>1. Inv => WireInOrder
    BY DEF Inv, EveryBlock, Form, WireInOrder
<1> QED BY <1>1, SpecInv, PTL

(* For every body a regular end of the upload ends both goroutines.           *)
THEOREM RegularEnd == Spec => []RegularEndEndsBoth
<1>1. Inv => RegularEndEndsBoth
    BY DEF Inv, Ends, RegularEndEndsBoth
<1> QED BY <1>1, SpecInv, PTL

(* For every body and either gateway, a stored file that is not the body comes *)
(* with an error that mp holds.                                                *)
THEOREM Truncation == Spec => []TruncationIsReported
<1>1. Inv => TruncationIsReported
    BY DEF Inv, EveryBlock, Ends, Form, Exchange, TruncationIsReported
<1> QED BY <1>1, SpecInv, PTL

(* With a gateway that waits for the end of the request success means that    *)
(* the whole body was stored, for every body.                                 *)
THEOREM Success == Spec => []SuccessIsWhole
<1>1. Inv => SuccessIsWhole
    BY DEF Inv, EveryBlock, Ends, Form, Exchange, SuccessIsWhole
<1> QED BY <1>1, SpecInv, PTL

(* Every step of the pipeline is a step of Upload or leaves what Upload sees   *)
(* as it is: the call's goroutines and pipes implement the promise.            *)
LEMMA StepImplements ==
    ASSUME Inv, [Next]_vars
    PROVE  [Abstract!UploadNext]_(Abstract!uploadVars)
<1> USE DEF Abstract!uploadVars, callerVars, gwVars, GatewayWaits
<1>1. CASE Store
  <2>1. /\ data = Whole(Len(data)) /\ Len(data) \in 0..call.len
        /\ GatewayWaits => EndsWell /\ Len(data) = call.len
    BY <1>1 DEF Inv, TypeOK, Calls, Blocks, Store, StoreReady, EveryBlock, Ends, Form
  <2>2. Abstract!StoreFile
    BY <1>1, <2>1, EndStays DEF Store, Abstract!StoreFile, Abstract!Whole, Whole
  <2> QED BY <2>2 DEF Abstract!UploadNext
<1>2. ASSUME NEW r \in {"ok", "error"}, Return(r), result = "none",
             UNCHANGED <<call, gwVars>>, r = "ok" => stored
      PROVE  Abstract!UploadNext
    BY <1>2, EndStays DEF Return, Abstract!UploadNext, Abstract!Succeed, Abstract!Fail
<1>3. ASSUME UNCHANGED <<call, result, stored, file>>
      PROVE  [Abstract!UploadNext]_(Abstract!uploadVars)
    BY <1>3, EndStays
<1>4. caller # "returned" => result = "none"
    BY DEF Inv, Before
<1>5. CASE Reject \/ GiveUpBeforeDo \/ DoFails \/ RefuseResponse
    BY <1>2, <1>4, <1>5 DEF Reject, GiveUpBeforeDo, GivesUp, DoFails, RefuseResponse
<1>6. ASSUME NEW r \in {"ok", "error"}, Finish(r) PROVE Abstract!UploadNext
  <2>1. reply \in {"cid", "noCid"} => stored
    BY DEF Inv, Exchange
  <2> QED BY <1>2, <1>4, <1>6, <2>1 DEF Finish
<1>7. CASE StartPipeline \/ Do \/ DoReturns \/ Cancel \/ EncRead \/ MpStep
           \/ TransportStep \/ (\E r \in {"refused", "garbled", "cid", "noCid"} : Reply(r))
           \/ UNCHANGED vars
    BY <1>3, <1>7 DEF StartPipeline, Do, DoReturns, Cancel, EncRead, MpStep,
        WriteItem, CopyFromBody, CopyFromEnc, WriteData, WriteBoundary,
        ClosePipe, WriteFails, TransportStep, ReadEnd, Lose, CloseBody, Reply, vars
<1> QED BY <1>1, <1>5, <1>6, <1>7 DEF Next, CallerStep, GatewayStep, Stop

(* PutObject implements Upload, with either gateway: whatever the goroutines   *)
(* do, a file is stored at most once, whole if the gateway waits for the end of *)
(* the request, and success follows it.                                        *)
THEOREM Implements == Spec => Abstract!UploadSpec
<1>1. Init => Abstract!UploadInit
  <2> SUFFICES ASSUME Init PROVE Abstract!UploadInit
    OBVIOUS
  <2>1. EndsWell \in BOOLEAN /\ GatewayWaits \in BOOLEAN
    BY Zenon DEF GatewayWaits, EndsWell
  <2> QED BY <2>1 DEF Init, Calls, Abstract!UploadInit
<1>2. Inv /\ [Next]_vars => [Abstract!UploadNext]_(Abstract!uploadVars)
    BY StepImplements
<1> QED BY <1>1, <1>2, SpecInv, PTL DEF Spec, Abstract!UploadSpec

(* A step of the encrypting goroutine is one of ChunkWriter, the empty chunk  *)
(* of an unexpected end is none; nothing else it sees changes.              *)
LEMMA StepWrites ==
    ASSUME Inv, [Next]_vars
    PROVE  [Writer!WriterNext]_(Writer!writerVars)
<1>1. /\ call.len \in 0..MaxBlocks /\ taken \in Nat /\ taken <= call.len
      /\ call.len \in Nat
    BY MaxBlocksIsNat DEF Inv, TypeOK, Calls, Blocks, EveryBlock
<1>2. /\ enc # "off" => Private
      /\ encEnd = "open" <=> enc # "done"
    BY DEF Inv, Ends
<1>3. CASE EncRead
  <2>1. /\ Private /\ UNCHANGED call /\ LoopState = "running" /\ BlocksTaken = taken
        /\ Private'
    BY <1>2, <1>3 DEF EncRead, LoopState, BlocksTaken, Private
  <2>2. CASE EncCloses
    <3>1. taken' = taken /\ enc' = "done" /\ encEnd' = EncCloseKind
      BY <1>3, <2>2 DEF EncRead
    <3>2. BlocksTaken' = BlocksTaken
      BY <2>1, <3>1 DEF BlocksTaken
    <3>3. CASE EncCloseKind = "eof"
      <4>1. EndsWell /\ taken = call.len /\ LoopState' = "ok"
        BY <2>1, <2>2, <3>1, <3>3 DEF EncCloseKind, EncCloses, BodyAnswer, EndsWell, LoopState
      <4>2. Writer!Finish
        BY <2>1, <3>2, <4>1, EndStays DEF Writer!Finish
      <4> QED BY <4>2 DEF Writer!WriterNext
    <3>4. CASE EncCloseKind = "error"
      <4>1. LoopState' = "error"
        BY <3>1, <3>4 DEF LoopState
      <4>2. Writer!Fail
        BY <2>1, <3>2, <4>1, EndStays DEF Writer!Fail
      <4> QED BY <4>2 DEF Writer!WriterNext
    <3> QED BY <3>3, <3>4 DEF EncCloseKind
  <2>3. CASE ~EncCloses
    <3>1. EncReadBlock
      BY <1>3, <2>3 DEF EncRead
    <3>2. LoopState' = "running"
      BY <1>2, <1>3, <3>1 DEF EncRead, EncReadBlock, LoopState
    <3>3. CASE taken < call.len /\ taken' = taken + 1
      <4>1. taken' = Writer!AfterChunk
        BY <1>1, <2>1, <3>3 DEF Writer!AfterChunk
      <4>2. BlocksTaken' = taken'
        BY <2>1 DEF BlocksTaken
      <4>3. Writer!Take
        BY <2>1, <3>2, <3>3, <4>1, <4>2, EndStays DEF Writer!Take
      <4> QED BY <4>3 DEF Writer!WriterNext
    <3>4. CASE taken' = taken
      <4>1. BlocksTaken' = BlocksTaken
        BY <2>1, <3>4 DEF BlocksTaken
      <4> QED BY <2>1, <3>2, <4>1, EndStays DEF Writer!writerVars
    <3> QED BY <3>1, <3>3, <3>4 DEF EncReadBlock
  <2> QED BY <2>2, <2>3
<1>4. CASE StartPipeline
  <2>1. /\ UNCHANGED <<call, taken, encEnd>> /\ enc = "off" /\ encEnd = "open"
        /\ enc' = IF Private THEN "read" ELSE "off"
    BY <1>2, <1>4 DEF StartPipeline, encVars, Inv, Before
  <2>2. BlocksTaken' = BlocksTaken
    BY <2>1 DEF BlocksTaken, Private
  <2>3. LoopState = "idle" /\ LoopState' \in {"idle", "running"}
    BY <2>1 DEF LoopState
  <2>4. CASE LoopState' = "idle"
    BY <2>1, <2>2, <2>3, <2>4, EndStays DEF Writer!writerVars
  <2>5. CASE LoopState' = "running"
    <3>1. Writer!Start
      BY <2>1, <2>2, <2>3, <2>5, EndStays DEF Writer!Start
    <3> QED BY <3>1 DEF Writer!WriterNext
  <2> QED BY <2>3, <2>4, <2>5
<1>5. CASE CopyFromBody
  <2>1. UNCHANGED <<call, enc, encEnd>> /\ ~Private
    BY <1>5 DEF CopyFromBody, ReadsBody, encVars
  <2>2. BlocksTaken' = BlocksTaken /\ LoopState' = LoopState
    BY <2>1 DEF BlocksTaken, Private, LoopState
  <2> QED BY <2>1, <2>2, EndStays DEF Writer!writerVars
<1>6. CASE CopyFromEnc
  <2>1. /\ UNCHANGED <<call, taken, encEnd>>
        /\ enc' = enc \/ (enc = "write" /\ enc' = "read")
    BY <1>6 DEF CopyFromEnc
  <2>2. BlocksTaken' = BlocksTaken /\ LoopState' = LoopState
    BY <2>1 DEF BlocksTaken, Private, LoopState
  <2> QED BY <2>1, <2>2, EndStays DEF Writer!writerVars
<1>7. ASSUME UNCHANGED <<call, encVars, taken>>
      PROVE  [Writer!WriterNext]_(Writer!writerVars)
  <2>1. BlocksTaken' = BlocksTaken /\ LoopState' = LoopState
    BY <1>7 DEF BlocksTaken, Private, LoopState, encVars
  <2> QED BY <1>7, <2>1, EndStays DEF Writer!writerVars
<1>8. CASE \/ Reject \/ GiveUpBeforeDo \/ Do \/ DoFails \/ DoReturns \/ RefuseResponse
           \/ (\E r \in {"ok", "error"} : Finish(r)) \/ Cancel
           \/ WriteItem \/ WriteData \/ WriteBoundary \/ ClosePipe \/ WriteFails
           \/ TransportStep \/ GatewayStep \/ UNCHANGED vars
    BY <1>7, <1>8 DEF Reject, GiveUpBeforeDo, Do, DoFails, DoReturns, RefuseResponse,
        Finish, Cancel, WriteItem, WriteData, WriteBoundary, ClosePipe, WriteFails,
        TransportStep, ReadEnd, Lose, CloseBody, GatewayStep, Store, Reply, vars
<1> QED BY <1>3, <1>4, <1>5, <1>6, <1>8 DEF Next, CallerStep, MpStep, Stop

(* The encrypting goroutine of PutObject implements ChunkWriter, as           *)
(* EncryptStream does byte by byte: it closes its pipe as at an end only after *)
(* all of a body that answers io.EOF, and after one error at most.             *)
THEOREM Writes == Spec => Writer!WriterSpec
<1>1. Init => Writer!WriterInit
  <2> SUFFICES ASSUME Init PROVE Writer!WriterInit
    OBVIOUS
  <2>1. call.len \in Nat /\ BlocksTaken = 0 /\ LoopState = "idle"
    BY MaxBlocksIsNat DEF Init, Calls, BlocksTaken, LoopState
  <2>2. EndsWell \in BOOLEAN
    BY Zenon DEF EndsWell
  <2> QED BY <2>1, <2>2 DEF Writer!WriterInit
<1>2. Inv /\ [Next]_vars => [Writer!WriterNext]_(Writer!writerVars)
    BY StepWrites
<1> QED BY <1>1, <1>2, SpecInv, PTL DEF Spec, Writer!WriterSpec
=============================================================================
