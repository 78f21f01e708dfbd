-------------------------- MODULE VaultSignProofs --------------------------
(* Proofs about VaultSign, for every number of retries. *)
EXTENDS VaultSign, TLAPS

LEMMA InitInv == Init => Inv
<1> SUFFICES ASSUME Init PROVE Inv
    OBVIOUS
<1>1. retries \in Nat
    BY GivenIsInt, DefaultIsNat DEF Init, RetriesOf
<1>2. taken \in BOOLEAN /\ late \in BOOLEAN /\ valid \in BOOLEAN
    BY Zenon DEF Init
<1>3. TypeOK
    BY <1>1, <1>2 DEF Init, TypeOK
<1> QED BY <1>3 DEF Init, Inv, TypeOK, Counters, Signatures

(* The back-offs of one more attempt: 1 + ... + (a + 1). *)
LEMMA Triangle == \A a \in Nat : (a + 1) * (a + 2) = a * (a + 1) + 2 * (a + 1)
OBVIOUS

LEMMA StepInv == Inv /\ [Next]_vars => Inv'
<1> SUFFICES ASSUME Inv, [Next]_vars PROVE Inv'
    OBVIOUS
<1> USE DEF Inv
<1>1. CASE Reject
  <2> USE <1>1 DEF Reject, Return
  <2>1. TypeOK' BY DEF TypeOK, Counters
  <2>2. Counters' BY Triangle DEF TypeOK, Counters
  <2>3. Signatures' BY DEF TypeOK, Signatures
  <2> QED BY <2>1, <2>2, <2>3
<1>2. CASE Enter
  <2> USE <1>2 DEF Enter
  <2>1. TypeOK' BY DEF TypeOK, Counters
  <2>2. Counters' BY Triangle DEF TypeOK, Counters
  <2>3. Signatures' BY DEF TypeOK, Signatures
  <2> QED BY <2>1, <2>2, <2>3
<1>3. CASE Send
  <2> USE <1>3 DEF Send
  <2>0. taken' \in BOOLEAN
    BY Zenon
  <2>1. TypeOK' BY <2>0 DEF TypeOK, Counters
  <2>2. Counters' BY Triangle DEF TypeOK, Counters
  <2>3. Signatures' BY DEF TypeOK, Signatures
  <2> QED BY <2>1, <2>2, <2>3
<1>4. CASE SendFails
  <2> USE <1>4 DEF SendFails, Return
  <2>1. TypeOK' BY DEF TypeOK, Counters
  <2>2. Counters' BY Triangle DEF TypeOK, Counters
  <2>3. Signatures' BY DEF TypeOK, Signatures
  <2> QED BY <2>1, <2>2, <2>3
<1>5. CASE VaultSigns
  <2> USE <1>5 DEF VaultSigns
  <2>1. TypeOK' BY DEF TypeOK, Counters
  <2>2. Counters' BY Triangle DEF TypeOK, Counters
  <2>3. Signatures' BY DEF TypeOK, Signatures
  <2> QED BY <2>1, <2>2, <2>3
<1>6. CASE Lost
  <2> USE <1>6 DEF Lost, LostReturned, Return
  <2>1. TypeOK' BY DEF TypeOK, Counters
  <2>2. Counters' BY Triangle DEF TypeOK, Counters
  <2>3. Signatures' BY DEF TypeOK, Signatures
  <2> QED BY <2>1, <2>2, <2>3
<1>7. CASE Throttled
  <2> USE <1>7 DEF Throttled, MayRetry, Backoff, Return
  <2>1. TypeOK' BY DEF TypeOK, Counters
  <2>2. Counters' BY Triangle DEF TypeOK, Counters
  <2>3. Signatures' BY DEF TypeOK, Signatures
  <2> QED BY <2>1, <2>2, <2>3
<1>8. CASE Unusable
  <2> USE <1>8 DEF Unusable, Return
  <2>1. TypeOK' BY DEF TypeOK, Counters
  <2>2. Counters' BY Triangle DEF TypeOK, Counters
  <2>3. Signatures' BY DEF TypeOK, Signatures
  <2> QED BY <2>1, <2>2, <2>3
<1>9. CASE Answered
  <2> USE <1>9 DEF Answered, Return
  <2>1. TypeOK' BY DEF TypeOK, Counters
  <2>2. Counters' BY Triangle DEF TypeOK, Counters
  <2>3. Signatures' BY DEF TypeOK, Signatures
  <2> QED BY <2>1, <2>2, <2>3
<1>10. CASE Tick
  <2> USE <1>10 DEF Tick
  <2>1. TypeOK' BY DEF TypeOK, Counters
  <2>2. Counters' BY Triangle DEF TypeOK, Counters
  <2>3. Signatures' BY DEF TypeOK, Signatures
  <2> QED BY <2>1, <2>2, <2>3
<1>11. CASE TimerFires
  <2> USE <1>11 DEF TimerFires, TimerReady
  <2>1. TypeOK' BY DEF TypeOK, Counters
  <2>2. Counters' BY Triangle DEF TypeOK, Counters
  <2>3. Signatures' BY DEF TypeOK, Signatures
  <2> QED BY <2>1, <2>2, <2>3
<1>12. CASE Cancelled
  <2> USE <1>12 DEF Cancelled, Return
  <2>1. TypeOK' BY DEF TypeOK, Counters
  <2>2. Counters' BY Triangle DEF TypeOK, Counters
  <2>3. Signatures' BY DEF TypeOK, Signatures
  <2> QED BY <2>1, <2>2, <2>3
<1>13. CASE Cancel
  <2> USE <1>13 DEF Cancel
  <2>1. TypeOK' BY DEF TypeOK, Counters
  <2>2. Counters' BY Triangle DEF TypeOK, Counters
  <2>3. Signatures' BY DEF TypeOK, Signatures
  <2> QED BY <2>1, <2>2, <2>3
<1>14. CASE UNCHANGED vars
    BY <1>14 DEF vars, TypeOK, Counters, Signatures
<1> QED
    BY <1>1, <1>2, <1>3, <1>4, <1>5, <1>6, <1>7, <1>8, <1>9, <1>10, <1>11, <1>12, <1>13, <1>14 DEF Next, Step, Stop

LEMMA SpecInv == Spec => []Inv
<1> QED BY InitInv, StepInv, PTL DEF Spec

(* For every number of retries the requests are bounded and paced.            *)
THEOREM Paced == Spec => []RequestsPaced
<1>1. Inv => RequestsPaced
    BY DEF Inv, Counters, RequestsPaced
<1> QED BY <1>1, SpecInv, PTL

(* The counters keep their types.                                             *)
THEOREM TypeCorrect == Spec => []TypeOK
<1>1. Inv => TypeOK
    BY DEF Inv
<1> QED BY <1>1, SpecInv, PTL

(* For every number of retries the call is one Sign of a provider.            *)
THEOREM Implements == Spec => ImplementsSigner
<1>1. Init => Sign!Init
    BY DEF Init, Sign!Init
<1>2. Inv /\ [Next]_vars => [Sign!Next]_<<signed, result>>
  <2> SUFFICES ASSUME Inv, [Next]_vars, <<signed, result>>' # <<signed, result>>
               PROVE Sign!Next
    OBVIOUS
  <2>1. Signatures /\ TypeOK
    BY DEF Inv
  <2> USE <2>1 DEF Signatures, TypeOK, Sign!Next, Return
  <2>2. CASE VaultSigns
    BY <2>2 DEF VaultSigns, Sign!Make
  <2>3. CASE Answered
    BY <2>3 DEF Answered, Sign!Succeed
  <2>4. CASE Reject \/ SendFails \/ Lost \/ Throttled \/ Unusable \/ Cancelled
    BY <2>4 DEF Reject, SendFails, Lost, LostReturned, Throttled, Unusable,
       Cancelled, Sign!Fail
  <2>5. CASE Enter \/ Send \/ Tick \/ TimerFires \/ Cancel \/ UNCHANGED vars
    BY <2>5 DEF Enter, Send, Tick, TimerFires, Cancel, vars
  <2> QED BY <2>2, <2>3, <2>4, <2>5 DEF Next, Step, Stop
<1> QED BY <1>1, <1>2, SpecInv, PTL DEF Spec, ImplementsSigner, Sign!Spec
=============================================================================
