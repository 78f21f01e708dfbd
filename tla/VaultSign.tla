------------------------------ MODULE VaultSign ------------------------------
(***************************************************************************)
(* One call of Vault.SignMessage (did-auth/vault/vault.go): the request to *)
(* the Vault's signRaw endpoint, its retries and its back-off, against a   *)
(* Vault that may sign, throttle, answer otherwise or not at all.  The     *)
(* Vault and the network are external; time passes in seconds, and only    *)
(* the back-off's is counted.                                              *)
(***************************************************************************)
EXTENDS Integers

CONSTANTS
    Given,            \* the values of NewVault's optional maxRetries
    DefaultRetries    \* defaultMaxRetries, for none or a negative one

ASSUME GivenIsInt == Given \subseteq Int
ASSUME DefaultIsNat == DefaultRetries \in Nat

VARIABLES
    retries,   \* v.MaxRetries
    valid,     \* payload and address have the right lengths
    ctx,       \* the caller's context: "live" or "done"
    pc,        \* where SignMessage is
    attempt,   \* the loop's counter
    sent,      \* requests sent
    signed,    \* signatures the Vault has made for this call
    taken,     \* the last request sent has been signed
    late,      \* the call ended without knowing what became of it
    left,      \* seconds the back-off still waits
    waited,    \* seconds spent in back-offs
    result     \* what the call returned

vars == <<retries, valid, ctx, pc, attempt, sent, signed, taken, late, left,
          waited, result>>

\* Mutant: a negative value is taken as it is.
RetriesUnchecked(given) == given

RetriesOf(given) == IF given >= 0 THEN given ELSE DefaultRetries

Init ==
    /\ \E given \in Given : retries = RetriesOf(given)
    /\ valid \in BOOLEAN
    /\ ctx = "live" /\ pc = "start" /\ attempt = 0 /\ sent = 0
    /\ signed = 0 /\ taken = FALSE /\ late = FALSE /\ left = 0 /\ waited = 0
    /\ result = "none"
-----------------------------------------------------------------------------
Return(r) == pc' = "returned" /\ result' = r

Reject ==
    /\ pc = "start" /\ ~valid
    /\ Return("error")
    /\ UNCHANGED <<retries, valid, ctx, attempt, sent, signed, taken, left, late, waited>>

Enter ==
    /\ pc = "start" /\ valid
    /\ pc' = "send"
    /\ UNCHANGED <<retries, valid, ctx, attempt, sent, signed, taken, left,
                   late, waited, result>>

\* httpClient.Do; with a context that is done it fails without sending.
Send ==
    /\ pc = "send" /\ ctx = "live"
    /\ pc' = "flight" /\ sent' = sent + 1 /\ taken' = FALSE
    /\ UNCHANGED <<retries, valid, ctx, attempt, signed, left, late, waited, result>>

SendFails ==
    /\ pc = "send" /\ ctx = "done"
    /\ Return("error")
    /\ UNCHANGED <<retries, valid, ctx, attempt, sent, signed, taken, left, late, waited>>

\* The Vault makes the signature; its answer may still be lost, and a request
\* without an answer may be signed after the call has ended.
VaultSigns ==
    /\ (pc = "flight" \/ late) /\ ~taken
    /\ taken' = TRUE /\ signed' = signed + 1
    /\ UNCHANGED <<retries, valid, ctx, pc, attempt, sent, left, late, waited, result>>

\* Mutant: a request without an answer is sent again.
LostRetried ==
    IF attempt < retries
    THEN pc' = "send" /\ attempt' = attempt + 1 /\ UNCHANGED <<late, result>>
    ELSE Return("error") /\ late' = TRUE /\ UNCHANGED attempt

\* An error of Do is returned, not retried.
LostReturned == Return("error") /\ late' = TRUE /\ UNCHANGED attempt

\* The connection fails, the client's timeout passes or the context is done.
Lost ==
    /\ pc = "flight"
    /\ LostReturned
    /\ UNCHANGED <<retries, valid, ctx, sent, signed, taken, left, waited>>

\* Mutant: the back-off does not grow.
BackoffFlat == 1

Backoff == attempt + 1

MayRetry == attempt < retries

\* 429 or 503: the request was not signed.
Throttled ==
    /\ pc = "flight" /\ ~taken
    /\ IF MayRetry
       THEN /\ pc' = "backoff" /\ left' = Backoff
            /\ UNCHANGED result
       ELSE Return("error") /\ UNCHANGED left
    /\ UNCHANGED <<retries, valid, ctx, attempt, sent, signed, taken, late, waited>>

\* Another status, a body that cannot be read or decoded, a signature of fewer
\* than 64 bytes: also after the Vault has signed.
Unusable ==
    /\ pc = "flight"
    /\ Return("error")
    /\ late' = TRUE
    /\ UNCHANGED <<retries, valid, ctx, attempt, sent, signed, taken, left, waited>>

Answered ==
    /\ pc = "flight" /\ taken
    /\ Return("ok")
    /\ UNCHANGED <<retries, valid, ctx, attempt, sent, signed, taken, left, late, waited>>
-----------------------------------------------------------------------------
(* The select of the back-off: the timer or ctx.Done *)

Tick ==
    /\ pc = "backoff" /\ left > 0
    /\ left' = left - 1 /\ waited' = waited + 1
    /\ UNCHANGED <<retries, valid, ctx, pc, attempt, sent, signed, taken, late, result>>

\* Mutant: the timer's channel is never ready.
TimerReadyNever == left < 0

TimerReady == left = 0

TimerFires ==
    /\ pc = "backoff" /\ TimerReady
    /\ pc' = "send" /\ attempt' = attempt + 1
    /\ UNCHANGED <<retries, valid, ctx, sent, signed, taken, left, late, waited, result>>

Cancelled ==
    /\ pc = "backoff" /\ ctx = "done"
    /\ Return("error")
    /\ UNCHANGED <<retries, valid, ctx, attempt, sent, signed, taken, left, late, waited>>

Cancel ==
    /\ ctx = "live" /\ ctx' = "done"
    /\ UNCHANGED <<retries, valid, pc, attempt, sent, signed, taken, left, late, waited,
                   result>>

Stop == pc = "returned" /\ UNCHANGED vars
-----------------------------------------------------------------------------
Step == \/ Reject \/ Enter \/ Send \/ SendFails \/ Lost \/ Throttled
        \/ Unusable \/ Answered \/ Tick \/ TimerFires \/ Cancelled

Next == Step \/ VaultSigns \/ Cancel \/ Stop

Spec == Init /\ [][Next]_vars

\* The goroutine runs, time passes, and the HTTP client's timeout ends every
\* request.
FairSpec == Spec /\ WF_vars(Step)
-----------------------------------------------------------------------------
(* Properties *)

\* Every variable keeps its type.
TypeOK ==
    /\ retries \in Nat /\ valid \in BOOLEAN /\ ctx \in {"live", "done"}
    /\ pc \in {"start", "send", "flight", "backoff", "returned"}
    /\ attempt \in Nat /\ sent \in Nat /\ signed \in Nat
    /\ taken \in BOOLEAN /\ late \in BOOLEAN
    /\ left \in Nat /\ waited \in Nat
    /\ result \in {"none", "ok", "error"}

\* No more than maxRetries + 1 requests, and before request n + 1 the back-offs
\* have taken 1 + 2 + ... + n seconds.
RequestsPaced ==
    /\ sent <= retries + 1
    /\ sent > 0 => 2 * waited >= (sent - 1) * sent

\* The call returns, cancelled or not.
Returns == <>(pc = "returned")

Sign == INSTANCE Signer WITH made <- signed, answer <- result

\* The call is one Sign as every provider promises it: the Vault signs at most
\* once, whatever is retried and however late it signs, as a request that may
\* have been signed is never sent again; and success means one signature.
ImplementsSigner == Sign!Spec
-----------------------------------------------------------------------------
(* The inductive invariant *)

Counters ==
    /\ pc = "start" => attempt = 0 /\ sent = 0 /\ waited = 0
    /\ attempt <= retries
    /\ pc = "send" => sent = attempt /\ 2 * waited = attempt * (attempt + 1)
    /\ pc \in {"flight", "backoff"} => sent = attempt + 1
    /\ pc = "flight" => 2 * waited = attempt * (attempt + 1)
    /\ pc = "backoff" =>
        /\ attempt < retries
        /\ 2 * (waited + left) = (attempt + 1) * (attempt + 2)
    /\ sent <= retries + 1
    /\ sent > 0 => 2 * waited >= (sent - 1) * sent

Signatures ==
    /\ pc \in {"start", "send", "backoff"} => signed = 0
    /\ pc # "returned" => result = "none"
    /\ pc = "flight" \/ late => signed = IF taken THEN 1 ELSE 0
    /\ late => pc = "returned" /\ result = "error"
    /\ signed <= 1
    /\ result = "ok" => signed = 1

Inv == TypeOK /\ Counters /\ Signatures
=============================================================================
