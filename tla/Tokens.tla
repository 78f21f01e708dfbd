-------------------------------- MODULE Tokens --------------------------------
(***************************************************************************)
(* One call of a token client (did-auth/auth) or of the file client's      *)
(* buildVPAuthorization (file-application/api.go), in a process where      *)
(* other goroutines make clients of their own.  NewAuth does not keep its  *)
(* resolver: it sets those of the packages vc and vp, which every client   *)
(* of the process then uses.  The credential SDK is external.  A key and   *)
(* an address are named by the DID they belong to.                         *)
(***************************************************************************)
EXTENDS Naturals, Sequences

CONSTANTS
    Makers,        \* goroutines that make clients
    Caller,        \* the one whose call is followed
    Urls,          \* resolvers
    Knows,         \* the DIDs that a resolver can resolve
    App,           \* the application's DID
    Trust,         \* the gateway trust credential
    Credentials,   \* credentials that exist
    Presented,     \* tokens that callers have
    Targets,       \* lists of structs that callers pass
    Malformed,     \* a key that is not hex
    Unfit,         \* one that is hex, but empty or of the wrong length
    None

ASSUME CallerMakes == Caller \in Makers
ASSUME NoneIsNoUrl == None \notin Urls
ASSUME TrustExists == Trust \in Credentials /\ Trust.form # "object"
ASSUME TokensShow == \A t \in Presented : t.creds \in Seq(Credentials)
ASSUME TargetsAreLists == \A t \in Targets : t \in Seq({t[i] : i \in DOMAIN t})

VARIABLES
    vcUrl, vpUrl,  \* the resolvers of the packages vc and vp
    half,          \* per maker: the URL of a NewAuth between its two Inits
    conf,          \* the URL the caller's client was made with
    overlap,       \* history: two NewAuths have overlapped
    disturbed,     \* history: another URL was set since the caller's NewAuth
    call,          \* the call and its arguments
    pc, at,        \* where it is, and the index of its loop
    list, claims,  \* vcJwtList or vcsJwt, and vcClaimsList
    targets,       \* the caller's structs
    made, answer,  \* the provider's Sign
    out, result    \* the token made, and what the call returned

resolvers == <<vcUrl, vpUrl, half, conf, overlap, disturbed>>
work == <<list, claims, targets>>
sign == <<made, answer>>
vars == <<resolvers, call, pc, at, work, sign, out, result>>

Sign == INSTANCE Signer

Dids == UNION {Knows[u] : u \in Urls} \cup {App}

ASSUME NoDids == {None, Malformed, Unfit} \cap Dids = {} /\ Unfit \notin {None, Malformed}

\* The four kinds of call; only a string parses or is forwarded.
Strings == {c \in Credentials : c.form # "object"}

Calls ==
    [op : {"verify"}, token : Presented]
      \cup [op : {"structs"}, token : Presented, targets : Targets]
      \cup [op : {"create"}, given : UNION {[1..n -> Strings] : n \in 0..2},
            holder : {App}, provider : {"ecdsa", "vault"},
            key : {App, Unfit, None}, address : {App, None}]
      \cup [op : {"forward"}, token : Presented \cup {None},
            expected : Dids \cup {None}, provider : {"ecdsa", "vault"},
            appKey : {App, Malformed, Unfit},
            named : Dids \cup {None, Malformed, Unfit}]

ASSUME NoneIsNoCall == None \notin Calls

Init ==
    /\ vcUrl = None /\ vpUrl = None /\ half = [m \in Makers |-> None]
    /\ conf = None /\ overlap = FALSE /\ disturbed = FALSE
    /\ call = None /\ pc = "new" /\ at = 1
    /\ list = <<>> /\ claims = <<>> /\ targets = <<>>
    /\ Sign!Init /\ out = None /\ result = "none"
-----------------------------------------------------------------------------
(* NewAuth *)

\* The URL of the caller's client, from its first Init on.
CallersUrl == IF half[Caller] # None THEN half[Caller] ELSE conf

Disturbs(m, url) == m # Caller /\ CallersUrl # None /\ url # CallersUrl

VcInit(m, url) ==
    /\ half[m] = None
    /\ m = Caller => pc = "new"
    /\ vcUrl' = url /\ half' = [half EXCEPT ![m] = url]
    /\ overlap' = (overlap \/ \E n \in Makers : half[n] # None)
    /\ disturbed' = (disturbed \/ Disturbs(m, url))
    /\ UNCHANGED <<vpUrl, conf, call, pc, at, work, sign, out, result>>

\* Mutant: the resolver of vp is set only the first time.
VpUrlOnce(m) == IF vpUrl = None THEN half[m] ELSE vpUrl

VpUrlSet(m) == half[m]

VpInit(m) ==
    /\ half[m] # None
    /\ vpUrl' = VpUrlSet(m) /\ half' = [half EXCEPT ![m] = None]
    /\ disturbed' = (disturbed \/ Disturbs(m, half[m]))
    /\ IF m = Caller THEN conf' = half[m] /\ pc' = "made"
                     ELSE UNCHANGED <<conf, pc>>
    /\ UNCHANGED <<vcUrl, overlap, call, at, work, sign, out, result>>
-----------------------------------------------------------------------------
(* The call *)

Goto(place) == pc' = place /\ at' = 1 /\ UNCHANGED result

Return(r) == pc' = "returned" /\ result' = r /\ UNCHANGED at

Begin ==
    /\ pc = "made"
    /\ \E c \in Calls :
        /\ call' = c
        /\ list' = IF c.op = "create" THEN c.given ELSE <<>>
        /\ targets' = IF c.op = "structs" THEN c.targets ELSE <<>>
        /\ IF c.op = "forward" /\ c.token = None THEN Return("error")
           ELSE Goto(IF c.op = "create" THEN "parse" ELSE "proof")
    /\ UNCHANGED <<resolvers, claims, sign, out>>
-----------------------------------------------------------------------------
(* vp.ParseJWTPresentation, with WithVerifyProof and WithVCValidation *)

\* Mutant: the proof of the presentation is not asked for.
HolderAssumed(url) == TRUE

HolderProves(url) ==
    call.token.by = call.token.holder /\ call.token.holder \in Knows[url]

CheckHolder ==
    /\ pc = "proof"
    /\ IF HolderProves(vpUrl) THEN Goto("vcs") ELSE Return("refused")
    /\ UNCHANGED <<resolvers, call, work, sign, out>>

IssuerProves(c, url) == c.by = c.issuer /\ c.issuer \in Knows[url]

CheckCredential ==
    /\ pc = "vcs" /\ at <= Len(call.token.creds)
    /\ IF IssuerProves(call.token.creds[at], vcUrl)
       THEN at' = at + 1 /\ UNCHANGED <<pc, result>>
       ELSE Return("refused")
    /\ UNCHANGED <<resolvers, call, work, sign, out>>

\* The contents must hold a list.
Checked ==
    /\ pc = "vcs" /\ at > Len(call.token.creds)
    /\ IF call.token.listed THEN Goto("items") ELSE Return("error")
    /\ UNCHANGED <<resolvers, call, work, sign, out>>
-----------------------------------------------------------------------------
(* The loop of VerifyToken and of VerifyTokenWithStructs *)

\* The issuer at top level, if the contents name one, then the subject's fields,
\* which may hold an "issuer" of their own.
Claims(c) ==
    [f \in DOMAIN c.subject \cup (IF c.named THEN {"issuer"} ELSE {}) |->
        IF f \in DOMAIN c.subject THEN c.subject[f] ELSE c.issuer]

\* Mutant: an embedded credential is taken as it is.
TakeItemAsIs(c) ==
    IF c.form # "bad"
    THEN /\ claims' = Append(claims, Claims(c)) /\ at' = at + 1
         /\ list' = IF call.op = "structs" THEN list ELSE Append(list, c)
         /\ UNCHANGED <<pc, result>>
    ELSE Return("error") /\ UNCHANGED <<claims, list>>

\* vcItem.(string): VerifyToken looks whether it is one, the other panics.
TakeItem(c) ==
    IF c.form = "jwt"
    THEN /\ claims' = Append(claims, Claims(c)) /\ at' = at + 1
         /\ list' = IF call.op = "structs" THEN list ELSE Append(list, c)
         /\ UNCHANGED <<pc, result>>
    ELSE /\ Return(IF call.op = "structs" /\ c.form = "object"
                   THEN "panic" ELSE "error")
         /\ UNCHANGED <<claims, list>>

Item ==
    /\ pc = "items" /\ at <= Len(call.token.creds)
    /\ TakeItem(call.token.creds[at])
    /\ UNCHANGED <<resolvers, call, targets, sign, out>>

ItemsDone ==
    /\ pc = "items" /\ at > Len(call.token.creds)
    /\ \/ call.op = "verify" /\ Return("ok")
       \/ call.op = "structs" /\ Goto("fill")
       \/ call.op = "forward" /\ Goto("requester")
    /\ UNCHANGED <<resolvers, call, work, sign, out>>
-----------------------------------------------------------------------------
(* ParseVcClaimsWithStructs *)

\* json.Unmarshal: only into a pointer; fields that the claims lack keep what
\* they had, and one of another type is passed over and makes an error.
Filled(t, claim) ==
    IF ~t.pointer THEN t
    ELSE [t EXCEPT !.fields =
            [f \in DOMAIN t.fields |->
                IF f \in DOMAIN claim \ t.typed THEN claim[f] ELSE t.fields[f]]]

Fits(t, claim) == t.pointer /\ t.typed \cap DOMAIN claim = {}

\* Mutant: more targets than claims are taken.
LengthsShort == Len(claims) <= Len(targets)

LengthsAgree == Len(claims) = Len(targets)

Fill ==
    /\ pc = "fill" /\ at <= Len(claims) /\ LengthsAgree
    /\ targets' = [targets EXCEPT ![at] = Filled(@, claims[at])]
    /\ IF Fits(targets[at], claims[at])
       THEN at' = at + 1 /\ UNCHANGED <<pc, result>>
       ELSE Return("error")
    /\ UNCHANGED <<resolvers, call, list, claims, sign, out>>

FillEnds ==
    /\ pc = "fill"
    /\ \/ ~LengthsAgree /\ Return("error")
       \/ LengthsAgree /\ at > Len(claims) /\ Return("ok")
    /\ UNCHANGED <<resolvers, call, work, sign, out>>
-----------------------------------------------------------------------------
(* buildVPAuthorization, after VerifyToken *)

\* Mutant: the requester is not compared.
RequesterAny == call.expected \in Dids \cup {None}

\* An empty expectation accepts every holder.
RequesterMatches == call.expected \in {None, call.token.holder}

CheckRequester ==
    /\ pc = "requester"
    /\ IF RequesterMatches /\ call.appKey # Malformed
       THEN Goto("parse") /\ list' = Append(list, Trust)
       ELSE Return("error") /\ UNCHANGED list
    /\ UNCHANGED <<resolvers, call, claims, targets, sign, out>>
-----------------------------------------------------------------------------
(* CreateToken *)

Holder == IF call.op = "create" THEN call.holder ELSE App

\* Mutant: the configured key comes after the options.
KeyOptionConfigured == IF call.op = "create" THEN call.key ELSE call.appKey

\* WithUploadApplicationPrivKeyHex and WithDownloadApplicationPrivKeyHex: a key
\* that is not hex is no option, one that is only Unfit is.  The configured key
\* comes before the options.
KeyOption ==
    IF call.op = "create" THEN call.key
    ELSE IF call.named \in {None, Malformed} THEN call.appKey ELSE call.named

\* The file client has no option for an address.
AddressOption == IF call.op = "create" THEN call.address ELSE None

\* What the provider signs with.
SignsWith == IF call.provider = "ecdsa" THEN KeyOption ELSE AddressOption

Parse ==
    /\ pc = "parse" /\ at <= Len(list)
    /\ IF list[at].form = "jwt" THEN at' = at + 1 /\ UNCHANGED <<pc, result>>
       ELSE Return("error")
    /\ UNCHANGED <<resolvers, call, work, sign, out>>

\* NewJWTPresentation and GetSigningInput.
Present ==
    /\ pc = "parse" /\ at > Len(list)
    /\ Goto("sign") \/ Return("error")
    /\ UNCHANGED <<resolvers, call, work, sign, out>>

\* A signature is made by a local key, or by the Vault, perhaps too late.
ProviderMakes ==
    /\ pc = "sign" \/ (answer = "error" /\ call.provider = "vault")
    /\ SignsWith \in Dids /\ Sign!Make
    /\ UNCHANGED <<resolvers, call, pc, at, work, out, result>>

ProviderAnswers ==
    /\ pc = "sign" /\ Sign!Succeed
    /\ Goto("finish")
    /\ UNCHANGED <<resolvers, call, work, out>>

\* Mutant: a failing provider is asked again.
ProviderFailsRetried ==
    /\ pc = "sign" /\ answer = "none"
    /\ made' = 0 /\ UNCHANGED answer
    /\ UNCHANGED <<resolvers, call, pc, at, work, out, result>>

\* A local key fails only when there is none, or an Unfit one (ToECDSA).
ProviderFails ==
    /\ pc = "sign" /\ (call.provider = "vault" \/ SignsWith \notin Dids)
    /\ Sign!Fail
    /\ Return("error")
    /\ UNCHANGED <<resolvers, call, work, out>>

\* AddCustomProof, Serialize and Marshal.
Finish ==
    /\ pc = "finish"
    /\ \/ /\ out' = [holder |-> Holder, by |-> SignsWith, creds |-> list]
          /\ Return("ok")
       \/ Return("error") /\ UNCHANGED out
    /\ UNCHANGED <<resolvers, call, work, sign>>

Stop == pc = "returned" /\ UNCHANGED vars
-----------------------------------------------------------------------------
Verify == CheckHolder \/ CheckCredential \/ Checked \/ Item \/ ItemsDone

Create == Parse \/ Present \/ ProviderMakes \/ ProviderAnswers
            \/ ProviderFails \/ Finish

Step == Begin \/ Verify \/ Fill \/ FillEnds \/ CheckRequester \/ Create

NewAuth(m) == (\E url \in Urls : VcInit(m, url)) \/ VpInit(m)

Next == Step \/ (\E m \in Makers : NewAuth(m)) \/ Stop

Spec == Init /\ [][Next]_vars

\* The call runs, and every request of a provider ends (VaultSign's Returns).
FairSpec == Spec /\ WF_vars(Step)
-----------------------------------------------------------------------------
(* Properties *)

\* What the signatures say of a token, and that a resolver knows its DIDs.
Signed(token) ==
    /\ token.by = token.holder
    /\ \A i \in DOMAIN token.creds : token.creds[i].by = token.creds[i].issuer

Known(token, url) ==
    /\ token.holder \in Knows[url]
    /\ \A i \in DOMAIN token.creds : token.creds[i].issuer \in Knows[url]

Verifies == call # None /\ call.op # "create"

Accepted ==
    /\ Verifies
    /\ pc \in {"items", "fill", "requester", "parse", "sign", "finish"}
         \/ result \in {"ok", "panic"}

\* Unless another client changed the resolvers in between, a token is refused
\* only for a cause of its own, and accepted only if the client's resolver
\* knows its DIDs.  No change of resolvers lets a wrong signature pass.
VerdictHasCause ==
    /\ Accepted => Signed(call.token)
    /\ Accepted /\ ~disturbed => Known(call.token, conf)
    /\ result = "refused" /\ ~disturbed =>
        ~Signed(call.token) \/ ~Known(call.token, conf)

\* As long as no two NewAuths have overlapped, the two packages have the same
\* resolver whenever no NewAuth is running: only an overlap mixes them.
ResolversAgree ==
    ~overlap /\ (\A m \in Makers : half[m] = None) => vcUrl = vpUrl

\* VerifyToken answers all credentials and their claims, in the order shown.  The
\* issuer of a claims map is the credential's, or what its subject says, and is
\* missing only when neither names one.
ListAnswered ==
    Verifies /\ call.op = "verify" /\ result = "ok" =>
        /\ list = call.token.creds /\ Len(claims) = Len(list)
        /\ \A i \in DOMAIN list :
            /\ claims[i] = Claims(list[i])
            /\ "issuer" \in DOMAIN claims[i] =>
                \/ claims[i]["issuer"] = list[i].issuer
                \/ "issuer" \in DOMAIN list[i].subject
            /\ "issuer" \notin DOMAIN claims[i] => ~list[i].named

\* The structs are filled from the front, each from its own credential, and
\* those behind one that does not fit are as they were.  All are as they were
\* when the token is refused, when a credential in it is embedded, and when
\* there are not as many structs as credentials.
StructsFilled ==
    Verifies /\ call.op = "structs" =>
        LET before == call.targets
            filled(i) == Filled(before[i], Claims(call.token.creds[i]))
        IN  /\ Len(targets) = Len(before)
            /\ targets # before =>
                /\ Len(targets) = Len(call.token.creds)
                /\ result \notin {"refused", "panic"}
            /\ \A j \in DOMAIN targets : targets[j] # before[j] =>
                /\ targets[j] = filled(j)
                /\ \A i \in 1..(j - 1) :
                    /\ targets[i] = filled(i)
                    /\ Fits(before[i], Claims(call.token.creds[i]))
            /\ result = "ok" =>
                \A i \in DOMAIN targets :
                    /\ targets[i] = filled(i)
                    /\ Fits(before[i], Claims(call.token.creds[i]))

\* What either verification answers is what the token shows, in its order and
\* whole, or else nothing and a beginning of it.
AnswersAreShown == ListAnswered /\ StructsFilled

\* A provider is asked to sign only what has been checked: every credential
\* parses, and what is forwarded was accepted from the expected requester.
SignedIsChecked ==
    made > 0 \/ answer # "none" =>
        /\ \A i \in DOMAIN list : list[i].form = "jwt"
        /\ call.op = "forward" =>
            /\ Accepted \/ result = "error"
            /\ Signed(call.token)
            /\ call.expected \in {None, call.token.holder}

\* A token that was made has one signature, is signed by the key that the call
\* names or else by the configured one, also when the key it names is not hex
\* (but not when it is an Unfit one: that makes no token), and shows all the caller's credentials and then the gateway's.  The file
\* client makes none with a Vault, for which it has no address.
MadeIsWhole ==
    out # None =>
        /\ made = 1
        /\ call.op = "create" => out.holder = call.holder /\ out.creds = call.given
        /\ call.op = "forward" =>
            /\ out.holder = App /\ call.provider = "ecdsa"
            /\ out.creds = Append(call.token.creds, Trust)
            /\ call.named # Unfit
            /\ out.by = IF call.named \in Dids THEN call.named ELSE App
            /\ out.by = App /\ Trust.by = Trust.issuer => Signed(out)

\* The call returns, whatever other clients do.
Returns == pc = "made" ~> pc = "returned"

\* Every variable keeps its type: the list is one of strings.
TypeOK ==
    /\ vcUrl \in Urls \cup {None} /\ vpUrl \in Urls \cup {None}
    /\ half \in [Makers -> Urls \cup {None}] /\ conf \in Urls \cup {None}
    /\ overlap \in BOOLEAN /\ disturbed \in BOOLEAN
    /\ call \in Calls \cup {None} /\ at \in Nat \ {0}
    /\ pc \in {"new", "made", "proof", "vcs", "items", "fill", "requester",
               "parse", "sign", "finish", "returned"}
    /\ list \in Seq(Strings)
    /\ claims \in Seq({Claims(c) : c \in Credentials})
    /\ made \in Nat /\ answer \in {"none", "ok", "error"}
    /\ result \in {"none", "ok", "refused", "error", "panic"}
-----------------------------------------------------------------------------
(* The inductive invariant *)

\* What the resolvers are between and after the Inits.
Resolvers ==
    /\ pc = "new" <=> conf = None
    /\ conf # None => half[Caller] = None
    /\ ~overlap =>
        /\ \A m, n \in Makers : half[m] # None /\ half[n] # None => m = n
        /\ \A m \in Makers : half[m] # None => vcUrl = half[m]
        /\ (\A m \in Makers : half[m] = None) => vcUrl = vpUrl
    /\ ~disturbed =>
        /\ CallersUrl # None => vcUrl = CallersUrl
        /\ conf # None => vpUrl = conf

\* Which place belongs to which call.
Places ==
    /\ pc \in {"new", "made"} => call = None
    /\ call = None => pc \in {"new", "made"}
    /\ pc \in {"proof", "vcs", "items", "requester", "fill"} =>
        call.op # "create"
    /\ pc = "fill" => call.op = "structs"
    /\ pc = "requester" => call.op = "forward"
    /\ pc \in {"parse", "sign", "finish"} => call.op \in {"create", "forward"}
    /\ result = "none" <=> pc # "returned"
    /\ call # None /\ call.op # "create" /\ result # "error" =>
        call.token \in Presented

\* The proofs checked so far.
Proofs ==
    /\ pc = "vcs" =>
        /\ call.token.by = call.token.holder
        /\ ~disturbed => call.token.holder \in Knows[conf]
        /\ \A i \in 1..(at - 1) :
            /\ call.token.creds[i].by = call.token.creds[i].issuer
            /\ ~disturbed => call.token.creds[i].issuer \in Knows[conf]
    /\ VerdictHasCause

\* The list, in terms of the call.
Lists ==
    /\ pc \in {"new", "made", "proof", "vcs"} => list = <<>>
    /\ pc = "items" /\ call.op # "structs" =>
        /\ Len(list) = at - 1 /\ at <= Len(call.token.creds) + 1
        /\ \A i \in 1..(at - 1) : list[i] = call.token.creds[i]
    /\ pc = "requester" => list = call.token.creds
    /\ pc \in {"parse", "sign", "finish"} =>
        list = IF call.op = "create" THEN call.given
               ELSE Append(call.token.creds, Trust)

\* What precedes a signature.
Signing ==
    /\ pc = "parse" => \A i \in 1..(at - 1) : list[i].form = "jwt"
    /\ pc \in {"sign", "finish"} => \A i \in DOMAIN list : list[i].form = "jwt"
    /\ pc \in {"parse", "sign", "finish"} /\ call.op = "forward" =>
        call.expected \in {None, call.token.holder} /\ call.appKey # Malformed
    /\ made > 0 \/ answer # "none" => pc \in {"sign", "finish", "returned"}
    /\ answer = "error" => result = "error"
    /\ made > 0 => SignsWith \in Dids
    /\ pc = "finish" => made = 1
    /\ pc \notin {"finish", "returned"} => answer = "none"
    /\ out # None => pc = "returned" /\ result = "ok"

\* The claims so far are those of the credentials so far.
Taken ==
    /\ pc \in {"new", "made", "proof", "vcs"} => claims = <<>>
    /\ pc = "items" => Len(claims) = at - 1 /\ at <= Len(call.token.creds) + 1
    /\ pc = "fill" => Len(claims) = Len(call.token.creds)
    /\ pc \in {"items", "fill"} =>
        \A i \in 1..Len(claims) : claims[i] = Claims(call.token.creds[i])

\* The structs before the loop's index are filled, the others as they were.
Front ==
    call # None /\ call.op = "structs" =>
        LET before == call.targets
        IN  /\ pc \in {"proof", "vcs", "items"} => targets = before
            /\ pc = "fill" =>
                /\ targets = [i \in 1..Len(before) |-> targets[i]]
                /\ at > 1 => LengthsAgree /\ at <= Len(before) + 1
                /\ \A i \in 1..Len(before) :
                    IF i < at
                    THEN /\ targets[i] = Filled(before[i], Claims(call.token.creds[i]))
                         /\ Fits(before[i], Claims(call.token.creds[i]))
                    ELSE targets[i] = before[i]

Answers == Taken /\ Front /\ AnswersAreShown

Inv == /\ TypeOK /\ Resolvers /\ Places /\ Proofs /\ Lists /\ Signing
       /\ SignedIsChecked /\ MadeIsWhole
=============================================================================
