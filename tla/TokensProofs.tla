----------------------------- MODULE TokensProofs -----------------------------
(***************************************************************************)
(* Proofs about Tokens, for any goroutines that make clients, resolvers,   *)
(* DIDs, credentials, tokens and targets.                                  *)
(***************************************************************************)
EXTENDS Tokens, SequenceTheorems, TLAPS

(* Only NewAuth touches the resolvers, and it touches nothing of a call.      *)
LEMMA Quiet ==
    ASSUME Step \/ Stop \/ UNCHANGED vars
    PROVE UNCHANGED resolvers
BY DEF Step, Stop, vars, Begin, Verify, CheckHolder, CheckCredential, Checked,
       Item, ItemsDone, Fill, FillEnds, CheckRequester, Create, Parse, Present,
       ProviderMakes, ProviderAnswers, ProviderFails, Finish

LEMMA StepResolvers == Inv /\ [Next]_vars => Resolvers'
<1> SUFFICES ASSUME Inv, [Next]_vars PROVE Resolvers'
    OBVIOUS
<1>0. TypeOK /\ Resolvers /\ Places
    BY DEF Inv
<1>1. CASE Step \/ Stop \/ UNCHANGED vars
  <2>1. UNCHANGED resolvers
    BY <1>1, Quiet
  <2>2. pc # "new" <=> pc' # "new"
    BY <1>1 DEF Step, Stop, vars, Begin, Verify, CheckHolder, CheckCredential,
       Checked, Item, TakeItem, ItemsDone, Fill, FillEnds, CheckRequester, Create,
       Parse, Present, ProviderMakes, ProviderAnswers, ProviderFails, Finish,
       Goto, Return
  <2> QED BY <1>0, <2>1, <2>2 DEF Resolvers, resolvers, CallersUrl
<1>2. ASSUME NEW m \in Makers, NEW url \in Urls, VcInit(m, url)
      PROVE Resolvers'
  <2> USE <1>0, <1>2, CallerMakes, NoneIsNoUrl DEF TypeOK
  <2>1. (pc = "new" <=> conf = None)' /\ (conf # None => half[Caller] = None)'
    BY DEF VcInit, Resolvers
  <2>2. ASSUME ~overlap' PROVE
            /\ \A a, b \in Makers : half'[a] # None /\ half'[b] # None => a = b
            /\ \A a \in Makers : half'[a] # None => vcUrl' = half'[a]
            /\ (\A a \in Makers : half'[a] = None) => vcUrl' = vpUrl'
    <3>1. \A n \in Makers : half[n] = None
      BY <2>2, Zenon DEF VcInit
    <3>2. \A n \in Makers : half'[n] = IF n = m THEN url ELSE None
      BY <3>1 DEF VcInit
    <3> QED BY <3>2 DEF VcInit
  <2>3. ASSUME ~disturbed' PROVE
            /\ CallersUrl' # None => vcUrl' = CallersUrl'
            /\ conf' # None => vpUrl' = conf'
    <3>1. ~disturbed /\ ~Disturbs(m, url)
      BY <2>3, Zenon DEF VcInit
    <3> QED BY <3>1 DEF VcInit, Disturbs, CallersUrl, Resolvers
  <2> QED BY <2>1, <2>2, <2>3 DEF Resolvers
<1>3. ASSUME NEW m \in Makers, VpInit(m)
      PROVE Resolvers'
  <2> USE <1>0, <1>3, CallerMakes, NoneIsNoUrl DEF TypeOK
  <2>0. half[m] \in Urls
    BY DEF VpInit
  <2>1. (pc = "new" <=> conf = None)' /\ (conf # None => half[Caller] = None)'
    BY <2>0 DEF VpInit, Resolvers
  <2>2. ASSUME ~overlap' PROVE
            /\ \A a, b \in Makers : half'[a] # None /\ half'[b] # None => a = b
            /\ \A a \in Makers : half'[a] # None => vcUrl' = half'[a]
            /\ (\A a \in Makers : half'[a] = None) => vcUrl' = vpUrl'
    <3>1. \A n \in Makers : half'[n] = None
      BY <2>2 DEF VpInit, Resolvers
    <3> QED BY <2>2, <3>1 DEF VpInit, VpUrlSet, Resolvers
  <2>3. ASSUME ~disturbed' PROVE
            /\ CallersUrl' # None => vcUrl' = CallersUrl'
            /\ conf' # None => vpUrl' = conf'
    <3>1. ~disturbed /\ ~Disturbs(m, half[m])
      BY <2>3, Zenon DEF VpInit
    <3>2. CASE m = Caller
      BY <3>1, <3>2, <2>0 DEF VpInit, VpUrlSet, CallersUrl, Resolvers
    <3>3. CASE m # Caller
      BY <3>1, <3>3, <2>0 DEF VpInit, VpUrlSet, Disturbs, CallersUrl, Resolvers
    <3> QED BY <3>2, <3>3
  <2> QED BY <2>1, <2>2, <2>3 DEF Resolvers
<1> QED BY <1>1, <1>2, <1>3 DEF Next, NewAuth

(* A NewAuth leaves the call as it is; it may only disturb it.                *)
LEMMA Aside ==
    ASSUME Inv, NEW m \in Makers, NewAuth(m)
    PROVE /\ UNCHANGED <<call, at, list, claims, targets, made, answer, out, result>>
          /\ pc' = pc \/ (pc = "new" /\ pc' = "made")
          /\ disturbed => disturbed'
          /\ conf # None => conf' = conf
<1>0. (pc = "new" <=> conf = None) /\ (conf # None => half[Caller] = None)
    BY DEF Inv, Resolvers
<1>1. CASE \E url \in Urls : VcInit(m, url)
  <2> PICK url \in Urls : VcInit(m, url)
    BY <1>1
  <2>1. disturbed => disturbed'
    BY Zenon DEF VcInit
  <2> QED BY <2>1 DEF VcInit, work, sign
<1>2. CASE VpInit(m)
  <2>1. disturbed => disturbed'
    BY <1>2, Zenon DEF VpInit
  <2>2. conf # None => conf' = conf
    BY <1>0, <1>2 DEF VpInit
  <2>3. pc' = pc \/ (pc = "new" /\ pc' = "made")
    <3>1. CASE m = Caller
      BY <1>0, <1>2, <3>1 DEF VpInit
    <3>2. CASE m # Caller
      BY <1>2, <3>2 DEF VpInit
    <3> QED BY <3>1, <3>2
  <2> QED BY <1>2, <2>1, <2>2, <2>3 DEF VpInit, work, sign
<1> QED BY <1>1, <1>2 DEF NewAuth

LEMMA StepPlaces == Inv /\ [Next]_vars => Places'
<1> SUFFICES ASSUME Inv, [Next]_vars PROVE Places'
    OBVIOUS
<1>0. Places
    BY DEF Inv
<1>1. CASE Stop \/ UNCHANGED vars
    BY <1>0, <1>1 DEF Places, Stop, vars
<1>2. ASSUME NEW m \in Makers, NewAuth(m) PROVE Places'
    BY <1>0, <1>2, Aside DEF Places
<1>3. CASE Begin
  <2>1. PICK c \in Calls :
            /\ call' = c
            /\ IF c.op = "forward" /\ c.token = None THEN Return("error")
               ELSE Goto(IF c.op = "create" THEN "parse" ELSE "proof")
    BY <1>3 DEF Begin
  <2>2. c.op # "create" /\ ~(c.op = "forward" /\ c.token = None)
            => c.token \in Presented
    BY DEF Calls
  <2>3. c # None
    BY NoneIsNoCall
  <2> QED BY <1>0, <1>3, <2>1, <2>2, <2>3 DEF Begin, Places, Goto, Return
<1>4. CASE Verify
    BY <1>0, <1>4 DEF Places, Verify, CheckHolder, CheckCredential, Checked,
       Item, TakeItem, ItemsDone, Goto, Return
<1>5. CASE Fill \/ FillEnds \/ CheckRequester
    BY <1>0, <1>5 DEF Places, Fill, FillEnds, CheckRequester, Goto, Return
<1>6. CASE Create
    BY <1>0, <1>6 DEF Places, Create, Parse, Present, ProviderMakes,
       ProviderAnswers, ProviderFails, Finish, Goto, Return
<1> QED BY <1>1, <1>2, <1>3, <1>4, <1>5, <1>6 DEF Next, Step

LEMMA StepProofs == Inv /\ [Next]_vars => Proofs'
<1> SUFFICES ASSUME Inv, [Next]_vars PROVE Proofs'
    OBVIOUS
<1>0. TypeOK /\ Places /\ Resolvers /\ Proofs
    BY DEF Inv
<1> USE DEF Proofs, VerdictHasCause, Accepted, Verifies, Signed, Known
<1>1. CASE Stop \/ UNCHANGED vars
    BY <1>0, <1>1 DEF Stop, vars, resolvers
<1>2. ASSUME NEW m \in Makers, NewAuth(m) PROVE Proofs'
  <2>1. conf = None => pc \in {"new", "made"} /\ call = None /\ result = "none"
    BY <1>0 DEF Resolvers, Places
  <2>2. CASE conf = None
    BY <1>0, <1>2, <2>1, <2>2, Aside DEF Places
  <2>3. CASE conf # None
    BY <1>0, <1>2, <2>3, Aside DEF Places, Resolvers
  <2> QED BY <2>2, <2>3
<1>3. CASE Begin
    BY <1>0, <1>3 DEF Begin, Goto, Return, resolvers, Places
<1>4. CASE Verify
  <2>1. UNCHANGED <<resolvers, call>>
    BY <1>4 DEF Verify, CheckHolder, CheckCredential, Checked, Item, ItemsDone
  <2>2. conf # None
    BY <1>0, <1>4 DEF Verify, CheckHolder, CheckCredential, Checked, Item,
       ItemsDone, Resolvers
  <2>3. ~disturbed => vcUrl = conf /\ vpUrl = conf
    BY <1>0, <2>2 DEF Resolvers, CallersUrl
  <2>4. CASE CheckHolder
    BY <1>0, <2>1, <2>2, <2>3, <2>4
       DEF CheckHolder, HolderProves, Goto, Return, resolvers, Places
  <2>5. CASE CheckCredential
    <3>1. at \in DOMAIN call.token.creds
      BY <1>0, <2>5, TokensShow DEF CheckCredential, TypeOK, Places
    <3> QED BY <1>0, <2>1, <2>2, <2>3, <2>5, <3>1
       DEF CheckCredential, IssuerProves, Return, resolvers, Places, TypeOK
  <2>6. CASE Checked
    <3>1. \A i \in DOMAIN call.token.creds : i \in 1..(at - 1)
      BY <1>0, <2>6, TokensShow DEF Checked, TypeOK, Places
    <3> QED BY <1>0, <2>1, <2>2, <2>6, <3>1
       DEF Checked, Goto, Return, resolvers, Places
  <2>7. CASE Item \/ ItemsDone
    BY <1>0, <2>1, <2>7
       DEF Item, TakeItem, ItemsDone, Goto, Return, resolvers, Places
  <2> QED BY <1>4, <2>4, <2>5, <2>6, <2>7 DEF Verify
<1>5. CASE Fill \/ FillEnds \/ CheckRequester
    BY <1>0, <1>5
       DEF Fill, FillEnds, CheckRequester, Goto, Return, resolvers, Places
<1>6. CASE Create
    BY <1>0, <1>6 DEF Create, Parse, Present, ProviderMakes, ProviderAnswers,
       ProviderFails, Finish, Goto, Return, resolvers, Places
<1> QED BY <1>1, <1>2, <1>3, <1>4, <1>5, <1>6 DEF Next, Step

(* What callers give CreateToken is a list of strings.                        *)
LEMMA GivenIsSeq ==
    ASSUME NEW c \in Calls, c.op = "create"
    PROVE c.given \in Seq(Strings)
<1>1. c.given \in UNION {[1..n -> Strings] : n \in 0..2}
    BY DEF Calls
<1>2. PICK n \in 0..2 : c.given \in [1..n -> Strings]
    BY <1>1
<1> QED BY <1>2

LEMMA StringsExist == ASSUME NEW s \in Seq(Strings) PROVE s \in Seq(Credentials)
<1>1. Strings \subseteq Credentials
    BY DEF Strings
<1> HIDE DEF Strings
<1> QED BY <1>1

LEMMA ShownIsSeq == ASSUME Inv, call # None, call.op # "create", result # "error"
                    PROVE call.token.creds \in Seq(Credentials)
BY TokensShow DEF Inv, Places

LEMMA StepType == Inv /\ [Next]_vars => TypeOK'
<1> SUFFICES ASSUME Inv, [Next]_vars PROVE TypeOK'
    OBVIOUS
<1>0. TypeOK /\ Places
    BY DEF Inv
<1>1. CASE Stop \/ UNCHANGED vars
    BY <1>0, <1>1 DEF Stop, vars, resolvers, work, sign, TypeOK
<1>2. ASSUME NEW m \in Makers, NewAuth(m) PROVE TypeOK'
  <2>1. overlap' \in BOOLEAN /\ disturbed' \in BOOLEAN
    <3>1. CASE \E url \in Urls : VcInit(m, url)
      BY <3>1, Zenon DEF VcInit
    <3>2. CASE VpInit(m)
      BY <3>2, <1>0, Zenon DEF VpInit, TypeOK
    <3> QED BY <1>2, <3>1, <3>2 DEF NewAuth
  <2>2. /\ vcUrl' \in Urls \cup {None} /\ vpUrl' \in Urls \cup {None}
        /\ half' \in [Makers -> Urls \cup {None}] /\ conf' \in Urls \cup {None}
    <3>1. CASE \E url \in Urls : VcInit(m, url)
      BY <3>1, <1>0 DEF VcInit, TypeOK
    <3>2. CASE VpInit(m)
      BY <3>2, <1>0 DEF VpInit, VpUrlSet, TypeOK
    <3> QED BY <1>2, <3>1, <3>2 DEF NewAuth
  <2> QED BY <1>0, <1>2, <2>1, <2>2, Aside DEF TypeOK
<1>3. CASE Begin
  <2>1. PICK c \in Calls :
            /\ call' = c
            /\ list' = IF c.op = "create" THEN c.given ELSE <<>>
            /\ IF c.op = "forward" /\ c.token = None THEN Return("error")
               ELSE Goto(IF c.op = "create" THEN "parse" ELSE "proof")
    BY <1>3 DEF Begin
  <2>2. list' \in Seq(Strings)
    BY <2>1, GivenIsSeq
  <2>3. UNCHANGED resolvers
    BY <1>3 DEF Begin
  <2> QED BY <1>0, <1>3, <2>1, <2>2, <2>3
       DEF Begin, Goto, Return, resolvers, sign, TypeOK
<1>4. CASE Verify
  <2>1. CASE CheckHolder \/ CheckCredential \/ Checked \/ ItemsDone
    BY <1>0, <2>1 DEF CheckHolder, CheckCredential, Checked, ItemsDone, Goto,
       Return, resolvers, work, sign, TypeOK
  <2>2. CASE Item
    <3>1. call.token.creds \in Seq(Credentials)
      BY <1>0, <2>2, ShownIsSeq DEF Item, Places
    <3>2. call.token.creds[at] \in Credentials
      BY <1>0, <2>2, <3>1 DEF Item, TypeOK
    <3> DEFINE c == call.token.creds[at]
               S == {Claims(d) : d \in Credentials}
    <3> HIDE DEF c
    <3>3. list' \in Seq(Strings)
      <4>1. list' = list \/ (list' = Append(list, c) /\ c.form = "jwt")
        BY <2>2 DEF Item, TakeItem, c
      <4>2. c \in Credentials /\ list \in Seq(Strings)
        BY <1>0, <3>2 DEF c, TypeOK
      <4>3. c.form = "jwt" => c \in Strings
        BY <4>2 DEF Strings
      <4> QED BY <4>1, <4>2, <4>3
    <3>4. claims' \in Seq(S)
      <4>1. claims' = claims \/ claims' = Append(claims, Claims(c))
        BY <2>2 DEF Item, TakeItem, c
      <4>2. Claims(c) \in S /\ claims \in Seq(S)
        BY <1>0, <3>2 DEF c, TypeOK
      <4> HIDE DEF S
      <4> QED BY <4>1, <4>2
    <3> QED BY <1>0, <2>2, <3>3, <3>4
         DEF Item, TakeItem, Return, resolvers, sign, TypeOK
  <2> QED BY <1>4, <2>1, <2>2 DEF Verify
<1>5. CASE Fill \/ FillEnds
    BY <1>0, <1>5 DEF Fill, FillEnds, Goto, Return, resolvers, work, sign, TypeOK
<1>6. CASE CheckRequester
  <2>1. list' = Append(list, Trust) \/ list' = list
    BY <1>6 DEF CheckRequester
  <2>2. Trust \in Strings
    BY TrustExists DEF Strings
  <2>3. list' \in Seq(Strings)
    BY <1>0, <2>1, <2>2 DEF TypeOK
  <2> QED BY <1>0, <1>6, <2>3 DEF CheckRequester, Goto, Return, resolvers, sign, TypeOK
<1>7. CASE Create
    BY <1>0, <1>7 DEF Create, Parse, Present, ProviderMakes, ProviderAnswers,
       ProviderFails, Finish, Goto, Return, resolvers, work, sign, TypeOK,
       Sign!Make, Sign!Succeed, Sign!Fail
<1> QED BY <1>1, <1>2, <1>3, <1>4, <1>5, <1>6, <1>7 DEF Next, Step

(* Two sequences of the same length and items are one.                        *)
LEMMA SameSeq ==
    ASSUME NEW S, NEW s \in Seq(S), NEW t \in Seq(S), Len(s) = Len(t),
           \A i \in 1..Len(s) : s[i] = t[i]
    PROVE s = t
OBVIOUS

LEMMA StepLists == Inv /\ [Next]_vars => Lists'
<1> SUFFICES ASSUME Inv, [Next]_vars PROVE Lists'
    OBVIOUS
<1>0. TypeOK /\ Places /\ Lists
    BY DEF Inv
<1>1. CASE Stop \/ UNCHANGED vars
    BY <1>0, <1>1 DEF Stop, vars, work, Lists
<1>2. ASSUME NEW m \in Makers, NewAuth(m) PROVE Lists'
    BY <1>0, <1>2, Aside DEF Lists
<1>3. CASE Begin
    BY <1>0, <1>3 DEF Begin, Goto, Return, Lists
<1>4. CASE CheckHolder \/ CheckCredential
    BY <1>0, <1>4 DEF CheckHolder, CheckCredential, Goto, Return, work, Lists
<1>5. CASE Checked
  <2>1. call.token.creds \in Seq(Credentials)
    BY <1>0, <1>5, ShownIsSeq DEF Checked, Places
  <2> QED BY <1>0, <1>5, <2>1 DEF Checked, Goto, Return, work, Lists
<1>6. CASE Item
  <2> DEFINE creds == call.token.creds
  <2>1. creds \in Seq(Credentials) /\ at \in 1..Len(creds)
    BY <1>0, <1>6, ShownIsSeq DEF Item, Places, TypeOK
  <2>2. CASE creds[at].form # "jwt"
    BY <1>6, <2>2 DEF Item, TakeItem, Return, Lists
  <2>3. CASE creds[at].form = "jwt" /\ call.op = "structs"
    BY <1>0, <1>6, <2>3 DEF Item, TakeItem, Lists
  <2>4. CASE creds[at].form = "jwt" /\ call.op # "structs"
    <3>1. /\ list' = Append(list, creds[at]) /\ at' = at + 1
          /\ UNCHANGED <<pc, call>> /\ pc = "items"
      BY <1>6, <2>4 DEF Item, TakeItem
    <3>2. /\ list \in Seq(Credentials) /\ Len(list) = at - 1
          /\ \A i \in 1..(at - 1) : list[i] = creds[i]
      BY <1>0, <2>4, <3>1, StringsExist DEF Lists, TypeOK
    <3>3. Len(list') = at /\ \A i \in 1..at : list'[i] = creds[i]
      BY <2>1, <3>1, <3>2
    <3> QED BY <2>1, <3>1, <3>3 DEF Lists
  <2> QED BY <2>2, <2>3, <2>4
<1>7. CASE ItemsDone
  <2>1. call.token.creds \in Seq(Credentials)
    BY <1>0, <1>7, ShownIsSeq DEF ItemsDone, Places
  <2>2. list \in Seq(Credentials)
    BY <1>0, StringsExist DEF TypeOK
  <2>3. ASSUME call.op = "forward" PROVE list = call.token.creds
    <3>1. /\ at \in Nat /\ Len(list) = at - 1 /\ at <= Len(call.token.creds) + 1
          /\ at > Len(call.token.creds)
          /\ \A i \in 1..(at - 1) : list[i] = call.token.creds[i]
      BY <1>0, <1>7, <2>3 DEF ItemsDone, Lists, TypeOK
    <3>2. Len(list) = Len(call.token.creds)
      BY <2>1, <3>1
    <3> QED BY <2>1, <2>2, <3>1, <3>2, SameSeq
  <2> QED BY <1>0, <1>7, <2>3 DEF ItemsDone, Goto, Return, work, Lists
<1>8. CASE Fill \/ FillEnds \/ CheckRequester
    BY <1>0, <1>8
       DEF Fill, FillEnds, CheckRequester, Goto, Return, work, Lists, Places
<1>9. CASE Create
    BY <1>0, <1>9 DEF Create, Parse, Present, ProviderMakes, ProviderAnswers,
       ProviderFails, Finish, Goto, Return, work, Lists
<1> QED BY <1>1, <1>2, <1>3, <1>4, <1>5, <1>6, <1>7, <1>8, <1>9
        DEF Next, Step, Verify

LEMMA StepSigning == Inv /\ [Next]_vars => Signing'
<1> SUFFICES ASSUME Inv, [Next]_vars PROVE Signing'
    OBVIOUS
<1>0. TypeOK /\ Places /\ Signing
    BY DEF Inv
<1> USE DEF Signing, SignsWith, KeyOption, AddressOption
<1>1. CASE Stop \/ UNCHANGED vars
    BY <1>0, <1>1 DEF Stop, vars, work, sign
<1>2. ASSUME NEW m \in Makers, NewAuth(m) PROVE Signing'
    BY <1>0, <1>2, Aside
<1>3. CASE Begin
    BY <1>0, <1>3 DEF Begin, Goto, Return, sign, Places, TypeOK
<1>4. CASE Verify
    BY <1>0, <1>4 DEF Verify, CheckHolder, CheckCredential, Checked, Item,
       ItemsDone, TakeItem, Goto, Return, sign, Places, TypeOK
<1>5. CASE Fill \/ FillEnds \/ CheckRequester
    BY <1>0, <1>5 DEF Fill, FillEnds, CheckRequester, RequesterMatches, Goto,
       Return, sign, Places, TypeOK
<1>6. CASE Parse \/ Present
    BY <1>0, <1>6 DEF Parse, Present, Goto, Return, work, sign, TypeOK, Places
<1>7. CASE ProviderMakes
    BY <1>0, <1>7 DEF ProviderMakes, work, Sign!Make, TypeOK
<1>8. CASE ProviderAnswers
    BY <1>0, <1>8 DEF ProviderAnswers, Goto, work, Sign!Succeed, TypeOK
<1>9. CASE ProviderFails
    BY <1>0, <1>9 DEF ProviderFails, Return, work, Sign!Fail, TypeOK
<1>10. CASE Finish
    BY <1>0, <1>10 DEF Finish, Return, work, sign, TypeOK, Places
<1> QED BY <1>1, <1>2, <1>3, <1>4, <1>5, <1>6, <1>7, <1>8, <1>9, <1>10
        DEF Next, Step, Create

LEMMA StepChecked == Inv /\ [Next]_vars => SignedIsChecked'
<1> SUFFICES ASSUME Inv, [Next]_vars PROVE SignedIsChecked'
    OBVIOUS
<1>0. TypeOK /\ Places /\ Proofs /\ Signing /\ SignedIsChecked
    BY DEF Inv
<1> USE DEF SignedIsChecked, Accepted, Verifies, Signed
<1>1. CASE Stop \/ UNCHANGED vars
    BY <1>0, <1>1 DEF Stop, vars, work, sign
<1>2. ASSUME NEW m \in Makers, NewAuth(m) PROVE SignedIsChecked'
    BY <1>0, <1>2, Aside DEF Signing
<1>3. CASE Begin \/ Verify \/ Fill \/ FillEnds \/ CheckRequester \/ Parse \/ Present
  <2>1. made = 0 /\ answer = "none"
    BY <1>0, <1>3 DEF Begin, Verify, CheckHolder, CheckCredential, Checked, Item,
       ItemsDone, Fill, FillEnds, CheckRequester, Parse, Present, Signing, TypeOK
  <2>2. made' = made /\ answer' = answer
    BY <1>3 DEF Begin, Verify, CheckHolder, CheckCredential, Checked, Item,
       ItemsDone, Fill, FillEnds, CheckRequester, Parse, Present, sign
  <2> QED BY <2>1, <2>2
<1>4. CASE ProviderMakes
  <2>0. UNCHANGED <<list, call, result, pc>>
    BY <1>4 DEF ProviderMakes, work
  <2>1. CASE pc = "sign"
    <3>1. call # None /\ result = "none"
      BY <1>0, <2>1 DEF Places
    <3> QED BY <1>0, <2>0, <2>1, <3>1 DEF Places, Proofs, VerdictHasCause, Signing
  <2>2. CASE answer = "error"
    BY <1>0, <2>0, <2>2 DEF Signing
  <2> QED BY <1>4, <2>1, <2>2 DEF ProviderMakes
<1>5. CASE ProviderAnswers \/ ProviderFails \/ Finish
  <2>0. pc \in {"sign", "finish"} /\ result = "none"
    BY <1>0, <1>5 DEF ProviderAnswers, ProviderFails, Finish, Places
  <2>1. call # None /\ UNCHANGED <<made, list, call>>
    BY <1>0, <1>5 DEF ProviderAnswers, ProviderFails, Finish, work, sign,
       Places, Sign!Succeed, Sign!Fail
  <2>2. /\ \A i \in DOMAIN list : list[i].form = "jwt"
        /\ call.op = "forward" =>
            Signed(call.token) /\ call.expected \in {None, call.token.holder}
    BY <1>0, <2>0, <2>1 DEF Signing, Proofs, VerdictHasCause
  <2> QED BY <1>0, <1>5, <2>0, <2>1, <2>2
       DEF ProviderAnswers, ProviderFails, Finish, Goto, Return
<1> QED BY <1>1, <1>2, <1>3, <1>4, <1>5 DEF Next, Step, Create

LEMMA StepWhole == Inv /\ [Next]_vars => MadeIsWhole'
<1> SUFFICES ASSUME Inv, [Next]_vars PROVE MadeIsWhole'
    OBVIOUS
<1>0. TypeOK /\ Places /\ Proofs /\ Lists /\ Signing /\ MadeIsWhole
    BY DEF Inv
<1>1. CASE UNCHANGED <<out, made, call>>
    BY <1>0, <1>1 DEF MadeIsWhole, Signed
<1>2. ASSUME UNCHANGED out, pc \notin {"returned"} PROVE MadeIsWhole'
    BY <1>0, <1>2 DEF Signing, MadeIsWhole
<1>3. ASSUME Finish, out' # out PROVE MadeIsWhole'
  <2>1. /\ out' = [holder |-> Holder, by |-> SignsWith, creds |-> list]
        /\ pc = "finish" /\ UNCHANGED <<call, made>>
    BY <1>3 DEF Finish, sign
  <2>2. made = 1 /\ SignsWith \in Dids /\ call.op \in {"create", "forward"}
    BY <1>0, <2>1 DEF Signing, Places
  <2>3. list = IF call.op = "create" THEN call.given
               ELSE Append(call.token.creds, Trust)
    BY <1>0, <2>1 DEF Lists
  <2>4. CASE call.op = "create"
    BY <2>1, <2>2, <2>3, <2>4 DEF MadeIsWhole, Holder
  <2>5. CASE call.op = "forward"
    <3>1. call # None /\ result = "none" /\ call \in Calls
      BY <1>0, <2>1 DEF Places, TypeOK
    <3>2. /\ call.provider \in {"ecdsa", "vault"} 
          /\ call.appKey \in {App, Malformed, Unfit}
          /\ call.named \in Dids \cup {None, Malformed, Unfit}
      BY <2>5, <3>1 DEF Calls
    <3>3. call.provider = "ecdsa"
      BY <2>2, <2>5, <3>2, NoDids DEF SignsWith, AddressOption
    <3>4. KeyOption \in Dids
      BY <2>2, <3>3 DEF SignsWith
    <3>5. /\ SignsWith = IF call.named \in Dids THEN call.named ELSE App
          /\ call.named # Unfit
      BY <1>0, <2>1, <2>5, <3>2, <3>3, <3>4, NoDids DEF SignsWith, KeyOption, Signing
    <3>6. Signed(call.token) /\ call.token.creds \in Seq(Credentials)
      BY <1>0, <2>1, <2>5, <3>1, ShownIsSeq
         DEF Proofs, VerdictHasCause, Accepted, Verifies
    <3>7. \A i \in DOMAIN Append(call.token.creds, Trust) :
            \/ i \in DOMAIN call.token.creds
                /\ Append(call.token.creds, Trust)[i] = call.token.creds[i]
            \/ Append(call.token.creds, Trust)[i] = Trust
      BY <3>6
    <3>8. out'.by = App /\ Trust.by = Trust.issuer => Signed(out')
      BY <2>1, <2>3, <2>5, <3>6, <3>7 DEF Signed, Holder
    <3> QED BY <2>1, <2>2, <2>3, <2>5, <3>3, <3>5, <3>8 DEF MadeIsWhole, Holder
  <2> QED BY <2>2, <2>4, <2>5
<1>4. CASE Begin \/ Verify \/ Fill \/ FillEnds \/ CheckRequester \/ Parse \/ Present
    BY <1>2, <1>4 DEF Begin, Verify, CheckHolder, CheckCredential, Checked, Item,
       ItemsDone, Fill, FillEnds, CheckRequester, Parse, Present
<1>5. CASE ProviderMakes \/ ProviderAnswers \/ ProviderFails
  <2>1. CASE ProviderMakes
    BY <1>0, <2>1 DEF ProviderMakes, Sign!Make, MadeIsWhole
  <2> QED BY <1>2, <1>5, <2>1 DEF ProviderAnswers, ProviderFails
<1>6. ASSUME NEW m \in Makers, NewAuth(m) PROVE MadeIsWhole'
    BY <1>1, <1>6, Aside
<1>7. CASE Stop \/ UNCHANGED vars
    BY <1>1, <1>7 DEF Stop, vars, sign
<1>8. CASE Finish
  <2>1. CASE out' = out
    BY <1>2, <1>8, <2>1 DEF Finish
  <2> QED BY <1>3, <1>8, <2>1
<1> QED BY <1>4, <1>5, <1>6, <1>7, <1>8 DEF Next, Step, Create

LEMMA InitInv == Init => Inv
<1> SUFFICES ASSUME Init PROVE Inv
    OBVIOUS
<1>1. overlap \in BOOLEAN /\ disturbed \in BOOLEAN
    BY Zenon DEF Init
<1>2. TypeOK
    BY <1>1 DEF Init, TypeOK, Sign!Init
<1>3. Resolvers
    BY CallerMakes DEF Init, Resolvers, CallersUrl
<1>4. Places /\ Proofs /\ Lists /\ Signing /\ SignedIsChecked /\ MadeIsWhole
    BY DEF Init, Sign!Init, Places, Proofs, VerdictHasCause, Accepted, Verifies,
       Lists, Signing, SignedIsChecked, MadeIsWhole
<1> QED BY <1>2, <1>3, <1>4 DEF Inv

LEMMA StepInv == Inv /\ [Next]_vars => Inv'
BY StepType, StepResolvers, StepPlaces, StepProofs, StepLists, StepSigning,
   StepChecked, StepWhole DEF Inv

LEMMA SpecInv == Spec => []Inv
BY InitInv, StepInv, PTL DEF Spec

(* The state keeps its types.                                                 *)
THEOREM TypeCorrect == Spec => []TypeOK
<1>1. Inv => TypeOK
    BY DEF Inv
<1> QED BY <1>1, SpecInv, PTL

(* However many goroutines make clients, only overlapping NewAuths mix the    *)
(* resolvers of the two packages.                                             *)
THEOREM Agreement == Spec => []ResolversAgree
<1>1. Inv => ResolversAgree
    BY DEF Inv, Resolvers, ResolversAgree
<1> QED BY <1>1, SpecInv, PTL

(* For tokens of any length, a verdict that no other client disturbed is that *)
(* of the client's own resolver, and no disturbance accepts a wrong signature.*)
THEOREM Verdict == Spec => []VerdictHasCause
<1>1. Inv => VerdictHasCause
    BY DEF Inv, Proofs
<1> QED BY <1>1, SpecInv, PTL

(* Nothing is signed before everything in it has been checked.                *)
THEOREM Checks == Spec => []SignedIsChecked
<1>1. Inv => SignedIsChecked
    BY DEF Inv
<1> QED BY <1>1, SpecInv, PTL

(* A forwarded token shows what the caller showed and the gateway's           *)
(* credential, and verifies when the application's own key signed it.         *)
THEOREM Whole == Spec => []MadeIsWhole
<1>1. Inv => MadeIsWhole
    BY DEF Inv
<1> QED BY <1>1, SpecInv, PTL
-----------------------------------------------------------------------------
(* What verification answers                                                  *)

LEMMA LenIs ==
    ASSUME NEW f, NEW n \in Nat, f = [i \in 1..n |-> f[i]]
    PROVE Len(f) = n /\ DOMAIN f = 1..n
<1>1. f \in [1..n -> {f[i] : i \in 1..n}]
    OBVIOUS
<1>2. PICK S : f \in [1..n -> S]
    BY <1>1
<1>3. f \in Seq(S)
    BY <1>2
<1> QED BY <1>2, <1>3

LEMMA TargetsAre ==
    ASSUME Inv, call # None, call.op = "structs"
    PROVE /\ Len(call.targets) \in Nat /\ DOMAIN call.targets = 1..Len(call.targets)
          /\ call.targets = [i \in 1..Len(call.targets) |-> call.targets[i]]
<1>1. call \in Calls
    BY DEF Inv, TypeOK
<1>2. call.targets \in Targets
    BY <1>1 DEF Calls
<1>3. PICK S : call.targets \in Seq(S)
    BY <1>2, TargetsAreLists
<1> QED BY <1>3

(* Whatever leaves the answer alone keeps it.                                 *)
LEMMA AnswerStays ==
    ASSUME AnswersAreShown, UNCHANGED <<call, list, claims, targets, result>>
    PROVE AnswersAreShown'
BY DEF AnswersAreShown, ListAnswered, StructsFilled, Verifies

(* Structs as they were are in order, unless the call succeeds.               *)
LEMMA AsTheyWere ==
    ASSUME call' # None, call'.op = "structs" => targets' = call'.targets,
           result' # "ok"
    PROVE AnswersAreShown'
BY DEF AnswersAreShown, ListAnswered, StructsFilled, Verifies

LEMMA StepTaken == Inv /\ Answers /\ [Next]_vars => Taken'
<1> SUFFICES ASSUME Inv, Answers, [Next]_vars PROVE Taken'
    OBVIOUS
<1>0. TypeOK /\ Places /\ Taken
    BY DEF Inv, Answers
<1>1. CASE Stop \/ UNCHANGED vars
    BY <1>0, <1>1 DEF Stop, vars, work, Taken
<1>2. ASSUME NEW m \in Makers, NewAuth(m) PROVE Taken'
    BY <1>0, <1>2, Aside DEF Taken
<1>3. CASE Begin
    BY <1>0, <1>3 DEF Begin, Goto, Return, Taken
<1>4. CASE CheckHolder \/ CheckCredential
    BY <1>0, <1>4 DEF CheckHolder, CheckCredential, Goto, Return, work, Taken
<1>5. CASE Checked
  <2>1. call.token.creds \in Seq(Credentials)
    BY <1>0, <1>5, ShownIsSeq DEF Checked, Places
  <2> QED BY <1>0, <1>5, <2>1 DEF Checked, Goto, Return, work, Taken
<1>6. CASE Item
  <2> DEFINE creds == call.token.creds
  <2>1. creds \in Seq(Credentials) /\ at \in 1..Len(creds)
    BY <1>0, <1>6, ShownIsSeq DEF Item, Places, TypeOK
  <2>2. CASE creds[at].form # "jwt"
    BY <1>6, <2>2 DEF Item, TakeItem, Return, Taken
  <2>3. CASE creds[at].form = "jwt"
    <3>1. /\ claims' = Append(claims, Claims(creds[at])) /\ at' = at + 1
          /\ UNCHANGED <<pc, call>> /\ pc = "items"
      BY <1>6, <2>3 DEF Item, TakeItem
    <3>2. /\ Len(claims) = at - 1
          /\ \A i \in 1..(at - 1) : claims[i] = Claims(creds[i])
      BY <1>0, <3>1 DEF Taken
    <3>3. PICK S : claims \in Seq(S) /\ Claims(creds[at]) \in S
      <4>1. PICK T : claims \in Seq(T)
        BY <1>0 DEF TypeOK
      <4>2. claims \in Seq(T \cup {Claims(creds[at])})
        BY <4>1
      <4> QED BY <4>2
    <3> DEFINE c == Claims(creds[at])
    <3> HIDE DEF c
    <3>4. Len(claims') = at /\ \A i \in 1..at : claims'[i] = Claims(creds[i])
      <4>1. Len(claims') = at /\ claims'[at] = c
            /\ \A i \in 1..(at - 1) : claims'[i] = claims[i]
        BY <2>1, <3>1, <3>2, <3>3 DEF c
      <4> QED BY <2>1, <3>2, <4>1 DEF c
    <3> QED BY <2>1, <3>1, <3>4 DEF Taken
  <2> QED BY <2>2, <2>3
<1>7. CASE ItemsDone
  <2>1. call.token.creds \in Seq(Credentials)
    BY <1>0, <1>7, ShownIsSeq DEF ItemsDone, Places
  <2>2. /\ at \in Nat /\ Len(call.token.creds) \in Nat
        /\ Len(claims) = Len(call.token.creds)
    BY <1>0, <1>7, <2>1 DEF ItemsDone, Taken, TypeOK
  <2> QED BY <1>0, <1>7, <2>2 DEF ItemsDone, Goto, Return, work, Taken
<1>8. CASE Fill \/ FillEnds \/ CheckRequester
    BY <1>0, <1>8
       DEF Fill, FillEnds, CheckRequester, Goto, Return, work, Taken
<1>9. CASE Create
    BY <1>0, <1>9 DEF Create, Parse, Present, ProviderMakes, ProviderAnswers,
       ProviderFails, Finish, Goto, Return, work, Taken, Places
<1> QED BY <1>1, <1>2, <1>3, <1>4, <1>5, <1>6, <1>7, <1>8, <1>9
        DEF Next, Step, Verify

LEMMA StepFront == Inv /\ Answers /\ [Next]_vars => Front'
<1> SUFFICES ASSUME Inv, Answers, [Next]_vars PROVE Front'
    OBVIOUS
<1>0. TypeOK /\ Places /\ Taken /\ Front
    BY DEF Inv, Answers
<1>1. CASE Stop \/ UNCHANGED vars
    BY <1>0, <1>1 DEF Stop, vars, work, Front, LengthsAgree
<1>2. ASSUME NEW m \in Makers, NewAuth(m) PROVE Front'
    BY <1>0, <1>2, Aside DEF Front, LengthsAgree
<1>3. CASE Begin
    BY <1>0, <1>3 DEF Begin, Goto, Return, Front
<1>4. CASE CheckHolder \/ CheckCredential \/ Checked \/ Item
    BY <1>0, <1>4 DEF CheckHolder, CheckCredential, Checked, Item, TakeItem,
       Goto, Return, work, Front
<1>5. CASE ItemsDone
  <2>1. ASSUME call.op = "structs", call # None
        PROVE /\ Len(call.targets) \in Nat
              /\ call.targets = [i \in 1..Len(call.targets) |-> call.targets[i]]
    BY <2>1, TargetsAre
  <2> QED BY <1>0, <1>5, <2>1 DEF ItemsDone, Goto, Return, work, Front
<1>6. CASE Fill
  <2>1. /\ pc = "fill" /\ call.op = "structs" /\ call # None /\ call' = call
        /\ at \in Nat \ {0} /\ at <= Len(claims) /\ Len(claims) = Len(targets)
        /\ Len(claims) = Len(call.token.creds) /\ claims' = claims
        /\ targets' = [targets EXCEPT ![at] = Filled(@, claims[at])]
    BY <1>0, <1>6 DEF Fill, LengthsAgree, Places, TypeOK, Taken
  <2> DEFINE before == call.targets
             n == Len(before)
             creds == call.token.creds
  <2>2. /\ n \in Nat /\ targets = [i \in 1..n |-> targets[i]]
        /\ \A i \in 1..n :
            IF i < at THEN /\ targets[i] = Filled(before[i], Claims(creds[i]))
                           /\ Fits(before[i], Claims(creds[i]))
                      ELSE targets[i] = before[i]
    BY <1>0, <2>1, TargetsAre DEF Front
  <2> HIDE DEF n
  <2>3. Len(targets) = n /\ DOMAIN targets = 1..n
    BY <2>2, LenIs
  <2>4. at \in 1..n /\ claims[at] = Claims(creds[at]) /\ targets[at] = before[at]
    <3>1. at \in 1..n /\ at \in 1..Len(claims)
      <4>1. n \in Nat /\ Len(targets) = n
        BY <2>2, <2>3
      <4>2. at \in Nat \ {0} /\ at <= Len(claims) /\ Len(claims) = Len(targets)
        BY <2>1
      <4> QED BY <4>1, <4>2
    <3>2. claims[at] = Claims(creds[at])
      BY <1>0, <2>1, <3>1 DEF Taken
    <3> QED BY <2>1, <2>2, <3>1, <3>2
  <2>5. targets' = [i \in 1..n |-> IF i = at THEN Filled(before[at], Claims(creds[at]))
                                   ELSE targets[i]]
    BY <2>1, <2>3, <2>4
  <2>6. targets' = [i \in 1..n |-> targets'[i]]
    BY <2>5
  <2>7. Len(targets') = n
    BY <2>2, <2>6, LenIs
  <2>8. CASE pc' = "fill"
    <3>1. at' = at + 1 /\ Fits(before[at], Claims(creds[at]))
      BY <1>6, <2>4, <2>1, <2>8 DEF Fill, Return
    <3>2. \A i \in 1..n :
            IF i < at + 1
            THEN /\ targets'[i] = Filled(before[i], Claims(creds[i]))
                 /\ Fits(before[i], Claims(creds[i]))
            ELSE targets'[i] = before[i]
      <4> SUFFICES ASSUME NEW i \in 1..n
                   PROVE IF i < at + 1
                         THEN /\ targets'[i] = Filled(before[i], Claims(creds[i]))
                              /\ Fits(before[i], Claims(creds[i]))
                         ELSE targets'[i] = before[i]
        OBVIOUS
      <4>1. CASE i = at
        BY <2>1, <2>5, <3>1, <4>1
      <4>2. CASE i < at
        BY <2>1, <2>2, <2>5, <4>2
      <4>3. CASE i > at
        BY <2>1, <2>2, <2>5, <4>3
      <4> QED BY <2>1, <2>2, <4>1, <4>2, <4>3
    <3>3. LengthsAgree' /\ at' <= n + 1
      <4>1. Len(claims') = Len(targets')
        BY <2>1, <2>3, <2>7
      <4>2. at + 1 <= n + 1
        BY <2>2, <2>4
      <4> QED BY <3>1, <4>1, <4>2 DEF LengthsAgree
    <3> QED BY <2>1, <2>6, <2>8, <3>1, <3>2, <3>3 DEF Front, n
  <2>9. CASE pc' # "fill"
    BY <1>6, <2>1, <2>9 DEF Fill, Return, Front
  <2> QED BY <2>8, <2>9
<1>7. CASE FillEnds \/ CheckRequester
    BY <1>0, <1>7 DEF FillEnds, CheckRequester, Goto, Return, work, Front, Places
<1>8. CASE Create
  <2>1. CASE ProviderMakes
    BY <1>0, <2>1 DEF ProviderMakes, work, Front, LengthsAgree
  <2>2. CASE Parse \/ Present \/ ProviderAnswers \/ ProviderFails \/ Finish
    BY <1>0, <2>2 DEF Parse, Present, ProviderAnswers, ProviderFails, Finish,
       Goto, Return, work, Front, Places
  <2> QED BY <1>8, <2>1, <2>2 DEF Create
<1> QED BY <1>1, <1>2, <1>3, <1>4, <1>5, <1>6, <1>7, <1>8 DEF Next, Step, Verify

LEMMA StepAnswers == Inv /\ Answers /\ [Next]_vars => AnswersAreShown'
<1> SUFFICES ASSUME Inv, Answers, [Next]_vars PROVE AnswersAreShown'
    OBVIOUS
<1>0. TypeOK /\ Places /\ Lists /\ Taken /\ Front /\ AnswersAreShown
    BY DEF Inv, Answers
<1>1. CASE Stop \/ UNCHANGED vars
    BY <1>0, <1>1, AnswerStays DEF Stop, vars, work
<1>2. ASSUME NEW m \in Makers, NewAuth(m) PROVE AnswersAreShown'
    BY <1>0, <1>2, Aside, AnswerStays
<1>3. CASE Begin
  <2>1. PICK c \in Calls :
            /\ call' = c /\ targets' = IF c.op = "structs" THEN c.targets ELSE <<>>
            /\ result' = result \/ result' = "error"
    BY <1>3 DEF Begin, Goto, Return
  <2>2. c # None /\ result' # "ok"
    BY <1>0, <1>3, <2>1, NoneIsNoCall DEF Begin, Places
  <2> QED BY <2>1, <2>2, AsTheyWere
<1>4. CASE CheckHolder \/ CheckCredential \/ Checked \/ Item
    BY <1>0, <1>4, AsTheyWere DEF CheckHolder, CheckCredential, Checked, Item,
       TakeItem, Goto, Return, work, Places, Front
<1>5. CASE ItemsDone
  <2>1. CASE call.op # "verify"
    BY <1>0, <1>5, <2>1, AsTheyWere DEF ItemsDone, Goto, Return, work, Places, Front
  <2>2. CASE call.op = "verify"
    <3>1. /\ UNCHANGED <<call, list, claims>> /\ call # None
          /\ at \in Nat /\ Len(list) = at - 1 /\ Len(claims) = at - 1
          /\ at > Len(call.token.creds) /\ at <= Len(call.token.creds) + 1
          /\ call.token.creds \in Seq(Credentials) /\ list \in Seq(Credentials)
          /\ \A i \in 1..(at - 1) : list[i] = call.token.creds[i]
          /\ \A i \in 1..(at - 1) : claims[i] = Claims(call.token.creds[i])
      BY <1>0, <1>5, <2>2, ShownIsSeq, StringsExist
         DEF ItemsDone, work, Places, TypeOK, Lists, Taken
    <3>2. list = call.token.creds /\ Len(list) = at - 1 /\ DOMAIN list = 1..(at - 1)
      BY <3>1, SameSeq
    <3>3. ASSUME NEW c
          PROVE /\ "issuer" \in DOMAIN Claims(c) =>
                    Claims(c)["issuer"] = c.issuer \/ "issuer" \in DOMAIN c.subject
                /\ "issuer" \notin DOMAIN Claims(c) => ~c.named
      BY DEF Claims
    <3>4. ListAnswered'
      BY <3>1, <3>2, <3>3 DEF ListAnswered, Verifies
    <3>5. StructsFilled'
      BY <2>2, <3>1 DEF StructsFilled
    <3> QED BY <3>4, <3>5 DEF AnswersAreShown
  <2> QED BY <2>1, <2>2
<1>6. CASE CheckRequester \/ Parse \/ Present \/ ProviderAnswers \/ ProviderFails \/ Finish
    BY <1>0, <1>6 DEF CheckRequester, Parse, Present, ProviderAnswers,
       ProviderFails, Finish, work, Places, AnswersAreShown, ListAnswered,
       StructsFilled, Verifies
<1>7. CASE ProviderMakes
    BY <1>0, <1>7, AnswerStays DEF ProviderMakes, work
<1>8. CASE Fill \/ FillEnds
  <2> DEFINE before == call.targets
             n == Len(before)
             creds == call.token.creds
             filled(i) == Filled(before[i], Claims(creds[i]))
             fits(i) == Fits(before[i], Claims(creds[i]))
  <2>1. /\ pc = "fill" /\ call.op = "structs" /\ call # None /\ call' = call
        /\ at \in Nat \ {0} /\ claims' = claims
        /\ Len(claims) = Len(creds)
        /\ result' \in {"none", "ok", "error"}
    BY <1>0, <1>8 DEF Fill, FillEnds, Places, TypeOK, Taken, work, Return
  <2>2. /\ n \in Nat /\ targets = [i \in 1..n |-> targets[i]]
        /\ before = [i \in 1..n |-> before[i]]
        /\ at > 1 => LengthsAgree /\ at <= n + 1
        /\ \A i \in 1..n : IF i < at THEN targets[i] = filled(i) /\ fits(i)
                           ELSE targets[i] = before[i]
    BY <1>0, <2>1, TargetsAre DEF Front
  <2> HIDE DEF n
  <2>3. Len(targets) = n /\ DOMAIN targets = 1..n
    BY <2>2, LenIs
  <2>4. PICK last \in 0..n :
            /\ targets' = [i \in 1..n |-> IF i <= last THEN filled(i) ELSE before[i]]
            /\ \A i \in 1..(last - 1) : fits(i)
            /\ last > 0 => Len(creds) = n
            /\ result' = "ok" => last = n /\ \A i \in 1..n : fits(i)
    <3>1. CASE Fill
      <4>1. /\ at <= Len(claims) /\ Len(claims) = Len(targets)
            /\ targets' = [targets EXCEPT ![at] = Filled(@, claims[at])]
            /\ result' # "ok"
        BY <1>0, <3>1 DEF Fill, LengthsAgree, Return, Places
      <4>2. at \in 1..n /\ claims[at] = Claims(creds[at]) /\ targets[at] = before[at]
        BY <1>0, <2>1, <2>2, <2>3, <4>1 DEF Taken
      <4>3. targets' = [i \in 1..n |-> IF i = at THEN filled(at) ELSE targets[i]]
        BY <2>3, <4>1, <4>2
      <4>4. targets' = [i \in 1..n |-> IF i <= at THEN filled(i) ELSE before[i]]
        BY <2>1, <2>2, <4>2, <4>3
      <4>5. \A i \in 1..(at - 1) : fits(i)
        BY <2>1, <2>2, <4>2
      <4>6. at \in 0..n /\ Len(creds) = n
        BY <2>1, <2>2, <2>3, <4>1, <4>2
      <4> HIDE DEF filled, fits
      <4> QED BY <4>1, <4>4, <4>5, <4>6
    <3>2. CASE FillEnds
      <4>1. /\ targets' = targets
            /\ result' = "ok" => LengthsAgree /\ at > Len(claims)
        BY <3>2 DEF FillEnds, work, Return
      <4>2. at - 1 \in 0..n
        BY <2>1, <2>2
      <4>3. targets = [i \in 1..n |-> IF i <= at - 1 THEN filled(i) ELSE before[i]]
        BY <2>1, <2>2
      <4>4. \A i \in 1..(at - 1) : fits(i)
        BY <2>1, <2>2, <4>2
      <4>5. at - 1 > 0 => Len(creds) = n
        BY <2>1, <2>2, <2>3 DEF LengthsAgree
      <4>6. result' = "ok" => at - 1 = n
        BY <2>1, <2>2, <2>3, <4>1, <4>2 DEF LengthsAgree
      <4> QED BY <4>1, <4>2, <4>3, <4>4, <4>5, <4>6
    <3> QED BY <1>8, <3>1, <3>2
  <2>5. targets' = [i \in 1..n |-> targets'[i]]
    BY <2>4
  <2>6. Len(targets') = n /\ DOMAIN targets' = 1..n
    BY <2>2, <2>5, LenIs
  <2>7. \A i \in 1..n : targets'[i] = IF i <= last THEN filled(i) ELSE before[i]
    BY <2>4
  <2>8. targets' # before => last > 0
    BY <2>2, <2>4
  <2>9. /\ targets' # before => Len(creds) = n
        /\ \A j \in 1..n : targets'[j] # before[j] =>
            /\ targets'[j] = filled(j)
            /\ \A i \in 1..(j - 1) : targets'[i] = filled(i) /\ fits(i)
        /\ result' = "ok" => \A i \in 1..n : targets'[i] = filled(i) /\ fits(i)
    <3>1. ASSUME NEW j \in 1..n, targets'[j] # before[j], NEW i \in 1..(j - 1)
          PROVE targets'[i] = filled(i) /\ fits(i)
      <4>1. j <= last
        BY <2>7, <3>1
      <4>2. i \in 1..n /\ i <= last /\ i \in 1..(last - 1)
        BY <2>2, <3>1, <4>1
      <4> QED BY <2>4, <2>7, <4>2
    <3>2. ASSUME NEW j \in 1..n, targets'[j] # before[j] PROVE targets'[j] = filled(j)
      BY <2>7, <3>2
    <3>3. targets' # before => Len(creds) = n
      BY <2>4, <2>8
    <3>4. ASSUME result' = "ok", NEW i \in 1..n PROVE targets'[i] = filled(i) /\ fits(i)
      BY <2>2, <2>4, <2>7, <3>4
    <3> HIDE DEF filled, fits
    <3> QED BY <3>1, <3>2, <3>3, <3>4
  <2>10. StructsFilled'
    BY <2>1, <2>6, <2>9 DEF StructsFilled, Verifies, n
  <2>11. ListAnswered'
    BY <2>1 DEF ListAnswered
  <2> QED BY <2>10, <2>11 DEF AnswersAreShown
<1> QED BY <1>1, <1>2, <1>3, <1>4, <1>5, <1>6, <1>7, <1>8
        DEF Next, Step, Verify, Create

(* VerifyToken answers what the token shows, in its order; the structs of     *)
(* VerifyTokenWithStructs are filled from the front, each from its own        *)
(* credential, and untouched when the token is refused.                       *)
THEOREM Shown == Spec => []AnswersAreShown
<1>1. Init => Answers
    BY DEF Init, Answers, Taken, Front, AnswersAreShown, ListAnswered,
       StructsFilled, Verifies
<1>2. Inv /\ Inv' /\ Answers /\ [Next]_vars => Answers'
    BY StepTaken, StepFront, StepAnswers DEF Answers
<1>3. Answers => AnswersAreShown
    BY DEF Answers
<1> QED BY <1>1, <1>2, <1>3, SpecInv, PTL DEF Spec
=============================================================================
