-------------------------- MODULE FileSharingProofs --------------------------
(***************************************************************************)
(* Proofs about FileSharing, for any users, clients, number of files and   *)
(* credentials, and length of presentations.                               *)
(***************************************************************************)
EXTENDS FileSharing, WellFoundedInduction, TLAPS

File == [issuer : Users, owner : Users, level : {"public", "private"}]

(* A set of naturals has a least element, which CapsuleFromJWT chooses.       *)
LEMMA Least ==
    ASSUME NEW T, T \subseteq Nat, T # {}
    PROVE \E i \in T : \A j \in T : i <= j
<1>1. PICK i \in T : \A j \in T : <<j, i>> \notin OpToRel(<, Nat)
    BY NatLessThanWellFounded, WFMin
<1>2. ASSUME NEW j \in T PROVE i <= j
  <2>1. <<j, i>> \in Nat \X Nat
    OBVIOUS
  <2>2. ~(j < i)
    BY <1>1, <2>1 DEF OpToRel
  <2> QED BY <2>2
<1> QED BY <1>2

(* What was stored stays, so credentials keep their type.                     *)
LEMMA Grown ==
    ASSUME TypeOK, NEW f \in File, files' = Append(files, f)
    PROVE /\ files' \in Seq(File) /\ Len(files') = Len(files) + 1
          /\ \A c \in CIDs : c \in CIDs' /\ files'[c] = files[c]
          /\ files'[Len(files) + 1] = f /\ Len(files) + 1 \in CIDs'
          /\ VCs \subseteq VCs'
<1>1. files \in Seq(File)
    BY DEF TypeOK, File
<1>2. /\ files' \in Seq(File) /\ Len(files') = Len(files) + 1
      /\ \A c \in 1..Len(files) : files'[c] = files[c]
      /\ files'[Len(files) + 1] = f
    BY <1>1
<1>3. CIDs \subseteq CIDs' /\ Len(files) + 1 \in CIDs'
    BY <1>1, <1>2 DEF CIDs
<1>4. Capsules \subseteq Capsules'
    BY <1>3 DEF Capsules, NoCapsule, EmptyCapsule
<1>5. VCs \subseteq VCs'
    BY <1>3, <1>4 DEF VCs
<1> QED BY <1>2, <1>3, <1>5 DEF CIDs

LEMMA StoreKeeps ==
    ASSUME Inv, NEW issuer \in Users, NEW owner \in Users,
           NEW level \in {"public", "private"}, Store(issuer, owner, level),
           read' = None
    PROVE /\ files' \in Seq(File) /\ VCs \subseteq VCs'
          /\ \A vc \in vcs : vc \in VCs' /\ Backed(vc)'
          /\ Len(files) + 1 \in CIDs'
          /\ files'[Len(files) + 1] = [issuer |-> issuer, owner |-> owner, level |-> level]
<1> DEFINE f == [issuer |-> issuer, owner |-> owner, level |-> level]
<1>1. f \in File /\ files' = Append(files, f)
    BY DEF File, Store
<1>2. TypeOK /\ vcs \subseteq VCs /\ \A vc \in vcs : Backed(vc)
    BY DEF Inv, TypeOK
<1>3. /\ files' \in Seq(File)
      /\ \A c \in CIDs : files'[c] = files[c]
      /\ files'[Len(files) + 1] = f /\ Len(files) + 1 \in CIDs'
      /\ VCs \subseteq VCs'
    BY <1>1, <1>2, Grown
<1>4. ASSUME NEW vc \in vcs PROVE vc \in VCs' /\ Backed(vc)'
  <2>1. vc \in VCs /\ vc.cid \in CIDs /\ Backed(vc)
    BY <1>2 DEF VCs
  <2>2. files'[vc.cid] = files[vc.cid]
    BY <1>3, <2>1
  <2> QED BY <1>3, <2>1, <2>2 DEF Backed, CapsuleFor, OwnerCapsule, EmptyCapsule
<1> QED BY <1>3, <1>4
-----------------------------------------------------------------------------
LEMMA PutKeeps ==
    ASSUME Inv, NEW issuer \in Users, NEW owner \in Users, NEW key \in Users,
           NEW level \in {"public", "private"}, NEW short \in BOOLEAN,
           PutObject(issuer, owner, key, level, short)
    PROVE Inv'
<1>0. PICK c : c = Len(files) + 1
    OBVIOUS
<1> DEFINE vc == OwnerVC(c, issuer, owner, key, level, short)
<1>1. Store(issuer, owner, level) /\ vcs' = vcs \cup {vc} /\ read' = None
    BY <1>0 DEF PutObject
<1>2. /\ files' \in Seq(File)
      /\ \A v \in vcs : v \in VCs' /\ Backed(v)'
      /\ c \in CIDs'
      /\ files'[c] = [issuer |-> issuer, owner |-> owner, level |-> level]
    BY <1>0, <1>1, StoreKeeps
<1>3. CapsuleFor(c, owner, level, short) \in Capsules'
    BY <1>2 DEF CapsuleFor, OwnerCapsule, EmptyCapsule, Capsules
<1>4. vc \in VCs'
    BY <1>2, <1>3 DEF OwnerVC, VCs
<1>5. Backed(vc)'
  <2>1. /\ vc.subject = owner /\ vc.issuer = issuer /\ vc.cid = c
        /\ vc.capsule = CapsuleFor(c, owner, level, short)
    BY DEF OwnerVC
  <2>2. vc.capsule.kind \in {"owner", "empty"}
    BY <2>1 DEF CapsuleFor, OwnerCapsule, EmptyCapsule
  <2>3. /\ files'[vc.cid].owner = owner /\ files'[vc.cid].issuer = issuer
        /\ files'[vc.cid].level = level
    BY <1>2, <2>1
  <2> HIDE DEF vc
  <2>4. vc.capsule.kind # "none"
    BY <2>2
  <2>5. vc.capsule =
            CapsuleFor(vc.cid, files'[vc.cid].owner, files'[vc.cid].level, short)
    BY <2>1, <2>3
  <2> QED BY <2>1, <2>3, <2>4, <2>5 DEF Backed, CapsuleFor, OwnerCapsule, EmptyCapsule
<1>6. TypeOK'
    BY <1>1, <1>2, <1>4 DEF TypeOK, File
<1> QED BY <1>1, <1>2, <1>5, <1>6 DEF Inv, Observed

LEMMA LostKeeps ==
    ASSUME Inv, NEW issuer \in Users, NEW owner \in Users,
           NEW level \in {"public", "private"},
           PutObjectLost(issuer, owner, level)
    PROVE Inv'
<1>1. Store(issuer, owner, level) /\ read' = None /\ vcs' = vcs
    BY DEF PutObjectLost
<1>2. files' \in Seq(File) /\ \A v \in vcs : v \in VCs' /\ Backed(v)'
    BY <1>1, StoreKeeps
<1>3. TypeOK'
    BY <1>1, <1>2 DEF TypeOK, File
<1> QED BY <1>1, <1>2, <1>3 DEF Inv, Observed

LEMMA PostKeeps ==
    ASSUME Inv, NEW vc \in vcs, NEW owner \in Users, NEW viewer \in Users,
           NEW key \in Users, NEW c \in CIDs, NEW short \in BOOLEAN,
           PostAccessibleVC(vc, owner, viewer, c, key, short)
    PROVE Inv'
<1> DEFINE new == ViewerVC(vc, owner, viewer, c, key, short)
<1>1. /\ vc.capsule.kind = "owner" /\ vcs' = vcs \cup {new}
      /\ read' = None /\ files' = files
    BY DEF PostAccessibleVC, Sharable
<1>2. vc \in VCs /\ vcs \subseteq VCs /\ \A v \in vcs : Backed(v)
    BY DEF Inv, TypeOK
<1>3. vc.capsule \in
        [kind : {"owner"}, file : CIDs, owner : Users, short : BOOLEAN]
    BY <1>1, <1>2 DEF VCs, Capsules, NoCapsule, EmptyCapsule
<1>4. ReCapsule(vc.capsule, key, viewer, short) \in Capsules
    BY <1>3 DEF ReCapsule, Capsules
<1>5. new \in VCs
    BY <1>4 DEF ViewerVC, VCs
<1>6. Backed(new)
    BY DEF Backed, ViewerVC, ReCapsule
<1>7. CIDs' = CIDs /\ VCs' = VCs /\ \A v : Backed(v)' <=> Backed(v)
    BY <1>1 DEF CIDs, VCs, Capsules, Backed
<1>8. TypeOK'
    BY <1>1, <1>2, <1>5, <1>7 DEF TypeOK, Inv
<1> QED BY <1>1, <1>2, <1>6, <1>7, <1>8 DEF Inv, Observed

LEMMA GetKeeps ==
    ASSUME Inv, NEW u \in Users, NEW c \in CIDs, NEW client \in Clients,
           NEW shown \in Presentations(u), GetObject(u, shown, c, client)
    PROVE Inv'
<1>1. /\ files' = files /\ vcs' = vcs
      /\ read' = [by |-> u, shown |-> shown, cid |-> c, client |-> client,
                  result |-> Result(u, shown, c, client)]
    BY DEF GetObject
<1>2. CIDs' = CIDs /\ VCs' = VCs /\ Presentations(u)' = Presentations(u)
    BY <1>1 DEF CIDs, VCs, Capsules, Presentations, OtherVC, NoCapsule
<1>3. \A v : Backed(v)' <=> Backed(v)
    BY <1>1 DEF Backed
<1>4. Result(u, shown, c, client)' = Result(u, shown, c, client)
    BY <1>1 DEF Result, Served, Verifies
<1>5. /\ read'.by = u /\ read'.shown = shown /\ read'.cid = c
      /\ read'.client = client /\ read'.result = Result(u, shown, c, client)
    BY <1>1
<1>6. TypeOK'
    BY <1>1, <1>2, <1>5 DEF Inv, TypeOK
<1>7. Observed'
    BY <1>1, <1>4, <1>5 DEF Observed
<1> QED BY <1>1, <1>3, <1>6, <1>7 DEF Inv

THEOREM Invariance == Spec => []Inv
<1>1. Init => Inv
    BY DEF Init, Inv, TypeOK, Observed
<1>2. Inv /\ [Next]_vars => Inv'
  <2> SUFFICES ASSUME Inv, [Next]_vars PROVE Inv'
    OBVIOUS
  <2>1. CASE UNCHANGED vars
    BY <2>1 DEF vars, Inv, TypeOK, Observed, Backed, Result, Served, Verifies,
       CIDs, VCs, Capsules, Presentations
  <2>2. CASE Next
    BY <2>2, PutKeeps, LostKeeps, PostKeeps, GetKeeps DEF Next
  <2> QED BY <2>1, <2>2
<1> QED BY <1>1, <1>2, PTL DEF Spec

(* Every variable keeps its type: credentials name files that are stored.     *)
THEOREM TypeCorrect == Spec => []TypeOK
<1>1. Inv => TypeOK
    BY DEF Inv
<1> QED BY <1>1, Invariance, PTL

-----------------------------------------------------------------------------
(* CapsuleFromJWT answers a capsule that is shown, if one is.                 *)
LEMMA FirstCapsule ==
    ASSUME NEW shown, DOMAIN shown \subseteq Nat, NEW i \in DOMAIN shown,
           shown[i].capsule.kind # "none"
    PROVE \E j \in DOMAIN shown :
            /\ shown[j].capsule.kind # "none"
            /\ CapsuleFromJWT(shown) = shown[j].capsule
<1> DEFINE having == {j \in DOMAIN shown : shown[j].capsule.kind # "none"}
           first == CHOOSE j \in having : \A k \in having : j <= k
<1>1. having \subseteq Nat /\ having # {}
    OBVIOUS
<1>2. \E j \in having : \A k \in having : j <= k
  <2> HIDE DEF having
  <2> QED BY <1>1, Least
<1>3. first \in having
  <2> HIDE DEF having
  <2> QED BY <1>2
<1>4. CapsuleFromJWT(shown) = shown[first].capsule
    BY <1>1 DEF CapsuleFromJWT
<1> QED BY <1>3, <1>4

(* What is shown for a file that is stored is a credential of this client.    *)
LEMMA ShownExists ==
    ASSUME Inv, read # None, NEW i \in DOMAIN read.shown,
           read.shown[i].cid \in CIDs
    PROVE read.shown[i] \in vcs
<1>1. read.shown \in Presentations(read.by) /\ files \in Seq(File)
    BY DEF Inv, TypeOK, File
<1>2. PICK n \in 1..MaxShown :
            read.shown \in [1..n -> vcs \cup {OtherVC(read.by)}]
    BY <1>1 DEF Presentations
<1>3. read.shown[i] \in vcs \cup {OtherVC(read.by)}
    BY <1>2
<1>4. 0 \notin CIDs
    BY <1>1 DEF CIDs
<1>5. OtherVC(read.by).cid = 0
    BY DEF OtherVC
<1> QED BY <1>3, <1>4, <1>5

LEMMA ShownAreSequences ==
    ASSUME Inv, read # None
    PROVE DOMAIN read.shown \subseteq Nat
          /\ (Len(read.shown) = 1 => DOMAIN read.shown = {1})
<1>1. PICK n \in 1..MaxShown :
            read.shown \in [1..n -> vcs \cup {OtherVC(read.by)}]
    BY DEF Inv, TypeOK, Presentations
<1>2. read.shown \in Seq(vcs \cup {OtherVC(read.by)})
    BY <1>1, Bounds
<1> QED BY <1>2

(* Ciphertext comes out as content only because the presentation shows,       *)
(* besides what it shows for the file, a credential of another, public file.  *)
THEOREM Ciphertext == Spec => []CiphertextHasCause
<1>1. Inv => CiphertextHasCause
  <2> SUFFICES ASSUME Inv, read # None, read.result = "ciphertext"
               PROVE \E i \in DOMAIN read.shown :
                        /\ read.shown[i].cid # read.cid
                        /\ read.shown[i].capsule.kind = "empty"
    BY DEF CiphertextHasCause
  <2> DEFINE cap == CapsuleFromJWT(read.shown)
  <2>1. /\ Served(read.by, read.shown, read.cid) /\ files[read.cid].level = "private"
        /\ cap.kind \in {"none", "empty"}
    <3> HIDE DEF cap
    <3>1. read.result = Result(read.by, read.shown, read.cid, read.client)
      BY DEF Inv, Observed
    <3> QED BY <3>1 DEF Result, cap
  <2>2. read.cid \in CIDs
    BY DEF Inv, TypeOK
  <2>3. PICK i \in DOMAIN read.shown : read.shown[i].cid = read.cid
    BY <2>1 DEF Served
  <2>4. Backed(read.shown[i])
    BY <2>2, <2>3, ShownExists DEF Inv
  <2>5. PICK j \in DOMAIN read.shown :
            read.shown[j].capsule.kind # "none" /\ cap = read.shown[j].capsule
    BY <2>4, ShownAreSequences, FirstCapsule DEF Backed
  <2>6. read.shown[j].capsule.kind = "empty"
    BY <2>1, <2>5
  <2>7. ASSUME read.shown[j].cid = read.cid PROVE FALSE
    <3>1. Backed(read.shown[j])
      BY <2>2, <2>7, ShownExists DEF Inv
    <3>2. PICK short \in BOOLEAN : read.shown[j].capsule =
                CapsuleFor(read.cid, files[read.cid].owner, "private", short)
      BY <2>1, <2>6, <2>7, <3>1 DEF Backed
    <3>3. read.shown[j].capsule.kind = "owner"
      BY <3>2 DEF CapsuleFor, OwnerCapsule
    <3> QED BY <2>6, <3>3
  <2> QED BY <2>6, <2>7
<1> QED BY <1>1, Invariance, PTL

(* The owner's credential gives the owner the file, and the one the owner     *)
(* makes of it gives it to the viewer, whatever else was stored and shared,    *)
(* unless the capsule of the credential is short: then nobody reads the file.  *)
THEOREM Holders == Spec => []HoldersRead
<1>1. Inv => HoldersRead
  <2> SUFFICES ASSUME Inv, OwnerShows \/ ViewerShows, HasKey(read.client)
               PROVE read.result =
                        IF Shortened(read.shown[1].capsule) THEN "error" ELSE "content"
    BY DEF HoldersRead
  <2> DEFINE vc == read.shown[1]
             f == files[read.cid]
  <2>1. read # None /\ Len(read.shown) = 1
    BY DEF OwnerShows, ViewerShows
  <2>2. DOMAIN read.shown = {1} /\ DOMAIN read.shown \subseteq Nat
    BY <2>1, ShownAreSequences
  <2>3. /\ read.result = Result(read.by, read.shown, read.cid, read.client)
        /\ read.cid \in CIDs
    BY <2>1 DEF Inv, TypeOK, Observed
  <2>4. vc.cid = read.cid
    <3>1. ASSUME NEW from, NEW short,
                 vc = ViewerVC(from, f.owner, read.by, read.cid, f.owner, short)
          PROVE vc.cid = read.cid
      BY <3>1 DEF ViewerVC
    <3>2. ViewerShows => vc.cid = read.cid
      BY <3>1 DEF ViewerShows
    <3> QED BY <3>2 DEF OwnerShows
  <2>5. Backed(vc)
    BY <2>1, <2>2, <2>3, <2>4, ShownExists DEF Inv
  <2>6. CapsuleFromJWT(read.shown) = vc.capsule
    BY <2>2, <2>5, FirstCapsule DEF Backed
  <2>7. CASE OwnerShows
    <3>1. /\ vc.capsule.kind # "re" /\ vc.signer = vc.issuer
          /\ read.by = f.owner
      BY <2>7 DEF OwnerShows
    <3>2. /\ vc.subject = f.owner /\ vc.issuer = f.issuer
          /\ \E short \in BOOLEAN :
                vc.capsule = CapsuleFor(read.cid, f.owner, f.level, short)
      BY <2>4, <2>5, <3>1 DEF Backed
    <3>3. Verifies(read.shown) /\ Served(read.by, read.shown, read.cid)
      BY <2>2, <2>4, <3>1, <3>2 DEF Verifies, Served
    <3>4. CASE f.level = "private"
      <4>1. PICK short \in BOOLEAN :
                vc.capsule = OwnerCapsule(read.cid, f.owner, short)
        BY <3>2, <3>4 DEF CapsuleFor
      <4>2. /\ vc.capsule.kind = "owner" /\ vc.capsule.file = read.cid
            /\ vc.capsule.owner = read.by
        BY <3>1, <4>1 DEF OwnerCapsule
      <4> QED BY <2>3, <2>6, <3>3, <3>4, <4>2 DEF Result, Derives, Shortened
    <3>5. CASE f.level # "private"
      <4>1. vc.capsule = EmptyCapsule
        BY <3>2, <3>5 DEF CapsuleFor
      <4> QED BY <2>3, <2>6, <3>3, <3>5, <4>1 DEF Result, EmptyCapsule, Shortened
    <3> QED BY <3>4, <3>5
  <2>8. CASE ViewerShows
    <3>1. PICK from \in vcs, short \in BOOLEAN :
            /\ from.capsule.kind = "owner" /\ from.cid = read.cid
            /\ vc = ViewerVC(from, f.owner, read.by, read.cid, f.owner, short)
      BY <2>8 DEF ViewerShows
    <3>2. /\ vc.subject = read.by /\ vc.signer = f.owner /\ vc.issuer = f.owner
          /\ vc.capsule = ReCapsule(from.capsule, f.owner, read.by, short)
      BY <3>1 DEF ViewerVC
    <3>3. PICK s \in BOOLEAN :
            from.capsule = CapsuleFor(read.cid, f.owner, f.level, s)
      BY <3>1 DEF Inv, Backed
    <3>4. f.level = "private" /\ from.capsule = OwnerCapsule(read.cid, f.owner, s)
      BY <3>1, <3>3 DEF CapsuleFor, EmptyCapsule
    <3>5. Verifies(read.shown) /\ Served(read.by, read.shown, read.cid)
      BY <2>2, <2>4, <3>2 DEF Verifies, Served
    <3>6. /\ vc.capsule.kind = "re" /\ vc.capsule.file = read.cid
          /\ vc.capsule.to = read.by /\ vc.capsule.by = vc.capsule.owner
      BY <3>2, <3>4 DEF ReCapsule, OwnerCapsule
    <3> QED BY <2>3, <2>6, <3>4, <3>5, <3>6 DEF Result, Derives, Shortened
  <2> QED BY <2>7, <2>8
<1> QED BY <1>1, Invariance, PTL
=============================================================================
