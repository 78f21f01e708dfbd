----------------------------- MODULE FileSharing -----------------------------
(***************************************************************************)
(* The file client between users, the gateway that stores files and the    *)
(* credentials that users keep (file-application).  PutObject stores a     *)
(* file and makes its owner credential, PostAccessibleVC makes a viewer    *)
(* credential from it, GetObject fetches a file and decrypts it with the   *)
(* first capsule of the credentials presented.  A user is its DID and its  *)
(* key; a private file is encrypted with a key of its own, which a capsule *)
(* gives to whom PreProofs says.  The streams of an upload and a download  *)
(* are PutObject and GetObject.                                            *)
(***************************************************************************)
EXTENDS Naturals, Sequences, FiniteSets

CONSTANTS
    Users,
    MaxFiles,      \* files stored in one behaviour
    MaxVCs,        \* credentials made in one behaviour
    MaxShown,      \* credentials in one presentation
    Clients,       \* which private keys a client is given
    None

ASSUME NoneIsNoUser == None \notin Users
ASSUME KeysGiven == Clients \subseteq SUBSET {"ownerKey", "viewerKey", "option"}
ASSUME Bounds == MaxFiles \in Nat /\ MaxVCs \in Nat /\ MaxShown \in Nat \ {0}

VARIABLES
    files,      \* what the gateway stores, by CID
    vcs,        \* the credentials made
    read        \* a GetObject of this state, and what its body gave

vars == <<files, vcs, read>>

CIDs == 1..Len(files)

\* The capsules: none in a credential that is not of this client, an empty
\* string for a public file, the owner's and the re-capsules.  One of the last
\* two is short when a number in it has a leading zero byte, which encodeCapsule
\* drops (CapsuleCodec): NewEncryptor and CreateReCapsule do not know.
NoCapsule == [kind |-> "none"]
EmptyCapsule == [kind |-> "empty"]
OwnerCapsule(c, owner, short) ==
    [kind |-> "owner", file |-> c, owner |-> owner, short |-> short]
ReCapsule(cap, by, to, short) ==
    [kind |-> "re", file |-> cap.file, owner |-> cap.owner, by |-> by, to |-> to,
     short |-> short]

\* Any other credential of the user.
OtherVC(u) == [issuer |-> u, signer |-> u, subject |-> u, cid |-> 0,
               capsule |-> NoCapsule]

Init ==
    /\ files = <<>> /\ vcs = {}
    /\ read = None
-----------------------------------------------------------------------------
(* PutObject *)

\* NewEncryptor for a private file, and "" for a public one.
CapsuleFor(c, owner, level, short) ==
    IF level = "private" THEN OwnerCapsule(c, owner, short) ELSE EmptyCapsule

\* Mutant: the capsule stays in the upload.
OwnerVCBare(c, issuer, owner, key, level, short) ==
    [issuer |-> issuer, signer |-> key, subject |-> owner, cid |-> c,
     capsule |-> EmptyCapsule]

\* CreateOwnerFileCredential, with the issuer's configured key.
OwnerVC(c, issuer, owner, key, level, short) ==
    [issuer |-> issuer, signer |-> key, subject |-> owner, cid |-> c,
     capsule |-> CapsuleFor(c, owner, level, short)]

\* Mutant: the access level of a public file is left out.
StoreUnlevelled(issuer, owner, level) ==
    /\ Len(files) < MaxFiles
    /\ files' = Append(files, [issuer |-> issuer, owner |-> owner,
                               level |-> IF level = "private" THEN level ELSE ""])

\* The form fields and the data, as the gateway stores them.
Store(issuer, owner, level) ==
    /\ Len(files) < MaxFiles
    /\ files' = Append(files, [issuer |-> issuer, owner |-> owner, level |-> level])

\* PutObject for an owner, by the issuer, who must hold the token; the issuer's
\* key is a configuration that nothing compares with the issuer's DID.
PutObject(issuer, owner, key, level, short) ==
    /\ Store(issuer, owner, level)
    /\ Cardinality(vcs) < MaxVCs
    /\ vcs' = vcs \cup {OwnerVC(Len(files) + 1, issuer, owner, key, level, short)}
    /\ read' = None

\* The gateway has stored the file, and then its answer is lost, late, an error
\* or without a CID, or the credential cannot be made: no credential is made.
PutObjectLost(issuer, owner, level) ==
    /\ Store(issuer, owner, level)
    /\ read' = None /\ UNCHANGED vcs
-----------------------------------------------------------------------------
(* PostAccessibleVC *)

\* What CreateReCapsule accepts: an empty capsule does not decode, and a
\* re-capsule does not match.  It reads a short capsule as well as any other.
Sharable(cap) == cap.kind = "owner"

\* Mutant: the capsule is re-encrypted for the owner's DID.
ViewerVCForOwner(vc, owner, viewer, c, key, short) ==
    [issuer |-> owner, signer |-> key, subject |-> viewer, cid |-> c,
     capsule |-> ReCapsule(vc.capsule, key, owner, short)]

ViewerVC(vc, owner, viewer, c, key, short) ==
    [issuer |-> owner, signer |-> key, subject |-> viewer, cid |-> c,
     capsule |-> ReCapsule(vc.capsule, key, viewer, short)]

\* PostAccessibleVC: neither the key nor the CID is compared with the owner
\* credential it is given.
PostAccessibleVC(vc, owner, viewer, c, key, short) ==
    /\ Sharable(vc.capsule)
    /\ Cardinality(vcs) < MaxVCs
    /\ vcs' = vcs \cup {ViewerVC(vc, owner, viewer, c, key, short)}
    /\ read' = None /\ UNCHANGED files
-----------------------------------------------------------------------------
(* GetObject *)

\* VerifyToken: a credential's proof must be by its issuer's key.
Verifies(shown) == \A i \in DOMAIN shown : shown[i].signer = shown[i].issuer

\* The gateway serves a public file to any token, and a private one when its
\* holder shows a credential for it of its issuer or owner.
Served(u, shown, c) ==
    \/ files[c].level = "public"
    \/ \E i \in DOMAIN shown :
        /\ shown[i].cid = c /\ shown[i].subject = u
        /\ shown[i].issuer \in {files[c].issuer, files[c].owner}

\* CapsuleFromJWT: of the first credential that has one, if any has.
CapsuleFromJWT(shown) ==
    LET having == {i \in DOMAIN shown : shown[i].capsule.kind # "none"}
    IN  IF having = {} THEN NoCapsule
        ELSE shown[CHOOSE i \in having : \A j \in having : i <= j].capsule

\* NewPreDecryptor takes a capsule of 185 bytes for an owner's and any other for
\* a re-capsule, which must have 250: a short one of either kind is refused.
\* Else a key derives the key of the file that the capsule was made for.
Derives(u, cap) ==
    /\ ~cap.short
    /\ \/ cap.kind = "owner" /\ u = cap.owner
       \/ cap.kind = "re" /\ u = cap.to /\ cap.by = cap.owner

\* The private key of the decryptor: the option's, else the viewer's.
HasKey(client) == client \cap {"viewerKey", "option"} # {}

\* What the caller reads: without a capsule the body as stored, else what
\* DecryptStream makes of it.
Result(u, shown, c, client) ==
    LET cap == CapsuleFromJWT(shown)
    IN  IF ~Verifies(shown) \/ ~Served(u, shown, c) THEN "error"
        ELSE IF cap.kind \in {"none", "empty"}
        THEN IF files[c].level = "private" THEN "ciphertext" ELSE "content"
        ELSE IF /\ HasKey(client) /\ Derives(u, cap)
                /\ files[c].level = "private" /\ cap.file = c
        THEN "content" ELSE "error"

\* GetObject changes neither files nor credentials: one is observed in a state.
GetObject(u, shown, c, client) ==
    /\ read = None
    /\ read' = [by |-> u, shown |-> shown, cid |-> c, client |-> client,
                result |-> Result(u, shown, c, client)]
    /\ UNCHANGED <<files, vcs>>

Presentations(u) ==
    UNION {[1..n -> vcs \cup {OtherVC(u)}] : n \in 1..MaxShown}

Next ==
    \/ \E issuer, owner, key \in Users, level \in {"public", "private"} :
        \/ \E short \in BOOLEAN : PutObject(issuer, owner, key, level, short)
        \/ PutObjectLost(issuer, owner, level)
    \/ \E vc \in vcs, owner, viewer, key \in Users, c \in CIDs, short \in BOOLEAN :
        PostAccessibleVC(vc, owner, viewer, c, key, short)
    \/ \E u \in Users, c \in CIDs, client \in Clients :
        \E shown \in Presentations(u) : GetObject(u, shown, c, client)

Spec == Init /\ [][Next]_vars
-----------------------------------------------------------------------------
(* Properties *)

\* The last download was by the owner of the file, who showed its owner
\* credential alone, one that verifies.
OwnerShows ==
    /\ read # None /\ Len(read.shown) = 1 /\ read.by = files[read.cid].owner
    /\ LET vc == read.shown[1]
       IN  /\ vc.cid = read.cid /\ vc.capsule.kind # "re"
           /\ vc.signer = vc.issuer

\* The last download was by a viewer of the file, who showed one credential,
\* which the owner made for the viewer from the owner credential of the file.
ViewerShows ==
    /\ read # None /\ Len(read.shown) = 1
    /\ LET owner == files[read.cid].owner
       IN  \E from \in vcs :
            /\ from.capsule.kind = "owner" /\ from.cid = read.cid
            /\ \E short \in BOOLEAN : read.shown[1] =
                    ViewerVC(from, owner, read.by, read.cid, owner, short)

\* A capsule that lost a byte when it was encoded.
Shortened(cap) == cap.kind \in {"owner", "re"} /\ cap.short

\* The credential that PutObject answers gives its owner the file, and the one
\* that PostAccessibleVC makes of it gives it to the viewer: the credential, the
\* gateway's copy and the capsule agree.  The exception is a credential whose
\* capsule is short: nobody reads the file with it.  One made from a short
\* capsule works when its own capsule is not short.
HoldersRead ==
    (OwnerShows \/ ViewerShows) /\ HasKey(read.client) =>
        read.result = IF Shortened(read.shown[1].capsule) THEN "error" ELSE "content"

\* Ciphertext is handed out as the file's content only when the presentation
\* shows, besides what it shows for the file, a credential of another file.
CiphertextHasCause ==
    read # None =>
        (read.result = "ciphertext" =>
            \E i \in DOMAIN read.shown :
                /\ read.shown[i].cid # read.cid
                /\ read.shown[i].capsule.kind = "empty")

\* The README: the body of GetObject is the decrypted file content.
BodyIsDecrypted == read # None => read.result # "ciphertext"

\* The README: without WithDecryptPrivKeyHex, OwnerPrivKeyHex is used for an
\* owner's download (of a file whose capsule no decryptor refuses).
OwnerKeyDecrypts ==
    OwnerShows /\ ~Shortened(read.shown[1].capsule) /\ "ownerKey" \in read.client
        => read.result = "content"

\* Every variable keeps its type.
Capsules ==
    {NoCapsule, EmptyCapsule}
      \cup [kind : {"owner"}, file : CIDs, owner : Users, short : BOOLEAN]
      \cup [kind : {"re"}, file : CIDs, owner : Users, by : Users, to : Users,
            short : BOOLEAN]

VCs == [issuer : Users, signer : Users, subject : Users, cid : CIDs,
        capsule : Capsules]

TypeOK ==
    /\ files \in Seq([issuer : Users, owner : Users,
                      level : {"public", "private"}])
    /\ vcs \subseteq VCs
    /\ read # None => /\ read.cid \in CIDs /\ read.by \in Users
                      /\ read.client \in Clients
                      /\ read.shown \in Presentations(read.by)
-----------------------------------------------------------------------------
(* The inductive invariant *)

\* What each credential says of its file: one that PutObject made names the
\* owner, the issuer and, in its capsule, the level.
Backed(vc) ==
    /\ vc.capsule.kind # "none"
    /\ vc.capsule.kind # "re" =>
        /\ vc.subject = files[vc.cid].owner /\ vc.issuer = files[vc.cid].issuer
        /\ \E short \in BOOLEAN : vc.capsule =
                CapsuleFor(vc.cid, files[vc.cid].owner, files[vc.cid].level, short)

\* A download is that of this state.
Observed ==
    read # None =>
        read.result = Result(read.by, read.shown, read.cid, read.client)

Inv == TypeOK /\ Observed /\ \A vc \in vcs : Backed(vc)
=============================================================================
