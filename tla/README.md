# nda-sfs-sdk: models, checks and proofs

The repository is a client for a secure file store.  Files are kept by a gateway;
private ones are encrypted by the client, and the key travels as a *capsule* inside
a verifiable credential.  Sharing a file re-encrypts its capsule for a viewer (proxy
re-encryption).  This directory models the parts of the code in which order,
failure, boundaries or algebra decide whether a file can be read back, checks them
with TLC on small instances, and proves the most important facts with TLAPS for
every value of the constants.

Paths below are relative to the repository's root.

## 1. Inventory

| Component | Code | State it keeps | Operations |
|---|---|---|---|
| File client | `file-application/api.go` | configuration, one `http.Client`, default headers | `New`, `buildVPAuthorization`, `mergeHeaders` |
| Upload | `file-application/api-put-object.go` | two goroutines, two `io.Pipe`s, the request; nothing after the call | `PutObject` |
| Download | `file-application/api-get-object.go` | the response body, one goroutine, one pipe that outlives the call | `GetObject`, `Read`/`Close` of its `Body` |
| Sharing | `file-application/api-post-accessible-vc.go` | none | `PostAccessibleVC` |
| Credential helpers | `file-application/pkg/credential` | none | `CapsuleFromJWT`, `CreateOwnerFileCredential` |
| Decryption provider | `file-application/pkg/crypt` | none | `NewPreDecryptor` |
| Proxy re-encryption | `did-encryption/didencrypt/pre.go`, `curve`, `utils` | key and nonce of an encryptor or decryptor | `NewEncryptor`, `CreateReCapsule`, `NewDecryptor`, `NewDecryptorByOwner` |
| Capsule encoding | `encodeCapsule`/`decodeCapsule` in Go, Kotlin, Swift | none | encode, decode, the decryptors' length checks |
| Chunk streams | `EncryptStream`/`DecryptStream` in Go, Kotlin, Swift | chunk counter, place in the stream | one loop each |
| Single messages, saved decryptors | `recrypt.go`, `aesgcm.go`, `Hex`/`NewDecryptorFromHex` and the ports | the decryptor's key, nonce and chunk size | `Encrypt`, `Decrypt`, `DecryptByOwner`, save, load |
| Vault signing | `did-auth/vault/vault.go` | `MaxRetries`, the loop's counters | `SignMessage` |
| Tokens | `did-auth/auth` | a provider; for the whole process, one resolver in each of the packages `vc` and `vp` | `NewAuth`, `CreateToken`, `VerifyToken`, `VerifyTokenWithStructs`, `ParseVcClaimsWithStructs` |
| Signing providers | `did-auth/provider` | none | `Sign` |
| Outside | gateway, Vault, DID resolver, network | files; signatures | HTTP |

How they interact.  `PutObject` builds an `Encryptor` and runs `EncryptStream` in a
goroutine whose output is a pipe; a second goroutine copies that pipe into a
multipart form whose output is a second pipe; `http.Client.Do` reads that one.  After
the answer `PutObject` makes the owner credential, which holds the capsule.
`PostAccessibleVC` takes a credential, re-encrypts its capsule and puts the
re-capsule into a viewer credential.  `GetObject` sends a token that presents
credentials, takes the first capsule it finds in the token, and decrypts the response in
a goroutine that writes to a pipe, the `Body` of its output.  Before each of these requests
`buildVPAuthorization` verifies the caller's token, adds the gateway's trust credential to what it
shows and makes a token of the application's, which a provider signs: with a local key or
with a Vault over HTTP.

What is hard, and what makes each component correct:

- **Upload**: errors cross two pipes and a transport; goroutines start before the
  checks end; a deferred `writer.Close` writes the closing boundary after an error.
  Correct when success means that the whole body is stored, and when goroutines end.
- **Download**: the response body changes hands between the caller, its deferred
  function and the goroutine.  Correct when the `Body` delivers the plaintext in order and
  reports an end only after all of it, and when closing it releases everything.
- **Chunk streams**: three loops conclude in three ways which chunk is the last, and the
  nonce has 32 bits for the counter.  Correct when every pair of libraries agrees at every
  length, and when losses are noticed.
- **Re-encryption**: correct when the owner, and the receiver of a re-capsule the owner
  made, derive the encryptor's key.
- **Capsule encoding**: lengths decide what bytes are.  Correct when nothing is misread
  and nothing well-formed is refused.
- **Sharing**: three calls and their callers must agree on CIDs, DIDs, keys and capsules,
  none of which the client compares.
- **Vault signing**: retries, back-off and cancellation; a request without an answer may be signed
  after the call has ended.  Correct when one call never gets two signatures made and always returns.
- **Tokens**: `NewAuth` does not keep its resolver but sets that of two packages, in two steps, for
  every client of the process; structs are filled one after the other.  Correct when a verdict is
  that of the client's own resolver unless another client interferes, when answers and structs are what
  the token shows, and when only what has been checked is signed.
- **Messages**: nothing in the bytes says whether they are one message or a stream; the chunk size in a
  capsule, a re-capsule or a saved decryptor does.  Correct when a decryptor has its encryptor's mode and
  key, whichever libraries it went through.

`PROJECT.json` lists all components, each hazard with its line and the properties that
watch it, and every definition with the lines it translates.

## 2. Modules

| Module | Models | Abstract specification | Proofs |
|---|---|---|---|
| `PutObject` | the upload pipeline | `Upload`, `ChunkWriter` | `PutObjectProofs` |
| `GetObject` | the download, its goroutine, its reader | `Delivery`, `ChunkReader` | `GetObjectProofs` |
| `VaultSign` | `SignMessage` | `Signer` | `VaultSignProofs` |
| `Tokens` | one call of a token client or of `buildVPAuthorization`, in a process that makes other clients | built on `Signer` | `TokensProofs` |
| `PreAlgebra`, `Pre` (`CurveMath` for TLC) | the formulas of `pre.go`; capsules and re-capsules among users | | `PreProofs` |
| `CapsuleCodec` | the bytes of capsules in three libraries | | `MessagesProofs` |
| `Messages` | extends `CapsuleCodec` to decryptors, saved or not, and single messages | | `MessagesProofs` |
| `ChunkStream` | the stream loops of three libraries and a lossy store | `ChunkWriter`, `ChunkReader` | `ChunkStreamProofs` |
| `FileSharing` | the client's three calls between users, gateway and credentials | | `FileSharingProofs` |

`MC*` modules and `.cfg` files give the constants for TLC.  A definition whose comment
begins with *Mutant* is a plausible bug of the definition that follows it.  It is not part of any
specification; `PROJECT.json` says which property notices it.

The modules meet at their interfaces.  `PutObject` contains the Go loop of `ChunkStream`
(blocks for chunks), because its failures interleave with the pipes; `GetObject` contains
`DecryptStream` likewise.  `ChunkStream` then adds what these two abstract, the chunk
boundaries, nonces, and the other libraries.  What they have in common
are two interfaces.  `ChunkWriter` is a loop that takes its source chunk by chunk, each full but for the
last, and succeeds only with all that its source gave and only when the source ended without an error, one excepted
that is told only once (see *ChunkStream*): `ChunkStream` implements it in bytes, `PutObject` in blocks,
under a context and between pipes that may block.  `ChunkReader` is a loop
that opens the whole chunks of its input in order and succeeds only at a clean end behind the last:
`ChunkStream` implements it by bytes, with the number of the next chunk for `opened`, and `GetObject` by
chunks, over a response that may break while it is read.  So a block of a private upload is a chunk that `ChunkStream` seals,
a chunk of `GetObject` one that it opens, and an end of file of a pipe is the success of such a loop.  `FileSharing` uses of `Pre` exactly what
`PreProofs` proves: a capsule gives its owner the key, a re-capsule gives it to its receiver when
the owner's key made it, and `CapsuleFromJWT`'s choice decides what `GetObject` calls `capsule`.
`Messages` begins with a capsule of `CapsuleCodec` and, like `FileSharing`, takes from `Pre` that the right key
derives the encryptor's.  `Signer` is the interface of a signing provider: `VaultSign` is shown to
implement it, and the `sign` stage of `Tokens` takes its steps and no others.  A verification in
`FileSharing` is one of `Tokens` that no other client disturbs.

### PutObject

| Variables | In the code |
|---|---|
| `call` | the arguments, the body's length and how its reader ends, and the check that will fail (`early`) |
| `caller`, `result` | the goroutine in `PutObject` (112-351) |
| `enc`, `sealed`, `encEnd`, `told`, `taken` | the encrypting goroutine (190-196), the chunk in its `Write`, how it closed `encW`, whether the body has told it an error, blocks read from the body |
| `mp`, `held`, `failed`, `mpEnd` | the multipart goroutine (206-269), the block in its `Write`, its `err`, how it closed `pw` |
| `conn`, `prClosed`, `formed`, `data`, `closed`, `ended` | the exchange; the request body as the transport has read it |
| `stored`, `file`, `reply` | the gateway |

An `io.Pipe` has no buffer, so a `Write` and the `Read` that takes it are one step.  A block is one
read of the body.  `early` names the check at which the call gives up; those of 273-303 come
after both goroutines have started.  A reader ends in the ways that *ChunkStream* lists.  `call.gateway`, from which `GatewayWaits` is derived, says whether
the gateway stores a file only when the request has ended or already at the closing boundary: the
repository does not contain the gateway, so every behaviour chooses one, and the properties say what each gives.
`Stop` describes exactly where the system may come to rest, and deadlock checking is on: no other standstill exists.

### GetObject

`resp`, `net`, `read`, `torn` are the response body; `dec`, `plain`, `pipeEnd` the decrypting
goroutine (198-208) and its pipe; `pipeClosed`, `got`, `end` the reader of the `Body`.  The object is
a number of chunks, perhaps with a torn one at the end; the capsule found in the token is none, malformed, the
right one or that of another file.  The connection may be cut (`io.ErrUnexpectedEOF`) or fail (a
reset, the client's timeout, which covers the body).

### VaultSign

One call: `pc` is the place in the loop, `attempt` its counter, `taken` whether the Vault has
signed the request in flight, `left` and `waited` the back-off in seconds.  The response bodies, whose
deferred `Close` waits for the return, are at most as many as the requests, which `RequestsPaced` bounds.  After an error that leaves the last request's fate
unknown (`late`) the Vault may still sign it; this is why `Signer` lets a signature come after an error.

### Tokens

| Variables | In the code |
|---|---|
| `vcUrl`, `vpUrl` | the resolvers that `vc.Init` and `vp.Init` have set (`auth.go:33`, `auth.go:34`) |
| `half` | per goroutine, the resolver of a `NewAuth` that is between the two |
| `conf`, `overlap`, `disturbed` | history: the resolver the caller's client was made with, whether two `NewAuth`s have overlapped, and whether another resolver was set since the caller's |
| `call`, `pc`, `at` | the call with its arguments, its stage, the index of the stage's loop |
| `list`, `claims`, `targets` | `vcJwtList` or `vcsJwt`, `vcClaimsList`, the caller's structs |
| `made`, `answer` | the provider's `Sign`, as in `Signer` |
| `out`, `result` | the token made; what the call returned, a panic included |

The caller's goroutine makes its client and then one call.  The stages are those of the code: `proof` (the
holder's signature, by the resolver of `vp`), `vcs` (each credential's, by that of `vc`), `items`
(the loop over credentials), `fill` (`ParseVcClaimsWithStructs`), `requester` (the check of
`buildVPAuthorization` and the signing options), `parse`, `sign` and `finish` (`CreateToken`).  At every
point another goroutine may take a step of its own `NewAuth`.  The credential SDK is external: a
proof holds when it is by the key of the DID it names and the resolver in force knows the DID.
Keys and addresses are named by their DIDs, and claims are functions from field names; `named` says whether a
credential's contents have an issuer.  A key may be no hex (`Malformed`) or no key (`Unfit`: hex, but empty or of the
wrong length).

### PreAlgebra, Pre, CurveMath

A point is represented by the scalar that multiplies the base point to it; so adding points is `Plus`,
multiplying one by a scalar is `Times`.  The field and the hashes are parameters with named
assumptions.  `CurveMath` instantiates the field with the integers modulo `N` for TLC, as `curve/math.go` computes
them.  `Pre` has `NewEncryptor` and `CreateReCapsule` as actions, the latter with any user's
key and also from a re-capsule; zero hashes and zero sums, on which the code panics, are left
out by the guards.

### CapsuleCodec

`Encode(lib, cap)` and `Decode(lib, bytes)` of Go, Kotlin and Swift, with the length checks of
their decryptors and of the Go client's provider.  `Base` and `Width` stand for 256 and 32.  `MaxLost`
bounds the leading zero bytes of a number: `LostIsLess` wants five short numbers to lose less than a point
has, so that no re-capsule has the length of a capsule.  With 256 and 32 this allows 12 bytes per number;
a coordinate or scalar of the curve has 13 with probability 2^-104.

### Messages

`dec` is one decryptor: its library, whether its key is the encryptor's, its chunk size in that library's
integers, and the history of its moves.  It is made from a capsule or a re-capsule, may be saved as hex and
loaded by any library, whole or damaged, and decrypts what `Encrypt` answered.  A message opens under its
own key and nonce, which is what AES-GCM gives.

### ChunkStream

`enc` and `dec` are the two loops, each of any library, `sealed` the chunks written, `avail` and
`dec.ending` what the reader of the stored bytes gets before it ends, and how it ends.  A chunk opens
whole, in its place and under its nonce, which is what AES-GCM gives.  `InputWhole` and `InputClean` are
the chunks that lie before `avail` and whether a clean end follows one.  Each chunk holds the index of its
first byte and its length, so that where it lies in the stored bytes (`EndOf`) needs no sum over
those before it.  In Go a source, or what a decryptor reads, ends in one of five ways: with `io.EOF`; with an error that it
repeats, `io.ErrUnexpectedEOF` (`cut`: an HTTP client's response) or another; with `io.ErrUnexpectedEOF` at one `Read` and `io.EOF`
after it (`once`: the request body of an HTTP server); or with an error at the `Read` that fills a chunk, where `io.ReadFull`
drops it, and `io.EOF` after it (`lost`).  A reader that tells `io.ErrUnexpectedEOF` several times and then `io.EOF` is left out.
An error told once is one that `EncryptStream` does not see as an error: it seals the short chunk, meets `io.EOF` and
succeeds.  So `SourceClean`, and `EndsWell` of `PutObject`, say which sources these loops take for ended.  The context being done and a failing writer are `EncryptGivesUp` and `DecryptGivesUp`.

### FileSharing

`files` is what the gateway stores, `vcs` the credentials that exist, `read` one observed
download.  A user is its DID and its key.  A capsule or re-capsule is `short` when a number in it lost a leading zero
byte.  Each one made may be, whatever it was made from (its points are new, only a short `S` is kept): the provider and
the decryptors refuse it, `CreateReCapsule` does not.  `PutObjectLost` is an upload that the gateway
stored and for which the caller has no credential.  The gateway's rule (`Served`) is external: a public
file for any token, a private one for a credential of its issuer or owner that names the holder and the CID.

## 3. Runs

| Run | Bounds | Shows |
|---|---|---|
| `put` | bodies of 0-3 blocks, a gateway that waits for the end of the request or acts at the boundary | order on the wire, success means stored, a cut file is stored only while the multipart goroutine holds the error, goroutines end or rest where `Stop` says, implements `Upload` and, its encrypting goroutine, `ChunkWriter` |
| `get` | objects of 0-3 chunks | plaintext in order, end only after all, one owner of the response, release, progress, implements `Delivery` and, its goroutine, `ChunkReader` |
| `vault_sign` | `maxRetries` absent or negative, 0, 1, 5; default 3 | bounded and paced requests, a return, implements `Signer`: one signature, also a late one |
| `tokens` | 2 goroutines, 2 resolvers, 3 DIDs, 7 credentials, tokens of 0-2 credentials, 1-2 structs | verdicts have causes, only overlapping `NewAuth`s mix the resolvers, answers and structs are what is shown, only what was checked is signed, tokens are whole, a return |
| `pre` | field of order 5, two users, two re-capsules | owner and receiver derive the key |
| `codec` | numbers of 3 bits, of which none, one or all five of a capsule are short; chunk sizes on each side of every library's limit; one message, a decryptor moved up to twice | nothing is misread; each refusal has a known cause; a message opens where it should |
| `codec_go` (violation) | the same | a Go capsule can be refused by its length |
| `sharing` | 2 users, 2 files, 2 credentials, presentations of 1-2 | owners and viewers read, unless the capsule they show is short; ciphertext comes out only with a public file's credential |
| `sharing_body` (violation) | the same | `GetObject` can hand out ciphertext as content |
| `sharing_owner_key` (violation) | the same | `OwnerPrivKeyHex` is not used by a download |
| `chunk_stream` | plaintexts of 0-5 bytes, chunks of 1-3, tag of 2, counter of 4 values, 6 chunks | every pair of libraries, every end at every byte; the loops implement `ChunkWriter` and `ChunkReader` |
| `chunk_nonces` (violation) | the same, chunk of 1 | the nonce of chunk 2^32 is that of chunk 0 |

Why the bounds are enough.  *Upload and download*: each loop has a first, a middle and a last turn, and the pipes hold at
most one block each, so that three blocks put one in each goroutine's hands and one on the wire; the safety
properties are proved for every length.  *Vault*: a retry, the last retry and no retry, on both sides of the default.
*Field of order 5*: every key, ephemeral key and hash value is enumerated, zero among them;
the statements are proved over any field.  *Tokens*: one resolver knows every DID and the other one of
them, so that each tells on the other; one goroutine besides the caller makes an overlap, and a second change by it a
second disturbance; two credentials have a first and a last, and every way in which one can be wrong (issuer,
signature, form, a field named `issuer`, no issuer) occurs; structs are fresh, used, of another type or no pointer.  All but
the return is proved for every number of each.
*Codec*: five fields, of which none, any one or all have lost a byte: the full length, all ways to miss it by
one, and the shortest; `Width` above two keeps five lost bytes shorter than a point, as with 32; the
three invariants are proved for any numbers that fit.  Two moves
take a decryptor from any library through any other to any third.  *Chunks*:
lengths below, at and above one and two chunks, the counter wraps within a behaviour, and a stored
stream is cut at each of its bytes.  *Sharing*: two users tell
owner, issuer and viewer apart in every way that the code compares, two files are needed for a
credential of the other file, and a presentation of two for its order; three credentials (6.8 million
states) give no other result, and the properties are proved for any number.

The deadlock check is off where the system may stop anywhere: `pre`, the `codec`, `sharing` and
`chunk` runs describe calls that their users may or may not make.

### Fairness

- `PutObject`: runnable goroutines run (`CallerStep`, `EncRead`, `MpStep`); the transport
  reads its pipe to the end (`ReadEnd`), closes the request body as `http.RoundTripper`
  requires (`CloseBody`), and `http.Client` has a timeout (`Lose`).  `New` gives one to the client that it makes (30 s when
  none is configured, `api.go:139-146`), but takes a `Config.HTTPClient` as it is: for one without a timeout, whose gateway
  neither answers nor closes the connection, and a context that is never done, the liveness properties say nothing.
  Nothing is assumed of the gateway or the context.
- `GetObject`: the two goroutines run, and the same timeout covers the response's body.  `DrainEnds` assumes, in its own statement, that the reader reads.
- `VaultSign`: the call's own steps; the HTTP client's timeout is one of them.
- `Tokens`: the call's own steps; that a provider answers is `VaultSign`'s `Returns`.  Nothing is assumed of
  the other goroutines.
- `ChunkStream`: the loops run.  Nothing is assumed of the store.

## 4. Proofs

All theorems are about the specifications that TLC checks, for every value of the constants.

| Module | Theorems | For |
|---|---|---|
| `PutObjectProofs` | `TypeCorrect`, `OrderOnTheWire`, `RegularEnd`, `Truncation`, `Success`, `Implements`, `Writes` | bodies of any length, either gateway |
| `GetObjectProofs` | `TypeCorrect`, `Ownership`, `Implements`, `Refinement` | objects of any length |
| `VaultSignProofs` | `TypeCorrect`, `Paced`, `Implements` | any `maxRetries` |
| `TokensProofs` | `TypeCorrect`, `Agreement`, `Verdict`, `Checks`, `Whole`, `Shown` | any number of goroutines, resolvers, DIDs, credentials; tokens and lists of structs of any length |
| `PreProofs` | `TypeCorrect`, `Owner`, `Receiver` | any field, any hashes |
| `FileSharingProofs` | `TypeCorrect`, `Holders`, `Ciphertext` | any users, files, credentials, presentations of any length |
| `MessagesProofs` | `RoundTrip`, `MessageInvariant`, `NothingIsMisread`, `RefusalHasCause`, `MessagesOpen`, `ShortRefusal` | any base, width, chunk sizes and limits, numbers that fit, any number of moves |
| `ChunkStreamProofs` | `TypeCorrect`, `Prefix`, `Sealed`, `Intact`, `Nonces`, `NonceReuse`, `Reads`, `Writes`, `Refinement` | any plaintext, chunk size, tag and counter, any pair of libraries |

Together they cover every safety invariant of the passing runs and the safety of all refinements.
`TypeOK` of `ChunkStream` is proved and no property of its run.  Arguments:

- **PutObject**.  None of the properties is inductive: whether a stored file is whole depends on
  how the multipart goroutine ended, that on how the encrypting goroutine closed its pipe, that on
  what was read.  `Inv` follows a block through the pipeline: `EveryBlock` says that the
  blocks read are those on the wire, in `mp`'s hands and in `enc`'s, in this order; `Ends`
  says what each way of closing a pipe tells about the work behind it, an end of `enc`'s that the body ended well
  (`EndsWell`); `Form` relates the
  boundary, the end of the request and `mp`; `Exchange` says what the gateway may conclude.
  The refinement maps `Store` to `StoreFile`, the returns to `Succeed` or `Fail`, all else to a stutter.  For `ChunkWriter` only the
  encrypting goroutine takes steps; a chunk it waits to write is already taken, and the empty chunk of a cut body is
  a stutter.
- **GetObject**.  `Decrypting` relates what the reader has, what the goroutine holds and what was read
  from the response; `Stages` who owns the response at each place.  `Content` of the refinement is
  the plaintext, or the bytes as stored when the presentation shows no capsule.  For `ChunkReader` what
  the input holds whole is the object while the connection is up and what was read of it afterwards: a
  failing connection is its `Lose`.
- **VaultSign**.  `Counters` ties requests, attempts and seconds: `2 * (waited + left) =
  (attempt + 1) * (attempt + 2)` during a back-off.  `Signatures`: only a request in flight, or one whose fate
  the call ended without knowing, can have been signed.  The refinement maps `VaultSigns` to `Make`,
  the returns to `Succeed` or `Fail`.  It rests on the assumption that 429 and 503 mean that nothing was
  signed, as the retry in the code does.
- **Tokens**.  `Inv` is `TypeOK` and five parts.  `Resolvers`: what the history says of the resolvers that are
  set now, whoever set them.  `Places`: which call can be at which stage.  `Proofs`: what the
  stages passed say of the token.  `Lists`: the list of credentials, in terms of the call.  `Signing`: what has been
  checked of it when a signature is asked for.  `Shown` puts two parts on top of it: `Taken`, what the loop has
  taken from the token, and `Front`, which structs are filled.
- **Pre**.  `Made` and `Direct` keep the ephemeral keys that a capsule and a direct re-capsule came
  from as witnesses; the rest is algebra.  The assumptions are the field's laws and that hashes are
  functions into their ranges; nothing says that hashes differ, so nothing is claimed about
  who can *not* open a capsule.
- **FileSharing**.  `Backed` says what each credential tells of the file it names, which later uploads must not
  change, and leaves open whether its capsule is short; `Observed` relates the download seen to the files and credentials of its moment.  That a
  presentation with a capsule has a *first* one is the well-foundedness of the naturals.
- **ChunkStream**.  `Chain`: chunk *i* holds the bytes of the plaintext from its start less `(i-1) * Tag` on, and starts where
  the one before it ends.  `Order` follows from it: no two chunks begin at one place, so that none but the next
  one can open.  `Reading` says which chunks can be short, `Place` and `Finished` where the
  decrypting loop is and what it may conclude at an end.  `Nonces` and `NonceReuse` are facts about
  remainders: no two chunks closer than the counter's numbers share a nonce, and two exactly that far apart do,
  which the code does not check.  For `Reads`, `WholeIs` turns places into numbers: since chunks lie in order, those before
  `avail` are `1..n`, and a clean end there with `n` opened means that the loop has read all.  `Writes` says the same of
  the other loop: one read takes a whole chunk or all that is left.
- **CapsuleCodec and Messages**.  A number is its `Width` digits: that folding the digits gives the number back
  is proved from the digits' weights, by the least place where it would fail, since the library's induction theorems
  are out of reach.  From it follow what one written field reads back as, with or without its leading zeros, the
  lengths of what each library writes, and `RoundTrip`, field by field.  `CodecInv` says of what numbers the bytes are
  made, `Inv` that a decryptor moved whole has the key and chunk size of its capsule, up to Kotlin's signed reading of it.
  The lengths decide the rest: a Go capsule with a short number has none of the accepted ones (`ShortRefusal`),
  and `LostIsLess` keeps its re-capsule from having a capsule's.

Only model-checked: liveness (`Returns`, `ReleasedAtEnd`, `DrainEnds`, `MultipartEnds`, `EncryptorSettles`, and what
`ImplementsUpload` says of fairness; its safety is `Implements`), which is out of the prover's reach.

## 5. What the models say about the code

Disagreements between the code and its documentation, each shown by a run:

1. A presentation that shows the owner credential of a public file before that of a private one makes
   `GetObject` return the stored ciphertext (`sharing_body`).
2. `OwnerPrivKeyHex` is not used by a download, contrary to `file-application/README.md:783` (`sharing_owner_key`).
3. About one Go capsule in fifty is shorter than every decryptor accepts (`codec_go`).
4. The chunk counter is cut to 32 bits without a check (`chunk_nonces`).

Behaviours that the properties describe as they are: a call that fails before `Do` leaves its
goroutines in their first `Write` (`MpLeaked`); a failed upload may leave the encrypting goroutine
(`EncLeaked`); a form cut by an error is closed with its boundary (`TruncationIsReported`); a
stored file cut between two chunks decrypts without an error (`IntactOpens`); a source that ends
with `io.ErrUnexpectedEOF` and repeats it is sealed as empty chunks until its context is done (`Returns`
leaves it out); a private upload from a source that answers `io.ErrUnexpectedEOF` once and then `io.EOF`, as the
body of a request that a server forwards does when its sender goes away, stores the cut file and succeeds
(`recrypt_stream.go:56`; `SealedIsWhole`, `SuccessIsWhole` and `TruncationIsReported` except it by name, a public one is an
error); a credential whose capsule is short gives the file to nobody, its owner included, and one that the owner makes
from it works only by a re-capsule that is not short (`HoldersRead`).

Of tokens and providers:

- A client made with another resolver changes the verification of the clients that exist, also in the
  middle of a call, and two made at the same time can leave the packages `vc` and `vp` with
  different resolvers for good (`VerdictHasCause`, `ResolversAgree`).
- The field `issuer` of a credential's subject replaces the issuer in the flattened claims, and a credential
  whose contents name no issuer leaves none there, or an old one in a struct (`ListAnswered`, `StructsFilled`).
- A credential embedded as an object is an error of `VerifyToken` and a panic of
  `VerifyTokenWithStructs` (`StructsFilled`); a struct keeps the fields that the claims lack, and those
  before one that does not fit stay filled.
- A key option that is not hex is dropped and the configured key signs; the comment at
  `api-get-object.go:36` says that the error will be caught.  One that is hex but no key, an empty string among them,
  replaces the configured key, and no token is made (`MadeIsWhole`).
- With a Vault provider the file client makes no token: none of its options passes an address
  (`MadeIsWhole`).
- The Vault may sign for a call that has returned an error (`ImplementsSigner`).

Of messages and saved decryptors:

- Swift puts the nonce before a message, Go and Kotlin derive it: neither opens the other's (`MessageOpens`).
- Kotlin reads a chunk size above its `Int` as negative, in neither mode, until the decryptor is
  loaded elsewhere; and it loads hex with characters that are not hex, as Swift does with a sign before a digit (`MessageOpens`).
- A second message or stream of one `Encryptor` starts at the nonce of the first (`recrypt.go:11`).  The client
  makes one per file.

## 6. Not modelled, and why

- AES-GCM, secp256k1, SHA3 and the hash to a scalar: assumptions (a chunk opens
  whole and in place; a field; functions).
- JWT, JSON, hex, DIDs, multipart headers: formats, abstracted to the fields that the code compares.
- `New`'s URL normalisation and defaults, its panic on a nil resolver option (`api.go:162`, `api.go:167`), and
  `mergeHeaders`: configuration that no later step depends on.
- What the libraries do at a zero, where Go panics, Kotlin hashes the point at infinity and Swift throws, and with a
  private key outside the field, which only Kotlin takes.  Elsewhere `Recrypt.kt` and `PRE.swift` compute the
  formulas of `pre.go` term for term, and `PreAlgebra` stands for the three.
- A failing random source (`pre.go:448`), and an error of `rekeyGenerate`, which `pre.go:174` prints and ignores.
- `createRekey`, `encodeRekey`, `decodeRekey` and `reEncrypt` of `pre.go`: nothing calls them.
- What sealing twice under one nonce gives away: a property of AES-GCM.
- That `CreateToken` answers the token as a quoted JSON string (`json.Marshal` of a string): a format.
- A 503 by a proxy that has forwarded the request: `VaultSign` takes 429 and 503 as the code does.

## 7. Plan

Done, in this order: upload, download, Vault, re-encryption, codec, sharing, chunk streams; then tokens and their
composition with the Vault through `Signer`, messages and saved decryptors, and the proofs of chunk streams,
sharing, tokens, codec and messages, and the `ChunkWriter` and `ChunkReader` that the client's pipelines and chunk streams have in common.
What is left:

1. Contents across `ChunkWriter` and `ChunkReader`: they say how much is taken and which chunks are opened, while
   `ChunkStream`, `PutObject` and `Delivery` each say what is in them.  `Delivery`'s content is fixed from its first
   state, while what `ChunkStream`'s store loses is chosen during the behaviour; one of the two has to choose where
   the other does.
