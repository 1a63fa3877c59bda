# A TLA+ development of the Label 309 TypeScript SDK

The repository holds three packages. `poe-standard` defines the on-chain record
(schema, validator, encoder), `crypto-core` the cryptography (sealed envelopes,
STREAM, Merkle trees, COSE), and `sdk-ts` what an application calls: uploads,
publishing, waiting for a record, verifying one. The packages have no server
side: the gateway, the storage network and the chain are reached over `fetch`.
What is hard here is therefore the client's side of unreliable, stateful
protocols (sessions, idempotent retries, price locks, event streams), and the
rules by which a verifier folds many partial answers into one verdict.

Source paths below are relative to `src/packages/`.

## 1. Inventory

| Component | Source | State and operations | What is hard | Correct when |
|---|---|---|---|---|
| Resumable upload | `sdk-ts/src/client/resumable-upload.ts` | one driver per call; lanes sharing a cursor; a gateway session, its held chunks and its completion attempt; `uploadResumable`, `abandonUploadSession` | lanes outlive the batch they belong to; lost replies; 409 gaps; polling; abort and crash at any await; caller callbacks that throw | a session is completed only with every chunk acknowledged; no session is leaked silently; a returned URI names stored content; every loop ends |
| Status stream wait | `sdk-ts/src/client/poe-events.ts` | resume point, parser buffers, backoff index, last snapshot; `waitForPoe` | dropped connections, several events per chunk, caps, the race of loop, deadline and abort | no status skipped, the first decisive one settles, the stream dies with the wait |
| Sealed publishing | `sdk-ts/src/client/sealed.ts` | prepared seal, upload receipts, quote; `sealPrepare`, `submitSealed` and their passphrase twins | crash and retry between paid steps; quotes that expire; receipts from earlier attempts | storage and publication paid once, never above the cap; receipts survive failures |
| Publish and quotes | `sdk-ts/src/client/publish.ts`, `poe.ts` | price lock; `publishContent`, `publishPrehashed`, `publishMerkle` | freshness checked before slow steps | as above |
| Outbound guard | `sdk-ts/src/fetch/fetch-outbound.ts`, `deny-hosts.ts` | attempts, redirect hops, audit records; `wrapFetchOutbound`, `defaultFetchOutbound` | policy on every hop, retry and timeout, body cap | no denied host is contacted; one audit record per attempt |
| Transaction resolution | `sdk-ts/src/verifier/resolve.ts`, `tx-binding.ts`, `profile.ts` | provider chain, best outcome so far | which failure outranks which | a tampered answer is never masked by a missing one |
| Record verification | `sdk-ts/src/verifier/verify.ts` and its helpers | issue list, per-item reports, verdict | many partial results, early exits | the verdict agrees with the issues |
| Walkers | `verifier/cbor-walker.ts`, `tx-witnesses.ts`, `cid.ts` | a cursor into bytes | malformed input | decoding stays in bounds |
| Sealed stream | `crypto-core/src/sealed-poe/stream.ts`, `stream-seal.ts`, `rechunk.ts` | chunk counter, final flag, lookahead buffer | which chunk is the last | opening returns what was sealed or fails |
| Sealed envelope | `crypto-core/src/sealed-poe/wrap.ts`, `unwrap.ts`, `slot-acceptance.ts`, ... | slots, transcript, acceptance fold | several slots may match | one recipient key, one content key |
| Record validator | `poe-standard/src/validator.ts` | issue list over passes | order and completeness of passes | accepts what the encoder emits |
| Encoder, carriage | `poe-standard/src/encoder.ts`, `carriage.ts` | none | chunk boundaries | decoding inverts encoding |
| Merkle trees | `crypto-core/src/hash/merkle-sha2-256.ts`, `merkle/leaves-list.ts` | none | odd sizes | a proof verifies for its leaf only |
| Certificates | `sdk-ts/src/certificate/` | none | an interior node passed off as a leaf, a trusted flag | a certificate holds for the leaves of its tree and for nothing else |
| Off-host signing, COSE | `sdk-ts/src/client/off-host-sign.ts`, `crypto-core/src/cose/` | none | two ways of signing, two places for a key | what is assembled verifies, what is not signed does not |
| Cost estimate | `sdk-ts/src/estimate/index.ts` | none | a second computation of the record's size, made before there is a record | a quote covers the record it is for |
| The rest | identities, key derivation, primitives, NFKC, gateway client, resumable source, ids, conformance CLI | none between calls | | |

How they interact: `submitSealed` and `publishMerkle` call `uploadBlob`, which
takes the single-shot path or `uploadResumable`; then they publish through
`publish.ts`, and the application waits with `poe.wait()`. The verifier calls
the outbound guard for every request, `poe-standard` to validate, and
`crypto-core` to decrypt and check signatures. There is no shared memory
between components beyond the arguments; the shared state is the gateway's.

Behaviour that a test hardly reaches, and that the modules are for: orphan
lanes of a failed batch that go on sending while the session is deleted and the
caller's next call runs; replies lost after their effect; a crash between two
paid steps; a caller callback that throws between creating a session and using
it; a resume point that has to agree with what was evaluated, not with what was
parsed; a deadline or an abort that races the answer. `PROJECT.json` lists each
hazard at the line where it bites with the properties that cover it.

## 2. Plan

Done, in this order (the code that moves money and bytes first):

1. `ResumableUpload` with its abstract specification `UploadContract`, and the
   proofs of its type and batch invariants.
2. `PoeWait`.
3. `SealedSubmit`, which uses an upload as one step, and proofs of its cap and
   its charges.
4. `FetchOutbound`, the verifier's egress, with the proofs of its policy.

5. `Verifier` from a transaction hash to a report: the provider chain and which of
   its failures outranks which, and how items, signatures and Merkle commitments
   fold into issues and a verdict. The steps are its own; what they compute is in
   pure modules that it extends: `ErrorCodes`, `CborData`, `ContentUris`,
   `RecordValidator`, `RecordSignatures`, `MerkleLeaves`, `Certificates`, `TxWalk`,
   `SealedEnvelope`.
6. `SealedStream` over `SealedEnvelope`: the chunk counter, the final flag and the
   one-block lookahead of `rechunk`, with a storage that alters what it holds.
7. `PreparedSeal` over `PublishRecords` and `RecordEstimate`: preparing, the stored
   document, the quote, the record.

Theorems: all of `ResumableUpload`, `PoeWait`, `SealedSubmit` and `FetchOutbound`
that is not liveness, with the refinement of `UploadContract`; of `SealedStream` that
only what was sealed comes out; of `Verifier` that a run advances, what it says of a transaction
it could not have, what it judges, what a valid verdict has checked, and that the validator and the
decrypting code agree (section 6). To reason about the verifier, its walkers were written as
recursive functions, except for the canonical encoding, which is a constant
of `CborData` that `CborCodec` gives to TLC.

## 3. Modules

| Module | What it is | Source |
|---|---|---|
| `ResumableUpload` | driver, lanes, caller and gateway session | `resumable-upload.ts` |
| `UploadContract` | abstract specification of an upload call | the promise of `uploadResumable` to its callers |
| `ResumableUploadProofs` | theorems about `ResumableUpload`: types, batches, sessions and the contract | |
| `PoeWait` | reconnect loop, parser, race | `poe-events.ts` |
| `PoeWaitProofs` | theorems about `PoeWait` | |
| `SealedSubmit` | priced publishing of an existing artifact | `sealed.ts`, `publish.ts` |
| `SealedSubmitProofs` | theorems about `SealedSubmit`: charges and the cap; receipts, types and live quotes | |
| `FetchOutbound` | retry loop, audit trail and redirecting transport | `fetch-outbound.ts`, `deny-hosts.ts` |
| `FetchOutboundProofs` | theorems about `FetchOutbound` | |
| `Verifier` | resolution, carriage, judging of a record and its claims | `sdk-ts/src/verifier/` |
| `VerifierProofs`, `VerifierClaimsProofs` | theorems about `Verifier`: progress, resolution and what is judged; claims, verdicts and what is decrypted | |
| `RecordValidator`, `ContentUris`, `ErrorCodes` | schema, passes and roles; URI and CID grammar; registry of codes | `poe-standard/src/validator.ts`, `schema.ts`, `error-codes.ts`; `verifier/content.ts`, `cid.ts` |
| `CborValues`, `CborData`, `CborCodec` | decoded values; the body in 64-byte chunks; the canonical encoding and its size | `poe-standard/src/encoder.ts`, `carriage.ts` |
| `RecordValidatorProofs` | theorems about `RecordValidator` and the sorting of issues | |
| `RecordSignatures` | COSE_Sign1, off-host signing, the signature pass | `crypto-core/src/cose/`, `off-host-sign.ts`, `verifier/signatures.ts` |
| `MerkleLeaves`, `Certificates` | tree, proofs, leaves list; inclusion certificates | `crypto-core/src/hash/merkle-sha2-256.ts`, `merkle/leaves-list.ts`, `sdk-ts/src/certificate/` |
| `TxWalk` | slicing a transaction, binding it to its hash, describing it | `verifier/cbor-walker.ts`, `tx-binding.ts`, `tx-witnesses.ts` |
| `SealedEnvelope` | wrap, unwrap, transcripts, passphrase block | `crypto-core/src/sealed-poe/` |
| `SealedStream` | sealing and opening piece by piece | `stream.ts`, `rechunk.ts`, `stream-seal.ts`, `passphrase.ts` |
| `SealedStreamProofs` | theorems about `SealedStream` over `SealedEnvelope` | |
| `PreparedSeal` | a seal prepared, stored, restored, quoted, assembled | `sdk-ts/src/client/sealed.ts` |
| `PublishRecords`, `RecordEstimate` | the records of the plain publications and their signing; the size estimate | `publish.ts`, `sdk-ts/src/estimate/index.ts` |
| `MCResumableUpload`, `MCPoeWait`, `MCSealedSubmit`, `MCFetchOutbound`, `MCVerifier`, `MCSealed` | the modules TLC is run on | |

### ResumableUpload

A call is a program counter `pc[c]` with one value per `await` of the driver
(`single`, `create`, `status`, `upload`, `complete`, `gap`, `poll`, `abandon`) and
one per way of settling (`ok`, `error`: the call's own error after the session was
deleted, `leaked`: the error that carries the session id, `crashed`).
An action is what runs from one await to the next. A request's answer, its
refusal, and its loss with or without its effect are separate actions or
disjuncts; a chunk PUT is two actions, the gateway's and the reply's, so that
`DELETE` can fall between them.

`todo[c]`, `cursor[c]` and `lane[c]` are the locals of `uploadChunks`: the sorted list
of missing indices, the shared cursor, and one record per lane (`off`, `put`,
`acked` for a stored chunk whose reply is under way, `failed`, `done`). `BatchDone`
is `Promise.all` resolving; `BatchFails` is its rejection, which leaves the other
lanes in place: they keep stepping whatever the driver does next. `acked[c]` is
history, the chunks whose 2xx this call has read for the current batch.

The gateway is external. It knows sessions by the call that created them
(`gwState`, `gwTotal`, `gwHeld`, `attempt`), may lose a chunk of an open session,
expire it, assemble at once or later, and release an attempt. `stored` is the
set of contents that storage holds.

A file's content is identified with its size and only grows. Chunk bytes, hashes,
headers and the wording of errors are left out. `Parallelism` lanes exist at all
times; a batch smaller than that leaves the others `off`.

`UploadContract` keeps of all this what a caller sees: a call that returns
names content that is stored, a call that throws says nothing, and storage only
holds what was asked for. `Contract` in `ResumableUpload` is the refinement
mapping.

### PoeWait

The record's history is a sequence of statuses, an SSE id is a position in it,
and a connection is a queue `wire` of whole frames, of which one `read()` takes any
non-empty prefix. `loop` has one value per await of `streamUntilTarget`, including
the `body.cancel()` in its `finally` (`close`). The race of `waitForPoe` is the
variable `outcome`, settled once by whoever comes first. `seen` is history: the
positions whose snapshot was evaluated. A frame over the parser's caps (`big`)
makes `feed()` throw after it committed the ids of the frames before it.

Time is not modelled: a deadline may pass at any moment, a pause ends at some
moment. The constant `SignalAware` says whether the injected fetch observes the
abort signal, as the default one does.

### SealedSubmit

One call is `submitSealed`, `submitPassphraseSealed` (the same code over another
artifact) or `publishMerkle` (a one-item artifact in `Batches`, without receipts or
preview). The stages are the awaits: first price lock, uploads one by one, renewal
of the lock, signature, publication. The gateway charges for a blob once per
idempotency key and for a record once per record; a quote is `fresh`, `stale`
(inside the 30 s skew) or `expired`. Several calls run side by side or one after
the other with the receipts that earlier ones returned (`kept`), and the process
may die in any stage.

A prepared artifact is given; how it is made, serialised and read back is
`PreparedSeal`'s. `stage = "fresh"` stands for the client's own clock, so a
client clock that disagrees with the gateway's is not covered, nor is an
`expires_at` that does not parse, which the code reads as fresh.

### FetchOutbound

`wrap[c]` holds the locals of one call of the wrapped function (`attempt`,
`lastStatus`, `lastError`, how it settled), `io[c]` those of the transport's current
invocation (`url`, `hop`, the bytes read, whether the timer is armed and the signal
aborted), and `audit` is the array that all calls push to. What runs before the
first `await` is one action: the policy checks with the refusal (`Refuse`), or with
the first request (`Admit`). Then one action per await of `defaultFetchOutbound`:
the response (`Redirected`, `HeadersArrive`, `OpaqueRedirect`), the cancelled body of a
3xx (`Drained`), a chunk (`ChunkArrives`, `BodyEnds`), and the timer (`Timeout`), which
may fire between any two of them. `Settle` is the transport's end, the audit row and
the loop's decision, which the code makes without another await.

Servers answer anything or nothing. A host is the sequence of its labels from the
top level down, so that `endsWith("." + h)` is a proper prefix. A transport that the
caller supplies, such as the one inside `denyHostsFetch`, is one step with any outcome; what it
sends beyond the url it is given is its own affair, and only the given url is
tested. Redirect hops have no rows of their own: the trail has one row per attempt,
under the url the caller asked for.

### Verifier and the modules it extends

`phase` is the part of `verifyTx` that runs; `verifyResolved` enters at `record`.
Each await is an action: the three requests to an explorer (`FetchTxCbor`,
`FetchTxInfo`, `FetchTip`), whose place in the chain and what earlier ones left is
`attempt`, and the request to a gateway (`FetchBlob`). Between two awaits the code
runs one action, whatever it computes: `JudgeRecord` is carriage, validation,
profile skips and signatures. `cursor` is the loop over claims (items, then
commitments), their URIs and gateways; `checks` the settled ones; `issues` the sink in
the order it is filled. `auditTrail` is the calls and their answers, of which the
properties speak: explorers may serve any of the transactions they are given,
with any height, or fail in every way a provider does, and gateways any of the
contents they are given. Requests run through `FetchOutbound`; here one is
answered, refused by policy or lost.

Data is a tagged value (`CborValues`): a byte string is its length and an identity, and
hashes, signatures, keys and ciphertexts are terms, so that two are equal only when
they were made from the same parts. That is the assumption of ideal primitives; what
the code adds to them (which bytes are hashed, which context is signed, which
transcript a key hangs on) is modelled. A transaction is a sequence of CBOR
heads, a CID its prefix, alphabet, head bytes and digest. JSON, hex, base64url and
multibase texts are what they decode to and the properties of their spelling that the
code looks at. `stripUndefined` and `EncodedSize` are constants of `CborData`: what the encoder
leaves out of a value and the length of the rest. `CborCodec` defines them by recursion on the value
and the configurations name its definitions, so in every run sizes are exact, as
the 64-byte chunks and the estimate need them; the proofs only use that an encoding is no shorter
than what it holds (`EncodingAssumption`). `Data` is any set of decoded values closed under taking parts in
which the bodies of the calls lie (`DataAssumption`); a run gives it all parts of its inputs.

`RecordValidator` collects issues in a set and sorts at the end, as the code does; no
two issues share path and code. Its three roles are three readings of one pass.
Messages are left out.

`Certificates` builds, verifies and re-encodes proofs; it has no state, and is
checked from `Verifier`: whenever a leaves list was checked, `Proved` puts all its
leaves through a certificate and back, with every recombination of the certificate's
leaves, indices, paths and tree sizes in between.

### SealedStream

One call seals a plaintext, leaves envelope and body with a storage that may
truncate, reorder, splice, extend or edit (`Store`, `HeaderAttacks`), and opens what
comes back, through either path (slots or passphrase). `held` is the rechunker: the
piece it was handed, the bytes it has gathered, the block it holds back. Pieces come
in any of `PieceSizes`. The caller may abort, the source fail, the consumer never
iterate. `opened` is what was yielded, which the consumer has even when a later
chunk fails; `outcome` is the promise beside it. `StreamSpec` is one such call by itself,
which the theorems are about; `MCSealed` runs it beside `PreparedSeal`.

### PreparedSeal, PublishRecords and RecordEstimate

A behaviour of `PreparedSeal` is one preparation (`sealPrepare`, with the words its
shuffle draws), perhaps its document's way through a store that edits it
(`StoreDocument`, with `Edits`) and back (`RestoreDocument`), and one record assembled,
signed and encoded with some URIs (`Assemble`). A document is its value and how it is
spelled: canonical, otherwise, or not JSON. A publication that seals nothing goes from
its input to its record (`Publish`). `QuotedBytes` is what a quote would have charged.

## 4. What is checked

| Run | Instance | Shows |
|---|---|---|
| `upload_one_call` | 1 call, 3 chunks, 2 lanes, 1 retry, 1 completion retry, 2 polls, abort and crash | lanes, loops and their ends; liveness |
| `upload_two_calls` | 2 calls, 2 chunks, 2 lanes, no retries, a source that grows | orphans of one call in the next; sessions never leaked silently; `UploadContract` |
| `upload_progress` | as above | the fraction a progress bar is told to show does not reach 1 (finding) |
| `wait` | 4 statuses, 2 faults, 1 ping, 1 oversized frame, both targets, deadline and abort | no status skipped; first decisive one settles; liveness |
| `wait_oversized` | 4 statuses, 1 oversized frame | a status lost behind the resume point (finding) |
| `wait_deadline` | 3 statuses, a deadline | a timeout with the target in hand (finding) |
| `submit` | 2 calls, a 2-item seal and a batch, prices below and above the cap, 3 quotes | one charge per blob and per artifact, the cap, receipts, live quotes |
| `submit_slow_signer` | 1 call, signer slower than the skew | publication against an expired quote (finding) |
| `submit_preflight` | 2 calls | receipts missing from a preflight error (finding) |
| `fetch` | 2 calls, 1 retry, 2 hops, 8 requests of which 5 are refused, 7 redirect targets, bodies of chunks below and above the cap | egress policy, audit trail, silence after an abort; liveness |
| `verify` | 40-odd calls against 1 or 2 explorers (5 transactions they may serve, 2 heights, 3 confirmations) and 0 to 2 gateways, and the validator's fixtures in every role; lists of 2, 3 and 5 leaves | a report tells of the requested transaction, the worst finding wins, the network alone never condemns, a valid verdict is earned, validator and decryption agree, the fixtures' codes |
| `sealed` | plaintexts of 0 to 6 bytes in chunks of 2, pieces of 1, 3 and 9; both KEMs, a bundle of both kinds of secret, passphrases; 60 edits of a stored document, each also with a new fingerprint; 2, 3 and 24 recipients; plain publications with every error, gateways that answer with an unfit URI, leaf counts at each width | only what was sealed comes out; stream and buffer agree; a seal survives only as itself; every record is valid, signed, covered by its quote |

Why these bounds. An upload needs more chunks than lanes for the cursor to matter
and two lanes for an orphan to exist: three chunks over two lanes. Each loop is
given a limit of its own that the instance reaches, so the last-iteration branch
runs; a larger limit repeats the middle iteration. What a first call does to
a second goes through the gateway's session and the orphans only, so two
calls suffice; a third would meet the same kinds of session. The stream needs
two statuses behind the resume point and two after it, and two faults to
reconnect twice with a backoff that reaches its top. A submit needs two items
to confuse and two calls to race or to resume; three quotes let one call renew
its lock while another holds one. A fetch needs two hops for an anchor to drift and one retry for
a first and a last attempt; calls meet in the audit trail only, so two show
every way their rows can interleave. The verifier's chain needs a second explorer for
one outcome to outrank another, from both families, and a claim needs a second URI or
gateway for a good source to follow a bad one; claims meet only in the sink and the
verdict, so two suffice. Five leaves are the smallest tree with a lone subtree
promoted twice, and one of them is there twice. A stream's chunks are all alike but
the last, so three chunks, with the last full, partial or empty, show every place
where a piece can end. `MAX_SLOTS`, `UINT32_MAX`, `KDF_MEMORY_MAX` and the size of an
envelope are scaled down so that values above them exist; 24 slots and a leaf count of
24, 256 or 65536 are where a CBOR head grows.

Deadlock is checked in `verify` and `sealed`, where the ends of a behaviour are
actions of their own (`Reported`, `StreamEnded`, `PreparedDone`), and not in the older
runs: there every call eventually settles and the instances stop, which is what
the code does.

Fairness. The upload assumes that a driver or lane that can step eventually
does: `fetch` settles and the event loop runs continuations. It assumes nothing of
which answer comes, so the limits of the loops, not the gateway's good will, make
every call settle. The wait assumes the same of its requests and timers, that an
open stream is served, and that an abort reaches the fetch when it is one that
observes it; it does not assume that a record changes, that a connection fails or
that a deadline passes. The fetch assumes that timers and sleeps
end and that the runtime rejects what an abort has cut off; no server is assumed
to answer, and a caller's own transport may hang. `SealedSubmit` states no liveness. Neither does `Verifier`: that
a run ends follows from `EveryStepAdvances`, by which no call is made twice, and from
the absence of deadlocks, with each request timed out by the outbound guard. The
sealed modules have no loop but over their input.

Every property of a passing run has a mutant: a plausible change to one action
(a dropped guard, `Promise.race` for `Promise.all`, a resume point of the parser
instead of the loop, ...) under which TLC finds the property violated. They are the
definitions that stand before the action they vary and are used nowhere else.

## 5. Findings

1. `bytesSent / totalBytes` is documented (`types.ts`) as the fraction of this call's
   work. A resume that adopts stored chunks succeeds below 1; a resend after a 409
   counts chunks twice (`upload_progress`).
2. A frame over the SSE parser's caps in the same chunk as earlier frames drops
   those frames' events but keeps their ids as the resume point; a status, perhaps
   the terminal one, is then never evaluated (`wait_oversized`).
3. While a decisive snapshot waits for `body.cancel()` the deadline can still win,
   with an error that says the target was not reached (`wait_deadline`).
4. The price lock is tested before the asynchronous signer runs, so a slow signer
   publishes against an expired quote (`submit_slow_signer`).
5. A submit that fails its offline checks throws an error without the receipts that
   had validated, which its class promises (`submit_preflight`).

Met while modelling, and not given runs of their own; where a property of a passing run
would fail on one, its comment names the exception:

- `validateFetchSetUris` (`publish.ts`) says a producer can never emit a record that a
  verifier rejects on its URIs. An empty list passes and is emitted as `uris: []`, which
  the validator refuses (`EmptyUris` in `PreparedSeal`). `publishMerkle` embeds the URI the gateway
  answers with unlooked at (`publish.ts:683-695`), and takes it for an `ar://` one in the
  quote: with another, the record is one that the validator refuses (`UriRefused`), or longer than what was
  quoted (`GivenUri`). The run has gateways that answer so, and shows that in these cases, and in no
  other, the validator refuses a record of a publication.
- The header of `profile.ts` (3-6; `types.ts:49-52` is like it) says that a `core` verifier reading a
  record with `sigs`, `enc` or `merkle` must emit `OUT_OF_PROFILE_SKIPPED` per affected field. `planProfileSkips`
  (`profile.ts:56-86`) emits none for `merkle`: a record of commitments only is judged under `core` without a word of it.
  `ValidIsEarned` excepts the case by name (`MerkleUntold`). It also checks what the code does there
  in the skip's place: the commitments are not skipped (`verify.ts:475-496`), each whose leaves were given or may be fetched is looked into.
- `kem in KEM_SLOT_DESCRIPTORS` (`validator.ts:778`) is taken for membership ("`kem` is registered on this path",
  `validator.ts:937`) and is also true of the names every object inherits. An envelope with `kem: 'constructor'` is read as a supported
  one, its slots against a function's missing fields, and a slot with a `kem_ct` gives an issue with no code and no
  severity (`validator.ts:1018-1034`). It does not come alone, the slot's `wrap` is an error in the same reading, so that the record is
  refused all the same (`checkInheritedSlot`; `InheritedSlotSound` proves it). The names of ciphers and hashes are looked up
  in the same way (`Inherited`).
- `preparedSealFromJson` (`sealed.ts`) calls an accepted document safe to submit. One that
  was edited and fingerprinted again may name a hash the record does not know,
  repeat a slot or have too many; the validator refuses the record
  (`LeftToTheValidator`).
- `passphraseOpenStream` says every early exit closes its source. A derivation that throws
  does not, nor does a plaintext that is never iterated (`LeavingOpen`).
- `verifyInclusionCertificate` says it never throws. It does when the certificate has no
  `merkle` or `items`, or an item has no proof list; the model takes an object of the
  declared shape. A root does not bind `tree_size`, so an index is only as good as the
  tree size beside it, which the property accordingly takes from the commitment.

## 6. What is proved

TLAPS proves the following for every value of the constants that the modules'
assumptions allow. Those of the modules with processes (`ConstantsAssumption`, `WaitAssumption`,
`SubmitAssumption`, `FetchAssumption`) only say that numbers are numbers, that there is
at least one lane, item and poll, that chunk and file sizes are positive, and that
statuses are HTTP's. `StorageAssumption` says what a sealed call may be given and what
storage may hand back, and the five of `Verifier` what a call of it may be; both are explained
below. One theorem has a hypothesis of its own, `LiveQuoteCorrect`.

**`ResumableUploadProofs`.** *Types.* `TypeCorrect`: `Spec => []TypeOK`. `TypeOK` bounds the
loops (`round`, `polls`, a lane's `tries`), and is not inductive: a step into `gap`
or `poll` relies on the counter being below its limit, and a step that computes a
chunk grid relies on the session having a size. `TInv` adds `LoopInv` (a loop about
to go round is below its limit) and `SessionInv` (a call that talks to a session
holds one that was created; a session anybody refers to has a real size). The
proof of the step has one case per action.

*Batches.* `CompleteCorrect`, `LanesCorrect` and `CursorCorrect`:
`CompleteOnlyWhenAcked`, `NoLaneBehind` and `ClaimedOnce` always hold. `BatchInv` adds what
makes them inductive: calls run one at a time (`OneAtATime`, so an orphan belongs to
a settled call); what lanes hold is what the cursor has passed, and a lane is done
only with the cursor at the end (`CursorInv`); every chunk passed is acknowledged
or with a lane that has not given it up (`AckedInv`). When all lanes are done
or off, the cursor is at the end and no lane holds a chunk, so all are
acknowledged. Two lanes hold different chunks because the list has no
duplicates, a lane claims where the cursor stands, and the cursor only moves on.

*Sessions.* `PutsFit`, `PersistCorrect`, `ErrorCorrect`,
`NoLeakCorrect` (`EveryPutFits`, `PersistBeforePut`, `ErrorMeansAbandoned`, `NoSilentLeak`),
`OrphansDieOut` (`OrphansStop`) and `KeepsContract` (`ImplementsContract`). `KeptInv` is
inductive beside `TInv` and says three things of every call. `Opened`: a session is
created once, by the call it is named after, with the length that call declared, and
no call both resumes a session and has created one. `Adopted`: whoever sends to a session, a
driver or an orphan lane, cuts its chunks from the length the session was created
with, and the caller holds its id; so a source that grew between two calls never
changes the grid. `Answerable`: chunks are held only by a session whose id the caller
has, an error leaves its session gone, and what completed or committed is stored. A step of one
call keeps the others' part by one lemma (`OthersKept`): it leaves their sessions as
they were, or moves them on towards `gone`, or creates one nobody can name yet.
`OrphansStop` follows from the shape of a lane's steps and from a session that is
gone staying gone. For the refinement each action is shown to be a begin, a store, an end
or a stutter of the contract; that a call ends with a uri only of what is stored is
`Answerable`, and that what is stored was asked for is `Adopted`.

**`PoeWaitProofs`.** `WaitTypeCorrect`, `NothingMissed`, `FirstDecisiveCorrect` and
`ResumePointCorrect`. `NoChangeMissedWithinCaps` speaks of what was evaluated and the
resume point; to be kept it needs to know what is under way. `WireInv` says that a
connection being read carries the changes after the resume point in order and
without a gap up to the last one served, and `SeenInv` that while no verdict has been
reached everything evaluated lies at or below the resume point, and the resume
point itself was evaluated. A `read()` takes a prefix of the wire: the proof evaluates
it up to its first decisive snapshot, whose existence and minimality come from the
well-foundedness of the naturals, and shows that the prefix passed over no change
and the rest is still ahead. `DecisionInv` says nothing evaluated before the verdict was decisive.

**`SealedSubmitProofs`.** *Charges.* `CapCorrect`, `StorageCorrect`, `RecordsCorrect` and
`PublicationCorrect`. `SubmitInv` is inductive; its parts are `KeysInv` (a blob's key is
its artifact and item, and no two blobs share one), `ReceiptsInv` (a receipt in the
caller's hands, in the map of validated ones or in `uploads` names a blob of its
artifact and item, and stands at its item's place), `StagesInv` (the loop covers
the items from first to last), `LocksInv` (past its first lock a call has one under
the cap) and `DebitsInv`. That publication is charged for once follows from the
others: blobs are unique per item, so two records of one artifact name the same
uris and are the same record, and the gateway charges for a record once.

*Receipts.* `ReceiptsCorrect`, `SubmitTypeCorrect` and
`LiveQuoteCorrect`. `OutcomeInv` follows a call's receipts: while it runs, those it was passed and those it
completed (`earned`, a history variable) are exactly those in `uploads` and those
still to be folded in, which stand for items the loop has not reached; when it
settles, the list it hands back has exactly those, in item order. `TypeOK` types receipts by uris up to
`NCalls * Items`, so it needs a count of the blobs: each is the item of an artifact some call took up, and
no two are the same, hence an injection from blobs into calls and items.
`LiveQuoteCorrect` assumes a signer that answers within the skew (`~SlowSigner`):
`MarginInv` carries the margin that the freshness test left through the signature to
the post. Without the hypothesis the property is false, which is finding 4.

**`FetchOutboundProofs`.** `FetchTypeCorrect`, `EgressCorrect` and `AbortCorrect`: `TypeOK`
(which holds the body cap, the hop limit and the attempt limit), `EgressPolicy` and
`NoRequestAfterAbort`. None is inductive by itself. `FetchInv` adds, per call, that its
request passed the policy, that the url its transport works on is that request's
or one `SameDomainRedirect` allowed from it (not from the hop before), that a
call that backs off has an attempt left and a redirect that is followed a hop, and that
a transport that is not running is reset. All ways for an attempt to end go through
one lemma (`SettleKeeps`), all other steps of a transport through another
(`IoStepKeeps`). `AuditCorrect`: `OutcomeMatchesAudit`. `AuditInv` adds what a call that is
still under way owes the trail: a row per finished attempt, all of them asking for a retry, and
`lastStatus` and `lastError` taken from the last one. Rows of other calls may fall between, so
the proof speaks of the set of a call's rows (`RowsOf`) and of its latest, and one lemma (`RowAdded`)
says what a push does to the rows of every call.

**`SealedStreamProofs`.** `OnlyWhatWasSealedAlways`: `OnlyWhatWasSealed`. It needs the
whole life of a call, in both directions. `CutInv`, while sealing: what was
emitted, the block held back, the bytes gathered, the rest of the piece and what the
source still has are consecutive slices of the plaintext, and together all of it.
`BodyInv`: every byte stored is *genuine*, the commitment's or a chunk's that was cut
from the plaintext at the place its nonce names. `FetchInv`: storage drops, repeats and exchanges such
bytes but makes none, so what the reader holds is genuine whatever their order. `OpenInv`: what
was opened is a beginning of the plaintext, `index` chunks long, and a reader
whose key is the sealer's has an unaltered envelope. A
chunk opens only under the key, counter and final flag it was sealed with
(`OpensGenuine`), so the next one opened is the next slice, and the last one is the
plaintext's end. The second half of `OpenInv` is about the
envelope. A slot accepted by trial decryption gives a content key whose MAC over the transcript
stands in the envelope (`MatchStands`, through the scan of secrets and the fold of
acceptances); the transcript determines every member of the envelope and the hashes
(`SlotsBound`), and so does the passphrase commitment (`PassphraseBound`), so an altered one
leads to another payload key, under which no genuine chunk opens.

`SameAsBufferedAlways`: `SameAsBuffered`, from `FormatInv` beside the invariant above. While sealing,
what was emitted is the commitment and the first `index` chunks of `streamSeal`
(`SealForm`); while opening, what was opened is the first `index` results of `streamOpen` on
the blob, none of which failed (`OpenForm`). Both rest on `HoldsAt`: behind the blocks handed on,
what the rechunker and the source hold is the rest of the bytes, in order, and a block that
is handed on before the last has more bytes behind it. `CutIs` and `CutGives` connect the two descriptions of the grid: a `Block` that the
rechunker hands on is the chunk that `Cut` has at its place, the last exactly when the rechunker
says final. `Upto` names what flattening has put together after k chunks, so that a step is one
concatenation (`UptoNext`), and the stream a call seals cuts back into its own chunks (`StreamIs`).
That the fold behind `FlattenSeq` has a value is shown by a least counterexample.
For the last claim, that a holder of the key opens what was stored unaltered, `FormatInv` needs that the
right secret leads to the sealer's payload key. `RecipientMatches` follows the trial
decryption: a recipient's slot opens to the content key, every other slot that opens opens to
it too, so that the acceptances agree and nothing conflicts. `PassphraseMatches` is its like for a passphrase,
and also that the commitment compares equal.

Besides ideal primitives these rest on `StorageAssumption`, which TLC evaluates
on the run's calls: lists of a call are lists; an envelope that comes back has the members of its type
(as its TypeScript type says, and as `sealedEnvelopeFromParsed` makes it of a record); and storage,
which does not have the content key, makes no MAC under it. It may make one under
any other key, so an envelope re-sealed by somebody else is covered. The shuffle
of the slots is a permutation (that is what a Fisher-Yates exchange makes), the parameters of a passphrase call are
`m`, `t` and `p`, and no ephemeral secret has a low-order public key: a clamped x25519 scalar has none.

**`RecordValidatorProofs`.** `ValidatedRecord` is about `validatePoeRecord` on any data: sorting loses no
issue, the result is valid exactly when no stage left an error, and a
valid record decodes, has the schema's shape, and has as only issues the two codes for
what this implementation does not know (`Opaque`). Each check's result is shown to be `Sound`: a finite set of issues
that are errors, or of a tolerated code, or that come with an error (the issue without a code of section 5). Finiteness is what makes the list that is sorted
exist; it comes from the schema, because an issue's path can only name a field or a
position that the finite record has. That `sortIssues` and `Subsequence`, which are recursive functions, have a value
at all is shown by a least counterexample (`Least`), since induction over a predicate is not to be had.
Most later lemmas rest on this module, and `MapShape`, `EntryShape` and `UrisShape` are
its other half: what a map without schema issues looks like.

**`VerifierProofs`.** `EveryStepAdvancesThm`: `EveryStepAdvances`, from `PlaceInv`, which says no more than that
phase, explorer and cursor are in their ranges; the proof has one lemma per action, naming
the first part of the position that grows. With the absence of deadlocks, which TLC checks, it
is why a run ends. `ResolutionPrecedenceHolds`: `ResolutionPrecedence`. `TrailInv` types the audit trail by what explorers and
gateways may answer, and `ChainInv` ties the loop's bookkeeping to it: the explorer consulted
is the number of calls for the transaction so far, `mismatch` is set exactly when one of them
was answered with other bytes, `notFound` exactly when one denied the
transaction. The trail counts its calls up to a place (`Asks`), so most of the work is what an answer
more does to each count and set (`LongerTrail`, `LongerAsks`, `LongerNegative`).
`JudgedIsGenuineHolds`: `JudgedIsGenuine`. `GenuineInv` carries from the binding of the served bytes (`Bound`: they are bound exactly
when body and metadata are those that were asked for) through height and depth to the record and the
report; that a witness listed as valid signed the genuine body is `ListedWitnesses`.

**`VerifierClaimsProofs`.** `ValidIsEarnedHolds`: `ValidIsEarned`. `ClaimsInv` follows the cursor: the claims before it are settled, the one under it is
one that needs its sources, and as long as no error was noted every settled claim is `Settled`, that is
checked, or an item without a source, or a commitment whose leaves were not to be had. A blob gives a
checked claim, an error or a warning against its provider (`BlobVerdict`, over both decryption paths), and a claim
that runs out of sources an error unless it is a commitment. At
the end the floor of `verify.ts` makes missing leaves an error when no claim at all was checked,
and so a valid verdict has what the property asks. `SkipsNoted` holds
because `OUT_OF_PROFILE_SKIPPED` comes from `planProfileSkips` only: every other issue of a run is shown to be of another code.
Of commitments, which no skip is told of, `LeavesLookedInto` shows that one is left `not_checked` only if a source was over a limit or
unavailable, as long as there was anything to look into (`Sought` in `ClaimsInv`).
`DecryptOnlyValidatedHolds`: `DecryptOnlyValidated`. That the strict reading of the validator entails each test of `unwrap.ts` and
`passphrase.ts` is a lemma per test (`Scheme1Fields`, `SlotFields`, `PassphraseFields`, `CipherKnown`), put together in
`CleanEnvelope`. Two are not a copy of each other. The validator bounds the encoded size of the envelope and
the decrypting code the bytes of nonce, MAC and slots added up: `SlotsFit` derives the second from the first, since the slots are encoded
in the envelope, each of them with its KEM's ciphertext and its wrapped key. And the
validator works on what was decoded, the decrypting code on an envelope rebuilt from it (`sealedEnvelopeFromParsed`).

What these three rest on, each evaluated by TLC on the run's calls. `GenuineAssumption`: the hash asked for is that of a
transaction (`genuine`, which no code sees). `WitnessAssumption`: the witnesses that an
explorer's bytes decode to are a list; they come from a decoder that returns an array. `CallAssumption`: a call's profile is one of the
four, and its credentials are a list, as their TypeScript types say. `DataAssumption`: what a decoder returns is
finite and closed under taking parts. `EncodingAssumption`: a byte string's encoding is at least as long as
the string, an array's as its elements', and a map's as any three of its fields', which CBOR
gives for free; it is weaker than what `CborCodec` computes.

**What stays with TLC.** Liveness under fairness (`EveryCallSettles`,
`TerminalSettles`, `SettledWaitEndsLoop`, `CallSettles`) and anything about
`ENABLED` are out of the prover's reach. Four invariants are model-checked only:

- `PreparedSealStands` compares a document's canonical text, a record's size and its estimate, all of which are
  recursions over data. Its module is only used with `CborCodec`.
- `LeavesProvable` is about Merkle paths of every length: induction over the tree.
- `NetworkNeverCondemns` speaks of `honest` and `good`, by which a call says which contents keep the record's promises.
  For every value of the constants this would have to be an assumption about every hash,
  signature and decryption the record asks for, and that assumption would be most of the property.
- `FixturesPinned` is about particular records and has no general form.


## 7. What is not modelled

Components with status `not_modelled` in `PROJECT.json`, with their reasons.
Identities and key derivation are arithmetic on a seed's bytes; identifiers are pure
encodings; the gateway client makes single requests and keeps no state; the resumable
source only reads; the conformance command is a harness. Cryptographic primitives are
ideal, so nothing is said of their implementations, of timing or of constant-time
folding; the NFKC tables are generated, and only the outcomes of `normalizePassphrase`
are modelled.

Inside the modelled components: time is abstract (timers fire at some moment), as are
clocks, so the overflow of `setTimeout` for very long delays and a skewed client clock are
not covered; both are listed as hazards with that note. A negative `config.retries` of
the outbound guard is outside its assumption. The 88-bit chunk counter of a sealed
stream does not overflow. The digest that an upload declares stands for the size measured when it starts
(`StartFresh`); the code measures first and hashes later (`resumable-upload.ts:427`, `:527`), so that a file that grows in between declares
the longer content's digest with the shorter total, which only the gateway can notice. A file that grows
after that is modelled. Of an inclusion certificate, the ISO form of the block time (`build.ts:220`) and the
informational `leavesListUri` and `leavesListUrl` (`build.ts:235-236`) are left out: nothing is computed from them. Decoding of bytes into CBOR items, and of JSON, hex, base64url
and bech32 texts, is external or abstracted to what it decides. The storage side of a
quote (the sum of ciphertext lengths) is left out. `publishContent` and
`publishPrehashed` are followed to their record and not to the single request they make
with it; the one-call wrappers of sealed publishing only chain what is modelled.
