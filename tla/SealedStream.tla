------------------------------ MODULE SealedStream ------------------------------
(***************************************************************************)
(* Streaming seal and open (crypto-core/src/sealed-poe): a source hands    *)
(* over bytes in pieces of any size, rechunk.ts cuts them to the chunk     *)
(* grid with one block of lookahead, stream.ts seals or opens each chunk,  *)
(* and stream-seal.ts and passphrase.ts drive both.  In between, whoever   *)
(* stores the envelope and the blob may alter either.  The caller may      *)
(* abort, the source may fail, the consumer may stop.                      *)
(*                                                                         *)
(* A plaintext is a sequence of distinct bytes.  A sealed byte is [of, at]: *)
(* the sealed chunk [key, nonce, plain] it belongs to and its place there. *)
(* A call is [path, args, hashes, keys or passphrase, plaintext].          *)
(***************************************************************************)
EXTENDS SealedEnvelope

CONSTANTS CHUNK_SIZE, TAG_SIZE, COMMITMENT_LENGTH,
          StreamCalls,
          PieceSizes,            \* how many bytes a source may hand over at once
          HeaderAttacks(_)       \* what becomes of an envelope in storage
(* An empty piece changes nothing and is left out.                         *)
ASSUME StreamAssumption ==
  {CHUNK_SIZE, TAG_SIZE, COMMITMENT_LENGTH} \cup PieceSizes \subseteq Nat \ {0}

SEALED_CHUNK_SIZE == CHUNK_SIZE + TAG_SIZE
MIN_PASSPHRASE_BLOB_LENGTH == COMMITMENT_LENGTH + TAG_SIZE

VARIABLES call,
          stage,      \* "start", "seal", "stored", "fetched", "lookahead", "kdf", "open", "ended"
          header,     \* the envelope as built, and [envelope, blob] as fetched
          key,        \* the payload key of the direction at work
          source,     \* what the source has yet to hand over
          held,       \* the rechunker: piece, acc, pending, and whether the source ended
          index,      \* ChunkNonce: chunks sealed or opened so far
          body,       \* the sealed bytes
          opened,     \* the plaintext yielded
          outcome,    \* the promise: "unsettled", "matched" or a reason
          end,        \* how the call ended
          blobSource, \* the source of the sealed bytes: "unread", "open", "closed"
          aborted
streamVars == << call, stage, header, key, source, held, index, body, opened, outcome,
                 end, blobSource, aborted >>

NothingHeld == [piece |-> << >>, acc |-> << >>, pending |-> << >>, ended |-> FALSE]
StreamIdle ==
  /\ stage = "start" /\ header = Missing /\ key = Missing
  /\ source = << >> /\ held = NothingHeld /\ index = 0 /\ body = << >> /\ opened = << >>
  /\ outcome = "unsettled" /\ end = "none" /\ blobSource = "unread" /\ aborted = FALSE
StreamInit == call \in StreamCalls /\ StreamIdle

-----------------------------------------------------------------------------
(* stream.ts                                                               *)

(* Mutant: the nonce has a counter and no final flag.                      *)
ChunkNonceUnflagged(counter, final) == [counter |-> counter, final |-> FALSE]
ChunkNonce(counter, final) == [counter |-> counter, final |-> final]

streamSealedLength(n) ==
  n + TAG_SIZE * (IF n = 0 THEN 1 ELSE (n + CHUNK_SIZE - 1) \div CHUNK_SIZE)

SealedChunk(k, nonce, plain) ==
  [i \in 1..(Len(plain) + TAG_SIZE) |->
     [of |-> [key |-> k, nonce |-> nonce, plain |-> plain], at |-> i]]
sealChunk(k, counter, plain, final) ==
  IF \/ ~final /\ Len(plain) # CHUNK_SIZE
     \/ final /\ (Len(plain) > CHUNK_SIZE \/ (Len(plain) = 0 /\ counter > 0))
  THEN Failure("STREAM")
  ELSE [sealed |-> SealedChunk(k, ChunkNonce(counter, final), plain)]
Authentic(k, nonce, chunk) ==
  "of" \in DOMAIN chunk[1] /\ chunk = SealedChunk(k, nonce, chunk[1].of.plain)
openChunk(k, counter, chunk, final) ==
  IF \/ Len(chunk) < TAG_SIZE
     \/ ~final /\ Len(chunk) # SEALED_CHUNK_SIZE
     \/ final /\ (Len(chunk) > SEALED_CHUNK_SIZE \/ (Len(chunk) = TAG_SIZE /\ counter > 0))
     \/ ~Authentic(k, ChunkNonce(counter, final), chunk)
  THEN Failure("TAMPERED_CIPHERTEXT") ELSE [plain |-> chunk[1].of.plain]

(* The whole-buffer pair: every chunk but the last is full, the last is    *)
(* what remains.                                                           *)
Cut(bytes, size) ==
  LET count == IF bytes = << >> THEN 1 ELSE (Len(bytes) + size - 1) \div size IN
  [i \in 1..count |-> SubSeq(bytes, (i - 1) * size + 1,
                             IF i = count THEN Len(bytes) ELSE i * size)]
streamSeal(k, plaintext) ==
  LET chunks == Cut(plaintext, CHUNK_SIZE) IN
  FlattenSeq([i \in DOMAIN chunks |->
                SealedChunk(k, ChunkNonce(i - 1, i = Len(chunks)), chunks[i])])
OpenedChunks(k, chunks) ==
  [i \in DOMAIN chunks |-> openChunk(k, i - 1, chunks[i], i = Len(chunks))]
Joined(results) ==
  IF \E i \in DOMAIN results : Failed(results[i]) THEN Failure("TAMPERED_CIPHERTEXT")
  ELSE [plain |-> FlattenSeq([i \in DOMAIN results |-> results[i].plain])]
streamOpen(k, ciphertext) == Joined(OpenedChunks(k, Cut(ciphertext, SEALED_CHUNK_SIZE)))

-----------------------------------------------------------------------------
(* The first bytes of a sealed call: its envelope, key, and what leads its *)
(* body.                                                                   *)
Commitment(tag) == [i \in 1..COMMITMENT_LENGTH |-> [commitment |-> tag, at |-> i]]
SlotsHeader(built) ==
  IF Failed(built) THEN built
  ELSE [envelope |-> built.envelope, key |-> built.payloadKey, lead |-> << >>]
PassphraseHeader(sealed) ==
  IF Failed(sealed) THEN sealed
  ELSE [envelope |-> sealed.envelope, key |-> sealed.blob.stream.sealed,
        lead |-> Commitment(sealed.blob.commitment)]
SealHeader(c) == IF c.path = "slots" THEN SlotsHeader(buildSealedEnvelope(c.args))
                 ELSE PassphraseHeader(passphraseSealedPoeSeal(c.args, << >>))

(* What a call may be, and an envelope that was stored: it has the members *)
(* of its type and no others, and storage, which has no content key, makes *)
(* no MAC under one.  The shuffle of the slots permutes them, and "low-    *)
(* order" is a public point that no secret has.                            *)
List(s) == s \in Seq(Range(s))
KeyLists(keys) ==
  IF "bundle" \in DOMAIN keys THEN {keys.bundle.x25519, keys.bundle.mlkem768x25519}
  ELSE {keys.secrets}
SlotForm(s) ==
  /\ DOMAIN s.m \in {{"epk", "wrap"}, {"kem_ct", "wrap"}}
  /\ s = Map([k \in DOMAIN s.m |-> s.m[k]])
SlotsForm(m) ==
  /\ m = [scheme |-> m.scheme, aead |-> Text(m.aead.s), kem |-> Text(m.kem.s),
          nonce |-> m.nonce, slots |-> Arr(m.slots.a), slots_mac |-> m.slots_mac]
  /\ List(m.slots.a) /\ \A i \in DOMAIN m.slots.a : SlotForm(m.slots.a[i])
PassphraseForm(m) ==
  LET block == m.passphrase.m IN
  m = [scheme |-> m.scheme, aead |-> Text(m.aead.s), nonce |-> m.nonce,
       passphrase |-> Map([alg |-> block.alg, salt |-> block.salt,
         params |-> Map([f \in {"m", "t", "p"} |-> Num(block.params.m[f].n)])])]
MadeWith(cek, mac) == "cek" \in DOMAIN mac /\ mac.cek = cek
ASSUME StorageAssumption ==
  \A c \in StreamCalls :
    /\ c.path \in {"slots", "passphrase"} /\ List(c.plaintext)
    /\ c.path = "slots" =>
         LET pubs == c.args.recipientPublicKeys IN
         /\ List(pubs) /\ {c.args.order[i] : i \in DOMAIN pubs} = DOMAIN pubs
         /\ \A i \in DOMAIN pubs : c.args.fresh[i].who # "low-order"
         /\ \A list \in KeyLists(c.keys) : List(list)
    /\ c.path = "passphrase" =>
         c.args.params = [f \in {"m", "t", "p"} |-> c.args.params[f]]
    /\ ~Failed(SealHeader(c)) =>
         LET built == SealHeader(c).envelope IN
         \A e \in HeaderAttacks(built) :
           /\ e = Map(e.m)
           /\ c.path = "slots" =>
                /\ SlotsForm(e.m)
                /\ MadeWith(c.args.cek, e.m.slots_mac) => e.m.slots_mac = built.m.slots_mac
           /\ c.path = "passphrase" => PassphraseForm(e.m)

(* A call ends by returning, by an error, or because its consumer stops.   *)
(* for await and the finally of remainingBlob close the source of the blob *)
(* on every one of them, once the source was asked for anything.           *)
EndWith(how, settled) ==
  /\ stage' = "ended" /\ end' = how /\ outcome' = settled
  /\ blobSource' = IF blobSource = "open" THEN "closed" ELSE blobSource
LeavingOpen(how, settled) ==
  stage' = "ended" /\ end' = how /\ outcome' = settled /\ UNCHANGED blobSource
Continue(next) == stage' = next /\ UNCHANGED << outcome, end, blobSource >>

(* sealStream and passphraseSealStream up to the first byte.               *)
sealStream ==
  /\ stage = "start"
  /\ \E built \in {SealHeader(call)} :
       IF aborted THEN EndWith("aborted", outcome) /\ UNCHANGED << header, key, source, body >>
       ELSE IF Failed(built)
       THEN EndWith("rejected", outcome) /\ UNCHANGED << header, key, source, body >>
       ELSE /\ Continue("seal")
            /\ header' = [built |-> built.envelope, envelope |-> built.envelope,
                          blob |-> << >>]
            /\ key' = built.key /\ body' = built.lead /\ source' = call.plaintext
  /\ UNCHANGED << call, held, index, opened, aborted >>

-----------------------------------------------------------------------------
(* rechunkPlaintext and rechunkSealed, and the drive that takes each chunk *)
(* from them.  The consumer may stop at any chunk it is given.             *)

Driving == stage \in {"seal", "open"}
BlockSize == IF stage = "seal" THEN CHUNK_SIZE ELSE SEALED_CHUNK_SIZE
EmitTo(result, next) ==
  IF Failed(result)
  THEN /\ EndWith("threw", IF stage = "open" THEN "TAMPERED_CIPHERTEXT" ELSE outcome)
       /\ UNCHANGED << index, body, opened >>
  ELSE /\ index' = index + 1
       /\ IF stage = "seal" THEN body' = body \o result.sealed /\ UNCHANGED opened
          ELSE opened' = opened \o result.plain /\ UNCHANGED body
       /\ Continue(next) \/ EndWith("stopped", outcome)
Emit(chunk, final, next) ==
  EmitTo(IF stage = "seal" THEN sealChunk(key, index, chunk, final)
         ELSE openChunk(key, index, chunk, final), next)
Quiet == Continue(stage) /\ UNCHANGED << index, body, opened >>
DriveUnchanged == UNCHANGED << call, header, key, aborted >>

(* The abort signal is looked at when a piece arrives, not per chunk.      *)
ReadPiece ==
  /\ Driving /\ held.piece = << >> /\ ~held.ended /\ source # << >>
  /\ IF aborted THEN EndWith("aborted", outcome) /\ UNCHANGED << source, held >>
     ELSE \E n \in {n \in PieceSizes : n =< Len(source)} :
            /\ held' = [held EXCEPT !.piece = SubSeq(source, 1, n)]
            /\ source' = SubSeq(source, n + 1, Len(source))
            /\ stage' = stage /\ UNCHANGED << outcome, end >>
            /\ blobSource' = IF stage = "open" THEN "open" ELSE blobSource
  /\ UNCHANGED << index, body, opened >> /\ DriveUnchanged

(* A block is kept pending until more bytes prove that it is not the last. *)
Take ==
  LET n == Min({BlockSize - Len(held.acc), Len(held.piece)})
      acc == held.acc \o SubSeq(held.piece, 1, n)
      rest == SubSeq(held.piece, n + 1, Len(held.piece)) IN
  /\ Driving /\ held.piece # << >>
  /\ IF Len(acc) < BlockSize
     THEN held' = [held EXCEPT !.piece = rest, !.acc = acc] /\ Quiet
     ELSE /\ held' = [held EXCEPT !.piece = rest, !.acc = << >>, !.pending = acc]
          /\ IF held.pending = << >> THEN Quiet ELSE Emit(held.pending, FALSE, stage)
  /\ UNCHANGED source /\ DriveUnchanged

EndOfSource ==
  /\ Driving /\ held.piece = << >> /\ ~held.ended /\ source = << >>
  /\ IF aborted THEN EndWith("aborted", outcome) /\ UNCHANGED held
     ELSE held' = [held EXCEPT !.ended = TRUE] /\ Continue(stage)
  /\ UNCHANGED << source, index, body, opened >> /\ DriveUnchanged

Tampered ==
  EndWith("threw", "TAMPERED_CIPHERTEXT") /\ UNCHANGED << held, index, body, opened >>
(* The next of the last blocks: a pending one before a short one, then the *)
(* final one; no bytes at all are one empty chunk, or no sealed stream.    *)
Whole == IF stage = "seal" THEN "sealed" ELSE "drained"
(* Mutant: a full last block is followed by an empty final one.            *)
FlushTrailingEmpty ==
  IF held.pending # << >>
  THEN held' = [held EXCEPT !.pending = << >>] /\ Emit(held.pending, FALSE, stage)
  ELSE held' = [held EXCEPT !.acc = << >>] /\ Emit(held.acc, TRUE, Whole)
Flush ==
  IF stage = "open" /\ Len(held.acc) \in 1..(TAG_SIZE - 1) THEN Tampered
  ELSE IF stage = "open" /\ held.acc = << >> /\ held.pending = << >> THEN Tampered
  ELSE IF held.acc # << >> /\ held.pending # << >>
  THEN held' = [held EXCEPT !.pending = << >>] /\ Emit(held.pending, FALSE, stage)
  ELSE held' = NothingHeld /\ Emit(held.acc \o held.pending, TRUE, Whole)
LastBlocks ==
  /\ Driving /\ held.ended
  /\ Flush
  /\ UNCHANGED source /\ DriveUnchanged

(* Asked once more, the drive returns; only then is the outcome settled.   *)
Drained ==
  /\ stage = "drained" /\ EndWith("returned", "matched")
  /\ UNCHANGED << source, held, index, body, opened >> /\ DriveUnchanged

-----------------------------------------------------------------------------
(* Storage: the header, or the body, comes back as it may have become: cut *)
(* short at either end, a block left out, two exchanged, some repeated.    *)
Deliveries(bytes) ==
  LET count == (Len(bytes) + SEALED_CHUNK_SIZE - 1) \div SEALED_CHUNK_SIZE
      EndOf(i) == Min({i * SEALED_CHUNK_SIZE, Len(bytes)})
      Before(i) == SubSeq(bytes, 1, EndOf(i - 1))
      Block(i) == SubSeq(bytes, EndOf(i - 1) + 1, EndOf(i))
      After(i) == SubSeq(bytes, EndOf(i) + 1, Len(bytes)) IN
  {SubSeq(bytes, 1, n) : n \in 0..Len(bytes)}
    \cup {SubSeq(bytes, n, Len(bytes)) : n \in 2..Len(bytes)}
    \cup {Before(i) \o After(i) : i \in 1..count}
    \cup {Before(i) \o Block(i + 1) \o Block(i) \o After(i + 1) : i \in 1..(count - 1)}
    \cup {bytes \o Block(count), Append(bytes, bytes[1]), Block(1) \o bytes}
Store ==
  /\ stage = "sealed" /\ Continue("fetched")
  /\ \/ \E blob \in Deliveries(body) :
          source' = blob /\ header' = [header EXCEPT !.blob = blob]
     \/ \E envelope \in HeaderAttacks(header.built) :
          source' = body /\ header' = [header EXCEPT !.envelope = envelope, !.blob = body]
  /\ held' = NothingHeld /\ index' = 0
  /\ UNCHANGED << body, opened >> /\ UNCHANGED << call, key, aborted >>

(* unwrapStream: the trial decryption runs before an iterable is returned. *)
OpenUnchanged == UNCHANGED << call, header, index, body, opened, aborted >>
unwrapStream ==
  /\ stage = "fetched" /\ call.path = "slots"
  /\ \E trial \in {eciesSealedPoeTrialDecrypt(header.envelope, call.hashes, call.keys)} :
       IF aborted THEN EndWith("aborted", outcome) /\ UNCHANGED key
       ELSE IF Failed(trial) THEN EndWith("rejected", outcome) /\ UNCHANGED key
       ELSE IF trial.kind = "no_match"
       THEN EndWith("returned", "WRONG_RECIPIENT_KEY") /\ UNCHANGED key
       ELSE /\ key' = slotsPayloadKey(trial.cek, Get(header.envelope, "nonce"))
            /\ Continue("open")
  /\ UNCHANGED << source, held >> /\ OpenUnchanged

(* passphraseOpenStream: the caller's input, the lookahead of 48 bytes,    *)
(* the derivation, the commitment, and only then the body.                 *)
passphraseOpenStream ==
  /\ stage = "fetched" /\ call.path = "passphrase"
  /\ IF aborted THEN EndWith("aborted", outcome)
     ELSE IF openInput(header.envelope, call.passphrase, call.hashes) # "ok"
     THEN EndWith("rejected", outcome) ELSE Continue("lookahead")
  /\ UNCHANGED << key, source, held >> /\ OpenUnchanged
Lookahead ==
  /\ stage = "lookahead"
  /\ IF aborted THEN EndWith("aborted", outcome) /\ UNCHANGED << source, held >>
     ELSE IF Len(held.acc) >= MIN_PASSPHRASE_BLOB_LENGTH
     THEN Continue("kdf") /\ UNCHANGED << source, held >>
     ELSE IF source = << >>
     THEN EndWith("returned", "TAMPERED_CIPHERTEXT") /\ UNCHANGED << source, held >>
     ELSE \E n \in {n \in PieceSizes : n =< Len(source)} :
            /\ held' = [held EXCEPT !.acc = @ \o SubSeq(source, 1, n)]
            /\ source' = SubSeq(source, n + 1, Len(source))
            /\ blobSource' = "open" /\ UNCHANGED << stage, outcome, end >>
  /\ UNCHANGED key /\ OpenUnchanged
(* The derivation is the one step that fails without closing the source.   *)
Committed(cek, tag) ==
  SubSeq(held.acc, 1, COMMITMENT_LENGTH) = Commitment(tag)
VerifyCommitment ==
  /\ stage = "kdf"
  /\ \E cek \in {argon2Cek(normalizePassphrase(call.passphrase), SaltOf(header.envelope),
                           ParamsOf(header.envelope))} :
       IF Failed(cek) THEN LeavingOpen("rejected", outcome) /\ UNCHANGED << key, source >>
       ELSE IF Committed(cek, commitmentFor(header.envelope, cek, itemHashesHash(call.hashes)))
       THEN /\ key' = passphrasePayloadKey(cek, Get(header.envelope, "nonce"))
            /\ source' = SubSeq(held.acc, COMMITMENT_LENGTH + 1, Len(held.acc)) \o source
            /\ Continue("open")
       ELSE EndWith("returned", "TAMPERED_CIPHERTEXT") /\ UNCHANGED << key, source >>
  /\ held' = NothingHeld /\ OpenUnchanged

-----------------------------------------------------------------------------
(* The environment.                                                        *)
Abort ==
  /\ stage # "ended" /\ ~aborted /\ aborted' = TRUE
  /\ UNCHANGED << call, stage, header, key, source, held, index, body, opened, outcome,
                  end, blobSource >>
SourceFails ==
  /\ Driving \/ stage = "lookahead"
  /\ held.piece = << >> /\ ~held.ended /\ EndWith("source failed", outcome)
  /\ UNCHANGED << source, held, index, body, opened >> /\ DriveUnchanged
(* The plaintext iterable is never asked for anything.                     *)
NeverDriven ==
  /\ stage = "open" /\ index = 0 /\ held = NothingHeld /\ LeavingOpen("never driven", outcome)
  /\ UNCHANGED << source, held, index, body, opened >> /\ DriveUnchanged
StreamEnded == stage = "ended" /\ UNCHANGED streamVars

StreamNext ==
  \/ sealStream \/ Store \/ unwrapStream \/ passphraseOpenStream \/ Lookahead
  \/ VerifyCommitment
  \/ ReadPiece \/ Take \/ EndOfSource \/ LastBlocks \/ Drained
  \/ Abort \/ SourceFails \/ NeverDriven \/ StreamEnded
StreamSpec == StreamInit /\ [][StreamNext]_streamVars

-----------------------------------------------------------------------------
(* What is opened is a beginning of what was sealed, for this envelope and *)
(* these hashes, whatever storage made of either; "matched" is said only   *)
(* of the whole; and the source of the blob is closed at every end but two *)
(* (a derivation that fails, an iterable that is never asked): the final   *)
(* flag, the counter and the transcripts of stream.ts and transcript.ts.   *)
Altered == header.envelope # header.built \/ call.hashes # call.args.hashes
OnlyWhatWasSealed ==
  /\ IsPrefix(opened, call.plaintext)
  /\ outcome = "matched" => end = "returned" /\ opened = call.plaintext
  /\ (opened # << >> \/ outcome = "matched") => ~Altered
  /\ stage = "ended" /\ blobSource = "open" => end \in {"rejected", "never driven"}

(* The stream and the buffer are one format: whatever the pieces, what is  *)
(* sealed is streamSeal's output and has the length streamSealedLength     *)
(* foretells, what is opened is what streamOpen opens, and a holder of the *)
(* key opens what was stored unaltered (rechunk.ts beside stream.ts).      *)
Lead == IF call.path = "slots" THEN 0 ELSE COMMITMENT_LENGTH
HoldsKey ==
  IF call.path = "passphrase"
  THEN normalizePassphrase(call.passphrase) = normalizePassphrase(call.args.passphrase)
  ELSE LET secrets == IF "bundle" \in DOMAIN call.keys
                      THEN selectBundleSecrets(header.built, call.keys.bundle)
                      ELSE call.keys.secrets IN
       \E k \in DOMAIN secrets :
         {x25519PublicKey(secrets[k]), xwingPublicKey(secrets[k])}
           \cap Range(call.args.recipientPublicKeys) # {}
BufferedOpen == streamOpen(key, SubSeq(header.blob, Lead + 1, Len(header.blob)))
SameAsBuffered ==
  /\ stage = "sealed" =>
       /\ SubSeq(body, Lead + 1, Len(body)) = streamSeal(key, call.plaintext)
       /\ Len(body) = Lead + streamSealedLength(Len(call.plaintext))
  /\ end = "returned" /\ outcome = "matched" => BufferedOpen = [plain |-> opened]
  /\ end = "threw" => outcome = "TAMPERED_CIPHERTEXT" /\ Failed(BufferedOpen)
  /\ end \in {"returned", "threw"} /\ HoldsKey /\ ~Altered /\ header.blob = body =>
       outcome = "matched"
=============================================================================
