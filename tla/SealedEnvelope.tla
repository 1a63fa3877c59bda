---------------------------- MODULE SealedEnvelope ----------------------------
(***************************************************************************)
(* The sealed-content construction of crypto-core/src/sealed-poe: wrapping *)
(* a content key for recipients (wrap.ts), trial decryption (unwrap.ts,    *)
(* slot-acceptance.ts), the transcripts both commit to (transcript.ts) and *)
(* the passphrase path (passphrase.ts, passphrase-normalize.ts).           *)
(*                                                                         *)
(* Primitives are ideal: a derived key or a tag is the term it is derived  *)
(* from, two are equal only when their inputs are, and a ciphertext opens  *)
(* only under its key.  A secret is [who, len]; its public key is the byte *)
(* string with id who.  An envelope is the map the record carries.  The    *)
(* operators return their result, or [error |-> code].                     *)
(***************************************************************************)
EXTENDS CborValues

CONSTANTS MAX_SLOTS, MAX_DECODED_ENVELOPE_BYTES,
          KDF_MEMORY_MAX       \* the memory the host grants to Argon2id
ASSUME EnvelopeAssumption ==
  {MAX_SLOTS, MAX_DECODED_ENVELOPE_BYTES, KDF_MEMORY_MAX} \subseteq Nat

SEALED_POE_AEAD == "chacha20-poly1305-stream64k"
CEK_LENGTH == 32
NONCE_LENGTH == 24
WRAP_LENGTH == 48
SLOTS_MAC_LENGTH == 32
(* The two KEMs: public key, slot field and its length, length error.      *)
KEM == [x25519 |-> [pub |-> 32, field |-> "epk", len |-> 32,
                    code |-> "KEM_EPK_LENGTH_MISMATCH"],
        mlkem768x25519 |-> [pub |-> 1216, field |-> "kem_ct", len |-> 1120,
                            code |-> "KEM_CT_LENGTH_MISMATCH"]]

Failure(code) == [error |-> code]
Failed(r) == "error" \in DOMAIN r
(* The code of the first failing row of <<fails, code>> pairs, or "ok".    *)
FirstFailing(rows) ==
  LET bad == {i \in DOMAIN rows : rows[i][1]} IN
  IF bad = {} THEN "ok" ELSE rows[Min(bad)][2]

-----------------------------------------------------------------------------
(* transcript.ts                                                           *)

itemHashesHash(hashes) ==
  IF Keys(hashes) = {} THEN Failure("ENC_REQUIRES_CONTENT_HASH") ELSE [hashes |-> hashes]

(* Two keys of each slot only, whatever else the caller's object carries.  *)
computeSlotsHash(aead, kem, nonce, slots, hashesHash) ==
  LET Closed(s) == << Get(s, KEM[kem].field), Get(s, "wrap") >> IN
  [path |-> "slots", aead |-> aead, kem |-> kem, nonce |-> nonce,
   slots |-> [i \in DOMAIN slots |-> Closed(slots[i])], hashes_hash |-> hashesHash]
computePassphraseHash(aead, nonce, hashesHash, salt, params) ==
  [path |-> "passphrase", aead |-> aead, nonce |-> nonce, hashes_hash |-> hashesHash,
   salt |-> salt, params |-> params]
Tag(info, cek, message) ==
  [t |-> "bytes", len |-> 32, info |-> info, cek |-> cek, over |-> message]
computeSlotsMac(cek, slotsHash) == Tag("slots-mac", cek, slotsHash)
computePassphraseCommitment(cek, pwHash) == Tag("passphrase-mac", cek, pwHash)

payloadKey(info, cek, nonce) == [info |-> info, cek |-> cek, nonce |-> nonce]
slotsPayloadKey(cek, nonce) == payloadKey("payload", cek, nonce)
passphrasePayloadKey(cek, nonce) == payloadKey("payload-passphrase", cek, nonce)

x25519KekSalt(nonce, epk, pubR) == << "x25519-kek-salt", nonce, epk, pubR >>
xwingKekSalt(nonce, kemCt, pubR) == << "xwing-kek-salt", nonce, kemCt, pubR >>

-----------------------------------------------------------------------------
(* Primitives.                                                             *)

x25519PublicKey(secret) == [t |-> "bytes", len |-> 32, id |-> secret.who]
xwingPublicKey(secret) == [t |-> "bytes", len |-> 1216, id |-> secret.who]
LowOrder == [zero |-> TRUE]           \* the all-zero shared secret
x25519Ecdh(who, their) ==
  IF their = "low-order" THEN LowOrder ELSE [dh |-> {who, their}]
KemCt(to, eseed) == [t |-> "bytes", len |-> 1120, to |-> to, eseed |-> eseed]
(* Decapsulation of anything but one's own ciphertext rejects implicitly.  *)
mlkem768x25519Decapsulate(who, ct) ==
  IF "to" \in DOMAIN ct /\ ct.to = who THEN [to |-> who, eseed |-> ct.eseed]
  ELSE [reject |-> who, ct |-> ct]
hkdf(ikm, salt) == [ikm |-> ikm, salt |-> salt]
Wrapped(kek, cek) == [t |-> "bytes", len |-> cek.len + 16, kek |-> kek, cek |-> cek]
wrapOpens(kek, wrap) == "kek" \in DOMAIN wrap /\ wrap.kek = kek /\ wrap.cek.len = CEK_LENGTH

(* The content stream as a whole; SealedStream has it chunk by chunk.      *)
Streamed(key, plaintext) == [sealed |-> key, plain |-> plaintext]
StreamOpens(key, ciphertext) ==
  "sealed" \in DOMAIN ciphertext /\ ciphertext.sealed = key

-----------------------------------------------------------------------------
(* wrap.ts                                                                 *)

(* An index below m from the words a random source gives: one in the last, *)
(* partial block of residues is drawn again.  The words left come back too.*)
uniformIndexBelow(m, words) ==
  LET limit == UINT32_MAX + 1 - ((UINT32_MAX + 1) % m)
      k == Min({i \in DOMAIN words : words[i] < limit}) IN
  [index |-> words[k] % m, rest |-> SubSeq(words, k + 1, Len(words))]

wrapSlotX25519(pubR, privEph, cek, nonce) ==
  LET epk == [t |-> "bytes", len |-> 32, eph |-> privEph.who]
      shared == x25519Ecdh(privEph.who, pubR.id)
      kek == hkdf(shared, x25519KekSalt(nonce, epk, pubR)) IN
  IF privEph.len # 32 THEN Failure("INVALID_EPHEMERAL_SECRET_LENGTH")
  ELSE IF shared = LowOrder THEN Failure("X25519_LOW_ORDER_POINT")
  ELSE Map([epk |-> epk, wrap |-> Wrapped(kek, cek)])
wrapSlotMlkem768X25519(pubR, eseed, cek, nonce) ==
  LET ct == KemCt(pubR.id, eseed.who)
      kek == hkdf([to |-> pubR.id, eseed |-> eseed.who], xwingKekSalt(nonce, ct, pubR)) IN
  Map([kem_ct |-> ct, wrap |-> Wrapped(kek, cek)])

(* args.fresh: the ephemeral secret or the encapsulation seed each slot    *)
(* uses; ephemeralSecrets and eseeds: how many the caller overrides, -1    *)
(* for none; args.order: the permutation the shuffle draws.                *)
buildSealedEnvelope(args) ==
  LET hashesHash == itemHashesHash(args.hashes)
      pubs == args.recipientPublicKeys
      classical == args.kem = "x25519"
      own == IF classical THEN args.ephemeralSecrets ELSE args.eseeds
      foreign == IF classical THEN args.eseeds ELSE args.ephemeralSecrets
      rejected == FirstFailing(
        << << Failed(hashesHash), "ENC_REQUIRES_CONTENT_HASH" >>,
           << pubs = << >>, "ENC_SLOTS_EMPTY" >>,
           << \E i \in DOMAIN pubs : pubs[i].len # KEM[args.kem].pub,
              "KEM_EPK_LENGTH_MISMATCH" >>,
           << foreign # -1 \/ own \notin {-1, Len(pubs)},
              "EPHEMERAL_SECRETS_COUNT_MISMATCH" >>,
           << ~classical /\ \E i \in DOMAIN pubs : args.fresh[i].len # 64,
              "INVALID_EPHEMERAL_SECRET_LENGTH" >>,
           << args.cek.len # CEK_LENGTH, "INVALID_CEK_LENGTH" >>,
           << args.nonce.len # NONCE_LENGTH, "NONCE_LENGTH_MISMATCH" >> >>)
      Slot(i) == IF classical
                 THEN wrapSlotX25519(pubs[i], args.fresh[i], args.cek, args.nonce)
                 ELSE wrapSlotMlkem768X25519(pubs[i], args.fresh[i], args.cek, args.nonce)
      wrapped == [i \in DOMAIN pubs |-> Slot(i)]
      slots == [i \in DOMAIN pubs |-> wrapped[args.order[i]]]
      mac == computeSlotsMac(args.cek, computeSlotsHash(SEALED_POE_AEAD, args.kem,
                                         args.nonce, slots, hashesHash)) IN
  IF rejected # "ok" THEN Failure(rejected)
  ELSE IF \E i \in DOMAIN pubs : Failed(wrapped[i])
  THEN wrapped[Min({i \in DOMAIN pubs : Failed(wrapped[i])})]
  ELSE [envelope |-> Map([scheme |-> Num(1), aead |-> Text(SEALED_POE_AEAD),
                          kem |-> Text(args.kem), nonce |-> args.nonce,
                          slots |-> Arr(slots), slots_mac |-> mac]),
        payloadKey |-> slotsPayloadKey(args.cek, args.nonce)]

eciesSealedPoeWrap(args, plaintext) ==
  LET built == buildSealedEnvelope(args) IN
  IF Failed(built) THEN built
  ELSE [envelope |-> built.envelope,
        ciphertext |-> Streamed(built.payloadKey, plaintext)]

(* The envelope of a record read back; Missing when it has no slots path.  *)
sealedEnvelopeFromParsed(enc) ==
  LET slots == Elems(Get(enc, "slots"))
      kem == Get(enc, "kem")
      complete ==
        /\ Get(enc, "scheme") = Num(1) /\ Get(enc, "aead") = Text(SEALED_POE_AEAD)
        /\ {"nonce", "slots_mac"} \subseteq Keys(enc)
        /\ slots # << >>
        /\ TextIn(kem, DOMAIN KEM)
        /\ \A i \in DOMAIN slots : {KEM[kem.s].field, "wrap"} \subseteq Keys(slots[i]) IN
  IF complete THEN enc ELSE Missing

-----------------------------------------------------------------------------
(* unwrap.ts: the secrets that apply to an envelope's KEM, every check on  *)
(* lengths before any key is touched, then one pass per secret.            *)

selectBundleSecrets(envelope, bundle) ==
  IF Get(envelope, "kem") = Text("x25519") THEN bundle.x25519 ELSE bundle.mlkem768x25519

assertEnvelopeStructure(envelope, secrets) ==
  LET slots == Elems(Get(envelope, "slots"))
      kem == KEM[Get(envelope, "kem").s]
      Material(i) == Get(slots[i], kem.field)
      Slot(i) == FirstFailing(
        << << Material(i).len # kem.len, kem.code >>,
           << Get(slots[i], "wrap").len # WRAP_LENGTH, "WRAP_LENGTH_MISMATCH" >>,
           << \E j \in 1..(i - 1) : Material(j) = Material(i),
              "ENC_SLOTS_DUPLICATE_KEM_MATERIAL" >> >>)
      badSlots == {i \in DOMAIN slots : Slot(i) # "ok"}
      decodedBytes == NONCE_LENGTH + SLOTS_MAC_LENGTH
                        + Len(slots) * (kem.len + WRAP_LENGTH)
      header == FirstFailing(
        << << Get(envelope, "scheme") # Num(1), "UNSUPPORTED_ENVELOPE_SCHEME" >>,
           << Get(envelope, "aead") # Text(SEALED_POE_AEAD), "UNSUPPORTED_AEAD_ALG" >>,
           << ~TextIn(Get(envelope, "kem"), DOMAIN KEM), "UNSUPPORTED_KEM_ALG" >>,
           << slots = << >>, "ENC_SLOTS_EMPTY" >>,
           << Len(slots) > MAX_SLOTS, "ENC_SLOTS_TOO_MANY" >>,
           << Get(envelope, "nonce").len # NONCE_LENGTH, "NONCE_LENGTH_MISMATCH" >>,
           << Get(envelope, "slots_mac").len # SLOTS_MAC_LENGTH,
              "ENC_SLOTS_MAC_INVALID_LENGTH" >> >>) IN
  IF header # "ok" THEN header
  ELSE IF badSlots # {} THEN Slot(Min(badSlots))
  ELSE FirstFailing(
        << << decodedBytes > MAX_DECODED_ENVELOPE_BYTES, "ENC_ENVELOPE_TOO_LARGE" >>,
           << \E k \in DOMAIN secrets : secrets[k].len # 32, "INVALID_RECIPIENT_KEY" >> >>)

(* One slot under one secret: [ok, cek].  The wrap is attempted under a    *)
(* dummy key when the exchange fails, and never accepted then; a slot that *)
(* does not open yields a fixed dummy.                                     *)
DUMMY_CEK_32 == [t |-> "bytes", len |-> 32, id |-> "zero"]
wrapOpenOrDummy(kek, wrap) ==
  IF wrapOpens(kek, wrap) THEN [ok |-> TRUE, cek |-> wrap.cek]
  ELSE [ok |-> FALSE, cek |-> DUMMY_CEK_32]
tryX25519Slot(slot, nonce, secret) ==
  LET epk == Get(slot, "epk")
      shared == x25519Ecdh(secret.who, epk.eph)
      kek == hkdf(shared, x25519KekSalt(nonce, epk, x25519PublicKey(secret)))
      opened == wrapOpenOrDummy(kek, Get(slot, "wrap")) IN
  [opened EXCEPT !.ok = @ /\ shared # LowOrder]
tryMlkem768X25519Slot(slot, nonce, secret) ==
  LET ct == Get(slot, "kem_ct") IN
  wrapOpenOrDummy(hkdf(mlkem768x25519Decapsulate(secret.who, ct),
                       xwingKekSalt(nonce, ct, xwingPublicKey(secret))), Get(slot, "wrap"))

acceptsSlot(slot, mac, slotsHash) == slot.ok /\ computeSlotsMac(slot.cek, slotsHash) = mac

newSlotAcceptanceState == [found |-> FALSE, conflict |-> FALSE, cek |-> DUMMY_CEK_32, idx |-> 0]
foldSlotAcceptance(state, ok, cek, i) ==
  LET first == ok /\ ~state.found IN
  [found |-> state.found \/ ok,
   conflict |-> state.conflict \/ (ok /\ state.found /\ cek # state.cek),
   cek |-> IF first THEN cek ELSE state.cek,
   idx |-> IF first THEN i ELSE state.idx]

(* What a pass leaves: the acceptance, and whether any slot opened.        *)
PrivPassResult(state, anyOpened) ==
  [found |-> state.found, conflict |-> state.conflict, cek |-> state.cek, idx |-> state.idx,
   anyOpened |-> anyOpened]
FoldedAcceptance(accepted, ceks) ==
  LET state[i \in 0..Len(ceks)] ==
        IF i = 0 THEN newSlotAcceptanceState
        ELSE foldSlotAcceptance(state[i - 1], accepted[i], ceks[i], i)
  IN state[Len(ceks)]

runPrivPass(envelope, secret, slotsHash) ==
  LET slots == Elems(Get(envelope, "slots"))
      nonce == Get(envelope, "nonce")
      tried == [i \in DOMAIN slots |->
                  IF Get(envelope, "kem") = Text("x25519")
                  THEN tryX25519Slot(slots[i], nonce, secret)
                  ELSE tryMlkem768X25519Slot(slots[i], nonce, secret)]
      accepted == [i \in DOMAIN slots |->
                     acceptsSlot(tried[i], Get(envelope, "slots_mac"), slotsHash)] IN
  PrivPassResult(FoldedAcceptance(accepted, [i \in DOMAIN slots |-> tried[i].cek]),
       \E i \in DOMAIN slots : tried[i].ok)

slotsHashBytes(envelope, hashes) ==
  computeSlotsHash(Get(envelope, "aead").s, Get(envelope, "kem").s, Get(envelope, "nonce"),
                   Elems(Get(envelope, "slots")), itemHashesHash(hashes))

(* keys: [secrets] (one or a list of them) or [bundle].  The scan stops at *)
(* the first secret that found a slot: its pass, or NoPass.                *)
NoPass(anyOpened) == PrivPassResult(newSlotAcceptanceState, anyOpened)
FirstHit(passes) ==
  LET hits == {k \in DOMAIN passes : passes[k].found} IN
  IF hits # {} THEN passes[Min(hits)]
  ELSE NoPass(\E k \in DOMAIN passes : passes[k].anyOpened)
ScanWith(envelope, slotsHash, secrets) ==
  FirstHit([k \in DOMAIN secrets |-> runPrivPass(envelope, secrets[k], slotsHash)])
ScanSecrets(envelope, hashes, secrets, structure) ==
  IF structure # "ok" THEN Failure(structure)
  ELSE IF Failed(itemHashesHash(hashes)) THEN itemHashesHash(hashes)
  ELSE ScanWith(envelope, slotsHashBytes(envelope, hashes), secrets)
Scan(envelope, hashes, keys) ==
  LET bundled == "bundle" \in DOMAIN keys
      secrets == IF bundled THEN selectBundleSecrets(envelope, keys.bundle) ELSE keys.secrets IN
  IF secrets = << >>
  THEN IF bundled THEN NoPass(FALSE) ELSE Failure("INVALID_RECIPIENT_KEY")
  ELSE ScanSecrets(envelope, hashes, secrets, assertEnvelopeStructure(envelope, secrets))

NoMatch(reason) == [matched |-> FALSE, reason |-> reason]
UnwrapWith(pass, envelope, ciphertext) ==
  IF Failed(pass) THEN pass
  ELSE IF pass.conflict THEN NoMatch("TAMPERED_HEADER")
  ELSE IF ~pass.found
  THEN NoMatch(IF pass.anyOpened THEN "TAMPERED_HEADER" ELSE "WRONG_RECIPIENT_KEY")
  ELSE IF StreamOpens(slotsPayloadKey(pass.cek, Get(envelope, "nonce")), ciphertext)
  THEN [matched |-> TRUE, plaintext |-> ciphertext.plain]
  ELSE NoMatch("TAMPERED_CIPHERTEXT")
eciesSealedPoeUnwrap(envelope, ciphertext, hashes, keys) ==
  UnwrapWith(Scan(envelope, hashes, keys), envelope, ciphertext)

TrialResult(pass) ==
  IF Failed(pass) THEN pass
  ELSE IF pass.found /\ ~pass.conflict
  THEN [kind |-> "match", slotIdx |-> pass.idx, cek |-> pass.cek]
  ELSE [kind |-> "no_match"]
eciesSealedPoeTrialDecrypt(envelope, hashes, keys) == TrialResult(Scan(envelope, hashes, keys))

-----------------------------------------------------------------------------
(* The passphrase path.  A passphrase is [bytes, norm]: its raw length and *)
(* what it normalises to, "unassigned" and "" standing for the two ways    *)
(* that fails.                                                             *)

MAX_PASSPHRASE_INPUT_BYTES == 4096
normalizePassphrase(p) ==
  IF p.bytes > MAX_PASSPHRASE_INPUT_BYTES THEN Failure("PASSPHRASE_INPUT_TOO_LONG")
  ELSE IF p.norm = "unassigned" THEN Failure("ENC_PASSPHRASE_UNNORMALIZABLE")
  ELSE IF p.norm = "" THEN Failure("ENC_PASSPHRASE_EMPTY") ELSE [norm |-> p.norm]

(* Parameters and salt of a seal as of an open; the widths before floors.  *)
assertUint32(n) == n \in 0..UINT32_MAX
assertPassphraseBlock(salt, params, nonce) ==
  LET Below(floor) == \E f \in DOMAIN floor : params[f] < floor[f] IN
  FirstFailing(
    << << nonce.len # NONCE_LENGTH, "NONCE_LENGTH_MISMATCH" >>,
       << salt.len < 16, "ENC_PASSPHRASE_SALT_TOO_SHORT" >>,
       << salt.len > 64, "ENC_PASSPHRASE_SALT_TOO_LONG" >>,
       << \E f \in DOMAIN params : ~assertUint32(params[f]), "INVALID_PASSPHRASE_PARAMS" >>,
       << Below([m |-> 65536, t |-> 3, p |-> 1]),
          "ENC_PASSPHRASE_ARGON2_PARAMS_TOO_LOW" >> >>)

argon2Cek(password, salt, params) ==
  IF params.m > KDF_MEMORY_MAX THEN Failure("KDF_DERIVATION_FAILED")
  ELSE [t |-> "bytes", len |-> CEK_LENGTH, password |-> password, salt |-> salt,
        params |-> params]
ParamsOf(envelope) ==
  LET params == Get(Get(envelope, "passphrase"), "params").m IN
  [f \in {"m", "t", "p"} |-> params[f].n]
SaltOf(envelope) == Get(Get(envelope, "passphrase"), "salt")

commitmentFor(envelope, cek, hashesHash) ==
  computePassphraseCommitment(cek,
    computePassphraseHash(Get(envelope, "aead"), Get(envelope, "nonce"), hashesHash,
                          SaltOf(envelope), ParamsOf(envelope)))

(* A blob is the commitment, then the stream.                              *)
Blobbed(commitment, stream) == [commitment |-> commitment, stream |-> stream]

passphraseSealedPoeSeal(args, plaintext) ==
  LET block == assertPassphraseBlock(args.salt, args.params, args.nonce)
      hashesHash == itemHashesHash(args.hashes)
      password == normalizePassphrase(args.passphrase)
      cek == argon2Cek(password, args.salt, args.params)
      envelope == Map([scheme |-> Num(1), aead |-> Text(SEALED_POE_AEAD),
                       nonce |-> args.nonce,
                       passphrase |-> Map([alg |-> Text("argon2id"), salt |-> args.salt,
                         params |-> Map([f \in {"m", "t", "p"} |-> Num(args.params[f])])])])
  IN
  IF block # "ok" THEN Failure(block)
  ELSE IF Failed(hashesHash) THEN hashesHash
  ELSE IF Failed(password) THEN password
  ELSE IF Failed(cek) THEN cek
  ELSE [envelope |-> envelope,
        blob |-> Blobbed(commitmentFor(envelope, cek, hashesHash),
                         Streamed(passphrasePayloadKey(cek, args.nonce), plaintext))]

(* The caller's input is judged before the blob, in a pinned order; a blob *)
(* below 48 bytes (one that is no Blobbed) before the derivation.          *)
openInput(envelope, passphrase, hashes) ==
  LET shape == FirstFailing(
        << << Get(envelope, "scheme") # Num(1), "UNSUPPORTED_ENVELOPE_SCHEME" >>,
           << Get(envelope, "aead") # Text(SEALED_POE_AEAD), "UNSUPPORTED_AEAD_ALG" >>,
           << Get(Get(envelope, "passphrase"), "alg") # Text("argon2id"),
              "ENC_PASSPHRASE_ALG_UNSUPPORTED" >> >>) IN
  IF Failed(itemHashesHash(hashes)) THEN itemHashesHash(hashes).error
  ELSE IF Failed(normalizePassphrase(passphrase)) THEN normalizePassphrase(passphrase).error
  ELSE IF shape # "ok" THEN shape
  ELSE assertPassphraseBlock(SaltOf(envelope), ParamsOf(envelope), Get(envelope, "nonce"))
OpenWith(cek, envelope, blob, hashes) ==
  IF Failed(cek) THEN cek
  ELSE IF /\ commitmentFor(envelope, cek, itemHashesHash(hashes)) = blob.commitment
          /\ StreamOpens(passphrasePayloadKey(cek, Get(envelope, "nonce")), blob.stream)
  THEN [matched |-> TRUE, plaintext |-> blob.stream.plain] ELSE NoMatch("TAMPERED_CIPHERTEXT")
passphraseSealedPoeOpen(envelope, blob, passphrase, hashes) ==
  IF openInput(envelope, passphrase, hashes) # "ok"
  THEN Failure(openInput(envelope, passphrase, hashes))
  ELSE IF "commitment" \notin DOMAIN blob THEN NoMatch("TAMPERED_CIPHERTEXT")
  ELSE OpenWith(argon2Cek(normalizePassphrase(passphrase), SaltOf(envelope), ParamsOf(envelope)),
                envelope, blob, hashes)
=============================================================================
