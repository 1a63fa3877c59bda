------------------------------ MODULE PreparedSeal ------------------------------
(***************************************************************************)
(* The offline half of sealed publishing (sdk-ts/src/client/sealed.ts): a  *)
(* seal is prepared, leaves the process as a prepared_seal_json_v1         *)
(* document, is kept somewhere, comes back, and is assembled into a record *)
(* with the URIs of its uploads.  Passphrase seals have no document.       *)
(*                                                                         *)
(* A JSON text is [value, form]: what it parses to and how it is written,  *)
(* "canonical", "variant" (spacing, member order, a repeated member, 1.0)  *)
(* or "broken".  A base64url text is [t, b64, strict], a digest's hex text *)
(* [t, hex, lower].  A prepared seal is [kem, items, preparedSha256].      *)
(*                                                                         *)
(* The publications that seal nothing (PublishRecords) are the other       *)
(* preparations: they go straight to their record.                         *)
(***************************************************************************)
EXTENDS PublishRecords

CONSTANTS Preparations,      \* the inputs of a preparation or of a publication
          Locations,         \* sequences of storage URIs
          Replaced,          \* supersedes texts [chars, hex, id], and Missing
          Signers,           \* signers, and NoSigner
          Edits(_)           \* what becomes of a document in storage
VARIABLES preparation, seal, text, restored, assembled
preparedVars == << preparation, seal, text, restored, assembled >>

-----------------------------------------------------------------------------
(* Texts.                                                                  *)

base64urlEncode(bytes) == [t |-> "text", b64 |-> bytes, strict |-> TRUE]
(* No padding, no other alphabet, no set trailing bit.                     *)
base64urlDecode(s) == IF "b64" \in DOMAIN s /\ s.strict THEN s.b64 ELSE Missing
Sha256Hex(of) == [t |-> "text", hex |-> of, lower |-> TRUE]
isLowercaseHex(s) == "hex" \in DOMAIN s /\ s.lower
DecodesTo(s, len) ==
  LET bytes == base64urlDecode(s) IN "len" \in DOMAIN bytes /\ bytes.len = len

canonicalJson(value) == [value |-> stripUndefined(value), form |-> "canonical"]
fingerprintOf(document) == Sha256Hex(canonicalJson(document))

-----------------------------------------------------------------------------
(* Preparation.  draws: the words the rng gives the shuffle.               *)

shuffledOrder(n, draws) ==
  LET Swap(shuffle, i) ==
        LET drawn == uniformIndexBelow(i, shuffle.words)
            j == drawn.index + 1 IN
        [order |-> [shuffle.order EXCEPT ![i] = shuffle.order[j], ![j] = shuffle.order[i]],
         words |-> drawn.rest] IN
  FoldLeft(Swap, [order |-> [i \in 1..n |-> i], words |-> draws],
           [k \in 1..(n - 1) |-> n + 1 - k]).order

toDocument(kem, items) ==
  LET Slot(slot) == Map([k \in Keys(slot) |-> base64urlEncode(slot.m[k])])
      Envelope(env) ==
        Map([scheme |-> Num(1), aead |-> Get(env, "aead"), kem |-> Get(env, "kem"),
             nonce |-> base64urlEncode(Get(env, "nonce")),
             slots |-> Arr([j \in DOMAIN env.m.slots.a |-> Slot(env.m.slots.a[j])]),
             slots_mac |-> base64urlEncode(Get(env, "slots_mac"))])
      Item(item) ==
        Map([item_id |-> item.itemId, ciphertext |-> base64urlEncode(item.ciphertext),
             hashes |-> Slot(item.hashes), envelope |-> Envelope(item.envelope)]) IN
  Map([version |-> Text("prepared_seal_json_v1"), kem |-> Text(kem),
       items |-> Arr([i \in DOMAIN items |-> Item(items[i])])])
newPreparedSeal(kem, items, sha) == [kem |-> kem, items |-> items, preparedSha256 |-> sha]

AlgsOf(call) == resolveHashAlgs({}, call.hashAlgs)
Hashable(call) == AlgsOf(call) \subseteq SUPPORTED_HASH_ALGS
HashesOf(call, i) == Map([alg \in AlgsOf(call) |-> Digest(alg, call.items[i])])
ItemOf(sealed, ciphertext, hashes) ==
  [itemId |-> Sha256Hex(ciphertext), ciphertext |-> ciphertext, hashes |-> hashes,
   envelope |-> sealed.envelope]

(* The rng path draws the secrets in input order and hands recipients and  *)
(* secrets over in wire order; otherwise the wrap shuffles its slots.      *)
WrapArgs(call, kem, i) ==
  LET n == Len(call.recipients)
      order == shuffledOrder(n, call.draws)
      Wire(s) == IF call.rng THEN [k \in 1..n |-> s[order[k]]] ELSE s
      count == IF call.rng THEN n ELSE -1 IN
  [kem |-> kem, hashes |-> HashesOf(call, i),
   recipientPublicKeys |-> Wire(call.recipients), fresh |-> Wire(call.fresh[i]),
   ephemeralSecrets |-> IF kem = "x25519" THEN count ELSE -1,
   eseeds |-> IF kem = "x25519" THEN -1 ELSE count,
   cek |-> call.ceks[i], nonce |-> call.nonces[i],
   order |-> IF call.rng THEN [k \in 1..n |-> k] ELSE order]
AnyFailed(sealed) == \E i \in DOMAIN sealed : Failed(sealed[i])
SealOf(kem, items) == newPreparedSeal(kem, items, fingerprintOf(toDocument(kem, items)))
prepare(call) ==
  LET kem == IF call.kem = "default" THEN "mlkem768x25519" ELSE call.kem
      sealed == [i \in DOMAIN call.items |->
                   eciesSealedPoeWrap(WrapArgs(call, kem, i), call.items[i])] IN
  IF call.items = << >> THEN Failure("NO_ITEMS")
  ELSE IF \/ call.recipients = << >>
          \/ \E i \in DOMAIN call.recipients : call.recipients[i].len # KEM[kem].pub
  THEN Failure("INVALID_RECIPIENT")
  ELSE IF ~Hashable(call) THEN Failure("UNSUPPORTED_HASH_ALG")
  ELSE IF AnyFailed(sealed) THEN Failure("CRYPTO_FAILURE")
  ELSE SealOf(kem, [i \in DOMAIN sealed |->
                      ItemOf(sealed[i], sealed[i].ciphertext, HashesOf(call, i))])

(* Its fingerprint covers the ids of the items, in order, and nothing else.*)
passphraseFingerprint(items) == Sha256Hex([i \in DOMAIN items |-> items[i].itemId])
preparePassphrase(call) ==
  LET sealed == [i \in DOMAIN call.items |->
        passphraseSealedPoeSeal(
          [salt |-> call.salts[i], params |-> call.params, nonce |-> call.nonces[i],
           hashes |-> HashesOf(call, i), passphrase |-> call.passphrase],
          call.items[i])]
      items == [i \in DOMAIN sealed |-> ItemOf(sealed[i], sealed[i].blob, HashesOf(call, i))] IN
  IF call.items = << >> THEN Failure("NO_ITEMS")
  ELSE IF ~Hashable(call) THEN Failure("UNSUPPORTED_HASH_ALG")
  ELSE IF AnyFailed(sealed) THEN Failure("CRYPTO_FAILURE")
  ELSE newPreparedSeal("none", items, passphraseFingerprint(items))

-----------------------------------------------------------------------------
(* The document, out and in.                                               *)

preparedSealToJson(s) ==
  canonicalJson(Map([prepared_sha256 |-> s.preparedSha256] @@ toDocument(s.kem, s.items).m))

StrictObject(v, members) == v.t = "map" /\ Keys(v) \subseteq members
Strings(v, members) == \A k \in members : Get(v, k).t = "text"
SlotWalks(slot) ==
  /\ StrictObject(slot, {"epk", "kem_ct", "wrap"})
  /\ Strings(slot, Keys(slot) \cup {"wrap"})
EnvelopeWalks(env) ==
  /\ StrictObject(env, {"scheme", "aead", "kem", "nonce", "slots", "slots_mac"})
  /\ isUint(Get(env, "scheme"))
  /\ Strings(env, {"aead", "kem", "nonce", "slots_mac"})
  /\ Get(env, "slots").t = "array"
  /\ \A j \in DOMAIN env.m.slots.a : SlotWalks(env.m.slots.a[j])
ItemWalks(item) ==
  /\ StrictObject(item, {"item_id", "ciphertext", "hashes", "envelope"})
  /\ Strings(item, {"item_id", "ciphertext"})
  /\ Get(item, "hashes").t = "map" /\ Strings(item.m.hashes, Keys(item.m.hashes))
  /\ EnvelopeWalks(Get(item, "envelope"))
(* hashes is copied by assignment, which loses a member named __proto__.   *)
Copied(item) ==
  LET hashes == item.m.hashes IN
  Map([hashes |-> Map([k \in Keys(hashes) \ {"__proto__"} |-> hashes.m[k]])] @@ item.m)
walkDocument(raw) ==
  IF /\ StrictObject(raw, {"version", "kem", "items", "prepared_sha256"})
     /\ Strings(raw, {"version", "kem"} \cup (Keys(raw) \cap {"prepared_sha256"}))
     /\ Get(raw, "items").t = "array"
     /\ \A i \in DOMAIN raw.m.items.a : ItemWalks(raw.m.items.a[i])
  THEN Map([items |-> Arr([i \in DOMAIN raw.m.items.a |-> Copied(raw.m.items.a[i])])] @@ raw.m)
  ELSE Failure("PARSE")

(* Mutant: the lengths of the slots are not looked at again.               *)
SlotStandsUnmeasured(slot, kem) == Keys(slot) = {KEM[kem].field, "wrap"}
SlotStands(slot, kem) ==
  /\ Keys(slot) = {KEM[kem].field, "wrap"}
  /\ DecodesTo(Get(slot, KEM[kem].field), KEM[kem].len)
  /\ DecodesTo(Get(slot, "wrap"), WRAP_LENGTH)
ItemStands(item, kem) ==
  LET ciphertext == base64urlDecode(Get(item, "ciphertext"))
      hashes == Get(item, "hashes")
      env == Get(item, "envelope") IN
  /\ ciphertext # Missing
  /\ isLowercaseHex(Get(item, "item_id")) /\ Get(item, "item_id") = Sha256Hex(ciphertext)
  /\ Keys(hashes) # {} /\ \A alg \in Keys(hashes) : DecodesTo(hashes.m[alg], 32)
  /\ Get(env, "scheme") = Num(1) /\ Get(env, "aead") = Text(SEALED_POE_AEAD)
  /\ Get(env, "kem") = Text(kem)
  /\ DecodesTo(Get(env, "nonce"), NONCE_LENGTH)
  /\ DecodesTo(Get(env, "slots_mac"), SLOTS_MAC_LENGTH)
  /\ env.m.slots.a # << >>
  /\ \A j \in DOMAIN env.m.slots.a : SlotStands(env.m.slots.a[j], kem)
decodeItem(item) ==
  LET Bin(v) == Map([k \in Keys(v) |-> base64urlDecode(v.m[k])])
      env == item.m.envelope.m IN
  [itemId |-> Get(item, "item_id"), ciphertext |-> base64urlDecode(Get(item, "ciphertext")),
   hashes |-> Bin(Get(item, "hashes")),
   envelope |-> Map([scheme |-> Num(1), aead |-> env.aead, kem |-> env.kem,
                     nonce |-> base64urlDecode(env.nonce),
                     slots |-> Arr([j \in DOMAIN env.slots.a |-> Bin(env.slots.a[j])]),
                     slots_mac |-> base64urlDecode(env.slots_mac)])]

(* The last gate: whatever the walk lets pass, the text is the one that    *)
(* writing the seal again gives.                                           *)
OnlyCanonical(json, s) ==
  IF json = preparedSealToJson(s) THEN s ELSE Failure("INVALID")
FromDocument(json, document) ==
  LET stored == Get(document, "prepared_sha256")
      bare == Map([k \in Keys(document) \ {"prepared_sha256"} |-> document.m[k]])
      kem == Get(document, "kem")
      items == Elems(Get(document, "items")) IN
  IF Get(document, "version") # Text("prepared_seal_json_v1")
  THEN Failure("UNSUPPORTED_VERSION")
  ELSE IF stored = Missing \/ ~isLowercaseHex(stored) THEN Failure("INVALID")
  ELSE IF fingerprintOf(bare) # stored THEN Failure("FINGERPRINT_MISMATCH")
  ELSE IF \/ ~TextIn(kem, DOMAIN KEM) \/ items = << >>
          \/ \E i \in DOMAIN items : ~ItemStands(items[i], kem.s)
  THEN Failure("INVALID")
  ELSE OnlyCanonical(json, newPreparedSeal(kem.s, [i \in DOMAIN items |-> decodeItem(items[i])],
                                           stored))
Walked(json, document) ==
  IF Failed(document) THEN document ELSE FromDocument(json, document)
preparedSealFromJson(json) ==
  IF json.form = "broken" THEN Failure("PARSE") ELSE Walked(json, walkDocument(json.value))

-----------------------------------------------------------------------------
(* Assembly.                                                               *)

parseSupersedesHex(s) ==
  IF s.chars # 64 \/ ~s.hex THEN Failure("INVALID_SUPERSEDES") ELSE Bytes(32, s.id)
validateAssembledUris(uris) == \A i \in DOMAIN uris : isFetchSetUri(uris[i])
buildRecordEnvelope(env) ==
  LET field == KEM[Get(env, "kem").s].field
      Slot(slot) == Map([k \in {field, "wrap"} |-> slot.m[k]]) IN
  Map([scheme |-> Num(1), slots |-> Arr([j \in DOMAIN env.m.slots.a |-> Slot(env.m.slots.a[j])])]
      @@ [k \in {"aead", "kem", "nonce", "slots_mac"} |-> env.m[k]])
buildPassphraseEnvelope(env) ==
  Map([scheme |-> Num(1), aead |-> Text(SEALED_POE_AEAD), nonce |-> Get(env, "nonce"),
       passphrase |-> Map([alg |-> Text("argon2id"), salt |-> SaltOf(env),
                           params |-> Map([f \in {"m", "t", "p"} |-> Num(ParamsOf(env)[f])])])])
RecordWith(s, envelopes, uris, supersedes) ==
  LET replaced == IF supersedes = Missing THEN Missing ELSE parseSupersedesHex(supersedes) IN
  IF Len(uris) # Len(s.items) THEN Failure("URI_COUNT_MISMATCH")
  ELSE IF ~validateAssembledUris(uris) THEN Failure("INVALID_URI")
  ELSE IF Failed(replaced) THEN replaced
  ELSE Map([v |-> Num(1), supersedes |-> replaced,
            items |-> Arr([i \in DOMAIN s.items |->
              Map([hashes |-> s.items[i].hashes, uris |-> Arr(<< UriText(uris[i]) >>),
                   enc |-> envelopes[i]])])])
Signed(record, signer) ==
  IF ~assertSigner(signer) THEN Failure("INVALID_SIGNER_PUBKEY")
  ELSE IF Failed(record) THEN record ELSE encodeRecord(record, signer)
sealedRecord(s, uris, supersedes) ==
  RecordWith(s, [i \in DOMAIN s.items |-> buildRecordEnvelope(s.items[i].envelope)],
             uris, supersedes)
passphraseSealedRecord(s, uris, supersedes) ==
  RecordWith(s, [i \in DOMAIN s.items |-> buildPassphraseEnvelope(s.items[i].envelope)],
             uris, supersedes)

-----------------------------------------------------------------------------
(* Quotes, asked for before there is a URI or a signature.  Beside them    *)
(* the code sums the ciphertexts' lengths, which the model does not have.  *)

preparedQuoteInput(s, signed, supersedes) ==
  LET Slots(i) == Len(Elems(Get(s.items[i].envelope, "slots")))
      ShapeOf(i) == [hashAlgs |-> Keys(s.items[i].hashes), uris |-> << arweaveUriPlaceholder >>,
                     enc |-> [kind |-> "kem", kem |-> s.kem, recipientCount |-> Slots(i)]] IN
  [recordBytes |-> estimateRecordBytes([items |-> [i \in DOMAIN s.items |-> ShapeOf(i)],
                     merkle |-> Nothing, signed |-> signed, supersedes |-> supersedes]),
   recipientCount |-> SumOver([i \in DOMAIN s.items |-> Slots(i)])]
(* The record is measured as it will be, with stand-ins of the same length.*)
passphraseQuoteInput(s, signed, supersedes) ==
  LET base == passphraseSealedRecord(s, [i \in DOMAIN s.items |-> arweaveUriPlaceholder.uri],
                                     supersedes)
      sigs == Arr(<< Map([cose_sign1 |-> Blob(COSE_SIGN1_PATH1_BYTES, Null)]) >>)
      record == IF signed THEN Map([sigs |-> sigs] @@ base.m) ELSE base IN
  [recordBytes |-> EncodedSize(encodePoeRecord(record).value), recipientCount |-> 0]

-----------------------------------------------------------------------------
PreparedIdle ==
  seal = Missing /\ text = Missing /\ restored = Missing /\ assembled = Missing
PreparedInit == preparation \in Preparations /\ PreparedIdle

Ready(s) == s # Missing /\ ~Failed(s)
Sealing == preparation.path \in {"slots", "passphrase"}
sealPrepare ==
  /\ Sealing /\ seal = Missing
  /\ seal' = IF preparation.path = "slots" THEN prepare(preparation)
             ELSE preparePassphrase(preparation)
  /\ UNCHANGED << preparation, text, restored, assembled >>
StoreDocument ==
  /\ Ready(seal) /\ preparation.path = "slots" /\ text = Missing /\ assembled = Missing
  /\ text' \in {preparedSealToJson(seal)} \cup Edits(preparedSealToJson(seal))
  /\ UNCHANGED << preparation, seal, restored, assembled >>
RestoreDocument ==
  /\ text # Missing /\ restored = Missing /\ restored' = preparedSealFromJson(text)
  /\ UNCHANGED << preparation, seal, text, assembled >>
Held == IF text = Missing THEN seal ELSE restored
RecordOf(s, terms) ==
  IF preparation.path = "slots" THEN sealedRecord(s, terms.uris, terms.supersedes)
  ELSE passphraseSealedRecord(s, terms.uris, terms.supersedes)
Assemble ==
  /\ assembled = Missing /\ Ready(Held)
  /\ \E uris \in Locations, supersedes \in Replaced, signer \in Signers :
       LET terms == [uris |-> uris, supersedes |-> supersedes, signer |-> signer] IN
       assembled' = [of |-> Held, terms |-> terms, body |-> Signed(RecordOf(Held, terms), signer)]
  /\ UNCHANGED << preparation, seal, text, restored >>
Publish ==
  /\ ~Sealing /\ assembled = Missing
  /\ assembled' = [of |-> Missing, terms |-> preparation, body |->
       CASE preparation.path = "content"   -> publishContent(preparation)
         [] preparation.path = "prehashed" -> publishPrehashed(preparation)
         [] preparation.path = "merkle"    -> publishMerkle(preparation, preparation.uri)]
  /\ UNCHANGED << preparation, seal, text, restored >>
PreparedDone ==
  /\ assembled # Missing \/ Failed(seal) \/ Failed(restored)
  /\ UNCHANGED preparedVars
PreparedNext ==
  sealPrepare \/ StoreDocument \/ RestoreDocument \/ Assemble \/ Publish \/ PreparedDone

-----------------------------------------------------------------------------
Options == DefaultOptions(MAX_SLOTS, MAX_DECODED_ENVELOPE_BYTES)
LeftToTheValidator(s) ==
  \E i \in DOMAIN s.items :
    LET slots == Elems(Get(s.items[i].envelope, "slots")) IN
    \/ ~(Keys(s.items[i].hashes) \subseteq DOMAIN HASH_ALG_LENGTHS)
    \/ Len(slots) > MAX_SLOTS
    \/ \E j, k \in DOMAIN slots : j # k /\ slots[j] = slots[k]
Opens(item, enc, content) ==
  IF preparation.path = "slots"
  THEN \A r \in DOMAIN preparation.recipients :
         eciesSealedPoeUnwrap(sealedEnvelopeFromParsed(enc), item.ciphertext, item.hashes,
           [secrets |-> << [who |-> preparation.recipients[r].id, len |-> 32] >>])
           = [matched |-> TRUE, plaintext |-> content]
  ELSE passphraseSealedPoeOpen(enc, item.ciphertext, preparation.passphrase, item.hashes)
         = [matched |-> TRUE, plaintext |-> content]
EveryItemOpens(s, record) ==
  s.items = seal.items /\ ~LeftToTheValidator(s) =>
    \A i \in DOMAIN s.items :
      Opens(s.items[i], Get(Elems(Get(record, "items"))[i], "enc"), preparation.items[i])

(* What a quote charges for the record: the very size for a passphrase     *)
(* seal (the estimate adds its margin); else the margin more, with the     *)
(* difference of the two KEM ids, or of two integers.  An empty list of    *)
(* URIs is left to the margin, and the URI a gateway gives a Merkle batch  *)
(* is taken for an ar:// one.                                              *)
GivenUri == preparation.path = "merkle" /\ "txid" \notin DOMAIN preparation.uri.uri
EmptyUris == ~Sealing /\ preparation.path # "merkle" /\ preparation.uris = Arr(<< >>)
Shape(terms, record) ==
  LET items == Elems(Get(record, "items"))
      enc == IF preparation.path = "passphrase" THEN [kind |-> "passphrase"] ELSE Nothing
      ShapeOf(item) == [hashAlgs |-> Keys(Get(item, "hashes")), uris |-> Elems(Get(item, "uris")),
                        enc |-> enc] IN
  IF preparation.path = "merkle" THEN merkleShape(preparation)
  ELSE [items |-> [i \in DOMAIN items |-> ShapeOf(items[i])], merkle |-> Nothing,
        signed |-> terms.signer # NoSigner, supersedes |-> terms.supersedes # Missing]
QuotedBytes(s, terms, record) ==
  LET signed == terms.signer # NoSigner IN
  CASE preparation.path = "slots" ->
         preparedQuoteInput(s, signed, terms.supersedes # Missing).recordBytes
    [] preparation.path = "passphrase" ->
         passphraseQuoteInput(s, signed, terms.supersedes).recordBytes
    [] OTHER -> estimateRecordBytes(Shape(terms, record))
OverCharge(s) ==
  CASE preparation.path = "slots"      -> SAFETY_MARGIN..(SAFETY_MARGIN + 8 * Len(s.items))
    [] preparation.path = "passphrase" -> {0}
    [] EmptyUris                       -> {SAFETY_MARGIN - Sized(Len("uris")) - HeadSize(0)}
    [] OTHER                           -> SAFETY_MARGIN..(SAFETY_MARGIN + 8)
OnlyArweave(uris) == \A i \in DOMAIN uris : "txid" \in DOMAIN uris[i]
QuoteCovers(s, terms, record) ==
  (Sealing => OnlyArweave(terms.uris)) /\ ~GivenUri =>
    /\ QuotedBytes(s, terms, record) - EncodedSize(record) \in OverCharge(s)
    /\ preparation.path = "passphrase" =>
         estimateRecordBytes(Shape(terms, record)) - EncodedSize(record) = SAFETY_MARGIN

(* The validator accepts the record, unless the publication lists no URI   *)
(* where it gives a list, or embeds one of the gateway's that is none, for *)
(* nothing checks it; and whoever signed it is seen to have.               *)
UriRefused ==
  \/ EmptyUris
  \/ preparation.path = "merkle" /\ ~isFetchSetUri(preparation.uri.uri)
ValidRecord(terms, record) ==
  /\ validatePoeRecord(Encoded(record), Options).valid = ~UriRefused
  /\ terms.signer # NoSigner /\ terms.signer.who = terms.signer.pub.id =>
       verifyRecordSignatures(record, "mainnet", << >>).verdicts
         = << SigVerdict("valid", "none", terms.signer.pub) >>

(* A record is good for what was asked (sealed.ts, publish.ts).  A text is *)
(* accepted only if it is the one text of the seal it gives, and the       *)
(* stored one gives the prepared seal back; the deterministic preparation  *)
(* seals as the random one does.  A record made is one the validator and   *)
(* the signature pass accept, unless a re-fingerprinted document names a   *)
(* hash or repeats key material, which only the validator looks at, or     *)
(* there are more slots than it allows, or the list of URIs is empty or    *)
(* the gateway's URI unfit (UriRefused); its quote covers it, if that URI  *)
(* is an ar:// one; and of the seal that was prepared every recipient, and *)
(* the passphrase, opens every item.                                       *)
PreparedSealStands ==
  /\ Ready(restored) => text = preparedSealToJson(restored)
  /\ text # Missing /\ text = preparedSealToJson(seal) /\ restored # Missing => restored = seal
  /\ Ready(seal) /\ preparation.path = "slots" =>
       prepare([preparation EXCEPT !.rng = ~@]) = seal
  /\ assembled # Missing /\ ~Failed(assembled.body) =>
       LET s == assembled.of  record == assembled.body.value IN
       /\ (Sealing => ~LeftToTheValidator(s)) => ValidRecord(assembled.terms, record)
       /\ QuoteCovers(s, assembled.terms, record)
       /\ Sealing => EveryItemOpens(s, record)
=============================================================================
