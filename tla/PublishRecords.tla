----------------------------- MODULE PublishRecords -----------------------------
(***************************************************************************)
(* The records publish.ts builds and signs (sdk-ts/src/client/publish.ts): *)
(* content it hashes, digests computed elsewhere, and a Merkle batch.  The *)
(* requests around publishMerkle are SealedSubmit's.                       *)
(*                                                                         *)
(* A hex text is [chars, hex, id]: its length, whether every character is  *)
(* a hex digit, and what it stands for.  uris is an array or Missing.  A   *)
(* signer is [pub, who, len]: the key it names, the key it signs with and  *)
(* the length of what it returns.                                          *)
(***************************************************************************)
EXTENDS RecordValidator, RecordEstimate, SealedEnvelope

NoSigner == [who |-> "none"]

hexToBytes(text) ==
  IF text.chars % 2 = 1 \/ ~text.hex THEN Missing ELSE Bytes(text.chars \div 2, text.id)
resolveSupersedes(text) ==
  IF text = Missing THEN Missing
  ELSE IF text.chars # 64 \/ ~text.hex THEN Failure("INVALID_SUPERSEDES")
  ELSE hexToBytes(text)
(* An empty list is given on as it is.                                     *)
validateFetchSetUris(uris) ==
  \A i \in DOMAIN Elems(uris) : isFetchSetUri(Elems(uris)[i].uri)
SUPPORTED_HASH_ALGS == {"sha2-256", "blake2b-256"}
resolveHashAlgs(primary, extra) ==
  IF primary \cup extra = {} THEN {"sha2-256"} ELSE primary \cup extra
arweaveUriPlaceholder == UriText([scheme |-> "ar", fragment |-> FALSE, txid |-> "placeholder"])

-----------------------------------------------------------------------------
(* Signing.                                                                *)

assertSigner(signer) == signer # NoSigner => signer.pub.len = 32
signAndEncodeRecord(record, signer) ==
  LET structure == prepareSigStructure(record, signer.pub)
      signature == Signature(signer.who, structure, signer.len) IN
  IF signature.len # 64 THEN Failure("INVALID_SIGNER_SIGNATURE")
  ELSE encodePoeRecord(
         Map([sigs |-> Arr(<< assembleCoseSign1(signer.pub, signature) >>)] @@ record.m))
encodeRecord(record, signer) ==
  IF signer = NoSigner THEN encodePoeRecord(record) ELSE signAndEncodeRecord(record, signer)

-----------------------------------------------------------------------------
(* The three publications: the encoded record, or the error.               *)

PublishedRecord(content, supersedes) ==
  Map([v |-> Num(1), supersedes |-> supersedes] @@ content)
ItemsRecord(hashes, uris, supersedes) ==
  PublishedRecord([items |-> Arr(<< Map([hashes |-> Map(hashes), uris |-> uris]) >>)], supersedes)
Unless(error, body) == IF error = "ok" THEN body ELSE Failure(error)
InputErrors(input, supersedes) ==
  << << ~assertSigner(input.signer), "INVALID_SIGNER_PUBKEY" >>,
     << ~validateFetchSetUris(input.uris), "INVALID_URI" >>,
     << Failed(supersedes), "INVALID_SUPERSEDES" >> >>

publishContent(input) ==
  LET supersedes == resolveSupersedes(input.supersedes)
      algs == resolveHashAlgs(input.hashAlg, input.hashAlgs)
      hashes == [alg \in algs |-> Digest(alg, input.content)] IN
  Unless(FirstFailing(InputErrors(input, supersedes)
           \o << << ~(algs \subseteq SUPPORTED_HASH_ALGS), "UNSUPPORTED_HASH_ALG" >> >>),
         encodeRecord(ItemsRecord(hashes, input.uris, supersedes), input.signer))

DIGEST_BYTE_LENGTH == [alg \in SUPPORTED_HASH_ALGS |-> 32]
(* Digests come in the order the caller's object lists them, empty ones    *)
(* left out; a name every object inherits counts as known, but no digest   *)
(* has its length.                                                         *)
DigestErrors(entry) ==
  LET bytes == hexToBytes(entry.text) IN
  << << ~Registered(DIGEST_BYTE_LENGTH, entry.alg), "UNSUPPORTED_HASH_ALG" >>,
     << bytes = Missing, "INVALID_DIGEST" >>,
     << bytes # Missing /\ bytes.len # LengthIn(DIGEST_BYTE_LENGTH, entry.alg),
        "INVALID_DIGEST" >> >>
publishPrehashed(input) ==
  LET supersedes == resolveSupersedes(input.supersedes)
      present == SelectSeq(input.hashes, LAMBDA entry : entry.text.chars > 0)
      errors == FlattenSeq([i \in DOMAIN present |-> DigestErrors(present[i])])
      TextFor(alg) == present[CHOOSE i \in DOMAIN present : present[i].alg = alg].text
      decoded == [alg \in {present[i].alg : i \in DOMAIN present} |-> hexToBytes(TextFor(alg))] IN
  Unless(FirstFailing(InputErrors(input, supersedes)
           \o << << present = << >>, "INVALID_DIGEST" >> >> \o errors),
         encodeRecord(ItemsRecord(decoded, input.uris, supersedes), input.signer))

(* leaves is [count, forms]: how many, and the different leaves there are, *)
(* hex texts or byte strings.                                              *)
LeafBytes(leaf) == IF "chars" \in DOMAIN leaf THEN hexToBytes(leaf) ELSE leaf
publishMerkle(input, uri) ==
  LET supersedes == resolveSupersedes(input.supersedes)
      commit == Map([alg |-> Text("rfc9162-sha256"), root |-> Bytes(32, "root"),
                     leaf_count |-> Num(input.leaves.count), uris |-> Arr(<< uri >>)]) IN
  Unless(FirstFailing(
           << << ~assertSigner(input.signer), "INVALID_SIGNER_PUBKEY" >>,
              << ~(input.hashAlg \subseteq {"sha2-256"}), "UNSUPPORTED_HASH_ALG" >>,
              << input.leaves.count < 1, "INVALID_LEAVES" >>,
              << Failed(supersedes), "INVALID_SUPERSEDES" >>,
              << \E leaf \in input.leaves.forms : ~IsKey(LeafBytes(leaf)), "INVALID_LEAVES" >> >>),
         encodeRecord(PublishedRecord([merkle |-> Arr(<< commit >>)], supersedes), input.signer))
merkleShape(input) ==
  [items |-> << >>, merkle |-> [alg |-> "rfc9162-sha256", uris |-> << arweaveUriPlaceholder >>],
   signed |-> input.signer # NoSigner, supersedes |-> input.supersedes # Missing]
=============================================================================
