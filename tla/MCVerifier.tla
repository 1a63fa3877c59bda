------------------------------ MODULE MCVerifier ------------------------------
(* Verifier for TLC: calls whose explorers and gateways answer at will, and *)
(* the records of the repository's validator fixtures, judged offline.      *)
EXTENDS Verifier, CborCodec

With(map, fields) == Map(fields @@ map.m)
Only(k, v) == [x \in {k} |-> v]
Hashes(content) == Map(Only("sha2-256", Digest("sha2-256", content)))

-----------------------------------------------------------------------------
(* Contents, URIs and items.                                               *)
File == [plain |-> "file"]
Junk == [plain |-> "junk"]
Block == [plain |-> "root block"]     \* the dag-pb block a CID commits to

Ar == [scheme |-> "ar", fragment |-> FALSE, txid |-> "tx"]
Cid(prefix, alphabet, head, digest) ==
  [prefix |-> prefix, alphabet |-> alphabet, padded |-> FALSE, trailing |-> FALSE,
   bytes |-> [head |-> head, digest |-> digest]]
Ipfs(cid) == [scheme |-> "ipfs", fragment |-> FALSE, cid |-> cid, path |-> FALSE]
RawCid(content) == Cid("b", "lower", << 1, 85, 18, 32 >>, Digest("sha2-256", content))
DagPbCid(content) == Cid("b", "lower", << 1, 112, 18, 32 >>, Digest("sha2-256", content))
Located(item, uris) == With(item, [uris |-> Arr([i \in DOMAIN uris |-> UriText(uris[i])])])

FileItem == Map([hashes |-> Hashes(File)])
RecordOf(fields) == encodePoeRecord(Map(fields @@ [v |-> Num(1)]))
Items(items) == RecordOf([items |-> Arr(items)])

-----------------------------------------------------------------------------
(* Envelopes for alice, and for alice and bob.                             *)
Secret(who) == [who |-> who, len |-> 32]
Args(kem, whos) ==
  [kem |-> kem, hashes |-> Hashes(File),
   recipientPublicKeys |-> [i \in DOMAIN whos |->
     IF kem = "x25519" THEN x25519PublicKey(Secret(whos[i]))
     ELSE xwingPublicKey(Secret(whos[i]))],
   fresh |-> [i \in DOMAIN whos |-> [who |-> << "eph1", "eph2" >>[i],
                                     len |-> IF kem = "x25519" THEN 32 ELSE 64]],
   ephemeralSecrets |-> -1, eseeds |-> -1, cek |-> Bytes(32, "cek"),
   nonce |-> Bytes(24, "nonce"), order |-> [i \in DOMAIN whos |-> i]]
SealedFor(kem, whos) == eciesSealedPoeWrap(Args(kem, whos), File)
ForBoth == SealedFor("x25519", << "alice", "bob" >>)
ForBothPq == SealedFor("mlkem768x25519", << "alice", "bob" >>)
OneSlot == SealedFor("x25519", << "alice" >>)
ForAlicePq == SealedFor("mlkem768x25519", << "alice" >>)
Pass == [bytes |-> 6, norm |-> "hunter"]
ByPass == passphraseSealedPoeSeal(
            [salt |-> Bytes(16, "salt"), params |-> [m |-> 65536, t |-> 3, p |-> 1],
             nonce |-> Bytes(24, "nonce"), hashes |-> Hashes(File), passphrase |-> Pass],
            File)
SealedItem(s) == With(FileItem, [enc |-> s.envelope])
(* The content key sealed other bytes than the hashes commit to.           *)
WrongPlaintext(s) == Streamed(s.ciphertext.sealed, Junk)

-----------------------------------------------------------------------------
(* Leaves-lists and commitments.                                           *)
Leaves(ids) == [i \in DOMAIN ids |-> Bytes(32, ids[i])]
ListOf(leaves) ==
  [list |-> encodeLeavesList(leaves, RootBytes(merkleSha2256Root(leaves)), Missing).list]
Commit(leaves) ==
  Map([alg |-> Text("rfc9162-sha256"), root |-> RootBytes(merkleSha2256Root(leaves)),
       leaf_count |-> Num(Len(leaves))])
Three == Leaves(<< "l1", "l2", "l3" >>)
Two == Leaves(<< "l1", "l2" >>)
Five == Leaves(<< "l1", "l2", "l3", "l1", "l5" >>)     \* a content committed twice

-----------------------------------------------------------------------------
(* Signatures and transactions.                                            *)
Key(who) == Bytes(32, who)
SignWith(header, unprotected, rec, seed) ==
  coseSign1Label309Build(header, unprotected, encodeRecordBodyForSigning(rec), seed, Missing)
Signed(fields, seed) ==
  LET rec == Map(fields @@ [v |-> Num(1)])
      entry == Map([cose_sign1 |-> SignWith(path1Header(Key("carol")), Map(<< >>), rec, seed)])
  IN RecordOf(fields @@ [sigs |-> Arr(<< entry >>)])
(* carol's signature on the record, made where its key is.                 *)
OffHost(fields, hashed) ==
  LET rec == Map(fields @@ [v |-> Num(1)])
      structure == IF hashed THEN prepareSigStructureHashed(rec, Key("carol"))
                   ELSE prepareSigStructure(rec, Key("carol"))
      signature == Signature("carol", structure, 64)
      entry == IF hashed THEN assembleCoseSign1Hashed(Key("carol"), signature)
               ELSE assembleCoseSign1(Key("carol"), signature) IN
  RecordOf(fields @@ [sigs |-> Arr(<< entry >>)])
(* The wallet's signature: over the hash, its key beside it.               *)
Wallet(fields, network) ==
  LET rec == Map(fields @@ [v |-> Num(1)])
      header == Map([alg |-> Num(-8), address |-> StakeAddress(network, Key("carol"))])
      structure == buildSigStructure(protectedBytesOf(header),
                                     buildToSign(encodeRecordBodyForSigning(rec), TRUE))
      cose == encodeCoseSign1(header, Map([hashed |-> Num(1)]), Null,
                              Signature("carol", structure, 64))
      key == Blob(44, Map([kty |-> Num(1), crv |-> Num(6), x |-> Key("carol")])) IN
  RecordOf(fields @@ [sigs |-> Arr(<< Map([cose_sign1 |-> cose, cose_key |-> key]) >>)])

TxBody(auxHash) ==
  << Item(5, 4), Item(0, 0), Item(4, 1), Item(4, 2), String(Bytes(32, "spent")), Item(0, 0),
     Item(0, 1), Item(4, 1), Item(5, 2), Item(0, 0),
     String([t |-> "bytes", len |-> 29, type |-> 6, network |-> 1]), Item(0, 1), Item(0, 900),
     Item(0, 2), Item(0, 5), Item(0, 7), String(auxHash) >>
TxBodyBare == << Item(5, 1), Item(0, 2), Item(0, 5) >>
Witness(who, over) ==
  << Item(5, 1), Item(0, 0), Item(4, 1), Item(4, 2), String(Key(who)),
     String(Signature(who, blake2b256(over), 64)) >>
ChunkItems(body) ==
  LET chunks == chunkRecordBody(body) IN
  << Item(4, Len(chunks)) >> \o [i \in DOMAIN chunks |-> String(chunks[i])]
Aux(body) == << Item(5, 1), Item(0, 309) >> \o ChunkItems(body)
AuxArray(body) == << Item(4, 2) >> \o Aux(body) \o << Item(4, 0) >>
AuxTagged(body) == << Item(6, 259), Item(5, 1), Item(0, 0) >> \o Aux(body)
AuxBare == << Item(5, 1), Item(0, 674), String(Text("hello")) >>
AuxBad == << Item(5, 1), String(Text("309")), Item(0, 1) >>
AuxText == << Item(5, 1), Item(0, 309), String(Text("record")) >>
AuxLong == << Item(5, 1), Item(0, 309), Item(4, 1), String(Bytes(65, "long")) >>
AuxCut(body) ==
  << Item(5, 1), Item(0, 309), Item(4, 1), String(chunkRecordBody(body)[1]) >>
TxOf(txBody, witness, aux) ==
  << Item(4, 4) >> \o txBody \o witness \o << Item(7, 21) >> \o aux
Tx(aux) == LET txBody == TxBody(blake2b256(aux)) IN TxOf(txBody, Witness("payer", txBody), aux)
BareTx == TxOf(TxBodyBare, Witness("payer", TxBodyBare), << Item(7, 22) >>)
HashOf(tx) == blake2b256(sliceTxComponents(tx).txBody)

Signed1 == Signed([items |-> Arr(<< FileItem >>)], "carol")
OnChain == Tx(Aux(Signed1))
Other == Tx(AuxArray(Items(<< FileItem >>)))
(* The requested body beside other metadata, and beside a witness of       *)
(* another transaction; bytes that are no transaction.                     *)
Spliced == TxOf(sliceTxComponents(OnChain).txBody, sliceTxComponents(OnChain).witnessSet,
                sliceTxComponents(Other).auxiliaryData)
Rewitnessed == TxOf(sliceTxComponents(OnChain).txBody, sliceTxComponents(Other).witnessSet,
                    sliceTxComponents(OnChain).auxiliaryData)
(* The requested transaction, with a signature of mallory's added to it.   *)
Cosigned == TxOf(sliceTxComponents(OnChain).txBody,
                 << Item(5, 1), Item(0, 0), Item(4, 2) >>
                   \o Tail(Tail(Tail(Witness("payer", sliceTxComponents(OnChain).txBody))))
                   \o Tail(Tail(Tail(Witness("mallory", sliceTxComponents(OnChain).txBody)))),
                 sliceTxComponents(OnChain).auxiliaryData)
Truncated == << Item(4, 4), Item(5, 1), Item(0, 2) >>

-----------------------------------------------------------------------------
(* The calls.  honest: the record keeps its promises and the caller's keys *)
(* and bytes are the right ones; good: for each claim the blobs that       *)
(* satisfy it; expected: the codes a fixture pins.                         *)

Call == [entry |-> "resolved", network |-> "mainnet", profile |-> "recipient-sealed",
         threshold |-> 1, fetchContent |-> TRUE, creds |-> << >>, ciphertexts |-> << >>,
         leaves |-> << >>, arweave |-> 1, ipfs |-> 1, contents |-> {}, depth |-> 3,
         honest |-> FALSE, good |-> << >>]
Resolve(tx, txs, koios, blockfrost) ==
  Call @@ [entry |-> "tx"] @@ [txHash |-> HashOf(tx), txs |-> txs, koios |-> koios,
                               blockfrost |-> blockfrost, genuine |-> tx]
ResolveCalls ==
  {[fields EXCEPT !.entry = "tx", !.fetchContent = FALSE] : fields \in
     {Resolve(OnChain, {OnChain, Other, Spliced, Rewitnessed, Cosigned, Truncated}, 1, 1),
      [Resolve(OnChain, {OnChain, Spliced}, 2, 0) EXCEPT !.threshold = 2],
      Resolve(Other, {Other}, 1, 0),
      Resolve(Tx(AuxTagged(Signed1)), {Tx(AuxTagged(Signed1))}, 0, 1),
      Resolve(BareTx, {BareTx}, 1, 0), Resolve(Tx(AuxBare), {Tx(AuxBare)}, 1, 0),
      Resolve(Tx(AuxBad), {Tx(AuxBad)}, 1, 0), Resolve(Tx(AuxText), {Tx(AuxText)}, 1, 0),
      Resolve(Tx(AuxLong), {Tx(AuxLong)}, 1, 0),
      Resolve(Tx(AuxCut(Signed1)), {Tx(AuxCut(Signed1))}, 1, 0)}}

Honest(body, good, contents) ==
  [Call EXCEPT !.honest = TRUE, !.good = good, !.contents = contents] @@ [body |-> body]
Judge(body, contents) == [Call EXCEPT !.contents = contents] @@ [body |-> body]
AliceKey == [secret |-> Secret("alice")]
EveKey == [secret |-> Secret("eve")]
PassKey == [passphrase |-> Pass]

FileAt(uris) == Items(<< Located(FileItem, uris) >>)
SealedAt(s, uris) == Items(<< Located(SealedItem(s), uris) >>)
TreeAt(uris) == RecordOf([merkle |-> Arr(<< Located(Commit(Three), uris) >>)])

HonestCalls(both, alicePq, byPass) ==
  LET sealed == both.ciphertext  blob == byPass.blob  list == ListOf(Three) IN
  {[Honest(FileAt(<< Ar, Ipfs(RawCid(File)) >>), << {File} >>, {File, Junk})
      EXCEPT !.arweave = 2],
   Honest(FileAt(<< Ipfs(DagPbCid(Block)), Ar >>), << {File} >>, {File, Block}),
   [Honest(FileAt(<< Ipfs(RawCid(File)), Ar >>), << {File} >>, {File, Junk})
      EXCEPT !.ipfs = 0, !.arweave = 0],
   [Honest(SealedAt(both, << Ar >>), << {sealed} >>, {sealed, Junk})
      EXCEPT !.creds = << EveKey, AliceKey >>],
   [Honest(SealedAt(both, << Ar >>), << {sealed} >>, {Junk}) EXCEPT
      !.creds = << AliceKey >>, !.ciphertexts = << sealed >>],
   Honest(SealedAt(both, << Ar >>), << {sealed} >>, {sealed}),
   [Honest(Items(<< Located(SealedItem(alicePq), << Ar >>), FileItem >>),
           << {alicePq.ciphertext}, {} >>, {alicePq.ciphertext, Junk})
      EXCEPT !.creds = << AliceKey >>],
   [Honest(SealedAt(byPass, << Ar >>), << {blob} >>, {blob, Junk, sealed})
      EXCEPT !.creds = << PassKey >>],
   Honest(TreeAt(<< Ar, Ipfs(RawCid(list)) >>), << {list} >>, {list, ListOf(Two)}),
   [Honest(TreeAt(<< Ar >>), << {list} >>, {list, ListOf(Two)}) EXCEPT !.profile = "core"],
   [Honest(RecordOf([merkle |-> Arr(<< Commit(Five) >>)]), << {ListOf(Five)} >>, {}) EXCEPT
      !.leaves = << ListOf(Five) >>, !.fetchContent = FALSE],
   Honest(RecordOf([items |-> Arr(<< Located(FileItem, << Ar >>) >>),
                    merkle |-> Arr(<< Located(Commit(Three), << Ar >>) >>)]),
          << {File}, {list} >>, {File, list}),
   [Honest(Wallet([items |-> Arr(<< FileItem >>)], "mainnet"), << {} >>, {})
      EXCEPT !.profile = "signed"],
   [Honest(Signed1, << {} >>, {}) EXCEPT !.profile = "core"]}
  \cup {Honest(OffHost([items |-> Arr(<< FileItem >>)], hashed), << {} >>, {}) :
          hashed \in BOOLEAN}

OtherCalls(both, byPass) ==
  {[Judge(SealedAt(both, << Ar >>), {both.ciphertext}) EXCEPT !.creds = << EveKey >>],
   [Judge(SealedAt(both, << Ar >>), {both.ciphertext}) EXCEPT !.creds = << PassKey >>],
   [Judge(SealedAt(both, << Ar >>), {}) EXCEPT !.creds = << AliceKey >>,
      !.ciphertexts = << WrongPlaintext(both) >>],
   [Judge(SealedAt(both, << Ar >>), {}) EXCEPT !.creds = << AliceKey >>, !.ciphertexts = << Junk >>],
   [Judge(SealedAt(both, << Ar >>), {}) EXCEPT !.profile = "core", !.creds = << AliceKey >>],
   [Judge(SealedAt(byPass, << Ar >>), {}) EXCEPT !.ciphertexts = << byPass.blob >>,
      !.creds = << [passphrase |-> [bytes |-> 5000, norm |-> "hunter"]] >>],
   [Judge(SealedAt(byPass, << Ar >>), {}) EXCEPT !.ciphertexts = << byPass.blob >>,
      !.creds = << [passphrase |-> [bytes |-> 6, norm |-> "wrong"]], PassKey >>],
   Judge(FileAt(<< Ipfs(RawCid(Junk)) >>), {Junk}),
   Judge(TreeAt(<< Ipfs(RawCid(ListOf(Two))) >>), {ListOf(Two)}),
   Judge(Signed([items |-> Arr(<< FileItem >>)], "mallory"), {}),
   Judge(Wallet([items |-> Arr(<< FileItem >>)], "preprod"), {}),
   [Judge(Signed([merkle |-> Arr(<< Commit(Three) >>)], "carol"), {}) EXCEPT
      !.profile = "core", !.fetchContent = FALSE, !.leaves = << ListOf(Three) >>],
   [Judge(Items(<< With(FileItem, [enc |-> With(both.envelope, [kem |-> Text("constructor")])]) >>),
          {}) EXCEPT !.creds = << AliceKey >>],
   Judge(Items(<< With(FileItem, [enc |-> With(ForAlicePq.envelope, [kem |-> Text("toString")])]) >>),
         {}),
   [Judge(FileAt(<< Ar >>), {}) EXCEPT !.threshold = 5],
   [Judge(FileAt(<< Ar >>), {}) EXCEPT !.depth = 0]}

-----------------------------------------------------------------------------
(* The fixtures of crypto-core/tests/fixtures/validator: <<codes, body>>,  *)
(* as the public reading has them.                                         *)
Item1(fields) == Items(<< With(FileItem, fields) >>)
Env(s, fields) == Item1([enc |-> With(s.envelope, fields)])
Slots(s, fields) ==
  [slots |-> Arr([j \in DOMAIN s.envelope.m.slots.a |->
                    IF j = 1 THEN With(s.envelope.m.slots.a[1], fields)
                    ELSE s.envelope.m.slots.a[j]])]
PassWith(byPass, fields) == [passphrase |-> With(byPass.envelope.m.passphrase, fields)]
ParamsWith(byPass, fields) ==
  PassWith(byPass, [params |-> With(byPass.envelope.m.passphrase.m.params, fields)])
SigsWith(entry) == RecordOf([items |-> Arr(<< FileItem >>), sigs |-> Arr(<< entry >>)])
GoodEntry == Signed1.value.m.sigs.a[1]
CoseWith(header, payload) ==
  Map([cose_sign1 |-> encodeCoseSign1(header, Map(<< >>), payload,
                        Signature("carol", buildLabel309SigStructure(
                          protectedBytesOf(header), Items(<< FileItem >>)), 64))])
CommitWith(fields) == RecordOf([merkle |-> Arr(<< With(Commit(Three), fields) >>)])
Bstr == Bytes(4, "junk")
Short == Bytes(31, "short")
Fetched(cid) == FileAt(<< Ipfs(cid) >>)
Sha == Digest("sha2-256", File)

SchemaFixtures ==
  LET T == "SCHEMA_TYPE_MISMATCH"  U == "SCHEMA_UNKNOWN_FIELD"
      file == [items |-> Arr(<< FileItem >>)] IN
  << << {}, RecordOf(file) >>,
     << {T}, [decodes |-> TRUE, value |-> Bstr] >>,
     << {"MALFORMED_CBOR"}, Undecodable >>,
     << {T}, [decodes |-> TRUE, value |-> IntMap] >>,
     << {"SCHEMA_MISSING_REQUIRED"}, encodePoeRecord(Map(file)) >>,
     << {"SCHEMA_INVALID_LITERAL"}, RecordOf([v |-> Num(2)] @@ file) >>,
     << {"SCHEMA_INVALID_LITERAL", T}, RecordOf([v |-> Num(2), items |-> Arr(<< Bstr >>)]) >>,
     << {"SCHEMA_MISSING_REQUIRED"}, Items(<< Map([uris |-> Missing]) >>) >>,
     << {"SCHEMA_EMPTY_RECORD"}, RecordOf([crit |-> Missing]) >>,
     << {"SCHEMA_EMPTY_RECORD"}, Items(<< >>) >>,
     << {T}, Items(<< Bstr >>) >>, << {T}, Items(<< IntMap >>) >>,
     << {T}, RecordOf([merkle |-> Arr(<< Bstr >>)]) >>,
     << {T}, Item1([hashes |-> Bstr]) >>, << {T}, Item1([enc |-> Bstr]) >>,
     << {T}, RecordOf([crit |-> Arr(<< >>)] @@ file) >>,
     << {"CRIT_SHAPE_INVALID"}, RecordOf([crit |-> Arr(<< Text("items") >>)] @@ file) >>,
     << {"CRIT_SHAPE_INVALID"}, RecordOf([crit |-> Arr(<< Text("x-note") >>)] @@ file) >>,
     << {"EXTENSION_UNSUPPORTED_CRITICAL", "CRIT_SHAPE_INVALID"},
        RecordOf("x-note" :> Num(1) @@ "crit" :> Arr(<< Text("x-note"), Text("x-note") >>)
                   @@ file) >>,
     << {"EXTENSION_UNSUPPORTED_CRITICAL"},
        RecordOf("x-note" :> Num(1) @@ "crit" :> Arr(<< Text("x-note") >>) @@ file) >>,
     << {T}, RecordOf([supersedes |-> Text("tx")] @@ file) >>,
     << {"SUPERSEDES_TX_INVALID_LENGTH"}, RecordOf([supersedes |-> Short] @@ file) >>,
     << {}, RecordOf([supersedes |-> Bytes(32, "tx")] @@ file) >>,
     << {U}, RecordOf("bad\nkey" :> Num(1) @@ file) >>,
     << {U}, RecordOf([supersedez |-> Bytes(32, "tx")] @@ file) >>,
     << {U}, Item1([extra |-> Num(1)]) >>,
     << {"HASH_DIGEST_LENGTH_MISMATCH"}, Item1([hashes |-> Map(Only("sha2-256", Short))]) >>,
     << {"UNSUPPORTED_HASH_ALG"}, Item1([hashes |-> Map("sha3-256" :> Sha @@ "sha2-256" :> Sha)]) >>,
     << {"UNSUPPORTED_MERKLE_COMMIT_ALG"}, CommitWith([alg |-> Text("md5")]) >>,
     << {"HASH_DIGEST_LENGTH_MISMATCH"}, CommitWith([root |-> Short]) >>,
     << {"SCHEMA_MERKLE_LEAF_COUNT_INVALID"}, CommitWith([leaf_count |-> Num(0)]) >>,
     << {"SCHEMA_MERKLE_LEAF_COUNT_INVALID"}, CommitWith([leaf_count |-> Num(UINT32_MAX + 1)]) >>,
     << {}, CommitWith([leaf_count |-> Num(UINT32_MAX)]) >> >>

UriFixtures ==
  LET bad == {"INVALID_URI"}
      raw == << 1, 85, 18, 32 >>
      V1(prefix, alphabet) == Fetched(Cid(prefix, alphabet, raw, Sha)) IN
  << << bad, Fetched(Cid("Qm", "base58", << 17, 32 >>, Sha)) >>,
     << {}, Fetched(Cid("Qm", "base58", << 18, 32 >>, Sha)) >>,
     << {}, V1("b", "lower") >>, << {}, V1("B", "upper") >>,
     << {}, V1("f", "lower") >>, << {}, V1("F", "upper") >>,
     << bad, V1("b", "upper") >>, << bad, V1("B", "lower") >>,
     << bad, V1("f", "upper") >>, << bad, V1("F", "lower") >>,
     << bad, Fetched(Cid("b", "lower", << 1, 85, 17, 32 >>, Sha)) >>,
     << {}, Fetched(Cid("z", "base58", << 1, 113, 160, 228, 2, 32 >>, Sha)) >>,
     << {}, FileAt(<< [Ar EXCEPT !.scheme = "AR"] >>) >>,
     << bad, FileAt(<< [scheme |-> "AR", fragment |-> FALSE] >>) >>,
     << {}, FileAt(<< [Ipfs(RawCid(File)) EXCEPT !.scheme = "IPFS"] >>) >>,
     << bad, FileAt(<< [scheme |-> "https", fragment |-> FALSE] >>) >>,
     << bad, FileAt(<< [Ar EXCEPT !.fragment = TRUE] >>) >>,
     << {"SCHEMA_TYPE_MISMATCH"}, FileAt(<< >>) >> >>

SigFixtures ==
  LET shape == {"SIG_ENTRY_INVALID_SHAPE"}
      carol == Map([alg |-> Num(-8), kid |-> Key("carol")])
      own == [cose_key |-> Blob(44, Map([kty |-> Num(1), crv |-> Num(6), x |-> Key("carol")]))]
      leaked == [cose_key |-> Blob(80, Map([kty |-> Num(1), crv |-> Num(6),
                                            x |-> Key("carol"), d |-> Key("secret")]))] IN
  << << {}, Signed1 >>,
     << shape, SigsWith(With(GoodEntry, [extra |-> Num(1)])) >>,
     << shape, SigsWith(Map(own)) >>, << shape, SigsWith(Bstr) >>,
     << {"MALFORMED_SIG_COSE_SIGN1"}, SigsWith(CoseWith(carol, Bstr)) >>,
     << {"MALFORMED_SIG_COSE_SIGN1"}, SigsWith(Map([cose_sign1 |-> Bstr])) >>,
     << {"SIG_ENTRY_KID_COSE_KEY_CONFLICT"}, SigsWith(With(GoodEntry, own)) >>,
     << {"SIG_PRIVATE_KEY_LEAKED"}, SigsWith(With(GoodEntry, leaked)) >>,
     << {"SIGNATURE_UNSUPPORTED"},
        SigsWith(CoseWith(Map([alg |-> Num(-7), kid |-> Key("carol")]), Null)) >>,
     << {"SIGNATURE_INVALID"}, SigsWith(CoseWith(Map([alg |-> Num(-8), kid |-> Key("dave")]),
                                                 Null)) >>,
     << {"SIGNER_KEY_UNRESOLVED"}, SigsWith(CoseWith(Map([alg |-> Num(-8)]), Null)) >>,
     << {"SCHEMA_TYPE_MISMATCH"}, RecordOf([items |-> Arr(<< FileItem >>), sigs |-> Arr(<< >>)]) >> >>

EncFixtures(both, bothPq, alicePq, oneSlot, byPass) ==
  LET gone(k) == Only(k, Missing)
      slot == "ENC_SLOT_INVALID_SHAPE"
      twice(s) == Arr(<< s.envelope.m.slots.a[1], s.envelope.m.slots.a[1] >>) IN
  << << {}, Env(both, << >>) >>, << {}, Env(alicePq, << >>) >>, << {}, Env(byPass, << >>) >>,
     << {"ENC_REQUIRES_CONTENT_HASH", "SCHEMA_TYPE_MISMATCH"},
        Item1([hashes |-> Map(<< >>), enc |-> both.envelope]) >>,
     << {"UNAUTHENTICATED_CIPHER_FORBIDDEN"}, Env(both, [aead |-> Text("aes-256-cbc")]) >>,
     << {"NONCE_LENGTH_MISMATCH"}, Env(both, [nonce |-> Bytes(12, "nonce")]) >>,
     << {"ENC_SLOTS_EMPTY"}, Env(both, [slots |-> Arr(<< >>)]) >>,
     << {"ENC_KEM_REQUIRED"}, Env(both, gone("kem")) >>,
     << {"ENC_SLOTS_MAC_REQUIRED"}, Env(both, gone("slots_mac")) >>,
     << {"ENC_NO_KEY_PATH", "ENC_SLOTS_REQUIRED"}, Env(both, gone("slots")) >>,
     << {"ENC_NO_KEY_PATH"}, Env(byPass, gone("passphrase")) >>,
     << {"ENC_EXCLUSIVITY_VIOLATION"}, Env(both, PassWith(byPass, << >>)) >>,
     << {slot}, Env(oneSlot, Slots(alicePq, << >>)) >>,
     << {slot}, Env(alicePq, Slots(oneSlot, << >>)) >>,
     << {slot}, Env(both, Slots(both, [extra |-> Num(1)])) >>,
     << {slot}, Env(both, Slots(both, gone("wrap"))) >>,
     << {slot}, Env(both, [slots |-> Arr(<< Bstr >>), nonce |-> Bytes(12, "nonce")]) >>,
     << {"SCHEMA_TYPE_MISMATCH"}, Env(both, [slots |-> Arr(<< IntMap >>)]) >>,
     << {"KEM_EPK_LENGTH_MISMATCH"}, Env(both, Slots(both, [epk |-> Short])) >>,
     << {"KEM_CT_LENGTH_MISMATCH"}, Env(alicePq, Slots(alicePq, [kem_ct |-> Bytes(1119, "ct")])) >>,
     << {"WRAP_LENGTH_MISMATCH"}, Env(both, Slots(both, [wrap |-> Bytes(47, "wrap")])) >>,
     << {"ENC_SLOTS_MAC_INVALID_LENGTH"}, Env(both, [slots_mac |-> Short]) >>,
     << {"ENC_SLOTS_DUPLICATE_KEM_MATERIAL"}, Env(both, [slots |-> twice(both)]) >>,
     << {"ENC_ENVELOPE_TOO_LARGE"}, Env(bothPq, << >>) >>,
     << {"ENC_SLOTS_TOO_MANY"},
        Env(both, [slots |-> Arr(Append(both.envelope.m.slots.a,
                                           oneSlot.envelope.m.slots.a[1]))]) >>,
     << {"SCHEMA_MISSING_REQUIRED"}, Env(both, gone("scheme")) >>,
     << {"SCHEMA_TYPE_MISMATCH"}, Env(both, [scheme |-> Text("1")]) >>,
     << {"SCHEMA_TYPE_MISMATCH"}, Env(byPass, PassWith(byPass, gone("salt"))) >>,
     << {"ENC_PASSPHRASE_ALG_UNSUPPORTED"}, Env(byPass, PassWith(byPass, [alg |-> Text("scrypt")])) >>,
     << {"ENC_PASSPHRASE_SALT_TOO_SHORT"}, Env(byPass, PassWith(byPass, [salt |-> Bytes(15, "salt")])) >>,
     << {"ENC_PASSPHRASE_SALT_TOO_LONG"}, Env(byPass, PassWith(byPass, [salt |-> Bytes(65, "salt")])) >>,
     << {"SCHEMA_TYPE_MISMATCH"}, Env(byPass, [passphrase |-> Bstr]) >>,
     << {"SCHEMA_TYPE_MISMATCH"}, Env(byPass, PassWith(byPass, [params |-> Bstr])) >>,
     << {"ENC_PASSPHRASE_ARGON2_PARAMS_TOO_LOW"}, Env(byPass, ParamsWith(byPass, [m |-> Num(65535)])) >>,
     << {"ENC_PASSPHRASE_ARGON2_PARAMS_TOO_LOW"},
        Env(byPass, ParamsWith(byPass, [t |-> Num(2), p |-> Num(0)])) >>,
     << {"SCHEMA_UNKNOWN_FIELD"}, Env(byPass, ParamsWith(byPass, [extra |-> Num(1)])) >>,
     << {"SCHEMA_TYPE_MISMATCH"}, Env(byPass, ParamsWith(byPass, [m |-> Num(UINT32_MAX + 1)])) >>,
     << {"ENC_PASSPHRASE_PARAMS_EXCEED_POLICY"}, Env(byPass, ParamsWith(byPass, [m |-> Num(2097153)])) >> >>

(* <<public codes, strict codes, body>>: opaque, or refused by a recipient. *)
RoleFixtures(both) ==
  LET opaque == {"ENC_UNSUPPORTED"}
      Opaque(code, body) == << opaque, opaque \cup {code}, body >> IN
  << Opaque("UNSUPPORTED_ENVELOPE_SCHEME", Env(both, [scheme |-> Num(2)])),
     Opaque("UNSUPPORTED_KEM_ALG", Env(both, [kem |-> Text("p256")] @@ Slots(both, [epk |-> Short]))),
     Opaque("UNSUPPORTED_AEAD_ALG",
          Env(both, [aead |-> Text("aes-256-gcm"), nonce |-> Bytes(12, "nonce")])),
     << opaque \cup {"ENC_REQUIRES_CONTENT_HASH", "UNSUPPORTED_HASH_ALG"},
        opaque \cup {"ENC_REQUIRES_CONTENT_HASH", "UNSUPPORTED_HASH_ALG",
                     "UNSUPPORTED_ENVELOPE_SCHEME"},
        Item1([hashes |-> Map(Only("sha3-256", Sha)),
               enc |-> With(both.envelope, [scheme |-> Num(2)])]) >> >>

Pinned(body, codes, creds) ==
  [Judge(body, {}) EXCEPT !.fetchContent = FALSE, !.creds = creds] @@ [expected |-> codes]
FixtureCalls(fixtures, roleFixtures) ==
  {Pinned(f[2], f[1], << >>) : f \in fixtures}
    \cup {Pinned(f[3], f[1], << >>) : f \in roleFixtures}
    \cup {Pinned(f[3], f[2], << AliceKey >>) : f \in roleFixtures}

Calls(both, bothPq, alicePq, oneSlot, byPass) ==
  ResolveCalls \cup HonestCalls(both, alicePq, byPass) \cup OtherCalls(both, byPass)
    \cup FixtureCalls(Range(SchemaFixtures \o UriFixtures \o SigFixtures
                             \o EncFixtures(both, bothPq, alicePq, oneSlot, byPass)),
                      Range(RoleFixtures(both)))
MCInputs == Calls(ForBoth, ForBothPq, ForAlicePq, OneSlot, ByPass)
(* The values within those bodies.                                         *)
RECURSIVE Within(_)
Within(v) ==
  {v} \cup (CASE v.t = "array" -> UNION {Within(v.a[i]) : i \in DOMAIN v.a}
            [] v.t = "map"   -> UNION {Within(v.m[k]) : k \in DOMAIN v.m}
            [] OTHER         -> {})
MCData ==
  {Missing} \cup UNION {Within(body.value) :
                         body \in {body \in UNION {BodiesOf(call) : call \in MCInputs} :
                                    body.decodes}}
=============================================================================
