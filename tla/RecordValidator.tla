---------------------------- MODULE RecordValidator ----------------------------
(***************************************************************************)
(* The structural validator of a Label 309 record                          *)
(* (poe-standard/src/validator.ts) and its schema (schema.ts).             *)
(*                                                                         *)
(* The code pushes issues onto an array and sorts it at the end by path    *)
(* and code; no two issues of a record share both, so the collection is a  *)
(* set here and only the result is a sequence.                             *)
(***************************************************************************)
EXTENDS ContentUris, RecordSignatures

When(cond, x) == IF cond THEN {x} ELSE {}
OneWhen(cond, code, path) == When(cond, issueOf(code, path))

-----------------------------------------------------------------------------
(* The closed registries.  Membership is JavaScript's `in', so the names   *)
(* every object inherits count as registered; no length equals theirs.     *)

Inherited == {"constructor", "toString"}
LengthIn(registry, id) == IF id \in DOMAIN registry THEN registry[id] ELSE -1
Registered(registry, id) == id \in DOMAIN registry \cup Inherited

HASH_ALG_LENGTHS == [alg \in {"sha2-256", "blake2b-256"} |-> 32]
MERKLE_COMMIT_ALG_LENGTHS == [alg \in {"rfc9162-sha256"} |-> 32]
AEAD_NONCE_LENGTHS == [aead \in {"chacha20-poly1305-stream64k"} |-> 24]
UNAUTHENTICATED_CIPHERS == {"aes-256-cbc", "rc4"}
KEM_SLOT_DESCRIPTORS ==
  [x25519 |-> [field |-> "epk", fieldLength |-> 32, wrapLength |-> 48,
               code |-> "KEM_EPK_LENGTH_MISMATCH"],
   mlkem768x25519 |-> [field |-> "kem_ct", fieldLength |-> 1120, wrapLength |-> 48,
                       code |-> "KEM_CT_LENGTH_MISMATCH"]]
(* The field that carries a slot's key material, and the material; an      *)
(* inherited name finds a function in the registry, which has no fields.   *)
SlotField(kem) ==
  IF kem \in DOMAIN KEM_SLOT_DESCRIPTORS THEN KEM_SLOT_DESCRIPTORS[kem].field ELSE "undefined"
Material(slot, kem) == Get(slot, IF SlotField(kem) = "epk" THEN "epk" ELSE "kem_ct")
PASSPHRASE_KDF_ALGS == {"argon2id"}
KNOWN_SIG_ALG_IDS == {-8, -19}
ARGON2_FLOORS == [m |-> 65536, t |-> 3, p |-> 1]

TOP_LEVEL_BASE_KEYS == {"v", "items", "merkle", "supersedes", "sigs", "crit"}
(* Keys of the form x-... or name-..., with no control character in them.  *)
isExtensionKey(k) == k \in {"x-note"}

(* Options; supported: the critical extensions; ceilings: the one ceiling  *)
(* on Argon2id work, or none.                                              *)
DefaultOptions(maxSlots, maxEncEnvelopeBytes) ==
  [role |-> "public", supported |-> {}, maxSlots |-> maxSlots,
   maxEncEnvelopeBytes |-> maxEncEnvelopeBytes,
   ceilings |-> {[m |-> 2097152, t |-> 16, p |-> 8]}]

isUint(v) == v.t = "int" /\ v.n >= 0
uintWithin(v, lo, hi) == v.n \in lo..hi

-----------------------------------------------------------------------------
(* Schema: a field is <<kind, optional>>; a map is its fields, and closed  *)
(* maps refuse every other key.                                            *)

MerkleCommitSchema == [alg |-> << "text", FALSE >>, root |-> << "bytes", FALSE >>,
                       leaf_count |-> << "int", FALSE >>, uris |-> << "array", TRUE >>]
SlotSchema == [epk |-> << "bytes", TRUE >>, kem_ct |-> << "bytes", TRUE >>,
               wrap |-> << "bytes", TRUE >>]
PassphraseBlockSchema == [alg |-> << "text", FALSE >>, salt |-> << "bytes", FALSE >>,
                          params |-> << "map", FALSE >>]
EncScheme1Schema ==
  [scheme |-> << "one", FALSE >>, aead |-> << "text", FALSE >>, kem |-> << "text", TRUE >>,
   nonce |-> << "bytes", FALSE >>, slots |-> << "array", TRUE >>,
   slots_mac |-> << "bytes", TRUE >>, passphrase |-> << "map", TRUE >>]
ItemEntrySchema == [hashes |-> << "map", FALSE >>, uris |-> << "array", TRUE >>,
                    enc |-> << "any", TRUE >>]
SigEntrySchema == [cose_key |-> << "bytes", TRUE >>, cose_sign1 |-> << "bytes", FALSE >>]
PoeRecordSchema ==
  [v |-> << "one", FALSE >>, items |-> << "array", TRUE >>, merkle |-> << "array", TRUE >>,
   supersedes |-> << "bytes", TRUE >>, sigs |-> << "array", TRUE >>,
   crit |-> << "array", TRUE >>]
EntrySchema == [items |-> ItemEntrySchema, merkle |-> MerkleCommitSchema,
                sigs |-> SigEntrySchema]

IsOfKind(v, kind) ==
  CASE kind = "any" -> TRUE
    [] kind = "one" -> v = Num(1)
    [] OTHER        -> v.t = kind

(* The code of a shape issue, by position: an entry of slots and one of    *)
(* sigs have codes of their own.  Only a missing text, array, map or       *)
(* literal is a missing field; a missing byte string or integer fails a    *)
(* custom check and reads as a wrong type.                                 *)
mapZodIssue(v, kind, path) ==
  LET InEntryOf(f) == Len(path) >= 2 /\ path[1] = f
      code == IF v.t = "intmap" THEN "SCHEMA_TYPE_MISMATCH"
              ELSE IF kind = "one"
              THEN IF v = Missing THEN "SCHEMA_MISSING_REQUIRED"
                   ELSE "SCHEMA_INVALID_LITERAL"
              ELSE IF InEntryOf("slots") THEN "ENC_SLOT_INVALID_SHAPE"
              ELSE IF InEntryOf("sigs") THEN "SIG_ENTRY_INVALID_SHAPE"
              ELSE IF v = Missing /\ kind \notin {"bytes", "int"}
              THEN "SCHEMA_MISSING_REQUIRED"
              ELSE "SCHEMA_TYPE_MISMATCH" IN
  issueOf(code, path)
unknownKeyCode(path) ==
  IF path[1] = "sigs" THEN "SIG_ENTRY_INVALID_SHAPE" ELSE "SCHEMA_UNKNOWN_FIELD"

KindIssues(v, kind, path) == When(~IsOfKind(v, kind), mapZodIssue(v, kind, path))
ElementIssues(v, kind, path) ==
  UNION {KindIssues(Elems(v)[i], kind, path \o << Idx(i) >>) : i \in DOMAIN Elems(v)}
MapIssues(v, schema, closed, path) ==
  IF v.t # "map" THEN {mapZodIssue(v, "map", path)}
  ELSE (UNION {KindIssues(Get(v, f), schema[f][1], path \o << f >>) :
                f \in {f \in DOMAIN schema : ~schema[f][2] \/ Has(v, f)}})
       \cup {issueOf(unknownKeyCode(path \o << k >>), path \o << k >>) :
               k \in IF closed THEN Keys(v) \ DOMAIN schema ELSE {}}
LengthIssues(v, len, code, path) == OneWhen(v.t = "bytes" /\ v.len # len, code, path)
SaltIssues(salt, path) ==
  OneWhen(salt.t = "bytes" /\ salt.len < 16, "ENC_PASSPHRASE_SALT_TOO_SHORT", path)
    \cup OneWhen(salt.t = "bytes" /\ salt.len > 64, "ENC_PASSPHRASE_SALT_TOO_LONG", path)

(* safeParse of the whole record: no descent into enc.                     *)
PoeRecordIssues(v) ==
  LET Entries(f) == Elems(Get(v, f))
      Entry(f, i) ==
        LET e == Entries(f)[i]  at == << f, Idx(i) >>
            hashes == Get(e, "hashes") IN
        MapIssues(e, EntrySchema[f], TRUE, at)
          \cup ElementIssues(Get(e, "uris"), "text", at \o << "uris" >>)
          \cup (IF f # "items" THEN {}
                ELSE UNION {KindIssues(Get(hashes, k), "bytes", at \o << "hashes", k >>) :
                              k \in Keys(hashes)}) IN
  MapIssues(v, PoeRecordSchema, FALSE, << >>)
    \cup (UNION {UNION {Entry(f, i) : i \in DOMAIN Entries(f)} : f \in DOMAIN EntrySchema})
    \cup ElementIssues(Get(v, "crit"), "text", << "crit" >>)
    \cup LengthIssues(Get(v, "supersedes"), 32, "SUPERSEDES_TX_INVALID_LENGTH",
                      << "supersedes" >>)

(* safeParse of a typed envelope, paths relative to it.                    *)
EncScheme1Issues(enc) ==
  LET slots == Elems(Get(enc, "slots"))
      pp == Get(enc, "passphrase") IN
  MapIssues(enc, EncScheme1Schema, TRUE, << >>)
    \cup (UNION {MapIssues(slots[j], SlotSchema, FALSE, << "slots", Idx(j) >>) :
                  j \in DOMAIN slots})
    \cup LengthIssues(Get(enc, "slots_mac"), 32, "ENC_SLOTS_MAC_INVALID_LENGTH",
                      << "slots_mac" >>)
    \cup (IF pp.t # "map" THEN {}
          ELSE MapIssues(pp, PassphraseBlockSchema, TRUE, << "passphrase" >>)
               \cup SaltIssues(Get(pp, "salt"), << "passphrase", "salt" >>))

(* The pre-guard: maps with a key that is no text, at the typed positions  *)
(* outside extension values.                                               *)
NonText(v, path) == OneWhen(v.t = "intmap", "SCHEMA_TYPE_MISMATCH", path)
collectNonTextKeyMapIssues(v) ==
  NonText(v, << >>)
  \cup (UNION {UNION {NonText(Elems(Get(v, f))[i], << f, Idx(i) >>) :
                       i \in DOMAIN Elems(Get(v, f))} : f \in {"items", "merkle", "sigs"}})
  \cup UNION {UNION {NonText(Get(Elems(Get(v, "items"))[i], f), << "items", Idx(i), f >>) :
                       i \in DOMAIN Elems(Get(v, "items"))} : f \in {"hashes", "enc"}}
encInternalNonTextKeyIssues(enc) ==
  LET slots == Elems(Get(enc, "slots"))
      pp == Get(enc, "passphrase") IN
  (UNION {NonText(slots[j], << "slots", Idx(j) >>) : j \in DOMAIN slots})
    \cup NonText(pp, << "passphrase" >>)
    \cup NonText(Get(pp, "params"), << "passphrase", "params" >>)

-----------------------------------------------------------------------------
(* Domain checks.                                                          *)

checkContentCommitmentPresence(record) ==
  LET Empty(f) == Elems(Get(record, f)) = << >> IN
  IF Empty("items") /\ Empty("merkle")
  THEN {issueOf("SCHEMA_EMPTY_RECORD", << >>)}
  ELSE UNION {OneWhen(Has(record, f) /\ Empty(f), "SCHEMA_TYPE_MISMATCH", << f >>) :
                f \in {"items", "merkle"}}

(* Mutant: a name crit lists need not be present in the record.            *)
checkCritWithoutPresence(record, supported) ==
  {issueOf("EXTENSION_UNSUPPORTED_CRITICAL", << "crit", Idx(i) >>) :
     i \in {i \in DOMAIN Elems(Get(record, "crit")) :
              Elems(Get(record, "crit"))[i].s \notin supported}}

checkCrit(record, supported) ==
  LET crit == Elems(Get(record, "crit"))
      Misshapen(i) == \/ crit[i].s \in TOP_LEVEL_BASE_KEYS
                      \/ ~isExtensionKey(crit[i].s)
                      \/ crit[i].s \notin Keys(record)
                      \/ \E j \in 1..(i - 1) : crit[j].s = crit[i].s IN
  OneWhen(Has(record, "crit") /\ crit = << >>, "SCHEMA_TYPE_MISMATCH", << "crit" >>)
    \cup UNION {IF Misshapen(i)
                THEN {issueOf("CRIT_SHAPE_INVALID", << "crit", Idx(i) >>)}
                ELSE OneWhen(crit[i].s \notin supported, "EXTENSION_UNSUPPORTED_CRITICAL",
                             << "crit", Idx(i) >>) : i \in DOMAIN crit}

checkItemHashes(item, at) ==
  LET hashes == Get(item, "hashes")
      path == at \o << "hashes" >> IN
  OneWhen(Keys(hashes) = {}, "SCHEMA_TYPE_MISMATCH", path)
    \cup UNION {IF ~Registered(HASH_ALG_LENGTHS, k)
                THEN {issueOf("UNSUPPORTED_HASH_ALG", path \o << k >>)}
                ELSE OneWhen(hashes.m[k].len # LengthIn(HASH_ALG_LENGTHS, k),
                             "HASH_DIGEST_LENGTH_MISMATCH", path \o << k >>) :
                  k \in Keys(hashes)}

checkUris(uris, path) ==
  IF uris = Missing THEN {}
  ELSE IF uris.a = << >> THEN {issueOf("SCHEMA_TYPE_MISMATCH", path)}
  ELSE UNION {OneWhen(~isFetchSetUri(uris.a[i].uri), "INVALID_URI", path \o << Idx(i) >>) :
                i \in DOMAIN uris.a}

-----------------------------------------------------------------------------
(* The envelope of an item: typed, opaque or refused.                      *)

checkDescribedSlot(slot, kem, path) ==
  LET d == KEM_SLOT_DESCRIPTORS[kem]
      foreign == IF d.field = "epk" THEN "kem_ct" ELSE "epk"
      InvalidAt(k) == issueOf("ENC_SLOT_INVALID_SHAPE", path \o << k >>)
      Field(f, len, code) ==
        IF ~Has(slot, f) THEN {InvalidAt(f)}
        ELSE OneWhen(Get(slot, f).len # len, code, path \o << f >>) IN
  When(Has(slot, foreign), InvalidAt(foreign))
    \cup {InvalidAt(k) : k \in Keys(slot) \ DOMAIN SlotSchema}
    \cup Field(d.field, d.fieldLength, d.code)
    \cup Field("wrap", d.wrapLength, "WRAP_LENGTH_MISMATCH")

(* Under an inherited name no wrap and no key material has the right       *)
(* length, and the code of the material's length is undefined itself.      *)
checkInheritedSlot(slot, path) ==
  LET InvalidAt(k) == issueOf("ENC_SLOT_INVALID_SHAPE", path \o << k >>) IN
  {InvalidAt(k) : k \in Keys(slot) \ {"kem_ct", "wrap"}}
    \cup {IF Has(slot, "kem_ct")
          THEN IssueAs("undefined", path \o << "undefined" >>, "undefined")
          ELSE InvalidAt("undefined")}
    \cup {IF Has(slot, "wrap") THEN issueOf("WRAP_LENGTH_MISMATCH", path \o << "wrap" >>)
          ELSE InvalidAt("wrap")}
checkSlotShape(slot, kem, path) ==
  IF kem \in DOMAIN KEM_SLOT_DESCRIPTORS THEN checkDescribedSlot(slot, kem, path)
  ELSE checkInheritedSlot(slot, path)

checkPassphraseBlock(pp, opts, path) ==
  LET params == Get(pp, "params")
      Param(name) ==
        LET v == Get(params, name)
            Issue(code) == {issueOf(code, path \o << "params", name >>)} IN
        IF v = Missing THEN Issue("SCHEMA_MISSING_REQUIRED")
        ELSE IF ~isUint(v) \/ ~uintWithin(v, 0, UINT32_MAX)
        THEN Issue("SCHEMA_TYPE_MISMATCH")
        ELSE IF v.n < ARGON2_FLOORS[name]
        THEN Issue("ENC_PASSPHRASE_ARGON2_PARAMS_TOO_LOW")
        ELSE IF \E c \in opts.ceilings : v.n > c[name]
        THEN Issue("ENC_PASSPHRASE_PARAMS_EXCEED_POLICY") ELSE {} IN
  IF ~TextIn(Get(pp, "alg"), PASSPHRASE_KDF_ALGS)
  THEN {issueOf("ENC_PASSPHRASE_ALG_UNSUPPORTED", path \o << "alg" >>)}
  ELSE {issueOf("SCHEMA_UNKNOWN_FIELD", path \o << "params", k >>) :
          k \in Keys(params) \ DOMAIN ARGON2_FLOORS}
       \cup UNION {Param(name) : name \in DOMAIN ARGON2_FLOORS}

(* Every key-path rule has its own code, and they co-fire.                 *)
KeyPathIssues(enc, path) ==
  LET slots == Has(enc, "slots")
      mac == Has(enc, "slots_mac")
      passphrase == Has(enc, "passphrase")
      kem == Has(enc, "kem") IN
  OneWhen(passphrase /\ (slots \/ mac \/ kem), "ENC_EXCLUSIVITY_VIOLATION", path)
    \cup OneWhen(slots /\ ~mac, "ENC_SLOTS_MAC_REQUIRED", path)
    \cup OneWhen(mac /\ ~slots, "ENC_SLOTS_REQUIRED", path)
    \cup OneWhen(slots /\ ~kem, "ENC_KEM_REQUIRED", path)
    \cup OneWhen(~slots /\ ~passphrase, "ENC_NO_KEY_PATH", path)

checkScheme1Envelope(enc, opts, path) ==
  LET slots == Elems(Get(enc, "slots"))
      at == path \o << "slots" >>
      kem == Get(enc, "kem").s
      Repeats(i) == /\ Material(slots[i], kem) # Missing
                    /\ \E j \in 1..(i - 1) : Material(slots[j], kem) = Material(slots[i], kem)
  IN
  OneWhen(Get(enc, "nonce").len # LengthIn(AEAD_NONCE_LENGTHS, Get(enc, "aead").s),
          "NONCE_LENGTH_MISMATCH", path \o << "nonce" >>)
    \cup KeyPathIssues(enc, path)
    \cup (IF ~Has(enc, "slots") THEN {}
          ELSE IF slots = << >> THEN {issueOf("ENC_SLOTS_EMPTY", at)}
          ELSE IF Len(slots) > opts.maxSlots THEN {issueOf("ENC_SLOTS_TOO_MANY", at)}
          ELSE IF ~Has(enc, "kem") THEN {}
          ELSE UNION {checkSlotShape(slots[i], kem, at \o << Idx(i) >>)
                        \cup OneWhen(Repeats(i), "ENC_SLOTS_DUPLICATE_KEM_MATERIAL",
                                     at \o << Idx(i), SlotField(kem) >>) : i \in DOMAIN slots})
    \cup (IF ~Has(enc, "passphrase") THEN {}
          ELSE checkPassphraseBlock(Get(enc, "passphrase"), opts, path \o << "passphrase" >>))

(* The identifiers of an envelope this implementation does not support; a  *)
(* kem or aead that is no text is none, and left to the typed reading.     *)
UnsupportedIdentifiers(enc) ==
  LET kem == Get(enc, "kem")
      aead == Get(enc, "aead") IN
  When(Get(enc, "scheme") # Num(1), << "scheme", "UNSUPPORTED_ENVELOPE_SCHEME" >>)
    \cup When(kem.t = "text" /\ ~TextIn(kem, DOMAIN KEM_SLOT_DESCRIPTORS \cup Inherited),
              << "kem", "UNSUPPORTED_KEM_ALG" >>)
    \cup When(aead.t = "text" /\ ~TextIn(aead, DOMAIN AEAD_NONCE_LENGTHS \cup Inherited),
              << "aead", "UNSUPPORTED_AEAD_ALG" >>)

(* The disposition of a map: forbidden cipher, opaque, or the typed pass,  *)
(* which never falls back to opaque.                                       *)
envelopeDisposition(enc, opts, path) ==
  LET unsupported == UnsupportedIdentifiers(enc)
      strict == opts.role = "recipient_or_strict"
      AtEnc(issues) == {[s EXCEPT !.path = path \o s.path] : s \in issues} IN
  IF ~Has(enc, "scheme")
  THEN {issueOf("SCHEMA_MISSING_REQUIRED", path \o << "scheme" >>)}
  ELSE IF ~isUint(Get(enc, "scheme"))
  THEN {issueOf("SCHEMA_TYPE_MISMATCH", path \o << "scheme" >>)}
  ELSE IF TextIn(Get(enc, "aead"), UNAUTHENTICATED_CIPHERS)
  THEN {issueOf("UNAUTHENTICATED_CIPHER_FORBIDDEN", path \o << "aead" >>)}
  ELSE IF unsupported # {}
  THEN {IssueAs("ENC_UNSUPPORTED", path, IF strict THEN "error" ELSE "info")}
       \cup {issueOf(u[2], path \o << u[1] >>) : u \in IF strict THEN unsupported ELSE {}}
  ELSE IF encInternalNonTextKeyIssues(enc) # {}
  THEN AtEnc(encInternalNonTextKeyIssues(enc))
  ELSE IF EncScheme1Issues(enc) # {} THEN AtEnc(EncScheme1Issues(enc))
  ELSE checkScheme1Envelope(enc, opts, path)

(* The content-hash rule and the size bound hold in every reading.         *)
checkItemEnc(item, opts, path) ==
  LET enc == Get(item, "enc") IN
  OneWhen(\A k \in Keys(Get(item, "hashes")) : ~Registered(HASH_ALG_LENGTHS, k),
          "ENC_REQUIRES_CONTENT_HASH", path)
    \cup (IF enc.t # "map" THEN {issueOf("SCHEMA_TYPE_MISMATCH", path)}
          ELSE OneWhen(EncodedSize(enc) > opts.maxEncEnvelopeBytes,
                       "ENC_ENVELOPE_TOO_LARGE", path)
               \cup envelopeDisposition(enc, opts, path))

-----------------------------------------------------------------------------
checkMerkleCommit(commit, at) ==
  LET alg == Get(commit, "alg").s
      count == Get(commit, "leaf_count") IN
  (IF ~Registered(MERKLE_COMMIT_ALG_LENGTHS, alg)
   THEN {issueOf("UNSUPPORTED_MERKLE_COMMIT_ALG", at \o << "alg" >>)}
   ELSE OneWhen(Get(commit, "root").len # LengthIn(MERKLE_COMMIT_ALG_LENGTHS, alg),
                "HASH_DIGEST_LENGTH_MISMATCH", at \o << "root" >>))
  \cup (IF ~isUint(count) THEN {issueOf("SCHEMA_TYPE_MISMATCH", at \o << "leaf_count" >>)}
        ELSE OneWhen(~uintWithin(count, 1, UINT32_MAX),
                     "SCHEMA_MERKLE_LEAF_COUNT_INVALID", at \o << "leaf_count" >>))
  \cup checkUris(Get(commit, "uris"), at \o << "uris" >>)

(* The private key guard runs before anything else looks at the blob.      *)
inspectCoseKey(blob, at) ==
  LET key == Decoded(blob) IN
  IF Has(key, "d") THEN {issueOf("SIG_PRIVATE_KEY_LEAKED", at)}
  ELSE OneWhen(~(/\ Get(key, "kty") = Num(1) /\ Get(key, "crv") = Num(6)
                 /\ IsKey(Get(key, "x"))), "MALFORMED_SIG_COSE_SIGN1", at)

checkSigEntry(entry, at) ==
  LET keyIssues == IF Has(entry, "cose_key")
                   THEN inspectCoseKey(Get(entry, "cose_key"), at \o << "cose_key" >>)
                   ELSE {}
      cose == decodeCoseSign1(Get(entry, "cose_sign1"))
      alg == Get(cose.protected, "alg") IN
  IF keyIssues # {} THEN keyIssues
  ELSE IF ~cose.ok THEN {issueOf("MALFORMED_SIG_COSE_SIGN1", at)}
  ELSE IF cose.payload # Null THEN {issueOf("MALFORMED_SIG_COSE_SIGN1", at)}
  ELSE OneWhen(alg.t # "int" \/ alg.n \notin KNOWN_SIG_ALG_IDS, "SIGNATURE_UNSUPPORTED", at)
       \cup OneWhen(IsKey(Get(cose.protected, "kid")) /\ Has(entry, "cose_key"),
                    "SIG_ENTRY_KID_COSE_KEY_CONFLICT", at)

-----------------------------------------------------------------------------
DomainIssues(record, opts) ==
  LET Entries(f) == Elems(Get(record, f))
      At(f, i) == << f, Idx(i) >> IN
  checkContentCommitmentPresence(record)
    \cup checkCrit(record, opts.supported)
    \cup {issueOf("SCHEMA_UNKNOWN_FIELD", << k >>) :
            k \in {k \in Keys(record) \ TOP_LEVEL_BASE_KEYS : ~isExtensionKey(k)}}
    \cup (UNION {LET item == Entries("items")[i]  at == At("items", i) IN
                checkItemHashes(item, at)
                  \cup checkUris(Get(item, "uris"), at \o << "uris" >>)
                  \cup (IF Has(item, "enc")
                        THEN checkItemEnc(item, opts, at \o << "enc" >>) ELSE {}) :
                  i \in DOMAIN Entries("items")})
    \cup (UNION {checkMerkleCommit(Entries("merkle")[i], At("merkle", i)) :
                  i \in DOMAIN Entries("merkle")})
    \cup OneWhen(Has(record, "sigs") /\ Entries("sigs") = << >>, "SCHEMA_TYPE_MISMATCH",
                 << "sigs" >>)
    \cup UNION {checkSigEntry(Entries("sigs")[i], At("sigs", i)) : i \in DOMAIN Entries("sigs")}

(* The issues of the first stage that has any: decode, pre-guard, schema,  *)
(* domain.  A record is valid iff none of them is an error.                *)
ValidationIssues(body, opts) ==
  IF ~body.decodes THEN {issueOf("MALFORMED_CBOR", << >>)}
  ELSE IF collectNonTextKeyMapIssues(body.value) # {}
  THEN collectNonTextKeyMapIssues(body.value)
  ELSE IF PoeRecordIssues(body.value) # {} THEN PoeRecordIssues(body.value)
  ELSE DomainIssues(body.value, opts)

Validated(sorted) == [valid |-> ErrorsOf(sorted) = {}, issues |-> sorted]
validatePoeRecord(body, opts) ==
  Validated(sortIssues(SetToSeq(ValidationIssues(body, opts))))
=============================================================================
