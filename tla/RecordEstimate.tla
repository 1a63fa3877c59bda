----------------------------- MODULE RecordEstimate -----------------------------
(***************************************************************************)
(* The size of a record before it exists (sdk-ts/src/estimate/index.ts):   *)
(* what a quote is asked for while the URIs are still to come.             *)
(*                                                                         *)
(* A shape is [items, merkle, signed, supersedes]; an item of it is        *)
(* [hashAlgs, uris, enc], enc is [kind |-> "kem", kem, recipientCount],    *)
(* [kind |-> "passphrase"] or Nothing, merkle is [alg, uris] or Nothing.   *)
(***************************************************************************)
EXTENDS CborData

CONSTANT MAX_SAFE_INTEGER        \* 2^53 - 1 in the code
ASSUME SafeIntegerAssumption == MAX_SAFE_INTEGER \in Nat /\ MAX_SAFE_INTEGER > UINT32_MAX

SAFETY_MARGIN == 16
COSE_SIGN1_PATH1_BYTES == 109
Nothing == [kind |-> "nothing"]

cborHeaderLen(n) ==
  IF n =< 23 THEN 1 ELSE IF n =< 255 THEN 2 ELSE IF n =< 65535 THEN 3
  ELSE IF n =< UINT32_MAX THEN 5 ELSE 9
strBytes(len) == cborHeaderLen(len) + len

(* A field name, and a field whose value is a string.                      *)
KeyBytes(name) == strBytes(Len(name))
StringField(name, len) == KeyBytes(name) + strBytes(len)

urisBytes(uris) ==
  IF uris = << >> THEN 0
  ELSE KeyBytes("uris") + cborHeaderLen(Len(uris))
         + SumOver([i \in DOMAIN uris |-> strBytes(TextLen(uris[i]))])

(* Saturates instead of losing precision; a count that is none is charged  *)
(* as the largest.                                                         *)
slotsBytes(perSlot, recipientCount) ==
  IF recipientCount \notin 0..(MAX_SAFE_INTEGER \div perSlot) THEN MAX_SAFE_INTEGER
  ELSE perSlot * recipientCount

(* Identifiers are charged at the longest there is.                        *)
CommonBytes(keys) ==
  cborHeaderLen(keys) + KeyBytes("scheme") + cborHeaderLen(1)
    + StringField("aead", 27) + StringField("nonce", 24)
slotBytes(kem) ==
  cborHeaderLen(2) + StringField("wrap", 48)
    + (IF kem = "x25519" THEN StringField("epk", 32) ELSE StringField("kem_ct", 1120))
envelopeBytes(enc) ==
  IF enc.kind = "kem"
  THEN CommonBytes(6) + StringField("kem", 14) + StringField("slots_mac", 32)
         + KeyBytes("slots") + cborHeaderLen(enc.recipientCount)
         + slotsBytes(slotBytes(enc.kem), enc.recipientCount)
  ELSE CommonBytes(4) + KeyBytes("passphrase") + cborHeaderLen(3)
         + StringField("alg", 8) + StringField("salt", 16) + KeyBytes("params") + cborHeaderLen(3)
         + KeyBytes("m") + cborHeaderLen(65536) + KeyBytes("t") + cborHeaderLen(3)
         + KeyBytes("p") + cborHeaderLen(1)

One(present) == IF present THEN 1 ELSE 0
itemBytes(item) ==
  cborHeaderLen(1 + One(item.uris # << >>) + One(item.enc # Nothing))
    + KeyBytes("hashes") + cborHeaderLen(Cardinality(item.hashAlgs))
    + SumOver([alg \in item.hashAlgs |-> KeyBytes(alg) + strBytes(32)])
    + urisBytes(item.uris)
    + (IF item.enc = Nothing THEN 0 ELSE KeyBytes("enc") + envelopeBytes(item.enc))

(* The leaf count is charged at the widest integer there is.               *)
merkleBytes(merkle) ==
  KeyBytes("merkle") + cborHeaderLen(1) + cborHeaderLen(3 + One(merkle.uris # << >>))
    + StringField("alg", Len(merkle.alg)) + StringField("root", 32)
    + KeyBytes("leaf_count") + 9 + urisBytes(merkle.uris)
sigEntryBytes == cborHeaderLen(1) + StringField("cose_sign1", COSE_SIGN1_PATH1_BYTES)

estimateRecordBytes(shape) ==
  LET merkle == shape.merkle # Nothing
      keys == 1 + One(shape.items # << >>) + One(merkle) + One(shape.supersedes)
                + One(shape.signed) IN
  cborHeaderLen(keys) + KeyBytes("v") + cborHeaderLen(1)
    + (IF shape.items = << >> THEN 0
       ELSE KeyBytes("items") + cborHeaderLen(Len(shape.items))
              + SumOver([i \in DOMAIN shape.items |-> itemBytes(shape.items[i])]))
    + (IF merkle THEN merkleBytes(shape.merkle) ELSE 0)
    + (IF shape.supersedes THEN StringField("supersedes", 32) ELSE 0)
    + (IF shape.signed THEN KeyBytes("sigs") + cborHeaderLen(1) + sigEntryBytes ELSE 0)
    + SAFETY_MARGIN
=============================================================================
