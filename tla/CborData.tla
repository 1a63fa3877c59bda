------------------------------- MODULE CborData -------------------------------
(***************************************************************************)
(* The encoding of decoded values (poe-standard/src/encoder.ts) and the    *)
(* chunk array that carries an encoded body on chain                       *)
(* (poe-standard/src/carriage.ts).                                         *)
(***************************************************************************)
EXTENDS CborValues

(* encodeCanonicalCbor: one encoding for each value, undefined properties  *)
(* dropped at every level.  What the model keeps of the bytes is the value *)
(* they decode to, and their number; CborCodec says what both are, which   *)
(* no proof has to know.                                                   *)
CONSTANTS stripUndefined(_), EncodedSize(_)

(* The shortest head for an argument, and a text's characters: "ar://" and *)
(* 43 of a transaction id, or "ipfs://" and 59 of a CID.                   *)
HeadSize(n) == IF n < 24 THEN 1 ELSE IF n < 256 THEN 2 ELSE IF n < 65536 THEN 3 ELSE 5
TextLen(v) == IF "s" \in DOMAIN v THEN Len(v.s) ELSE IF "txid" \in DOMAIN v.uri THEN 48 ELSE 66
Sized(len) == HeadSize(len) + len
SumOver(sizes) == FoldFunction(+, 0, sizes)

Encoded(v) == [decodes |-> TRUE, value |-> v]
Undecodable == [decodes |-> FALSE]        \* no canonical CBOR item
encodePoeRecord(record) == Encoded(stripUndefined(record))
(* The body a record signature covers: the record without its sigs.        *)
encodeRecordBodyForSigning(record) ==
  Encoded(stripUndefined(Map([k \in Keys(record) \ {"sigs"} |-> record.m[k]])))

-----------------------------------------------------------------------------
CONSTANT TRANSPORT_CHUNK_MAX_BYTES        \* 64, the ledger's metadatum cap
ASSUME ChunkAssumption == TRANSPORT_CHUNK_MAX_BYTES \in Nat \ {0}

(* Bytes at..at+len-1 of an encoded body, as one chunk.                    *)
Piece(body, at, len) == [t |-> "bytes", len |-> len, body |-> body, at |-> at]

(* The minimal split: every chunk but the last is full.                    *)
chunkRecordBody(body) ==
  LET size == EncodedSize(body.value)
      full == TRANSPORT_CHUNK_MAX_BYTES IN
  [i \in 1..((size + full - 1) \div full) |->
     Piece(body, (i - 1) * full, Min({full, size - (i - 1) * full}))]

(* The in-order concatenation of the chunks: the body again when they are  *)
(* its consecutive pieces, empty ones anywhere, and nothing that decodes   *)
(* otherwise.                                                              *)
Concatenation(chunks) ==
  LET some == SelectSeq(chunks, LAMBDA c : c.len > 0)
      whole == /\ some # << >>
               /\ \A i \in DOMAIN some : "body" \in DOMAIN some[i]
               /\ \A i \in DOMAIN some :
                    /\ some[i].body = some[1].body
                    /\ some[i].at = IF i = 1 THEN 0
                                    ELSE some[i - 1].at + some[i - 1].len
               /\ some[Len(some)].at + some[Len(some)].len
                    = EncodedSize(some[1].body.value) IN
  IF whole THEN some[1].body ELSE Undecodable

(* The first offending element decides the code; a decode failure or a     *)
(* value that is no array fails before any element is looked at.           *)
reassembleLabel309Value(value) ==
  LET failure(code) == [ok |-> FALSE, issue |-> issueOf(code, << >>)]
      Bad(e) == e.t # "bytes" \/ e.len > TRANSPORT_CHUNK_MAX_BYTES
      bad == {i \in DOMAIN value.value.a : Bad(value.value.a[i])} IN
  IF ~value.decodes THEN failure("MALFORMED_CBOR")
  ELSE IF value.value.t # "array" THEN failure("MALFORMED_CBOR")
  ELSE IF bad # {}
  THEN failure(IF value.value.a[Min(bad)].t # "bytes" THEN "MALFORMED_CBOR"
               ELSE "CHUNK_TOO_LARGE")
  ELSE [ok |-> TRUE, body |-> Concatenation(value.value.a)]
=============================================================================
