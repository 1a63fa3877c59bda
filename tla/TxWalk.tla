-------------------------------- MODULE TxWalk --------------------------------
(***************************************************************************)
(* The bytes of a transaction: the walker that slices it without decoding  *)
(* it (sdk-ts/src/verifier/cbor-walker.ts), the binding of the slices to   *)
(* the requested hash (tx-binding.ts) and the informational decode         *)
(* (tx-witnesses.ts).                                                      *)
(*                                                                         *)
(* Bytes are a sequence of CBOR heads [mt, n, v]: major type, argument,    *)
(* and for a string also its contents v (Missing when the input ends       *)
(* inside them).  An argument below 0 is one the walker refuses: reserved, *)
(* indefinite, cut off or above 2^53.  The hash of bytes is the digest of  *)
(* the very sequence.                                                      *)
(***************************************************************************)
EXTENDS ContentUris, RecordSignatures

Item(mt, n) == [mt |-> mt, n |-> n, v |-> Null]
String(v)   == [mt |-> IF v.t = "text" THEN 3 ELSE 2, n |-> 1, v |-> v]
Loose       == [t |-> "loose"]       \* contents no canonical decoder accepts

NoHead == Item(8, 0)
readHead(b, p) == IF p \in DOMAIN b /\ b[p].n >= 0 THEN b[p] ELSE NoHead

(* The position after the head at p (0 when the walk throws) and the items *)
(* it holds.  A two-byte simple value (argument 24) takes the byte after   *)
(* it along, here the one-byte item that follows.                          *)
SkipHead(b, p) ==
  LET h == readHead(b, p) IN
  CASE h.mt \in {0, 1} -> << p + 1, 0 >>
    [] h.mt \in {2, 3} /\ h.v # Missing -> << p + 1, 0 >>
    [] h.mt = 4 -> << p + 1, h.n >>
    [] h.mt = 5 -> << p + 1, 2 * h.n >>
    [] h.mt = 6 -> << p + 1, 1 >>
    [] h.mt = 7 /\ h.n # 24 -> << p + 1, 0 >>
    [] h.mt = 7 /\ h.n = 24 /\ p < Len(b) -> << p + 2, 0 >>
    [] OTHER -> << 0, 0 >>
skipItems(b, p, n) ==
  LET skip[q \in Nat, k \in Nat] ==
        LET head == SkipHead(b, q) IN
        IF k = 0 \/ q = 0 THEN q ELSE skip[head[1], k - 1 + head[2]] IN
  skip[p, n]
skipCborItem(b, p) == skipItems(b, p, 1)

Slice(b, from, to) == SubSeq(b, from, to - 1)
Malformed == [ok |-> FALSE]

(* [body, witness set, auxiliary data] with or without is_valid before the *)
(* last; trailing bytes are not looked at.                                 *)
TxParts(b, ends) ==
  LET auxStart == ends[Len(ends) - 1]
      absent == b[auxStart].mt = 7 /\ b[auxStart].n \in {22, 23} IN
  IF auxStart \notin DOMAIN b \/ ends[Len(ends)] = 0 THEN Malformed
  ELSE [ok |-> TRUE, txBody |-> Slice(b, 2, ends[1]), witnessSet |-> Slice(b, ends[1], ends[2]),
        auxiliaryData |-> IF absent THEN << >> ELSE Slice(b, auxStart, ends[Len(ends)])]
sliceTxComponents(b) ==
  LET head == readHead(b, 1) IN
  IF head.mt # 4 \/ head.n \notin {3, 4} THEN Malformed
  ELSE TxParts(b, [k \in 1..head.n |-> skipItems(b, 2, k)])

(* The pairs of a map whose n pairs start at p, of bytes already walked.   *)
Pairs(b, p, n) ==
  [i \in 1..n |-> LET key == skipItems(b, p, 2 * i - 2) IN
                  [key |-> b[key], from |-> skipCborItem(b, key),
                   to |-> skipItems(b, key, 2)]]
WithKey(pairs, n) == SelectSeq(pairs, LAMBDA pair : pair.key.mt = 0 /\ pair.key.n = n)

(* The three envelope forms, told apart by type and tag only.  Of equal    *)
(* keys the last counts.                                                   *)
MetadataAt(b, zero) ==
  CASE b[1].mt = 5 -> 1
    [] b[1].mt = 4 /\ b[1].n = 2 -> 2
    [] b[1].mt = 6 /\ b[1].n = 259 /\ b[2].mt = 5 ->
         IF zero = << >> THEN 0 ELSE Last(zero).from
    [] OTHER -> -1
Labels(b, entries, at309) ==
  IF \E i \in DOMAIN entries : entries[i].key.mt # 0 THEN Malformed
  ELSE [ok |-> TRUE,
        label309 |-> IF at309 = << >> THEN << >>
                     ELSE Slice(b, Last(at309).from, Last(at309).to),
        metadataLabels |-> SortSeq([i \in DOMAIN entries |-> entries[i].key.n], <)]
LabelsIn(b, entries) == Labels(b, entries, WithKey(entries, 309))
UnwrappedAt(b, meta) ==
  IF meta = 0 THEN [ok |-> TRUE, label309 |-> << >>, metadataLabels |-> << >>]
  ELSE IF meta = -1 \/ b[meta].mt # 5 THEN Malformed
  ELSE LabelsIn(b, Pairs(b, meta + 1, b[meta].n))
unwrapAuxiliaryData(b) == UnwrappedAt(b, MetadataAt(b, WithKey(Pairs(b, 3, b[2].n), 0)))

(* Key 7 of a body already walked; here the first of equal keys counts.    *)
HashIn(body, seven) ==
  IF body[1].mt # 5 THEN Malformed
  ELSE IF seven = << >> THEN [ok |-> TRUE, hash |-> Missing]
  ELSE IF body[seven[1].from].mt # 2 THEN Malformed
  ELSE [ok |-> TRUE, hash |-> body[seven[1].from].v]
auxiliaryDataHashFromTxBody(body) ==
  HashIn(body, WithKey(Pairs(body, 2, body[1].n), 7))

-----------------------------------------------------------------------------
blake2b256(bytes) == Digest("blake2b-256", [tx |-> bytes])

(* Mutant: only the body is bound, as if it contained the metadata.        *)
bindBodyOnly(requested, body, aux) ==
  IF requested # blake2b256(body) THEN "tx_hash" ELSE "ok"

(* requested is Missing when the caller's hash is no hex string.           *)
bindTransactionBytes(requested, body, aux) ==
  LET committed == auxiliaryDataHashFromTxBody(body) IN
  IF requested # blake2b256(body) THEN "tx_hash"
  ELSE IF ~committed.ok THEN "auxiliary_data_hash"
  ELSE IF committed.hash = (IF aux = << >> THEN Missing ELSE blake2b256(aux))
  THEN "ok" ELSE "auxiliary_data_hash"

(* What the canonical decoder makes of the sliced label-309 value.         *)
DecodedLabel309(b) ==
  IF \E i \in DOMAIN b : b[i].v = Loose THEN Undecodable
  ELSE IF b[1].mt = 4 THEN Encoded(Arr([i \in 1..b[1].n |-> b[i + 1].v]))
  ELSE Encoded(b[1].v)

-----------------------------------------------------------------------------
(* The informational decode: a decoder that accepts what the walker walks. *)

decodeCbor(b, p) ==
  LET item[q \in Nat] ==
        LET h == readHead(b, q)
            After(n) == item[skipItems(b, q + 1, n)] IN
        CASE h.mt = 0 -> Num(h.n)
          [] h.mt \in {2, 3} -> h.v
          [] h.mt = 4 -> Arr([i \in 1..h.n |-> After(i - 1)])
          [] h.mt = 5 -> [t |-> "pairs",
                          of |-> [i \in 1..h.n |-> << After(2 * i - 2), After(2 * i - 1) >>]]
          [] h.mt = 6 -> item[q + 1]
          [] OTHER -> Null IN
  item[p]
At(tree, n) ==
  LET found == IF tree.t # "pairs" THEN {}
               ELSE {i \in DOMAIN tree.of : tree.of[i][1] = Num(n)} IN
  IF found = {} THEN Missing ELSE tree.of[Max(found)][2]

(* The [vkey, signature] pairs of a witness set.                           *)
PairsIn(entries) == [i \in DOMAIN entries |-> Elems(entries[i]) \o << Missing, Missing >>]
WitnessPairs(witnessSet) == PairsIn(Elems(At(decodeCbor(witnessSet, 1), 0)))
(* A witness whose key has 32 bytes is listed, valid only if that key      *)
(* signed the hash of this body.                                           *)
Witnessed(pair, signed) ==
  [vkey |-> pair[1], signature_valid |-> /\ pair[2].t = "bytes" /\ pair[2].len = 64
                                         /\ verifyEd25519(pair[1], signed, pair[2])]
WitnessesIn(pairs, signed) ==
  Subsequence([i \in DOMAIN pairs |-> Witnessed(pairs[i], signed)],
              {i \in DOMAIN pairs : IsKey(pairs[i][1])})
decodeTxWitnesses(witnessSet, txBody) ==
  WitnessesIn(WitnessPairs(witnessSet), blake2b256(txBody))

ScriptsIn(tree) ==
  IF tree.t # "pairs" THEN 0
  ELSE FoldLeft(LAMBDA n, pair : n + IF pair[1] = Num(0) THEN 0 ELSE Len(Elems(pair[2])),
                0, tree.of)
countScriptWitnesses(witnessSet) == ScriptsIn(decodeCbor(witnessSet, 1))

(* [address, coin] or {0: address, 1: coin}, the coin alone or with assets. *)
readOutput(output) ==
  LET field(i) == IF output.t = "array" THEN (output.a \o << Missing, Missing >>)[i + 1]
                  ELSE At(output, i)
      amount == IF field(1).t = "array" THEN field(1).a[1] ELSE field(1) IN
  IF field(0).t # "bytes" \/ amount.t # "int" THEN Malformed
  ELSE [ok |-> TRUE, addressBytes |-> field(0), lovelace |-> amount.n]

(* The prefix of an address; its own network wins over the caller's.       *)
encodeCardanoAddress(address, network) ==
  LET testnet == IF address.network \in {0, 1} THEN address.network = 0
                 ELSE network = "preprod"
      stake == address.type \in {14, 15} IN
  << IF stake THEN "stake" ELSE "addr", testnet >>

SummaryOf(body, outputs, witnessSet, network) ==
  IF At(body, 2).t # "int" \/ \E i \in DOMAIN outputs : ~outputs[i].ok THEN Malformed
  ELSE [ok |-> TRUE, fee_lovelace |-> At(body, 2).n,
        input_count |-> Len(Elems(At(body, 0))), output_count |-> Len(outputs),
        outputs |-> [i \in DOMAIN outputs |->
                       << encodeCardanoAddress(outputs[i].addressBytes, network),
                          outputs[i].lovelace >>],
        total_output_lovelace |-> FoldLeft(LAMBDA n, o : n + o.lovelace, 0, outputs),
        script_witness_count |-> countScriptWitnesses(witnessSet),
        required_signer_key_hashes |->
          SelectSeq(Elems(At(body, 14)), LAMBDA s : s.t = "bytes")]
Summary(body, raw, witnessSet, network) ==
  IF body.t # "pairs" THEN Malformed
  ELSE SummaryOf(body, [i \in DOMAIN raw |-> readOutput(raw[i])], witnessSet, network)
SummaryIn(body, witnessSet, network) == Summary(body, Elems(At(body, 1)), witnessSet, network)
decodeTxSummary(txBody, witnessSet, network) ==
  SummaryIn(decodeCbor(txBody, 1), witnessSet, network)

(* Each part is left out when its decoder throws.                          *)
DescribedParts(c, aux, network) ==
  [metadataLabels |-> IF c.auxiliaryData = << >> THEN << >>
                      ELSE IF aux.ok THEN aux.metadataLabels ELSE << >>,
   txWitnesses |-> decodeTxWitnesses(c.witnessSet, c.txBody),
   txSummary |-> decodeTxSummary(c.txBody, c.witnessSet, network)]
Described(c, network) == DescribedParts(c, unwrapAuxiliaryData(c.auxiliaryData), network)
decodeTxDescription(txCbor, network) == Described(sliceTxComponents(txCbor), network)
=============================================================================
