----------------------------- MODULE Certificates -----------------------------
(***************************************************************************)
(* The inclusion certificate (sdk-ts/src/certificate): a file that carries *)
(* leaves, their proofs and the commitment they lead to, made from a leaves *)
(* list and checked again from the file alone, and the COSE proof made of  *)
(* one of its items.                                                       *)
(*                                                                         *)
(* A hex field is the bytes it spells and the case it spells them in; the  *)
(* reader is given an object of the certificate's type, whose fields may   *)
(* hold any value.  The fixed texts (claim, verification) and the time of  *)
(* generation are left out.                                                *)
(***************************************************************************)
EXTENDS MerkleLeaves, RecordSignatures

CONSTANT MAX_BLOCK_TIME_EXCLUSIVE        \* the first second of the year 10000
ASSUME BlockTimeAssumption == MAX_BLOCK_TIME_EXCLUSIVE \in Nat \ {0}

DIGEST_LENGTH == 32
Flag(b) == [t |-> "bool", b |-> b]
bytesToHex(bytes) == [t |-> "hex", of |-> bytes, upper |-> FALSE]
(* Either case reads the same; anything else spells no bytes.              *)
decodeHex(hex) == IF hex.t = "hex" THEN hex.of ELSE Missing
IsDigest(bytes) == bytes.t = "bytes" /\ bytes.len = DIGEST_LENGTH

(* merkleSha2256VerifyInclusion on bytes: those of another length, or that *)
(* are no hash of this tree, verify nothing.                               *)
TermOf(bytes) == IF "tree" \in DOMAIN bytes THEN bytes.tree ELSE << "bytes", bytes >>
BytesVerify(leaf, index, treeSize, proof, root) ==
  /\ IsDigest(leaf) /\ IsDigest(root) /\ \A i \in DOMAIN proof : IsDigest(proof[i])
  /\ merkleSha2256VerifyInclusion(leaf, index, treeSize,
                                  [i \in DOMAIN proof |-> TermOf(proof[i])], TermOf(root))

-----------------------------------------------------------------------------
(* build.ts                                                                *)

(* The index of the first leaf equal to target, or -1.                     *)
findLeafIndex(leaves, target) ==
  IF target \in Range(leaves) THEN Min({i \in DOMAIN leaves : leaves[i] = target}) - 1 ELSE -1

(* An absent part is an absent key.                                        *)
makeItem(parts) == stripUndefined(Map(parts))

(* A target that is no leaf still has its item, with an error.             *)
buildItem(target, leaves, root) ==
  LET wellFormed == IsDigest(target.leaf)
      index == IF wellFormed THEN findLeafIndex(leaves, target.leaf) ELSE -1
      sibling == IF index < 0 THEN << >> ELSE merkleSha2256InclusionProof(leaves, index)
      proof == [i \in DOMAIN sibling |-> RootBytes(sibling[i])] IN
  makeItem([leaf |-> bytesToHex(target.leaf), leaf_alg |-> target.leafAlg,
            index |-> Num(index), proof |-> Arr([i \in DOMAIN proof |-> bytesToHex(proof[i])]),
            verified |-> Flag(/\ index >= 0
                              /\ BytesVerify(target.leaf, index, Len(leaves), proof, root)),
            label |-> target.label,
            error |-> IF ~wellFormed THEN Text("leaf must be 32 bytes")
                      ELSE IF index < 0 THEN Text("leaf not found") ELSE Missing])

buildAnchor(anchor) ==
  stripUndefined(Map(
    [chain |-> anchor.chain, network |-> anchor.network, tx_hash |-> anchor.txHash,
     metadata_label |-> Num(309), block_time |-> anchor.blockTime,
     block_height |-> anchor.blockHeight, slot |-> anchor.slot,
     confirmations_at_generation |-> anchor.confirmationsAtGeneration,
     explorer_urls |-> anchor.explorerUrls]))
buildMerkle(merkle) ==
  Map([tree_alg |-> merkle.treeAlg, root |-> bytesToHex(merkle.root),
       tree_size |-> Num(merkle.treeSize)])

(* Structural misuse is refused, a miss is not.                            *)
buildInclusionCertificate(anchor, merkle, leaves, targets) ==
  IF \/ merkle.treeAlg # Text("rfc9162-sha256")
     \/ ~IsDigest(merkle.root)
     \/ merkle.treeSize # Len(leaves)
     \/ leaves = << >> \/ \E i \in DOMAIN leaves : ~IsDigest(leaves[i])
     \/ RootBytes(merkleSha2256Root(leaves)) # merkle.root
     \/ anchor.blockTime.n \notin 0..(MAX_BLOCK_TIME_EXCLUSIVE - 1)
  THEN Missing
  ELSE Map([format |-> Text("label-309-inclusion-certificate-v1"),
            anchor |-> buildAnchor(anchor), merkle |-> buildMerkle(merkle),
            items |-> Arr([i \in DOMAIN targets |->
                             buildItem(targets[i], leaves, merkle.root)])])

-----------------------------------------------------------------------------
(* verify.ts                                                               *)

(* The claimed anchor, echoed; a field of another type gets a default.     *)
anchorClaimOf(cert) ==
  LET a == Get(cert, "anchor")
      Of(key, types, other) == IF Get(a, key).t \in types THEN Get(a, key) ELSE other
      string == {"text", "hex"} IN
  [chain |-> Of("chain", string, Text("cardano")), network |-> Of("network", string, Text("")),
   txHash |-> Of("tx_hash", string, Text("")),
   metadataLabel |-> Of("metadata_label", {"int"}, Num(309)),
   blockTime |-> Of("block_time", {"int"}, Num(0)),
   blockHeight |-> Of("block_height", {"int"}, Missing), slot |-> Of("slot", {"int"}, Missing),
   confirmationsAtGeneration |-> Of("confirmations_at_generation", {"int"}, Missing),
   explorerUrls |-> Of("explorer_urls", {"array"}, Missing)]

reject(anchorClaim, error) ==
  [ok |-> FALSE, items |-> << >>, anchorClaim |-> anchorClaim, error |-> error]

(* The stored flag is not read: the proof decides, and an item that came   *)
(* with an error keeps it.                                                 *)
verifyItem(item, treeSize, root) ==
  LET Verdict(verified, error) ==
        stripUndefined(Map([index |-> Get(item, "index"), leaf |-> Get(item, "leaf"),
                            verified |-> Flag(verified), error |-> error]))
      index == Get(item, "index")
      leaf == decodeHex(Get(item, "leaf"))
      siblings == Elems(Get(item, "proof"))
      proof == [i \in DOMAIN siblings |-> decodeHex(siblings[i])] IN
  IF Has(item, "error") THEN Verdict(FALSE, Get(item, "error"))
  ELSE IF index.t # "int" THEN Verdict(FALSE, Text("index out of range"))
  ELSE IF index.n < 0 \/ index.n >= treeSize THEN Verdict(FALSE, Text("index out of range"))
  ELSE IF leaf = Missing THEN Verdict(FALSE, Text("malformed leaf"))
  ELSE IF Missing \in Range(proof) THEN Verdict(FALSE, Text("malformed proof"))
  ELSE Verdict(BytesVerify(leaf, index.n, treeSize, proof, root), Missing)

IsTreeSize(n) == n.t = "int" /\ n.n \in 1..UINT32_MAX
verifyInclusionCertificate(cert) ==
  LET anchorClaim == anchorClaimOf(cert)
      anchor == Get(cert, "anchor")
      treeSize == Get(Get(cert, "merkle"), "tree_size")
      root == decodeHex(Get(Get(cert, "merkle"), "root"))
      items == Elems(Get(cert, "items"))
      verdicts == [i \in DOMAIN items |-> verifyItem(items[i], treeSize.n, root)] IN
  IF Get(cert, "format") # Text("label-309-inclusion-certificate-v1")
  THEN reject(anchorClaim, "unsupported certificate format")
  ELSE IF Get(Get(cert, "merkle"), "tree_alg") # Text("rfc9162-sha256")
  THEN reject(anchorClaim, "unsupported tree_alg")
  ELSE IF anchor \in {Missing, Null} THEN reject(anchorClaim, "missing anchor")
  ELSE IF Get(anchor, "chain") # Text("cardano")
  THEN reject(anchorClaim, "unsupported anchor.chain")
  ELSE IF Get(anchor, "metadata_label") # Num(309)
  THEN reject(anchorClaim, "unsupported anchor.metadata_label")
  ELSE IF ~IsTreeSize(treeSize) THEN reject(anchorClaim, "merkle.tree_size out of range")
  ELSE IF root = Missing THEN reject(anchorClaim, "malformed merkle.root")
  ELSE [ok |-> items # << >> /\ \A i \in DOMAIN verdicts : Get(verdicts[i], "verified").b,
        items |-> verdicts, anchorClaim |-> anchorClaim]

-----------------------------------------------------------------------------
(* cose.ts                                                                 *)

(* The raw parts of a proven item, Missing (an exception) for any other.   *)
decodeProvenItem(item, merkle) ==
  LET index == Get(item, "index")
      siblings == Elems(Get(item, "proof"))
      leaf == decodeHex(Get(item, "leaf"))
      proof == [i \in DOMAIN siblings |-> decodeHex(siblings[i])] IN
  IF \/ Has(item, "error") \/ Get(item, "verified") # Flag(TRUE)
     \/ merkle.treeSize \notin 1..UINT32_MAX
     \/ index.t # "int" \/ index.n \notin 0..(merkle.treeSize - 1)
     \/ ~IsDigest(leaf) \/ \E i \in DOMAIN proof : ~IsDigest(proof[i])
  THEN Missing
  ELSE [leaf |-> leaf, path |-> Arr(<< Num(merkle.treeSize), index, Arr(proof) >>)]

(* A byte string that holds the encoded path, as IETF verifiers read it.   *)
encodeIetfInclusionProof(item, merkle) ==
  LET proven == decodeProvenItem(item, merkle) IN
  IF proven = Missing THEN Missing ELSE Encoded(Blob(EncodedSize(proven.path), proven.path))
encodeCoseInclusionProof(item, merkle, anchor) ==
  LET proven == decodeProvenItem(item, merkle) IN
  IF proven = Missing THEN Missing
  ELSE IF ~IsDigest(merkle.root) \/ decodeHex(anchor.txHash) = Missing THEN Missing
  ELSE Encoded(stripUndefined(Map(
         [vds |-> Num(1), inclusion_proof |-> Blob(EncodedSize(proven.path), proven.path),
          root |-> merkle.root,
          anchor |-> Map([chain |-> anchor.chain, network |-> anchor.network,
                          tx_hash |-> decodeHex(anchor.txHash), metadata_label |-> Num(309)]),
          leaf |-> proven.leaf, leaf_alg |-> Get(item, "leaf_alg")])))
=============================================================================
