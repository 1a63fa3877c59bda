----------------------------- MODULE MerkleLeaves -----------------------------
(***************************************************************************)
(* Merkle list commitments: the RFC 9162 tree                              *)
(* (crypto-core/src/hash/merkle-sha2-256.ts), the leaves-list document     *)
(* (crypto-core/src/merkle/leaves-list.ts) and its check against an        *)
(* on-chain commitment (sdk-ts/src/verifier/merkle.ts).                    *)
(*                                                                         *)
(* A hash is the term it was computed from, so two are equal only when     *)
(* their inputs are.  Leaf i of a list has the index i - 1 in the code.    *)
(***************************************************************************)
EXTENDS ContentUris

hashLeaf(d)    == << "leaf", d >>
hashNode(l, r) == << "node", l, r >>
RootBytes(hash) == [t |-> "bytes", len |-> 32, tree |-> hash]

(* The largest power of two below n; n is at least 2.                      *)
largestPow2Lt(n) == Max({k \in {2 ^ e : e \in 0..n} : k < n})

(* The tree over the n leaves that follow the first at ones.               *)
mthRecursive(leaves, at, n) ==
  LET mth[from \in Nat, size \in Nat] ==
        LET k == largestPow2Lt(size) IN
        IF size = 1 THEN hashLeaf(leaves[from + 1])
        ELSE hashNode(mth[from, k], mth[from + k, size - k]) IN
  mth[at, n]
merkleSha2256Root(leaves) == mthRecursive(leaves, 0, Len(leaves))

auditPath(leaves, i) ==
  LET path[from \in Nat, size \in Nat] ==
        LET k == largestPow2Lt(size) IN
        IF size = 1 THEN << >>
        ELSE IF i < from + k
        THEN Append(path[from, k], mthRecursive(leaves, from + k, size - k))
        ELSE Append(path[from + k, size - k], mthRecursive(leaves, from, k)) IN
  path[0, Len(leaves)]
merkleSha2256InclusionProof(leaves, index) == auditPath(leaves, index)

(* One step of the fold of RFC 9162 2.1.3.2 over [h, sn, fn]: a right      *)
(* child has its sibling on the left, and a lone right subtree is promoted *)
(* until it is one.  Mutant: it never is.                                  *)
PromotedNever(sn, fn) == << sn, fn >>
Promoted(sn, fn) ==
  LET up[s \in Nat, f \in Nat] ==
        IF s % 2 = 0 /\ s # 0 THEN up[s \div 2, f \div 2] ELSE << s, f >> IN
  up[sn, fn]
foldSibling(s, sibling) ==
  LET right == s.sn % 2 = 1 \/ s.sn = s.fn
      at == IF right THEN Promoted(s.sn, s.fn) ELSE << s.sn, s.fn >> IN
  IF ~s.ok \/ s.fn = 0 THEN [s EXCEPT !.ok = FALSE]
  ELSE [ok |-> TRUE, sn |-> at[1] \div 2, fn |-> at[2] \div 2,
        h |-> IF right THEN hashNode(sibling, s.h) ELSE hashNode(s.h, sibling)]
merkleSha2256VerifyInclusion(leaf, index, treeSize, proof, root) ==
  LET start == [ok |-> TRUE, sn |-> index, fn |-> treeSize - 1, h |-> hashLeaf(leaf)]
      end == FoldLeft(foldSibling, start, proof) IN
  IF treeSize = 1 THEN proof = << >> /\ index = 0 /\ hashLeaf(leaf) = root
  ELSE end.ok /\ end.fn = 0 /\ end.h = root

-----------------------------------------------------------------------------
(* The leaves-list document.                                               *)

encodeLeavesList(leaves, root, leafAlg) ==
  IF \/ root.t # "bytes" \/ root.len # 32 \/ leaves = << >>
     \/ \E i \in DOMAIN leaves : leaves[i].t # "bytes" \/ leaves[i].len # 32
     \/ leafAlg.t \notin {"text", "undefined"}
  THEN [error |-> "SCHEMA_MERKLE_LEAVES_MALFORMED"]
  ELSE [list |-> stripUndefined(Map(
          [format |-> Text("cardano-poe-merkle-leaves-v1"), root |-> root,
           tree_alg |-> Text("rfc9162-sha256"), leaves |-> Arr(leaves),
           leaf_count |-> Num(Len(leaves)), leaf_alg |-> leafAlg]))]

(* The code of the first check a document fails, or "ok".                  *)
decodeLeavesList(content) ==
  LET doc == IF "list" \in DOMAIN content THEN content.list ELSE Missing
      root == Get(doc, "root")
      leaves == Elems(Get(doc, "leaves"))
      count == Get(doc, "leaf_count")
      malformed == "SCHEMA_MERKLE_LEAVES_MALFORMED" IN
  IF Get(doc, "format").t # "text" THEN malformed
  ELSE IF Get(doc, "format") # Text("cardano-poe-merkle-leaves-v1")
  THEN "SCHEMA_MERKLE_LEAVES_FORMAT_UNSUPPORTED"
  ELSE IF ~TextIn(Get(doc, "tree_alg"), {"rfc9162-sha256"}) THEN malformed
  ELSE IF root.t # "bytes" \/ root.len # 32 THEN malformed
  ELSE IF leaves = << >> THEN malformed
  ELSE IF \E i \in DOMAIN leaves : leaves[i].t # "bytes" \/ leaves[i].len # 32
  THEN malformed
  ELSE IF count.t # "int" \/ count.n < 0 THEN malformed
  ELSE IF count.n # Len(leaves) THEN "SCHEMA_MERKLE_LEAF_COUNT_MISMATCH"
  ELSE IF Get(doc, "leaf_alg").t \notin {"text", "undefined"} THEN malformed
  ELSE IF RootBytes(merkleSha2256Root(leaves)) # root THEN "MERKLE_ROOT_MISMATCH"
  ELSE "ok"

validateLeavesDocument(content, commit) ==
  LET answer == decodeLeavesList(content)
      leaves == Elems(Get(content.list, "leaves")) IN
  IF answer # "ok" THEN answer
  ELSE IF Num(Len(leaves)) # Get(commit, "leaf_count")
  THEN "SCHEMA_MERKLE_LEAF_COUNT_MISMATCH"
  ELSE IF RootBytes(merkleSha2256Root(leaves)) # Get(commit, "root")
  THEN "MERKLE_ROOT_MISMATCH" ELSE "ok"
=============================================================================
