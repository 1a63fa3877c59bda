------------------------------ MODULE ContentUris ------------------------------
(***************************************************************************)
(* The fetch-set URIs of a record: the grammar the validator holds them to *)
(* (poe-standard/src/validator.ts), the parser the fetcher uses            *)
(* (sdk-ts/src/verifier/content.ts) and the content-address binding of     *)
(* fetched bytes (sdk-ts/src/verifier/cid.ts).                             *)
(*                                                                         *)
(* A URI text is [t, uri]; uri has its scheme as written, fragment (a '#'  *)
(* in it), and either txid (43 base64url characters) or cid and path.  A   *)
(* CID text is its first character(s), the alphabet its body is written    *)
(* in, base32 padding, non-zero trailing bits, and the bytes it decodes    *)
(* to: some head bytes, then a digest.                                     *)
(***************************************************************************)
EXTENDS CborData

(* The digest of a content under an algorithm; distinct contents have      *)
(* distinct digests.                                                       *)
Digest(alg, content) ==
  [t |-> "bytes", len |-> 32, alg |-> alg, of |-> content]

UriText(uri) == [t |-> "text", uri |-> uri]
ByteCount(b) == Len(b.head) + b.digest.len

foldScheme(s) == CASE s = "AR" -> "ar" [] s = "IPFS" -> "ipfs" [] OTHER -> s

-----------------------------------------------------------------------------
(* validator.ts                                                            *)

(* Verbatim: a body in the other case of its prefix is refused; '='        *)
(* padding and trailing bits of base32 are ignored.                        *)
decodeMultibase(cid) ==
  CASE cid.prefix \in {"b", "B"} -> cid.alphabet = IF cid.prefix = "b" THEN "lower"
                                                   ELSE "upper"
    [] cid.prefix \in {"f", "F"} -> /\ ~cid.padded
                                    /\ cid.alphabet = IF cid.prefix = "f" THEN "lower"
                                                      ELSE "upper"
    [] cid.prefix \in {"z", "Qm"} -> cid.alphabet = "base58"
    [] OTHER -> FALSE

(* At most five groups of seven bits, added up in a signed 32-bit integer: *)
(* of the fifth group only the low four bits count.                        *)
GroupAt(b, shift) ==
  IF shift < 28 THEN (b % 128) * 2 ^ shift
  ELSE (IF b % 16 < 8 THEN b % 16 ELSE (b % 16) - 16) * 2 ^ 28
NoVarint == [value |-> -1, next |-> 0]
readVarint(bytes, start) ==
  LET ends == {i \in start..Min({start + 4, Len(bytes.head)}) : bytes.head[i] < 128}
      last == Min(ends) IN
  IF ends = {} THEN NoVarint
  ELSE [value |-> FoldFunction(LAMBDA g, n : n + g, 0,
                    [i \in start..last |-> GroupAt(bytes.head[i], 7 * (i - start))]),
        next |-> last + 1]

ACCEPTED_MULTICODECS == {85, 112, 113}
(* sha2-256, blake2b-256 *)
ACCEPTED_MULTIHASHES == 18 :> 32 @@ 45600 :> 32

validateCidProfile(cid) ==
  LET b == cid.bytes
      version == readVarint(b, 1)
      codec == readVarint(b, version.next)
      mh == readVarint(b, codec.next)
      len == readVarint(b, mh.next) IN
  /\ decodeMultibase(cid)
  /\ IF cid.prefix = "Qm"
     THEN ByteCount(b) = 34 /\ Len(b.head) >= 2 /\ b.head[1] = 18 /\ b.head[2] = 32
     ELSE /\ ByteCount(b) >= 4
          /\ version.value = 1
          /\ codec # NoVarint /\ codec.value \in ACCEPTED_MULTICODECS
          /\ mh # NoVarint /\ len # NoVarint
          /\ mh.value \in DOMAIN ACCEPTED_MULTIHASHES
          /\ len.value = ACCEPTED_MULTIHASHES[mh.value]
          /\ len.next - 1 + len.value = ByteCount(b)

fetchSetUriRejection(uri) ==
  IF uri.fragment THEN "fragment"
  ELSE IF uri.scheme = "" THEN "not absolute"
  ELSE IF foldScheme(uri.scheme) = "ar"
  THEN IF "txid" \in DOMAIN uri THEN "none" ELSE "no transaction id"
  ELSE IF foldScheme(uri.scheme) = "ipfs"
  THEN IF "cid" \in DOMAIN uri /\ validateCidProfile(uri.cid) THEN "none"
       ELSE "no conformant CID"
  ELSE "unsupported scheme"
isFetchSetUri(uri) == fetchSetUriRejection(uri) = "none"

-----------------------------------------------------------------------------
(* cid.ts: a second decoder, stricter on base32 and laxer on case.         *)

multibaseBytes(cid) ==
  CASE cid.prefix \in {"b", "f"} -> cid.alphabet = "lower" /\ ~cid.padded /\ ~cid.trailing
    [] cid.prefix \in {"B", "F"} -> /\ cid.alphabet \in {"lower", "upper"}
                                    /\ ~cid.padded /\ ~cid.trailing
    [] cid.prefix = "z" -> cid.alphabet = "base58"
    [] OTHER -> FALSE
NoCid == [version |-> -1]
parseCid(cid) ==
  LET b == cid.bytes
      version == readVarint(b, 1)
      codec == readVarint(b, version.next)
      mh == readVarint(b, codec.next)
      len == readVarint(b, mh.next) IN
  IF cid.prefix = "Qm"
  THEN IF /\ cid.alphabet = "base58" /\ ByteCount(b) = 34
          /\ Len(b.head) = 2 /\ b.head[1] = 18 /\ b.head[2] = 32
       THEN [version |-> 0, codec |-> 112, multihash |-> 18, digest |-> b.digest]
       ELSE NoCid
  ELSE IF /\ multibaseBytes(cid)
          /\ version.value = 1 /\ codec # NoVarint /\ mh # NoVarint /\ len # NoVarint
          /\ ByteCount(b) - (len.next - 1) = len.value
  THEN [version |-> 1, codec |-> codec.value, multihash |-> mh.value,
        digest |-> b.digest]
  ELSE NoCid

(* Mutant: the digest of a dag-pb root block is taken for the file's.      *)
verifyIpfsCidBindingIgnoresCodec(uri, content) ==
  LET cid == parseCid(uri.cid)
      alg == IF cid.multihash = 18 THEN "sha2-256" ELSE "blake2b-256" IN
  IF uri.path \/ cid.version # 1 THEN "unsupported"
  ELSE IF cid.multihash \notin {18, 45600} THEN "unsupported"
  ELSE IF cid.digest = Digest(alg, content) THEN "verified" ELSE "failed"

(* Only a raw-codec CIDv1 without a path commits to the very bytes served. *)
verifyIpfsCidBinding(uri, content) ==
  LET cid == parseCid(uri.cid)
      alg == IF cid.multihash = 18 THEN "sha2-256" ELSE "blake2b-256" IN
  IF uri.path \/ cid.version # 1 THEN "unsupported"
  ELSE IF cid.codec # 85 \/ cid.multihash \notin {18, 45600} THEN "unsupported"
  ELSE IF cid.digest = Digest(alg, content) THEN "verified" ELSE "failed"

-----------------------------------------------------------------------------
(* content.ts                                                              *)

(* The fetcher's own parse: the CID is not looked at.                      *)
parseFetchUri(uri) ==
  CASE foldScheme(uri.scheme) = "ar" /\ "txid" \in DOMAIN uri -> "ar"
    [] foldScheme(uri.scheme) = "ipfs" /\ "cid" \in DOMAIN uri -> "ipfs"
    [] OTHER -> "null"

attributable(uri, content) ==
  /\ parseFetchUri(uri) = "ipfs"
  /\ verifyIpfsCidBinding(uri, content) = "verified"
=============================================================================
