--------------------------- MODULE RecordSignatures ---------------------------
(***************************************************************************)
(* Record signatures: the COSE_Sign1 codec, builder and verifier           *)
(* (crypto-core/src/cose/sign1.ts), the COSE_Key parser (cose-key.ts), the *)
(* off-host signing helpers (sdk-ts/src/client/off-host-sign.ts) and the   *)
(* verifier's pass over sigs[] (sdk-ts/src/verifier/signatures.ts).        *)
(*                                                                         *)
(* A blob is a byte string that carries the item it decodes to; header     *)
(* labels 1, 4 are the keys "alg", "kid".  A public key is Bytes(32, who), *)
(* and only who's signature over a structure verifies against it.          *)
(***************************************************************************)
EXTENDS CborData

Blob(len, item)   == [t |-> "bytes", len |-> len, item |-> item]
(* The item a byte string decodes to; Missing when it is none.             *)
Decoded(b) == IF "item" \in DOMAIN b THEN b.item ELSE Missing
NoBytes == Blob(0, Missing)
IsKey(v) == v.t = "bytes" /\ v.len = 32

SigDomain == "cardano-poe-record-sig-v1"
(* Sig_structure[3]: prefix || body, or the blake2b-224 of all of it.      *)
buildToSign(body, hashed) ==
  [prefix |-> SigDomain, body |-> body, hashed |-> hashed]
buildSigStructure(protectedBytes, payload) ==
  [context |-> "Signature1", protected |-> protectedBytes,
   external_aad |-> NoBytes, payload |-> payload]
buildLabel309SigStructure(protectedBytes, body) ==
  buildSigStructure(protectedBytes, buildToSign(body, FALSE))

Signature(who, structure, len) ==
  [t |-> "bytes", len |-> len, by |-> who, over |-> structure]
verifyEd25519(pub, structure, sig) ==
  "by" \in DOMAIN sig /\ sig.by = pub.id /\ sig.over = structure

(* The sizes are those of a path-1 header (alg and kid) and its message.   *)
protectedBytesOf(header) == IF Keys(header) = {} THEN NoBytes ELSE Blob(38, header)
encodeCoseSign1(protected, unprotected, payload, signature) ==
  Blob(109, Arr(<< protectedBytesOf(protected), unprotected, payload, signature >>))

(* [ok |-> FALSE], or the four parts.  An empty protected header has one   *)
(* encoding, the empty byte string: an encoded empty map is refused.       *)
decodeCoseSign1(blob) ==
  LET parts == Elems(Decoded(blob))
      header == IF parts[1].len = 0 THEN Map(<< >>) ELSE Decoded(parts[1])
      wellFormed ==
        /\ Len(parts) = 4
        /\ parts[1].t = "bytes"
        /\ parts[2].t \in {"map", "intmap"}
        /\ parts[3] = Null \/ parts[3].t = "bytes"
        /\ parts[4].t = "bytes" /\ parts[4].len = 64
        /\ parts[1].len # 0 => header.t = "map" /\ Keys(header) # {} IN
  IF wellFormed
  THEN [ok |-> TRUE, protected |-> header, protectedBytes |-> parts[1],
        unprotected |-> parts[2], payload |-> parts[3], signature |-> parts[4]]
  ELSE [ok |-> FALSE]

(* The wallet's COSE_Key; label 3 (alg) may be absent but not another.     *)
parseCoseKeyEd25519(blob) ==
  LET key == Decoded(blob) IN
  IF /\ Get(key, "kty") = Num(1) /\ Get(key, "crv") = Num(6)
     /\ Get(key, "alg") \in {Missing, Num(-8)} /\ IsKey(Get(key, "x"))
  THEN Get(key, "x") ELSE Missing

(* The producer with the key at hand (a seed, or an injected signer whose  *)
(* signature must be 64 bytes long).                                       *)
coseSign1Label309Build(protected, unprotected, body, seed, signerSig) ==
  LET structure == buildLabel309SigStructure(protectedBytesOf(protected), body)
      Built(sig) == encodeCoseSign1(protected, unprotected, Null, sig)
      fail == [error |-> "SIGNER_NOT_PROVIDED"] IN
  IF seed = "none" /\ signerSig = Missing THEN fail
  ELSE IF seed # "none" /\ signerSig # Missing
  THEN [error |-> "SIGNER_AND_SEED_BOTH_PROVIDED"]
  ELSE IF seed # "none" THEN Built(Signature(seed, structure, 64))
  ELSE IF signerSig.t # "bytes" \/ signerSig.len # 64 THEN fail
  ELSE Built(signerSig)

-----------------------------------------------------------------------------
(* Off-host signing: the host prepares the structure, a signer elsewhere   *)
(* signs it, the host assembles the entry.                                 *)

path1Header(pub) == Map([alg |-> Num(-8), kid |-> pub])

prepareSigStructure(record, pub) ==
  IF pub.len # 32 THEN [error |-> "INVALID_PUBKEY_LENGTH"]
  ELSE buildLabel309SigStructure(protectedBytesOf(path1Header(pub)),
                                 encodeRecordBodyForSigning(record))
prepareSigStructureHashed(record, pub) ==
  IF pub.len # 32 THEN [error |-> "INVALID_PUBKEY_LENGTH"]
  ELSE buildSigStructure(protectedBytesOf(path1Header(pub)),
                         buildToSign(encodeRecordBodyForSigning(record), TRUE))

Assembled(pub, signature, unprotected) ==
  IF pub.len # 32 THEN [error |-> "INVALID_PUBKEY_LENGTH"]
  ELSE IF signature.len # 64 THEN [error |-> "INVALID_SIGNATURE_LENGTH"]
  ELSE Map([cose_sign1 |-> encodeCoseSign1(path1Header(pub), unprotected,
                                           Null, signature)])
assembleCoseSign1(pub, signature) == Assembled(pub, signature, Map(<< >>))
assembleCoseSign1Hashed(pub, signature) ==
  Assembled(pub, signature, Map([hashed |-> Num(1)]))     \* the value true

-----------------------------------------------------------------------------
(* The verifier: an error code, or "ok".                                   *)

(* The kid inside the integrity envelope wins over the caller's key, and   *)
(* must agree with it when both are there.                                 *)
VerifyDecoded(cose, kid, body, expected) ==
  LET signerKey == IF IsKey(kid) THEN kid ELSE expected
      hashed == Get(cose.unprotected, "hashed") = Num(1) IN
  IF ~cose.ok THEN "MALFORMED_SIG_COSE"
  ELSE IF cose.payload # Null THEN "MALFORMED_SIG_COSE_SIGN1"
  ELSE IF Get(cose.protected, "alg") # Num(-8) THEN "UNSUPPORTED_SIG_ALG"
  ELSE IF ~IsKey(signerKey) THEN "KID_UNRESOLVED"
  ELSE IF IsKey(kid) /\ IsKey(expected) /\ kid # expected THEN "KID_UNRESOLVED"
  ELSE IF verifyEd25519(signerKey,
            buildSigStructure(cose.protectedBytes, buildToSign(body, hashed)), cose.signature)
  THEN "ok" ELSE "SIGNATURE_INVALID"
KidOf(cose) == IF cose.ok THEN Get(cose.protected, "kid") ELSE Missing
VerifyBlob(cose, body, expected) == VerifyDecoded(cose, KidOf(cose), body, expected)
coseSign1Label309Verify(blob, body, expected) ==
  VerifyBlob(decodeCoseSign1(blob), body, expected)

mapVerifyError(code) ==
  CASE code = "MALFORMED_SIG_COSE"  -> "MALFORMED_SIG_COSE_SIGN1"
    [] code = "UNSUPPORTED_SIG_ALG" -> "SIGNATURE_UNSUPPORTED"
    [] code = "KID_UNRESOLVED"      -> "SIGNER_KEY_UNRESOLVED"
    [] OTHER                        -> code

(* Path 1: a 32-byte protected kid and no cose_key.  Path 2: the cose_key. *)
resolveSignerKey(cose, entry) ==
  LET kid == Get(cose.protected, "kid")
      own == Get(entry, "cose_key")
      unresolved == [path |-> "unresolved", pub |-> Missing] IN
  IF own = Missing
  THEN IF IsKey(kid) THEN [path |-> "in-signature-kid", pub |-> kid]
       ELSE unresolved
  ELSE IF IsKey(parseCoseKeyEd25519(own))
  THEN [path |-> "wallet-inline-key", pub |-> parseCoseKeyEd25519(own)]
  ELSE unresolved

(* The 29-byte stake address: the network byte, then the key's hash.       *)
StakeAddress(network, pub) ==
  [t |-> "bytes", len |-> 29, network |-> network, keyHash |-> pub.id]
checkWalletAddressBinding(cose, pub, network) ==
  Get(cose.protected, "address") = StakeAddress(network, pub)

SigVerdict(verdict, reason, pub) == [verdict |-> verdict, reason |-> reason, pub |-> pub]

SigJudged(cose, key, reason, network) ==
  IF ~cose.ok THEN SigVerdict("invalid", "MALFORMED_SIG_COSE_SIGN1", Missing)
  ELSE IF key.path = "unresolved"
  THEN SigVerdict("unresolved", "SIGNER_KEY_UNRESOLVED", Missing)
  ELSE IF reason # "ok"
  THEN SigVerdict(IF reason = "SIGNATURE_UNSUPPORTED" THEN "unsupported"
                  ELSE "invalid", reason, key.pub)
  ELSE IF /\ key.path = "wallet-inline-key"
          /\ ~checkWalletAddressBinding(cose, key.pub, network)
  THEN SigVerdict("invalid", "WALLET_ADDRESS_MISMATCH", key.pub)
  ELSE SigVerdict("valid", "none", key.pub)
SigResolved(cose, key, blob, body, network) ==
  SigJudged(cose, key, mapVerifyError(coseSign1Label309Verify(blob, body, key.pub)), network)
SigDecoded(cose, entry, body, network) ==
  SigResolved(cose, resolveSignerKey(cose, entry), Get(entry, "cose_sign1"), body, network)
verifyOneSig(entry, body, network) ==
  SigDecoded(decodeCoseSign1(Get(entry, "cose_sign1")), entry, body, network)

(* Every entry gets its verdict; each one that is not valid leaves exactly *)
(* one issue, an unsupported one only if the structural validator did not  *)
(* leave the same issue before.                                            *)
SigIssue(list, i, verdict) ==
  LET issue(code) == issueOf(code, << "sigs", Idx(i) >>) IN
  CASE verdict.verdict \in {"invalid", "unresolved"} -> Append(list, issue(verdict.reason))
    [] verdict.verdict = "unsupported" -> AddOnce(list, issue("SIGNATURE_UNSUPPORTED"))
    [] OTHER -> list
SigReport(verdicts, issues) ==
  LET after[n \in 0..Len(verdicts)] ==
        IF n = 0 THEN issues ELSE SigIssue(after[n - 1], n, verdicts[n]) IN
  [verdicts |-> verdicts, issues |-> after[Len(verdicts)]]
VerifySigs(sigs, body, network, issues) ==
  SigReport([i \in DOMAIN sigs |-> verifyOneSig(sigs[i], body, network)], issues)
verifyRecordSignatures(record, network, issues) ==
  VerifySigs(Elems(Get(record, "sigs")), encodeRecordBodyForSigning(record), network, issues)
=============================================================================
