------------------------------ MODULE ErrorCodes ------------------------------
(***************************************************************************)
(* The Label 309 v1 error-code registry (poe-standard/src/error-codes.ts), *)
(* the issues that carry its codes, their total order and the verdict a    *)
(* list of issues stands for (sdk-ts/src/verifier/issues.ts, verify.ts).   *)
(*                                                                         *)
(* An issue is [code, path, severity]; its message is wording and is left  *)
(* out.  A path is a sequence of segments, and every segment is a string:  *)
(* index i of an array is the segment Idx(i).                              *)
(***************************************************************************)
EXTENDS Naturals, Sequences, SequencesExt

(* The registry in its own order: that order breaks the ties between the   *)
(* issues of one path.                                                     *)
ERROR_CODES ==
  << "MALFORMED_CBOR", "SCHEMA_TYPE_MISMATCH", "SCHEMA_MISSING_REQUIRED",
     "SCHEMA_UNKNOWN_FIELD", "SCHEMA_INVALID_LITERAL", "SCHEMA_EMPTY_RECORD",
     "HASH_DIGEST_LENGTH_MISMATCH", "UNSUPPORTED_HASH_ALG",
     "UNSUPPORTED_MERKLE_COMMIT_ALG", "SCHEMA_MERKLE_LEAF_COUNT_INVALID",
     "INVALID_URI", "CHUNK_TOO_LARGE", "UNAUTHENTICATED_CIPHER_FORBIDDEN",
     "UNSUPPORTED_AEAD_ALG", "NONCE_LENGTH_MISMATCH",
     "UNSUPPORTED_ENVELOPE_SCHEME", "ENC_UNSUPPORTED", "ENC_SLOTS_EMPTY",
     "ENC_SLOT_INVALID_SHAPE", "UNSUPPORTED_KEM_ALG", "ENC_KEM_REQUIRED",
     "KEM_EPK_LENGTH_MISMATCH", "KEM_CT_LENGTH_MISMATCH",
     "WRAP_LENGTH_MISMATCH", "ENC_SLOTS_MAC_INVALID_LENGTH",
     "ENC_SLOTS_MAC_REQUIRED", "ENC_SLOTS_REQUIRED",
     "ENC_SLOTS_DUPLICATE_KEM_MATERIAL", "ENC_SLOTS_TOO_MANY",
     "ENC_ENVELOPE_TOO_LARGE", "ENC_EXCLUSIVITY_VIOLATION",
     "ENC_NO_KEY_PATH", "ENC_REQUIRES_CONTENT_HASH",
     "ENC_PASSPHRASE_ALG_UNSUPPORTED", "ENC_PASSPHRASE_SALT_TOO_SHORT",
     "ENC_PASSPHRASE_SALT_TOO_LONG", "ENC_PASSPHRASE_ARGON2_PARAMS_TOO_LOW",
     "ENC_PASSPHRASE_PARAMS_EXCEED_POLICY", "MALFORMED_SIG_COSE_SIGN1",
     "SIGNATURE_UNSUPPORTED", "SIG_ENTRY_INVALID_SHAPE",
     "SIG_ENTRY_KID_COSE_KEY_CONFLICT", "SIG_PRIVATE_KEY_LEAKED",
     "SUPERSEDES_TX_INVALID_LENGTH", "EXTENSION_UNSUPPORTED_CRITICAL",
     "CRIT_SHAPE_INVALID",
     "TX_NOT_FOUND", "PROVIDER_UNAVAILABLE", "TX_INTEGRITY_MISMATCH",
     "METADATA_NOT_FOUND", "INSUFFICIENT_CONFIRMATIONS", "SIGNATURE_INVALID",
     "SIGNER_KEY_UNRESOLVED", "WALLET_ADDRESS_MISMATCH",
     "URI_TARGET_FORBIDDEN", "URI_INTEGRITY_MISMATCH",
     "URI_PROVIDER_INTEGRITY_MISMATCH", "URI_FETCH_FAILED",
     "CONTENT_UNAVAILABLE", "CONTENT_FETCH_LIMIT_EXCEEDED",
     "CIPHERTEXT_UNAVAILABLE", "SERVICE_INDEPENDENCE_VIOLATION",
     "WRONG_DECRYPTION_INPUT_SHAPE", "WRONG_RECIPIENT_KEY",
     "TAMPERED_HEADER", "TAMPERED_CIPHERTEXT", "KDF_DERIVATION_FAILED",
     "ENC_PASSPHRASE_UNNORMALIZABLE", "ENC_PASSPHRASE_EMPTY",
     "SCHEMA_MERKLE_LEAF_COUNT_MISMATCH",
     "SCHEMA_MERKLE_LEAVES_FORMAT_UNSUPPORTED",
     "SCHEMA_MERKLE_LEAVES_MALFORMED", "MERKLE_ROOT_MISMATCH",
     "MERKLE_LEAVES_UNAVAILABLE", "MERKLE_UNSUPPORTED",
     "OUT_OF_PROFILE_SKIPPED" >>

ErrorCode == Range(ERROR_CODES)

errorCodeRegistryIndex ==
  [c \in ErrorCode |-> CHOOSE i \in DOMAIN ERROR_CODES : ERROR_CODES[i] = c]

(* The layer that emits a code: the carriage step has one, the structural  *)
(* validator (part A) the rest of the registry up to CRIT_SHAPE_INVALID.   *)
ERROR_CODE_PART ==
  [c \in ErrorCode |->
     IF c = "CHUNK_TOO_LARGE" THEN "carriage"
     ELSE IF errorCodeRegistryIndex[c]
               =< errorCodeRegistryIndex["CRIT_SHAPE_INVALID"] THEN "A" ELSE "B"]

(* The default severity of each code; everything not listed fails.         *)
SEVERITY ==
  [c \in ErrorCode |->
     IF c \in {"ENC_UNSUPPORTED", "SIGNATURE_UNSUPPORTED",
               "INSUFFICIENT_CONFIRMATIONS", "MERKLE_UNSUPPORTED",
               "OUT_OF_PROFILE_SKIPPED"} THEN "info"
     ELSE IF c \in {"URI_PROVIDER_INTEGRITY_MISMATCH", "URI_FETCH_FAILED",
                    "MERKLE_LEAVES_UNAVAILABLE"} THEN "warning"
     ELSE "error"]

DUAL_SEVERITY_CODES == {"ENC_UNSUPPORTED", "MERKLE_LEAVES_UNAVAILABLE",
                        "MERKLE_UNSUPPORTED", "OUT_OF_PROFILE_SKIPPED"}

IssueAs(code, path, severity) ==
  [code |-> code, path |-> path, severity |-> severity]
issueOf(code, path) == IssueAs(code, path, SEVERITY[code])

Codes(issues) == {issues[i].code : i \in DOMAIN issues}
(* The codes of its errors.                                                *)
ErrorsOf(issues) ==
  {issues[i].code : i \in {i \in DOMAIN issues : issues[i].severity = "error"}}

(* The entries of a sequence at some of its positions, in their order.     *)
Subsequence(seq, positions) ==
  LET kept[n \in 0..Len(seq)] ==
        IF n = 0 THEN << >>
        ELSE IF n \in positions THEN Append(kept[n - 1], seq[n]) ELSE kept[n - 1] IN
  kept[Len(seq)]

-----------------------------------------------------------------------------
(* The order of a report's issues.                                         *)

(* The segments the checked records use, in the order of compareSegments:  *)
(* array indices before map keys, indices by number, keys by their UTF-8   *)
(* bytes; of the value undefined there are none.                           *)
SegmentOrder ==
  << "0", "1", "2", "undefined", "aead", "alg", "blake2b-256", "bad\nkey", "cose_key", "cose_sign1",
     "crit", "enc", "epk", "extra", "hashes", "items", "kem", "kem_ct",
     "leaf_count", "m", "merkle", "nonce", "p", "params", "passphrase",
     "root", "salt", "scheme", "sha2-256", "sha3-256", "sigs", "slots", "slots_mac",
     "supersedes", "supersedez", "t", "uris", "v", "wrap", "x-note" >>
SegmentRank == [s \in Range(SegmentOrder) |->
                  CHOOSE i \in DOMAIN SegmentOrder : SegmentOrder[i] = s]
Idx(i) == SegmentOrder[i]           \* i = 1 is the array index 0

(* a strictly precedes b: the first differing segment decides, then the    *)
(* shorter path, then the registry.                                        *)
PathBefore(a, b) ==
  \/ \E i \in DOMAIN a \cap DOMAIN b :
        /\ SegmentRank[a[i]] < SegmentRank[b[i]]
        /\ \A j \in 1..(i - 1) : a[j] = b[j]
  \/ Len(a) < Len(b) /\ \A j \in DOMAIN a : a[j] = b[j]
IssueBefore(x, y) ==
  \/ PathBefore(x.path, y.path)
  \/ /\ x.path = y.path
     /\ {x.code, y.code} \subseteq ErrorCode
     /\ errorCodeRegistryIndex[x.code] < errorCodeRegistryIndex[y.code]
(* Each issue goes before the first that it precedes: a stable sort.       *)
Inserted(list, issue) ==
  LET later == {i \in DOMAIN list : IssueBefore(issue, list[i])}
      at == IF later = {} THEN Len(list) + 1 ELSE Min(later) IN
  [i \in 1..(Len(list) + 1) |->
     IF i < at THEN list[i] ELSE IF i = at THEN issue ELSE list[i - 1]]
sortIssues(issues) ==
  LET sorted[n \in 0..Len(issues)] ==
        IF n = 0 THEN << >> ELSE Inserted(sorted[n - 1], issues[n]) IN
  sorted[Len(issues)]

(* IssueSink.addOnce: no second issue of one code, severity and path.      *)
AddOnce(issues, issue) ==
  IF \E i \in DOMAIN issues : issues[i] = issue THEN issues
  ELSE Append(issues, issue)

-----------------------------------------------------------------------------
(* Errors of the network, of policy and of providers: they block `valid'   *)
(* and never condemn the record.                                           *)
NETWORK_CLASS_CODES ==
  {"TX_NOT_FOUND", "PROVIDER_UNAVAILABLE", "TX_INTEGRITY_MISMATCH",
   "CONTENT_UNAVAILABLE", "CONTENT_FETCH_LIMIT_EXCEEDED",
   "CIPHERTEXT_UNAVAILABLE", "MERKLE_LEAVES_UNAVAILABLE",
   "URI_TARGET_FORBIDDEN"}

verdictFromIssues(issues) ==
  LET errors == ErrorsOf(issues) IN
  IF errors \ NETWORK_CLASS_CODES # {} THEN "failed"
  ELSE IF errors # {} THEN "unverifiable" ELSE "valid"

EXIT_CODE_FOR_VERDICT ==
  [valid |-> 0, failed |-> 1, unverifiable |-> 2, pending |-> 3]
=============================================================================
