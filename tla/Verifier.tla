------------------------------- MODULE Verifier -------------------------------
(***************************************************************************)
(* Verification of a record (sdk-ts/src/verifier): resolve the transaction *)
(* through a chain of explorers that are not trusted, bind its bytes to    *)
(* the requested hash, carry the record body out of it, validate it, check *)
(* its signatures, and check every content claim against blobs that        *)
(* gateways, not trusted either, serve.  verifyResolved enters after the   *)
(* carriage step.                                                          *)
(*                                                                         *)
(* input is the call: entry, network, profile, threshold, fetchContent,    *)
(* creds (a sequence of [secret] or [passphrase]), ciphertexts and leaves  *)
(* (out-of-band bytes by item and by commitment), arweave and ipfs (how    *)
(* many gateways).  "tx" has also txHash, koios, blockfrost (how many      *)
(* explorers) and txs, the transactions they may serve; "resolved" has     *)
(* body and depth.  contents is what gateways may serve.                   *)
(*                                                                         *)
(* For the properties only: genuine, the transaction that was asked for;   *)
(* honest, that the record keeps its promises and the caller's keys and    *)
(* bytes are the right ones; good, the blobs that satisfy each claim; and  *)
(* expected, the codes a fixture of the repository pins.                   *)
(***************************************************************************)
EXTENDS RecordValidator, Certificates, TxWalk, SealedEnvelope

CONSTANTS Inputs,
          Heights,          \* block heights an explorer may report
          Confirmations,    \* numbers of confirmations it may report
          Data              \* the decoded values the records are made of

(* The transaction asked for is one, and the hash asked for is its own.    *)
ASSUME GenuineAssumption ==
  \A call \in Inputs : call.entry = "tx" =>
    LET c == sliceTxComponents(call.genuine) IN
    /\ call.koios \in Nat /\ call.blockfrost \in Nat
    /\ c.ok /\ bindTransactionBytes(call.txHash, c.txBody, c.auxiliaryData) = "ok"
(* The witnesses an explorer's bytes decode to are a list.                 *)
ASSUME WitnessAssumption ==
  \A call \in Inputs : call.entry = "tx" =>
    \A b \in call.txs :
      LET c == sliceTxComponents(b)  pairs == WitnessPairs(c.witnessSet) IN
      c.ok => pairs \in Seq(Range(pairs))

VARIABLES input,
          phase,            \* "start", "resolve", "record", "claims", "done"
          attempt,          \* the explorer consulted, and what the others left
          resolved,         \* the bound transaction and its depth
          record,           \* the validated record whose claims are checked
          issues,           \* the IssueSink
          signatures,       \* the verdict of each entry of sigs[]
          cursor,           \* the claim, its uri and gateway to try next
          checks,           \* the settled claims: items, then merkle
          auditTrail,       \* every call and its answer
          report
vars == << input, phase, attempt, resolved, record, issues, signatures, cursor,
           checks, auditTrail, report >>

NoReport == [verdict |-> "none"]
NoTxResolved == [depth |-> 0, tx |-> << >>]
FirstAttempt == [provider |-> 1, step |-> "cbor", tx |-> << >>, height |-> 0,
                 times |-> TRUE, notFound |-> FALSE, mismatch |-> FALSE]

Init ==
  /\ input \in Inputs
  /\ phase = "start" /\ attempt = FirstAttempt /\ resolved = NoTxResolved
  /\ record = Missing /\ issues = << >> /\ signatures = << >> /\ checks = << >> /\ auditTrail = << >>
  /\ cursor = [claim |-> 1, uri |-> 0, gateway |-> 1, limitExceeded |-> FALSE]
  /\ report = NoReport

-----------------------------------------------------------------------------
PROFILE_RANK ==
  [profile \in {"core", "signed", "sealed", "recipient-sealed"} |->
     CASE profile = "core" -> 0 [] profile = "signed" -> 1 [] profile = "sealed" -> 2
       [] OTHER -> 3]
(* The type of a call: one of the profiles, and a list of credentials.     *)
ASSUME CallAssumption ==
  \A call \in Inputs : /\ call.profile \in DOMAIN PROFILE_RANK
                       /\ call.creds \in Seq(Range(call.creds))
Rank(call) == PROFILE_RANK[call.profile]
willDecrypt(call) == call.creds # << >> /\ Rank(call) >= PROFILE_RANK["recipient-sealed"]

ItemsOf(rec) == Elems(Get(rec, "items"))
MerkleOf(rec) == Elems(Get(rec, "merkle"))
SealedItems(rec) == {i \in DOMAIN ItemsOf(rec) : Has(ItemsOf(rec)[i], "enc")}

detectConformanceProfile(rec) ==
  IF SealedItems(rec) # {} THEN "sealed"
  ELSE IF Elems(Get(rec, "sigs")) # << >> THEN "signed" ELSE "core"
planProfileSkips(call, rec) ==
  LET sealed == Subsequence([i \in DOMAIN ItemsOf(rec) |-> i], SealedItems(rec))
      Skip(path) == issueOf("OUT_OF_PROFILE_SKIPPED", path) IN
  (IF Rank(call) < 1 /\ Has(rec, "sigs") THEN << Skip(<< "sigs" >>) >> ELSE << >>)
    \o (IF Rank(call) >= 2 THEN << >>
        ELSE [n \in DOMAIN sealed |-> Skip(<< "items", Idx(sealed[n]), "enc" >>)])

(* What the report says once the transaction is known.                     *)
ChainFacts == IF resolved.tx = << >> THEN [depth |-> resolved.depth]
              ELSE [depth |-> resolved.depth,
                    description |-> decodeTxDescription(resolved.tx, input.network)]
assembleReport(verdict, list, items, merkle, rec) ==
  [verdict |-> verdict, exitCode |-> EXIT_CODE_FOR_VERDICT[verdict],
   issues |-> sortIssues(list), items |-> items, merkle |-> merkle, record |-> rec,
   signatures |-> signatures, facts |-> ChainFacts]
Conclude(verdict, list) ==
  /\ report' = assembleReport(verdict, list, << >>, << >>, Missing)
  /\ phase' = "done"

-----------------------------------------------------------------------------
verifyTx ==
  /\ phase = "start" /\ input.entry = "tx"
  /\ phase' = "resolve"
  /\ UNCHANGED << input, attempt, resolved, record, issues, signatures, cursor, checks,
                  auditTrail, report >>

(* A depth below 1 is the caller's error, thrown before anything runs.     *)
verifyResolved ==
  /\ phase = "start" /\ input.entry = "resolved"
  /\ IF input.depth < 1
     THEN phase' = "done" /\ report' = [verdict |-> "RangeError"]
          /\ UNCHANGED resolved
     ELSE phase' = "record" /\ resolved' = [depth |-> input.depth, tx |-> << >>]
          /\ UNCHANGED report
  /\ UNCHANGED << input, attempt, record, issues, signatures, cursor, checks,
                  auditTrail >>

(* resolve.ts: the Koios chain, then Blockfrost.                           *)
Providers == input.koios + input.blockfrost
ViaKoios == attempt.provider =< input.koios
Asked(purpose, answer) ==
  auditTrail' = Append(auditTrail, [purpose |-> purpose, answer |-> answer])

(* Mutant: an explorer that serves other bytes counts as having none.      *)
recordAttemptNoMismatch(kind) ==
  [FirstAttempt EXCEPT !.provider = attempt.provider + 1,
                       !.notFound = attempt.notFound \/ kind # "unusable",
                       !.mismatch = attempt.mismatch]
(* Mutant: an explorer that answers nothing usable is asked again.         *)
recordAttemptAgain(kind) ==
  [FirstAttempt EXCEPT !.provider = attempt.provider + IF kind = "unusable" THEN 0 ELSE 1,
                       !.notFound = attempt.notFound \/ kind = "not_found",
                       !.mismatch = attempt.mismatch \/ kind = "integrity_mismatch"]
(* The explorer consulted did not serve: what it leaves, and the next one. *)
recordAttempt(kind) ==
  [FirstAttempt EXCEPT !.provider = attempt.provider + 1,
                       !.notFound = attempt.notFound \/ kind = "not_found",
                       !.mismatch = attempt.mismatch \/ kind = "integrity_mismatch"]
Unserved(kind) ==
  attempt' = recordAttempt(kind) /\ UNCHANGED << phase, resolved, report >>
Served(depth) ==
  /\ resolved' = [depth |-> depth, tx |-> attempt.tx]
  /\ phase' = "record" /\ UNCHANGED << attempt, report >>
(* A DenyHostError ends the run, whatever it answered before.              *)
Denied ==
  /\ Conclude("failed", << issueOf("SERVICE_INDEPENDENCE_VIOLATION", << >>) >>)
  /\ UNCHANGED << attempt, resolved >>

bindFetchedTx(tx) ==
  LET c == sliceTxComponents(tx)
      binding == bindTransactionBytes(input.txHash, c.txBody, c.auxiliaryData) IN
  IF ~c.ok THEN "unusable" ELSE IF binding # "ok" THEN "integrity_mismatch" ELSE "bound"

ResolveStep(step, purpose) ==
  /\ phase = "resolve" /\ attempt.step = step /\ attempt.provider =< Providers
  /\ UNCHANGED << input, record, issues, signatures, cursor, checks >>

(* Koios says an empty list when it knows no such transaction, Blockfrost  *)
(* a 404; the other way round either answer is unusable.                   *)
NegativeAnswer == IF ViaKoios THEN "empty" ELSE "status404"
FetchTxCbor ==
  /\ ResolveStep("cbor", "cardano")
  /\ \E answer \in {[kind |-> k] : k \in {"denied", "unusable", "empty", "status404"}}
                     \cup {[kind |-> "tx", tx |-> b] : b \in input.txs} :
       /\ Asked("tx_cbor", answer)
       /\ IF answer.kind = "denied" THEN Denied
          ELSE IF answer.kind # "tx"
          THEN Unserved(IF answer.kind = NegativeAnswer THEN "not_found" ELSE "unusable")
          ELSE IF bindFetchedTx(answer.tx) # "bound" THEN Unserved(bindFetchedTx(answer.tx))
          ELSE /\ attempt' = [attempt EXCEPT !.step = "info", !.tx = answer.tx]
               /\ UNCHANGED << phase, resolved, report >>

(* times: whether the timestamp and the slot are what they must be.        *)
depthFromHeights(tip, block) == tip - block + 1
FetchTxInfo ==
  /\ ResolveStep("info", "cardano")
  /\ \E answer \in {[kind |-> k] : k \in {"denied", "unusable"}}
                     \cup [kind : {"confirmations"}, n : Confirmations, times : BOOLEAN]
                     \cup [kind : {"height"}, n : Heights, times : BOOLEAN] :
       /\ Asked("tx_info", answer)
       /\ IF answer.kind = "denied" THEN Denied
          ELSE IF answer.kind = "unusable" THEN Unserved("unusable")
          ELSE IF answer.kind = "confirmations"
          THEN IF ViaKoios /\ answer.n >= 1 /\ answer.times THEN Served(answer.n)
               ELSE Unserved("unusable")
          ELSE IF ~ViaKoios /\ ~answer.times THEN Unserved("unusable")
          ELSE /\ attempt' = [attempt EXCEPT !.step = "tip", !.height = answer.n,
                                             !.times = answer.times]
               /\ UNCHANGED << phase, resolved, report >>
FetchTip ==
  /\ ResolveStep("tip", "cardano")
  /\ \E answer \in {[kind |-> k] : k \in {"denied", "unusable"}}
                     \cup [kind : {"height"}, n : Heights] :
       /\ Asked("tip", answer)
       /\ IF answer.kind = "denied" THEN Denied
          ELSE IF answer.kind = "unusable" \/ ~attempt.times THEN Unserved("unusable")
          ELSE IF depthFromHeights(answer.n, attempt.height) < 1 THEN Unserved("unusable")
          ELSE Served(depthFromHeights(answer.n, attempt.height))

(* resolveCardanoTx, its chain exhausted: the strongest evidence wins.     *)
NoProviderLeft ==
  LET code == IF attempt.mismatch THEN "TX_INTEGRITY_MISMATCH"
              ELSE IF attempt.notFound THEN "TX_NOT_FOUND" ELSE "PROVIDER_UNAVAILABLE"
      list == << issueOf(code, << >>) >> IN
  /\ phase = "resolve" /\ attempt.provider > Providers
  /\ Conclude(verdictFromIssues(list), list)
  /\ UNCHANGED << input, attempt, resolved, record, issues, signatures, cursor, checks,
                  auditTrail >>

-----------------------------------------------------------------------------
(* runVerifyTx after the resolve: [ok, body] or the code that ends it.     *)
CarriedIn(aux, reassembly) ==
  IF ~aux.ok THEN [ok |-> FALSE, code |-> "MALFORMED_CBOR"]
  ELSE IF aux.label309 = << >> THEN [ok |-> FALSE, code |-> "METADATA_NOT_FOUND"]
  ELSE IF ~reassembly.ok THEN [ok |-> FALSE, code |-> reassembly.issue.code]
  ELSE [ok |-> TRUE, body |-> reassembly.body]
CarriedByAux(aux) == CarriedIn(aux, reassembleLabel309Value(DecodedLabel309(aux.label309)))
CarriedByMetadata(metadata) ==
  IF metadata = << >> THEN [ok |-> FALSE, code |-> "METADATA_NOT_FOUND"]
  ELSE CarriedByAux(unwrapAuxiliaryData(metadata))
CarriedBodyOf(tx) == CarriedByMetadata(sliceTxComponents(tx).auxiliaryData)
(* The bodies a call may come to judge are data, and data is finite: an    *)
(* array is a list of data, a map has finitely many keys, a byte string    *)
(* has a length, and a text is its characters (or a URI).                  *)
BodiesOf(call) ==
  IF call.entry = "resolved" THEN {call.body}
  ELSE {CarriedBodyOf(b).body :
          b \in {b \in call.txs : sliceTxComponents(b).ok /\ CarriedBodyOf(b).ok}}
ASSUME DataAssumption ==
  /\ Missing \in Data
  /\ \A v \in Data : /\ v.t = "array" => v.a \in Seq(Data)
                     /\ v.t = "map" => IsFiniteSet(DOMAIN v.m) /\ Range(v.m) \subseteq Data
                     /\ v.t = "bytes" => v.len \in Nat
                     /\ v.t = "text" /\ "s" \in DOMAIN v => v = Text(v.s)
  /\ \A call \in Inputs : \A body \in BodiesOf(call) : body.decodes => body.value \in Data
(* An encoding is as long as what is in it: a byte string's bytes, each    *)
(* element of an array (so as many times the shortest one), and any two or *)
(* three fields of a map.                                                  *)
ASSUME EncodingAssumption ==
  \A v \in Data :
    /\ EncodedSize(v) \in Nat
    /\ v.t = "bytes" => EncodedSize(v) >= v.len
    /\ v.t = "array" =>
         \A i \in DOMAIN v.a :
           (\A j \in DOMAIN v.a : EncodedSize(v.a[i]) =< EncodedSize(v.a[j])) =>
             EncodedSize(v) >= Len(v.a) * EncodedSize(v.a[i])
    /\ v.t = "map" =>
         \A k, l \in DOMAIN v.m : k # l =>
           /\ EncodedSize(v) >= EncodedSize(v.m[k]) + EncodedSize(v.m[l])
           /\ \A n \in DOMAIN v.m \ {k, l} :
                EncodedSize(v) >= EncodedSize(v.m[k]) + EncodedSize(v.m[l]) + EncodedSize(v.m[n])

CarriedBody == IF input.entry = "resolved" THEN [ok |-> TRUE, body |-> input.body]
               ELSE CarriedBodyOf(resolved.tx)

(* Mutant: a verifier that holds keys still reads as a public one.         *)
validatorRolePublic(call) == "public"
validatorRole(call) == IF willDecrypt(call) THEN "recipient_or_strict" ELSE "public"
ValidatorOptions(call) ==
  [DefaultOptions(MAX_SLOTS, MAX_DECODED_ENVELOPE_BYTES) EXCEPT !.role = validatorRole(call)]
Validation(call, body) == validatePoeRecord(body, ValidatorOptions(call))

Unchecked(list) == [i \in DOMAIN list |-> [check |-> "not_checked", outcome |-> "none"]]

(* verifyRecordBody up to the first claim.                                 *)
Refused(code) ==
  Conclude("failed", << issueOf(code, << >>) >>) /\ UNCHANGED << record, issues, signatures >>
JudgeSignatures(rec, found) ==
  IF Rank(input) < 1 \/ Elems(Get(rec, "sigs")) = << >>
  THEN issues' = found /\ signatures' = << >>
  ELSE \E sigs \in {verifyRecordSignatures(rec, input.network, found)} :
         issues' = sigs.issues /\ signatures' = sigs.verdicts
JudgeBody(rec, validation) ==
  IF ~validation.valid
  THEN Conclude("failed", validation.issues) /\ UNCHANGED << record, issues, signatures >>
  ELSE IF resolved.depth < input.threshold
  THEN /\ report' = assembleReport("pending",
                       Append(validation.issues, issueOf("INSUFFICIENT_CONFIRMATIONS", << >>)),
                       Unchecked(ItemsOf(rec)), Unchecked(MerkleOf(rec)), rec)
       /\ phase' = "done" /\ UNCHANGED << record, issues, signatures >>
  ELSE /\ phase' = "claims" /\ record' = rec
       /\ JudgeSignatures(rec, validation.issues \o planProfileSkips(input, rec))
       /\ UNCHANGED report
JudgeRecord ==
  /\ phase = "record"
  /\ \E carried \in {CarriedBody} :
       IF carried.ok THEN JudgeBody(carried.body.value, Validation(input, carried.body))
       ELSE Refused(carried.code)
  /\ UNCHANGED << input, attempt, resolved, cursor, checks, auditTrail >>

-----------------------------------------------------------------------------
(* The claims: every item, then every merkle commitment.                   *)

ClaimCountOf(rec) == Len(ItemsOf(rec)) + Len(MerkleOf(rec))
ClaimOf(rec, k) ==
  LET items == Len(ItemsOf(rec)) IN
  IF k =< items THEN [list |-> "items", index |-> k, is |-> ItemsOf(rec)[k]]
  ELSE [list |-> "merkle", index |-> k - items, is |-> MerkleOf(rec)[k - items]]
InItems(claim) == claim.list = "items"
BasePath(claim) == << claim.list, Idx(claim.index) >>
UrisOf(claim) == Elems(Get(claim.is, "uris"))
Sealed(claim) == InItems(claim) /\ Has(claim.is, "enc")
EncOf(claim) == Get(claim.is, "enc")
IsSlotsPath(claim) == Get(EncOf(claim), "slots").t = "array"
(* Out-of-band bytes are taken for ciphertexts and leaves-lists only.      *)
OutOfBand(call, claim) ==
  IF Sealed(claim) THEN call.ciphertexts ELSE IF InItems(claim) THEN << >> ELSE call.leaves

Gateways(call, scheme) ==
  IF scheme = "ipfs" THEN call.ipfs ELSE IF call.arweave = 0 THEN 3 ELSE call.arweave

NumItems == Len(ItemsOf(record))
ClaimCount == ClaimCountOf(record)
Claim == ClaimOf(record, cursor.claim)
Uri == UrisOf(Claim)[cursor.uri].uri
UriPath == BasePath(Claim) \o << "uris", Idx(cursor.uri) >>

AtClaim == phase = "claims" /\ cursor.claim =< ClaimCount
           /\ UNCHANGED << input, phase, attempt, resolved, record, signatures, report >>
Settle(check, outcome, list) ==
  /\ checks' = Append(checks, [check |-> check, outcome |-> outcome])
  /\ issues' = issues \o list
  /\ cursor' = [claim |-> cursor.claim + 1, uri |-> 0, gateway |-> 1,
                limitExceeded |-> FALSE]
(* The next source: the out-of-band bytes are uri 0.                       *)
NextUri == [claim |-> cursor.claim, uri |-> cursor.uri + 1, gateway |-> 1,
            limitExceeded |-> cursor.limitExceeded]
NextGateway == IF cursor.gateway < Gateways(input, parseFetchUri(Uri))
               THEN [cursor EXCEPT !.gateway = @ + 1] ELSE NextUri
Go(next, list) == cursor' = next /\ issues' = issues \o list /\ UNCHANGED checks

Secrets(call) ==
  Subsequence(call.creds, {k \in DOMAIN call.creds : "secret" \in DOMAIN call.creds[k]})
Passphrases(call) ==
  Subsequence(call.creds, {k \in DOMAIN call.creds : "passphrase" \in DOMAIN call.creds[k]})
Applicable(call, claim) == IF IsSlotsPath(claim) THEN Secrets(call) ELSE Passphrases(call)
Decrypts(call, claim) == willDecrypt(call) /\ Applicable(call, claim) # << >>

(* Why a claim is settled before any source is tried; "no" when it is not. *)
SettledUnseen(call, claim) ==
  IF Sealed(claim)
  THEN IF ~willDecrypt(call) THEN "not_checked"
       ELSE IF ~Decrypts(call, claim) THEN "WRONG_DECRYPTION_INPUT_SHAPE" ELSE "no"
  ELSE IF InItems(claim)
  THEN IF call.fetchContent /\ UrisOf(claim) # << >> THEN "no" ELSE "not_checked"
  ELSE IF call.fetchContent \/ claim.index \in DOMAIN OutOfBand(call, claim)
  THEN "no" ELSE "not_checked"
SettleUnseen ==
  LET why == SettledUnseen(input, Claim) IN
  /\ AtClaim /\ cursor.uri = 0 /\ why # "no"
  /\ IF why = "not_checked" THEN Settle("not_checked", "none", << >>)
     ELSE Settle("not_checked", why, << issueOf(why, BasePath(Claim) \o << "enc" >>) >>)
  /\ UNCHANGED auditTrail

recomputeItemHashes(hashes, content) ==
  /\ Keys(hashes) # {}
  /\ \A alg \in Keys(hashes) : /\ alg \in {"sha2-256", "blake2b-256"}
                               /\ hashes.m[alg] = Digest(alg, content)

(* decrypt.ts: an attempt is [kind, code] or opened with its plaintext.    *)
inputFailureFrom(code) ==
  [kind |-> "input_failure",
   code |-> IF code \in {"ENC_PASSPHRASE_UNNORMALIZABLE", "ENC_PASSPHRASE_EMPTY"}
            THEN code ELSE "KDF_DERIVATION_FAILED"]
AttemptOutcome(result) ==
  IF Failed(result) THEN inputFailureFrom(result.error)
  ELSE IF result.matched THEN [kind |-> "opened", plaintext |-> result.plaintext]
  ELSE [kind |-> IF result.reason = "TAMPERED_CIPHERTEXT" THEN "blob_failure"
                 ELSE "header_failure", code |-> result.reason]
attemptSlotsPath(call, claim, content) ==
  LET envelope == sealedEnvelopeFromParsed(EncOf(claim))
      secrets == Secrets(call) IN
  IF envelope = Missing THEN [kind |-> "header_failure", code |-> "TAMPERED_HEADER"]
  ELSE AttemptOutcome(eciesSealedPoeUnwrap(envelope, content, Get(claim.is, "hashes"),
                        [secrets |-> [k \in DOMAIN secrets |-> secrets[k].secret]]))
(* The first passphrase that opens, or what became of the first of all.    *)
FirstOpened(tried) ==
  LET opens == {k \in DOMAIN tried : tried[k].kind = "opened"} IN
  tried[IF opens = {} THEN 1 ELSE Min(opens)]
attemptPassphrasePath(call, claim, content) ==
  LET passphrases == Passphrases(call) IN
  FirstOpened([k \in DOMAIN passphrases |->
    AttemptOutcome(passphraseSealedPoeOpen(EncOf(claim), content, passphrases[k].passphrase,
                                           Get(claim.is, "hashes")))])

(* What a claim makes of one blob, come from the source at path: settle    *)
(* with its check, outcome and issues, or indict the provider and go on.   *)
Judged(check, outcome, list) == [on |-> FALSE, check |-> check, outcome |-> outcome,
                                 issues |-> list]
Indicted(path) == [on |-> TRUE, issues |-> << issueOf("URI_PROVIDER_INTEGRITY_MISMATCH", path) >>]
Decrypted(claim, outcome, isAttributable, path) ==
  LET enc == BasePath(claim) \o << "enc" >> IN
  CASE outcome.kind = "opened" ->
         IF recomputeItemHashes(Get(claim.is, "hashes"), outcome.plaintext)
         THEN Judged("checked", "opened", << >>)
         ELSE Judged("mismatched", "URI_INTEGRITY_MISMATCH",
                     << issueOf("URI_INTEGRITY_MISMATCH", BasePath(claim)) >>)
    [] outcome.kind \in {"header_failure", "input_failure"} ->
         Judged("not_checked", outcome.code, << issueOf(outcome.code, enc) >>)
    [] outcome.kind = "blob_failure" ->
         IF isAttributable
         THEN Judged("mismatched", outcome.code, << issueOf(outcome.code, enc) >>)
         ELSE Indicted(path)
decryptItem(call, claim, content, isAttributable, path) ==
  Decrypted(claim, IF IsSlotsPath(claim) THEN attemptSlotsPath(call, claim, content)
                   ELSE attemptPassphrasePath(call, claim, content), isAttributable, path)
checkItemContent(claim, content, isAttributable, path) ==
  IF recomputeItemHashes(Get(claim.is, "hashes"), content)
  THEN Judged("checked", "none", << >>)
  ELSE IF isAttributable
  THEN Judged("mismatched", "none", << issueOf("URI_INTEGRITY_MISMATCH", BasePath(claim)) >>)
  ELSE Indicted(path)
checkLeaves(claim, content, isAttributable, path) ==
  LET answer == validateLeavesDocument(content, claim.is) IN
  IF answer = "ok" THEN Judged("checked", "none", << >>)
  ELSE IF isAttributable
  THEN Judged("mismatched", "none", << issueOf(answer, BasePath(claim)) >>)
  ELSE Indicted(path)
JudgeBlob(call, claim, content, isAttributable, path) ==
  IF Sealed(claim) THEN decryptItem(call, claim, content, isAttributable, path)
  ELSE IF InItems(claim) THEN checkItemContent(claim, content, isAttributable, path)
  ELSE checkLeaves(claim, content, isAttributable, path)
Consume(content, isAttributable, path, next) ==
  \E judged \in {JudgeBlob(input, Claim, content, isAttributable, path)} :
  IF judged.on THEN Go(next, judged.issues)
  ELSE Settle(judged.check, judged.outcome, judged.issues)

(* iterateBlobSources: the out-of-band bytes first, always attributable.   *)
OutOfBandBlob ==
  /\ AtClaim /\ cursor.uri = 0 /\ SettledUnseen(input, Claim) = "no"
  /\ IF Claim.index \in DOMAIN OutOfBand(input, Claim)
     THEN Consume(OutOfBand(input, Claim)[Claim.index], TRUE, BasePath(Claim), NextUri)
     ELSE Go(NextUri, << >>)
  /\ UNCHANGED auditTrail

SourcesLeft == input.fetchContent /\ ~cursor.limitExceeded /\ cursor.uri =< Len(UrisOf(Claim))
Fetchable == parseFetchUri(Uri) # "null" /\ Gateways(input, parseFetchUri(Uri)) > 0
(* A URI this deployment does not fetch: IPFS without a gateway.           *)
RefuseUri ==
  /\ AtClaim /\ cursor.uri >= 1 /\ SourcesLeft /\ ~Fetchable
  /\ Go(NextUri, << issueOf("URI_TARGET_FORBIDDEN", UriPath) >>)
  /\ UNCHANGED auditTrail

(* One GET; a 200 yields its bytes to the consumer, which may ask for the  *)
(* next source.  An oversized body ends the claim.                         *)
FetchBlob ==
  /\ AtClaim /\ cursor.uri >= 1 /\ SourcesLeft /\ Fetchable
  /\ \E answer \in {[kind |-> k, claim |-> cursor.claim] : k \in {"denied", "failed", "too_large"}}
                     \cup {[kind |-> "body", claim |-> cursor.claim, content |-> c] :
                             c \in input.contents} :
       /\ Asked("content", answer)
       /\ CASE answer.kind = "denied" ->
                 Go(NextGateway, << issueOf("SERVICE_INDEPENDENCE_VIOLATION", UriPath) >>)
            [] answer.kind = "failed" ->
                 Go(NextGateway, << issueOf("URI_FETCH_FAILED", UriPath) >>)
            [] answer.kind = "too_large" -> Go([cursor EXCEPT !.limitExceeded = TRUE], << >>)
            [] answer.kind = "body" ->
                 Consume(answer.content, attributable(Uri, answer.content), UriPath,
                         NextGateway)

(* Every source spent: the claim's end state.  A commitment's is left to   *)
(* the floor.                                                              *)
EndOfSources ==
  LET code == IF cursor.limitExceeded THEN "CONTENT_FETCH_LIMIT_EXCEEDED"
              ELSE IF Sealed(Claim) THEN "CIPHERTEXT_UNAVAILABLE" ELSE "CONTENT_UNAVAILABLE" IN
  /\ AtClaim /\ cursor.uri >= 1 /\ ~SourcesLeft
  /\ IF InItems(Claim)
     THEN Settle("not_checked", IF Sealed(Claim) THEN code ELSE "none",
                 << issueOf(code, BasePath(Claim)) >>)
     ELSE Settle("not_checked", IF cursor.limitExceeded THEN "limit" ELSE "unavailable", << >>)
  /\ UNCHANGED auditTrail

(* The commitments left unchecked because their leaves were not to be had. *)
Lacking(settled, items) ==
  Subsequence([k \in DOMAIN settled |-> k],
              {k \in DOMAIN settled : k > items /\ settled[k].outcome \in {"limit", "unavailable"}})
FloorIssue(settled, items, k, severity) ==
  LET path == << "merkle", Idx(k - items) >> IN
  IF settled[k].outcome = "limit" THEN issueOf("CONTENT_FETCH_LIMIT_EXCEEDED", path)
  ELSE IssueAs("MERKLE_LEAVES_UNAVAILABLE", path, severity)
(* Mutant: no floor, unavailable leaves are a warning whatever was checked. *)
FloorIssuesAlwaysWarn(settled, items) ==
  [n \in DOMAIN Lacking(settled, items) |->
     FloorIssue(settled, items, Lacking(settled, items)[n], "warning")]
(* The commitment floor: unavailable leaves are an error only when nothing *)
(* else of the record was checked.                                         *)
FloorIssues(settled, items) ==
  LET anyVerified == \E k \in DOMAIN settled : settled[k].check = "checked" IN
  [n \in DOMAIN Lacking(settled, items) |->
     FloorIssue(settled, items, Lacking(settled, items)[n],
                IF anyVerified THEN SEVERITY["MERKLE_LEAVES_UNAVAILABLE"] ELSE "error")]
Finish ==
  LET all == issues \o FloorIssues(checks, NumItems) IN
  /\ phase = "claims" /\ cursor.claim > ClaimCount
  /\ report' = assembleReport(verdictFromIssues(all), all, SubSeq(checks, 1, NumItems),
                              SubSeq(checks, NumItems + 1, ClaimCount), record)
  /\ phase' = "done"
  /\ UNCHANGED << input, attempt, resolved, record, issues, signatures, cursor, checks,
                  auditTrail >>

(* The report is returned: the one state in which a run may stop.          *)
Reported == phase = "done" /\ UNCHANGED vars

Next ==
  \/ verifyTx \/ verifyResolved
  \/ FetchTxCbor \/ FetchTxInfo \/ FetchTip \/ NoProviderLeft
  \/ JudgeRecord
  \/ SettleUnseen \/ OutOfBandBlob \/ RefuseUri \/ FetchBlob \/ EndOfSources
  \/ Finish
  \/ Reported

Spec == Init /\ [][Next]_vars

-----------------------------------------------------------------------------
Done == phase = "done" /\ "record" \in DOMAIN report
Reached == Done /\ report.record # Missing /\ report.verdict # "pending"

(* The transaction whose bytes carry the judged record is the one that was *)
(* asked for, whatever explorers served: the same body and metadata        *)
(* (runVerifyTx reads nothing before bindFetchedTx), and a witness listed  *)
(* as valid is a signature over the body of that transaction, though the   *)
(* witness set, which no hash covers, may be another's.                    *)
JudgedIsGenuine ==
  resolved.tx # << >> =>
    /\ CarriedBodyOf(resolved.tx) = CarriedBodyOf(input.genuine)
    /\ Done /\ report.record # Missing =>
         report.record = CarriedBodyOf(input.genuine).body.value
    /\ Done => \A i \in DOMAIN report.facts.description.txWitnesses :
         LET witness == report.facts.description.txWitnesses[i]
             pairs == WitnessPairs(sliceTxComponents(resolved.tx).witnessSet) IN
         witness.signature_valid =>
           \E n \in DOMAIN pairs :
             /\ pairs[n][1] = witness.vkey
             /\ verifyEd25519(witness.vkey, blake2b256(sliceTxComponents(input.genuine).txBody),
                              pairs[n][2])

(* What the chain of explorers proves, read off the calls alone: one that  *)
(* served other bytes is asked nothing more; a run without a transaction   *)
(* has asked them all, and says mismatch before not found before           *)
(* unavailable, in whatever order the answers came (resolve.ts).           *)
SameTx(b, genuine) ==
  LET c == sliceTxComponents(b)  g == sliceTxComponents(genuine) IN
  c.txBody = g.txBody /\ c.auxiliaryData = g.auxiliaryData
CborCalls(trail) == {i \in DOMAIN trail : trail[i].purpose = "tx_cbor"}
Asks(trail, i) == Cardinality({j \in CborCalls(trail) : j =< i})
ForgedAt(call, trail) ==
  {i \in CborCalls(trail) : /\ trail[i].answer.kind = "tx"
                            /\ sliceTxComponents(trail[i].answer.tx).ok
                            /\ ~SameTx(trail[i].answer.tx, call.genuine)}
NegativeAt(call, trail) ==
  {i \in CborCalls(trail) :
     trail[i].answer.kind = IF Asks(trail, i) =< call.koios THEN "empty" ELSE "status404"}
DeniedAt(trail) == {i \in DOMAIN trail : trail[i].answer.kind = "denied"}
ChainVerdict(call, trail) ==
  IF ForgedAt(call, trail) # {} THEN "TX_INTEGRITY_MISMATCH"
  ELSE IF NegativeAt(call, trail) # {} THEN "TX_NOT_FOUND" ELSE "PROVIDER_UNAVAILABLE"
ResolutionPrecedence ==
  input.entry = "tx" =>
    /\ \A i \in ForgedAt(input, auditTrail) :
         i < Len(auditTrail) => i + 1 \in CborCalls(auditTrail)
    /\ Done /\ resolved = NoTxResolved /\ DeniedAt(auditTrail) = {} =>
         /\ Cardinality(CborCalls(auditTrail)) = Providers
         /\ Codes(report.issues) = {ChainVerdict(input, auditTrail)}
         /\ report.verdict = "unverifiable"

(* Explorers and gateways cannot condemn a record that keeps its promises: *)
(* only a call to a denied host fails such a run, and a claim is checked   *)
(* exactly when a good blob was had for it, whatever else was served       *)
(* (iterateBlobSources, the attribution rule of verifyIpfsCidBinding).     *)
GivenFor(call, claim) ==
  {OutOfBand(call, claim)[i] : i \in {claim.index} \cap DOMAIN OutOfBand(call, claim)}
Obtained(call, rec, trail, k) ==
  IF SettledUnseen(call, ClaimOf(rec, k)) # "no" THEN {}
  ELSE GivenFor(call, ClaimOf(rec, k))
         \cup {trail[i].answer.content :
                 i \in {i \in DOMAIN trail : /\ trail[i].purpose = "content"
                                             /\ trail[i].answer.kind = "body"
                                             /\ trail[i].answer.claim = k}}
NetworkNeverCondemns ==
  Reached /\ input.honest =>
    /\ report.verdict = "failed" => DeniedAt(auditTrail) # {}
    /\ \A k \in 1..ClaimCountOf(report.record) :
         (report.items \o report.merkle)[k].check = "checked"
           <=> Obtained(input, report.record, auditTrail, k) \cap input.good[k] # {}

(* A valid verdict is earned: every item with a source to try was checked, *)
(* and of a record of commitments one was (the floor of verify.ts).        *)
HasSource(call, claim) ==
  /\ call.fetchContent /\ UrisOf(claim) # << >>
  /\ Sealed(claim) => willDecrypt(call)
ValidMeansChecked ==
  Reached /\ report.verdict = "valid" =>
    LET rec == report.record  items == Len(ItemsOf(rec)) IN
    /\ \A k \in 1..items :
         HasSource(input, ClaimOf(rec, k)) => report.items[k].check = "checked"
    /\ items = 0 /\ input.fetchContent =>
         \E k \in DOMAIN report.merkle : report.merkle[k].check = "checked"

(* What the profile leaves out of the check is declared, and nothing else  *)
(* is (planProfileSkips against detectConformanceProfile).  Excepted is    *)
(* merkle: the header of profile.ts asks a core verifier for a skip of it  *)
(* as of sigs and enc, and planProfileSkips plans none.  No skip is told   *)
(* of the commitments, and none is made: under the core profile too each   *)
(* of them whose leaves were given or could be fetched was looked into.    *)
MerkleUntold(call, rec) == Rank(call) < PROFILE_RANK["signed"] /\ Has(rec, "merkle")
LookedInto(settled) ==
  settled.check # "not_checked" \/ settled.outcome \in {"limit", "unavailable"}
SkipsAreDeclared ==
  Reached =>
    /\ Rank(input) < PROFILE_RANK[detectConformanceProfile(report.record)]
         <=> "OUT_OF_PROFILE_SKIPPED" \in Codes(report.issues)
    /\ MerkleUntold(input, report.record) =>
         \A k \in DOMAIN report.merkle :
           input.fetchContent \/ k \in DOMAIN input.leaves => LookedInto(report.merkle[k])

(* A verdict is earned: what it calls valid was checked, and what the      *)
(* profile kept from being looked into is told.                            *)
ValidIsEarned == ValidMeansChecked /\ SkipsAreDeclared

(* A checked list is proof of its leaves: the certificate of all of them   *)
(* holds when it is read back, each of its items has a COSE proof that     *)
(* holds, and a stranger to the list shows as a miss that spoils neither.  *)
(* No item put together from other fields proves a leaf at an index where  *)
(* it is not or, whatever the tree size it claims, something that is no    *)
(* leaf of the list (an interior node, say).                               *)
Stranger == Bytes(DIGEST_LENGTH, "stranger")
Certified == [chain |-> Text("cardano"), network |-> Text("mainnet"),
              txHash |-> bytesToHex(Bytes(DIGEST_LENGTH, "tx")), metadataLabel |-> Num(309),
              blockTime |-> Num(7), blockHeight |-> Num(4), slot |-> Missing,
              confirmationsAtGeneration |-> Num(1), explorerUrls |-> Missing]
Holds(verdict) == Get(verdict, "verified").b
Upper(hex) == [hex EXCEPT !.upper = TRUE]
UpperItem(item) ==
  Map([item.m EXCEPT !.leaf = Upper(@), !.proof.a = [i \in DOMAIN @ |-> Upper(@[i])]])
Proved(leaves) ==
  LET root == RootBytes(merkleSha2256Root(leaves))
      merkle == [treeAlg |-> Text("rfc9162-sha256"), root |-> root, treeSize |-> Len(leaves)]
      Target(leaf) == [leaf |-> leaf, leafAlg |-> Missing, label |-> Missing]
      targets == [i \in DOMAIN leaves |-> Target(leaves[i])]
      cert == buildInclusionCertificate(Certified, merkle, leaves, targets)
      withMiss == buildInclusionCertificate(Certified, merkle, leaves,
                                            Append(targets, Target(Stranger)))
      items == cert.m.items.a
      result == verifyInclusionCertificate(
                  Map([cert.m EXCEPT !.items.a = [i \in DOMAIN @ |-> UpperItem(@[i])]]))
      missed == verifyInclusionCertificate(withMiss)
      paths == UNION {{item.m.proof.a, SubSeq(item.m.proof.a, 2, Len(item.m.proof.a))} :
                        item \in Range(items)}
      nodes == {hex.of : hex \in UNION {Range(path) : path \in paths}}
      candidates == nodes \cup Range(leaves) \cup {Stranger}
      ItemOf(leaf, index, path) ==
        makeItem([leaf |-> bytesToHex(leaf), index |-> Num(index), proof |-> Arr(path),
                  verified |-> Flag(TRUE)]) IN
  /\ result.ok /\ result.anchorClaim = Certified
  /\ ~missed.ok /\ \A i \in DOMAIN missed.items : Holds(missed.items[i]) <=> i # Len(leaves) + 1
  /\ encodeCoseInclusionProof(Last(withMiss.m.items.a), merkle, Certified) = Missing
  /\ \A i \in DOMAIN items :
       LET cose == encodeCoseInclusionProof(items[i], merkle, Certified).value.m
           path == Decoded(cose.inclusion_proof).a IN
       BytesVerify(cose.leaf, path[2].n, path[1].n, path[3].a, cose.root)
         /\ cose.leaf = leaves[i] /\ leaves[path[2].n + 1] = leaves[i]
  /\ \A leaf \in candidates, index \in 0..Len(leaves), size \in 1..(Len(leaves) + 1),
        path \in paths :
       Holds(verifyItem(ItemOf(leaf, index, path), size, root)) =>
         /\ leaf \in Range(leaves)
         /\ size = Len(leaves) => leaf = leaves[index + 1]
LeavesProvable ==
  Reached => \A k \in DOMAIN report.merkle :
    report.merkle[k].check = "checked" =>
      \E content \in Obtained(input, record, auditTrail, NumItems + k) :
        Proved(Elems(Get(content.list, "leaves")))

(* Every envelope a run with keys comes to decrypt is one the decrypting   *)
(* code accepts: the recipient reading of the validator and the checks of  *)
(* unwrap.ts and passphrase.ts, two copies of one rule set, agree, so that *)
(* none of its refusals is put down to the caller's key.                   *)
DecryptOnlyValidated ==
  phase = "claims" /\ willDecrypt(input) =>
    \A k \in 1..NumItems :
      LET enc == Get(ItemsOf(record)[k], "enc") IN
      enc # Missing =>
        IF Get(enc, "slots").t = "array"
        THEN /\ sealedEnvelopeFromParsed(enc) # Missing
             /\ assertEnvelopeStructure(enc, << >>) = "ok"
        ELSE assertPassphraseBlock(SaltOf(enc), ParamsOf(enc), Get(enc, "nonce")) = "ok"

(* The codes the validator fixtures pin, in the public and in the          *)
(* recipient reading, are the codes of the report, and no issue is         *)
(* reported twice (the validator and the signature pass both know an       *)
(* unsupported algorithm).  The validator keeps to the codes of its layer, *)
(* and a severity is not the registry's only where the registry says so.   *)
FixturesPinned ==
  Done /\ "expected" \in DOMAIN input =>
    /\ Codes(report.issues) = input.expected
    /\ IsInjective(report.issues)
    /\ \A code \in Codes(Validation(input, input.body).issues) : ERROR_CODE_PART[code] = "A"
    /\ \A i \in DOMAIN report.issues :
         LET issue == report.issues[i] IN
         issue.severity # SEVERITY[issue.code] => issue.code \in DUAL_SEVERITY_CODES

(* A run goes forward, explorer by explorer, claim by claim, URI by URI    *)
(* and gateway by gateway: no call is repeated, and since each part of the *)
(* position is bounded and only a reported run may stop, every run whose   *)
(* calls are answered (the outbound fetch times each out) ends in a report. *)
PlaceIn(x, seq) == CHOOSE i \in DOMAIN seq : seq[i] = x
Position ==
  << PlaceIn(phase, << "start", "resolve", "record", "claims", "done" >>), attempt.provider,
     PlaceIn(attempt.step, << "cbor", "info", "tip" >>), cursor.claim, cursor.uri,
     cursor.gateway, IF cursor.limitExceeded THEN 1 ELSE 0 >>
Precedes(p, q) == \E i \in DOMAIN p : p[i] < q[i] /\ \A j \in 1..(i - 1) : p[j] = q[j]
EveryStepAdvances == [][Precedes(Position, Position')]_vars
=============================================================================
