-------------------------- MODULE VerifierClaimsProofs --------------------------
(***************************************************************************)
(* Proofs about the claims of Verifier: what a valid verdict has checked   *)
(* and what the report says of the parts it passed over.                   *)
(***************************************************************************)
EXTENDS VerifierProofs

-----------------------------------------------------------------------------
(* Lists of issues.                                                        *)
IsList(list) == list \in Seq(Range(list))

LEMMA ListIn == ASSUME NEW S, NEW list \in Seq(S) PROVE IsList(list)
<1>1. /\ DOMAIN list = 1..Len(list) /\ Len(list) \in Nat
      /\ list = [i \in 1..Len(list) |-> list[i]]
  OBVIOUS
<1>2. \A i \in 1..Len(list) : list[i] \in Range(list)
  BY <1>1 DEF Range
<1>3. list \in [1..Len(list) -> Range(list)]
  BY <1>1, <1>2
<1> QED
  BY <1>1, <1>3 DEF IsList

LEMMA Appended ==
  ASSUME NEW a, NEW b, IsList(a), IsList(b)
  PROVE  /\ IsList(a \o b) /\ Len(a \o b) = Len(a) + Len(b)
         /\ Codes(a \o b) = Codes(a) \cup Codes(b)
         /\ ErrorsOf(a \o b) = ErrorsOf(a) \cup ErrorsOf(b)
<1> DEFINE S == Range(a) \cup Range(b)
           ab == a \o b
           errs(list) == {i \in DOMAIN list : list[i].severity = "error"}
<1>1. a \in Seq(S) /\ b \in Seq(S)
  BY DEF IsList
<1>2. ab \in Seq(S)
  BY <1>1
<1>3. /\ Len(a) \in Nat /\ Len(b) \in Nat /\ DOMAIN a = 1..Len(a) /\ DOMAIN b = 1..Len(b)
      /\ DOMAIN ab = 1..(Len(a) + Len(b)) /\ Len(ab) = Len(a) + Len(b)
      /\ \A i \in DOMAIN a : ab[i] = a[i]
      /\ \A i \in DOMAIN b : ab[Len(a) + i] = b[i]
  <2> HIDE DEF S
  <2> QED
    BY <1>1
<1> HIDE DEF ab, S
<1>4. ASSUME NEW i \in DOMAIN a PROVE i \in DOMAIN ab /\ ab[i] = a[i]
  BY <1>3
<1>5. ASSUME NEW i \in DOMAIN b PROVE Len(a) + i \in DOMAIN ab /\ ab[Len(a) + i] = b[i]
  BY <1>3
<1>6. ASSUME NEW i \in DOMAIN ab
      PROVE  i \in DOMAIN a \/ \E j \in DOMAIN b : ab[i] = b[j] /\ i = Len(a) + j
  <2>1. CASE i \in DOMAIN a
    BY <2>1
  <2>2. CASE i \notin DOMAIN a
    <3>1. i - Len(a) \in DOMAIN b /\ i = Len(a) + (i - Len(a))
      BY <1>3, <2>2
    <3> QED
      BY <3>1, <1>3
  <2> QED
    BY <2>1, <2>2
<1>7. Codes(ab) = Codes(a) \cup Codes(b)
  <2>1. ASSUME NEW c \in Codes(ab) PROVE c \in Codes(a) \cup Codes(b)
    BY <1>4, <1>6 DEF Codes
  <2>2. ASSUME NEW c \in Codes(a) PROVE c \in Codes(ab)
    BY <1>4 DEF Codes
  <2>3. ASSUME NEW c \in Codes(b) PROVE c \in Codes(ab)
    BY <1>5 DEF Codes
  <2> QED
    BY <2>1, <2>2, <2>3
<1>8. ErrorsOf(ab) = ErrorsOf(a) \cup ErrorsOf(b)
  <2>0. \A list : ErrorsOf(list) = {list[i].code : i \in errs(list)}
    BY DEF ErrorsOf
  <2>1. ASSUME NEW i \in errs(ab) PROVE \/ i \in errs(a) /\ ab[i] = a[i]
                                        \/ \E j \in errs(b) : ab[i] = b[j]
    BY <1>4, <1>6
  <2>2. ASSUME NEW i \in errs(a) PROVE i \in errs(ab) /\ ab[i] = a[i]
    BY <1>4
  <2>3. ASSUME NEW i \in errs(b) PROVE Len(a) + i \in errs(ab) /\ ab[Len(a) + i] = b[i]
    BY <1>5
  <2> HIDE DEF errs
  <2> QED
    BY <2>0, <2>1, <2>2, <2>3
<1>9. IsList(ab)
  BY <1>2, ListIn
<1> QED
  BY <1>3, <1>7, <1>8, <1>9 DEF ab

LEMMA NoIssues == IsList(<< >>) /\ Codes(<< >>) = {} /\ ErrorsOf(<< >>) = {}
<1>1. IsList(<< >>)
  BY DEF IsList
<1> QED
  BY <1>1 DEF Codes, ErrorsOf

LEMMA OneIssue ==
  ASSUME NEW s
  PROVE  /\ IsList(<< s >>) /\ Codes(<< s >>) = {s.code} /\ Len(<< s >>) = 1
         /\ ErrorsOf(<< s >>) = IF s.severity = "error" THEN {s.code} ELSE {}
<1>1. << s >> \in Seq({s})
  OBVIOUS
<1>2. IsList(<< s >>)
  BY <1>1, ListIn
<1>3. ErrorsOf(<< s >>) = IF s.severity = "error" THEN {s.code} ELSE {}
  <2>1. CASE s.severity = "error"
    <3>1. {i \in DOMAIN << s >> : << s >>[i].severity = "error"} = {1}
      BY <2>1
    <3> QED
      BY <3>1, <2>1 DEF ErrorsOf
  <2>2. CASE s.severity # "error"
    <3>1. {i \in DOMAIN << s >> : << s >>[i].severity = "error"} = {}
      BY <2>2
    <3> QED
      BY <3>1, <2>2 DEF ErrorsOf
  <2> QED
    BY <2>1, <2>2
<1> QED
  BY <1>2, <1>3 DEF Codes

(* The codes that judge a claim or a signature: all of them errors.        *)
Judging ==
  {"MALFORMED_SIG_COSE_SIGN1", "TX_NOT_FOUND", "PROVIDER_UNAVAILABLE", "TX_INTEGRITY_MISMATCH",
   "METADATA_NOT_FOUND", "SIGNATURE_INVALID", "SIGNER_KEY_UNRESOLVED",
   "WALLET_ADDRESS_MISMATCH", "URI_TARGET_FORBIDDEN", "URI_INTEGRITY_MISMATCH",
   "CONTENT_UNAVAILABLE", "CONTENT_FETCH_LIMIT_EXCEEDED", "CIPHERTEXT_UNAVAILABLE",
   "SERVICE_INDEPENDENCE_VIOLATION", "WRONG_DECRYPTION_INPUT_SHAPE", "WRONG_RECIPIENT_KEY",
   "TAMPERED_HEADER", "TAMPERED_CIPHERTEXT", "KDF_DERIVATION_FAILED",
   "ENC_PASSPHRASE_UNNORMALIZABLE", "ENC_PASSPHRASE_EMPTY",
   "SCHEMA_MERKLE_LEAF_COUNT_MISMATCH", "SCHEMA_MERKLE_LEAVES_FORMAT_UNSUPPORTED",
   "SCHEMA_MERKLE_LEAVES_MALFORMED", "MERKLE_ROOT_MISMATCH"}
Noting == {"URI_PROVIDER_INTEGRITY_MISMATCH", "URI_FETCH_FAILED", "MERKLE_LEAVES_UNAVAILABLE",
           "OUT_OF_PROFILE_SKIPPED", "SIGNATURE_UNSUPPORTED"}

LEMMA JudgingIsError ==
  /\ \A code \in Judging : SEVERITY[code] = "error" /\ code # "OUT_OF_PROFILE_SKIPPED"
  /\ \A code \in Noting : SEVERITY[code] # "error"
<1>1. DOMAIN ERROR_CODES = 1..76
  BY DEF ERROR_CODES
<1>2. \A i \in 1..76 : ERROR_CODES[i] \in ErrorCode
  BY <1>1 DEF ErrorCode, Range
<1>3. \A c \in Judging \cup Noting : \E i \in 1..76 : ERROR_CODES[i] = c
  BY DEF Judging, Noting, ERROR_CODES
<1>4. Judging \cup Noting \subseteq ErrorCode
  BY <1>2, <1>3
<1>5. ASSUME NEW code \in Judging
      PROVE  SEVERITY[code] = "error" /\ code # "OUT_OF_PROFILE_SKIPPED"
  BY <1>4 DEF SEVERITY, Judging
<1>6. ASSUME NEW code \in Noting PROVE SEVERITY[code] # "error"
  BY <1>4 DEF SEVERITY, Noting
<1> QED
  BY <1>5, <1>6

LEMMA OneJudging ==
  ASSUME NEW code \in Judging, NEW path
  PROVE  /\ IsList(<< issueOf(code, path) >>) /\ ErrorsOf(<< issueOf(code, path) >>) = {code}
         /\ Codes(<< issueOf(code, path) >>) = {code} /\ code # "OUT_OF_PROFILE_SKIPPED"
<1>1. issueOf(code, path).code = code /\ issueOf(code, path).severity = "error"
  BY JudgingIsError DEF issueOf, IssueAs
<1> QED
  BY <1>1, OneIssue, JudgingIsError

LEMMA OneNoting ==
  ASSUME NEW code \in Noting, NEW path
  PROVE  /\ IsList(<< issueOf(code, path) >>) /\ ErrorsOf(<< issueOf(code, path) >>) = {}
         /\ Codes(<< issueOf(code, path) >>) = {code}
<1>1. issueOf(code, path).code = code /\ issueOf(code, path).severity # "error"
  BY JudgingIsError DEF issueOf, IssueAs
<1> QED
  BY <1>1, OneIssue

-----------------------------------------------------------------------------
(* The pass over the signatures adds issues, and none of a profile skip.   *)
Skip == "OUT_OF_PROFILE_SKIPPED"
Extended(a, b) ==
  /\ IsList(b) /\ ErrorsOf(a) \subseteq ErrorsOf(b)
  /\ Skip \in Codes(b) <=> Skip \in Codes(a)

LEMMA SigReasons ==
  ASSUME NEW entry, NEW body, NEW network
  PROVE  verifyOneSig(entry, body, network).reason # Skip
<1> DEFINE blob == Get(entry, "cose_sign1")
           cose == decodeCoseSign1(blob)
           key == resolveSignerKey(cose, entry)
           code == coseSign1Label309Verify(blob, body, key.pub)
           reason == mapVerifyError(code)
<1>1. code \in {"MALFORMED_SIG_COSE", "MALFORMED_SIG_COSE_SIGN1", "UNSUPPORTED_SIG_ALG",
                "KID_UNRESOLVED", "ok", "SIGNATURE_INVALID"}
  BY DEF coseSign1Label309Verify, VerifyBlob, VerifyDecoded
<1> HIDE DEF code
<1>2. reason # Skip
  <2>1. \A c : /\ mapVerifyError(c) \in {"MALFORMED_SIG_COSE_SIGN1", "SIGNATURE_UNSUPPORTED",
                                         "SIGNER_KEY_UNRESOLVED", c}
    BY DEF mapVerifyError
  <2> QED
    BY <1>1, <2>1 DEF Skip
<1>3. verifyOneSig(entry, body, network) = SigJudged(cose, key, reason, network)
  BY DEF verifyOneSig, SigDecoded, SigResolved, code
<1> HIDE DEF reason, cose, key
<1>4. SigJudged(cose, key, reason, network).reason
        \in {"MALFORMED_SIG_COSE_SIGN1", "SIGNER_KEY_UNRESOLVED", reason,
             "WALLET_ADDRESS_MISMATCH", "none"}
  BY DEF SigJudged, SigVerdict
<1> QED
  BY <1>2, <1>3, <1>4 DEF Skip

LEMMA OneMore ==
  ASSUME NEW list, IsList(list), NEW s
  PROVE  /\ IsList(Append(list, s)) /\ ErrorsOf(list) \subseteq ErrorsOf(Append(list, s))
         /\ Codes(Append(list, s)) = Codes(list) \cup {s.code}
<1>1. Append(list, s) = list \o << s >>
  <2>1. list \in Seq(Range(list) \cup {s}) /\ s \in Range(list) \cup {s}
    BY DEF IsList
  <2> QED
    BY <2>1
<1> DEFINE one == << s >>
<1>2. IsList(one) /\ Codes(one) = {s.code}
  BY OneIssue
<1>3. Append(list, s) = list \o one
  BY <1>1
<1> HIDE DEF one
<1>4. IsList(list \o one) /\ Codes(list \o one) = Codes(list) \cup Codes(one)
  BY <1>2, Appended
<1>5. ErrorsOf(list) \subseteq ErrorsOf(list \o one)
  BY <1>2, Appended
<1> QED
  BY <1>2, <1>3, <1>4, <1>5

LEMMA SigIssueExtends ==
  ASSUME NEW list, IsList(list), NEW i, NEW verdict, verdict.reason # Skip
  PROVE  Extended(list, SigIssue(list, i, verdict))
<1> DEFINE issue(code) == issueOf(code, << "sigs", Idx(i) >>)
<1>1. \/ SigIssue(list, i, verdict) = Append(list, issue(verdict.reason))
      \/ SigIssue(list, i, verdict) = Append(list, issue("SIGNATURE_UNSUPPORTED"))
      \/ SigIssue(list, i, verdict) = list
  BY DEF SigIssue, AddOnce
<1>2. \A code : issue(code).code = code
  BY DEF issueOf, IssueAs
<1>3. \A code : code # Skip => Extended(list, Append(list, issue(code)))
  <2> HIDE DEF issue
  <2> QED
    BY <1>2, OneMore DEF Extended
<1>4. Extended(list, list)
  BY DEF Extended
<1>5. "SIGNATURE_UNSUPPORTED" # Skip
  BY DEF Skip
<1> HIDE DEF issue
<1> QED
  BY <1>1, <1>3, <1>4, <1>5

After(f, verdicts, found, n) ==
  f = [k \in 0..n |-> IF k = 0 THEN found ELSE SigIssue(f[k - 1], k, verdicts[k])]
LEMMA AfterExists ==
  ASSUME NEW verdicts, NEW found, NEW n \in Nat
  PROVE  \E f : After(f, verdicts, found, n)
<1> DEFINE Missed == {k \in Nat : ~ \E f : After(f, verdicts, found, k)}
<1>1. SUFFICES ASSUME Missed # {} PROVE FALSE
  OBVIOUS
<1>2. PICK m \in Missed : \A k \in Missed : m <= k
  BY <1>1, Least
<1>3. m # 0
  <2>1. After([k \in 0..0 |-> found], verdicts, found, 0)
    BY DEF After
  <2> QED
    BY <2>1, <1>2
<1>4. PICK f : After(f, verdicts, found, m - 1)
  BY <1>2, <1>3
<1> DEFINE last == SigIssue(f[m - 1], m, verdicts[m])
           next == [k \in 0..m |-> IF k = m THEN last ELSE f[k]]
<1>5. After(next, verdicts, found, m)
  <2>1. ASSUME NEW k \in 0..m
        PROVE  next[k] = IF k = 0 THEN found ELSE SigIssue(next[k - 1], k, verdicts[k])
    <3>1. CASE k = m
      BY <3>1, <1>3
    <3>2. CASE k # m
      <4>1. k \in 0..(m - 1) /\ next[k] = f[k] /\ (k # 0 => next[k - 1] = f[k - 1])
        BY <3>2, <1>2
      <4>2. f[k] = IF k = 0 THEN found ELSE SigIssue(f[k - 1], k, verdicts[k])
        BY <4>1, <1>4 DEF After
      <4> QED
        BY <4>1, <4>2
    <3> QED
      BY <3>1, <3>2
  <2> HIDE DEF next
  <2> QED
    BY <2>1 DEF After, next
<1> QED
  BY <1>2, <1>5

LEMMA SigReportExtends ==
  ASSUME NEW verdicts, NEW n \in Nat, n = Len(verdicts), NEW found, IsList(found),
         \A i \in 1..n : verdicts[i].reason # Skip
  PROVE  Extended(found, SigReport(verdicts, found).issues)
<1> DEFINE f == CHOOSE g : After(g, verdicts, found, n)
<1>1. After(f, verdicts, found, n)
  BY AfterExists
<1>2. SigReport(verdicts, found).issues = f[n]
  BY DEF SigReport, After
<1> HIDE DEF f
<1>3. \A k \in 0..n : f[k] = IF k = 0 THEN found ELSE SigIssue(f[k - 1], k, verdicts[k])
  BY <1>1 DEF After
<1> DEFINE Missed == {k \in 0..n : ~Extended(found, f[k])}
<1>4. Missed = {}
  <2>1. SUFFICES ASSUME Missed # {} PROVE FALSE
    OBVIOUS
  <2>2. PICK m \in Missed : \A k \in Missed : m <= k
    <3>1. Missed \in SUBSET Nat
      OBVIOUS
    <3> QED
      BY <3>1, <2>1, Least
  <2>3. m # 0
    <3>1. Extended(found, found)
      BY DEF Extended
    <3> QED
      BY <3>1, <1>3, <2>2
  <2>4. m - 1 \in 0..n /\ m \in 1..n /\ ~(m <= m - 1)
    BY <2>2, <2>3
  <2>5. Extended(found, f[m - 1])
    BY <2>2, <2>4
  <2>6. f[m] = SigIssue(f[m - 1], m, verdicts[m])
    BY <2>3, <2>4, <1>3
  <2>7. Extended(f[m - 1], SigIssue(f[m - 1], m, verdicts[m]))
    BY <2>4, <2>5, SigIssueExtends DEF Extended
  <2>8. Extended(found, f[m])
    BY <2>5, <2>6, <2>7 DEF Extended
  <2> QED
    BY <2>2, <2>8
<1> QED
  BY <1>2, <1>4

LEMMA SignaturesExtend ==
  ASSUME NEW rec \in Data, NEW network, NEW found, IsList(found)
  PROVE  Extended(found, verifyRecordSignatures(rec, network, found).issues)
<1> DEFINE sigs == Elems(Get(rec, "sigs"))
           body == encodeRecordBodyForSigning(rec)
           verdicts == [i \in DOMAIN sigs |-> verifyOneSig(sigs[i], body, network)]
<1>1. sigs \in Seq(Data)
  BY DataAssumption, Parts DEF DataSet
<1>2. verifyRecordSignatures(rec, network, found) = SigReport(verdicts, found)
  BY DEF verifyRecordSignatures, VerifySigs
<1>3. DOMAIN sigs = 1..Len(sigs) /\ Len(sigs) \in Nat
  BY <1>1
<1> HIDE DEF sigs, body
<1>4. Len(verdicts) = Len(sigs) /\ \A i \in 1..Len(sigs) : verdicts[i].reason # Skip
  BY <1>3, SigReasons
<1> HIDE DEF verdicts
<1> QED
  BY <1>2, <1>3, <1>4, SigReportExtends

-----------------------------------------------------------------------------
(* What a claim makes of a blob: it is checked, or judged with an error,   *)
(* or the provider is indicted with a warning.                             *)
Verdict(judged) ==
  /\ IsList(judged.issues) /\ Skip \notin Codes(judged.issues)
  /\ judged.on \in BOOLEAN
  /\ ~judged.on => judged.check = "checked" \/ ErrorsOf(judged.issues) # {}

LEMMA JudgedVerdict ==
  ASSUME NEW check, NEW outcome, NEW code \in Judging, NEW path
  PROVE  /\ Verdict(Judged(check, outcome, << issueOf(code, path) >>))
         /\ Verdict(Judged("checked", outcome, << >>))
         /\ Verdict(Indicted(path))
<1>1. Verdict(Judged(check, outcome, << issueOf(code, path) >>))
  BY OneJudging DEF Verdict, Judged, Skip
<1>2. Verdict(Judged("checked", outcome, << >>))
  BY NoIssues DEF Verdict, Judged
<1>3. Verdict(Indicted(path))
  <2>1. "URI_PROVIDER_INTEGRITY_MISMATCH" \in Noting
    BY DEF Noting
  <2> QED
    BY <2>1, OneNoting DEF Verdict, Indicted, Skip
<1> QED
  BY <1>1, <1>2, <1>3

(* The outcome of an attempt to decrypt.                                   *)
Outcome(attempted) ==
  \/ attempted.kind = "opened"
  \/ /\ attempted.kind \in {"header_failure", "input_failure", "blob_failure"}
     /\ attempted.code \in Judging

LEMMA Attempted ==
  ASSUME NEW result,
         \/ Failed(result)
         \/ ~Failed(result) /\ result.matched = TRUE
         \/ /\ ~Failed(result) /\ result.matched = FALSE
            /\ result.reason \in {"TAMPERED_HEADER", "WRONG_RECIPIENT_KEY", "TAMPERED_CIPHERTEXT"}
  PROVE  Outcome(AttemptOutcome(result))
<1>1. CASE Failed(result)
  <2>1. /\ inputFailureFrom(result.error).kind = "input_failure"
        /\ inputFailureFrom(result.error).code \in {"ENC_PASSPHRASE_UNNORMALIZABLE",
             "ENC_PASSPHRASE_EMPTY", "KDF_DERIVATION_FAILED"}
    BY DEF inputFailureFrom
  <2> QED
    BY <1>1, <2>1 DEF AttemptOutcome, Outcome, Judging
<1>2. CASE ~Failed(result) /\ result.matched = TRUE
  BY <1>2 DEF AttemptOutcome, Outcome
<1>3. CASE /\ ~Failed(result) /\ result.matched = FALSE
           /\ result.reason \in {"TAMPERED_HEADER", "WRONG_RECIPIENT_KEY", "TAMPERED_CIPHERTEXT"}
  BY <1>3 DEF AttemptOutcome, Outcome, Judging
<1> QED
  BY <1>1, <1>2, <1>3

LEMMA Unwrapped ==
  ASSUME NEW envelope, NEW content, NEW hashes, NEW keys
  PROVE  Outcome(AttemptOutcome(eciesSealedPoeUnwrap(envelope, content, hashes, keys)))
<1> DEFINE pass == Scan(envelope, hashes, keys)
           result == UnwrapWith(pass, envelope, content)
<1> HIDE DEF pass
<1>1. \/ Failed(result)
      \/ ~Failed(result) /\ result.matched = TRUE
      \/ /\ ~Failed(result) /\ result.matched = FALSE
         /\ result.reason \in {"TAMPERED_HEADER", "WRONG_RECIPIENT_KEY", "TAMPERED_CIPHERTEXT"}
  BY DEF UnwrapWith, NoMatch, Failed
<1> QED
  BY <1>1, Attempted DEF eciesSealedPoeUnwrap, pass

LEMMA Opened ==
  ASSUME NEW envelope, NEW content, NEW passphrase, NEW hashes
  PROVE  Outcome(AttemptOutcome(passphraseSealedPoeOpen(envelope, content, passphrase, hashes)))
<1> DEFINE result == passphraseSealedPoeOpen(envelope, content, passphrase, hashes)
           cek == argon2Cek(normalizePassphrase(passphrase), SaltOf(envelope), ParamsOf(envelope))
<1>1. \A c : LET r == OpenWith(c, envelope, content, hashes) IN
             \/ Failed(r)
             \/ ~Failed(r) /\ r.matched = TRUE
             \/ /\ ~Failed(r) /\ r.matched = FALSE
                /\ r.reason \in {"TAMPERED_HEADER", "WRONG_RECIPIENT_KEY", "TAMPERED_CIPHERTEXT"}
  BY DEF OpenWith, NoMatch, Failed
<1>2. \/ result = Failure(openInput(envelope, passphrase, hashes))
      \/ result = NoMatch("TAMPERED_CIPHERTEXT")
      \/ result = OpenWith(cek, envelope, content, hashes)
  BY DEF passphraseSealedPoeOpen
<1>3. \/ Failed(result)
      \/ ~Failed(result) /\ result.matched = TRUE
      \/ /\ ~Failed(result) /\ result.matched = FALSE
         /\ result.reason \in {"TAMPERED_HEADER", "WRONG_RECIPIENT_KEY", "TAMPERED_CIPHERTEXT"}
  <2> HIDE DEF result, cek
  <2>1. \A code : Failed(Failure(code))
    BY DEF Failed, Failure
  <2>2. LET r == NoMatch("TAMPERED_CIPHERTEXT") IN
        ~Failed(r) /\ r.matched = FALSE /\ r.reason = "TAMPERED_CIPHERTEXT"
    BY DEF Failed, NoMatch
  <2> QED
    BY <1>1, <1>2, <2>1, <2>2
<1> HIDE DEF result
<1>4. Outcome(AttemptOutcome(result))
  BY <1>3, Attempted
<1> QED
  BY <1>4 DEF result

(* A run that decrypts has credentials of the kind the envelope asks for.  *)
LEMMA CredentialLists ==
  ASSUME NEW call \in Inputs
  PROVE  /\ Secrets(call) \in Seq(Range(call.creds))
         /\ Passphrases(call) \in Seq(Range(call.creds))
<1>1. call.creds \in Seq(Range(call.creds))
  BY CallAssumption
<1> QED
  BY <1>1, Subsequences DEF Secrets, Passphrases

LEMMA PassphraseOutcome ==
  ASSUME NEW call \in Inputs, NEW claim, NEW content, Passphrases(call) # << >>
  PROVE  Outcome(attemptPassphrasePath(call, claim, content))
<1> DEFINE passphrases == Passphrases(call)
           tried == [k \in DOMAIN passphrases |->
                       AttemptOutcome(passphraseSealedPoeOpen(EncOf(claim), content,
                         passphrases[k].passphrase, Get(claim.is, "hashes")))]
           opens == {k \in DOMAIN tried : tried[k].kind = "opened"}
<1>1. passphrases \in Seq(Range(call.creds))
  BY CredentialLists
<1>2. DOMAIN passphrases = 1..Len(passphrases) /\ Len(passphrases) \in Nat
      /\ 1 \in DOMAIN passphrases
  <2> HIDE DEF passphrases
  <2> QED
    BY <1>1 DEF passphrases
<1>3. \A k \in DOMAIN tried : Outcome(tried[k])
  BY Opened
<1>4. DOMAIN tried = 1..Len(passphrases)
  BY <1>2
<1>5. FirstOpened(tried) = tried[IF opens = {} THEN 1 ELSE Min(opens)]
  BY DEF FirstOpened
<1>6. (IF opens = {} THEN 1 ELSE Min(opens)) \in DOMAIN tried
  <2>1. CASE opens = {}
    BY <2>1, <1>2
  <2>2. CASE opens # {}
    <3>1. opens \in SUBSET Nat
      BY <1>2, <1>4
    <3> HIDE DEF opens
    <3>2. Min(opens) \in opens
      BY <3>1, <2>2, Least DEF Min
    <3> QED
      BY <3>2, <2>2 DEF opens
  <2> QED
    BY <2>1, <2>2
<1>7. attemptPassphrasePath(call, claim, content) = FirstOpened(tried)
  BY DEF attemptPassphrasePath
<1> HIDE DEF tried, opens
<1> QED
  BY <1>3, <1>5, <1>6, <1>7

LEMMA BlobVerdict ==
  ASSUME NEW call \in Inputs, NEW claim, NEW content, NEW isAttributable \in BOOLEAN, NEW path,
         SettledUnseen(call, claim) = "no"
  PROVE  Verdict(JudgeBlob(call, claim, content, isAttributable, path))
<1>1. ASSUME Sealed(claim)
      PROVE  Verdict(decryptItem(call, claim, content, isAttributable, path))
  <2> DEFINE attempted == IF IsSlotsPath(claim) THEN attemptSlotsPath(call, claim, content)
                          ELSE attemptPassphrasePath(call, claim, content)
             enc == BasePath(claim) \o << "enc" >>
  <2>1. Decrypts(call, claim)
    BY <1>1 DEF SettledUnseen
  <2>2. Outcome(attempted)
    <3>1. CASE IsSlotsPath(claim)
      <4>1. "TAMPERED_HEADER" \in Judging
        BY DEF Judging
      <4>2. Outcome([kind |-> "header_failure", code |-> "TAMPERED_HEADER"])
        BY <4>1 DEF Outcome
      <4> QED
        BY <3>1, <4>2, Unwrapped DEF attemptSlotsPath
    <3>2. CASE ~IsSlotsPath(claim)
      <4>1. Passphrases(call) # << >>
        BY <2>1, <3>2 DEF Decrypts, Applicable
      <4> QED
        BY <3>2, <4>1, PassphraseOutcome
    <3> QED
      BY <3>1, <3>2
  <2>3. decryptItem(call, claim, content, isAttributable, path)
          = Decrypted(claim, attempted, isAttributable, path)
    BY DEF decryptItem
  <2> HIDE DEF attempted
  <2>4. "URI_INTEGRITY_MISMATCH" \in Judging
    BY DEF Judging
  <2>5. CASE attempted.kind = "opened"
    BY <2>3, <2>4, <2>5, JudgedVerdict DEF Decrypted
  <2>6. CASE attempted.kind \in {"header_failure", "input_failure"} /\ attempted.code \in Judging
    <3>1. Decrypted(claim, attempted, isAttributable, path)
            = Judged("not_checked", attempted.code, << issueOf(attempted.code, enc) >>)
      BY <2>6 DEF Decrypted
    <3> QED
      BY <2>3, <2>6, <3>1, JudgedVerdict
  <2>7. CASE attempted.kind = "blob_failure" /\ attempted.code \in Judging
    <3>1. Decrypted(claim, attempted, isAttributable, path)
            = IF isAttributable
              THEN Judged("mismatched", attempted.code, << issueOf(attempted.code, enc) >>)
              ELSE Indicted(path)
      BY <2>7 DEF Decrypted
    <3> QED
      BY <2>3, <2>7, <3>1, JudgedVerdict
  <2> QED
    BY <2>2, <2>5, <2>6, <2>7 DEF Outcome
<1>2. Verdict(checkItemContent(claim, content, isAttributable, path))
  <2>1. "URI_INTEGRITY_MISMATCH" \in Judging
    BY DEF Judging
  <2> QED
    BY <2>1, JudgedVerdict DEF checkItemContent
<1>3. Verdict(checkLeaves(claim, content, isAttributable, path))
  <2>1. decodeLeavesList(content) \in
          {"SCHEMA_MERKLE_LEAVES_MALFORMED", "SCHEMA_MERKLE_LEAVES_FORMAT_UNSUPPORTED",
           "SCHEMA_MERKLE_LEAF_COUNT_MISMATCH", "MERKLE_ROOT_MISMATCH", "ok"}
    BY DEF decodeLeavesList
  <2>2. validateLeavesDocument(content, claim.is) \in
          {"SCHEMA_MERKLE_LEAVES_MALFORMED", "SCHEMA_MERKLE_LEAVES_FORMAT_UNSUPPORTED",
           "SCHEMA_MERKLE_LEAF_COUNT_MISMATCH", "MERKLE_ROOT_MISMATCH", "ok"}
    BY <2>1 DEF validateLeavesDocument
  <2>3. validateLeavesDocument(content, claim.is) \in Judging \cup {"ok"}
    BY <2>2 DEF Judging
  <2>4. "MERKLE_ROOT_MISMATCH" \in Judging
    BY DEF Judging
  <2> QED
    BY <2>3, <2>4, JudgedVerdict DEF checkLeaves
<1> QED
  BY <1>1, <1>2, <1>3 DEF JudgeBlob

(* Leaves that come to be judged settle their commitment one way or the    *)
(* other.                                                                  *)
LEMMA LeavesLookedInto ==
  ASSUME NEW call, NEW claim, NEW content, NEW isAttributable, NEW path, ~InItems(claim)
  PROVE  LET judged == JudgeBlob(call, claim, content, isAttributable, path) IN
         judged.on = FALSE => judged.check # "not_checked"
<1>1. JudgeBlob(call, claim, content, isAttributable, path)
        = checkLeaves(claim, content, isAttributable, path)
  BY DEF JudgeBlob, Sealed
<1> QED
  BY <1>1 DEF checkLeaves, Judged, Indicted

-----------------------------------------------------------------------------
(* What is settled of a record.                                            *)
IsRecord(rec) ==
  /\ rec \in Data
  /\ ItemsOf(rec) # << >> \/ MerkleOf(rec) # << >>
  /\ Has(rec, "sigs") => Elems(Get(rec, "sigs")) # << >>
(* A claim is checked, or excused: an item that had no source to try, a    *)
(* commitment whose leaves were not to be had.                             *)
Settled(call, rec, settled, k) ==
  LET claim == ClaimOf(rec, k) IN
  \/ settled[k].check = "checked"
  \/ InItems(claim) /\ ~HasSource(call, claim)
  \/ ~InItems(claim) /\ (~call.fetchContent \/ settled[k].outcome \in {"limit", "unavailable"})
(* A commitment was looked into whenever there was a way to.               *)
Sought(call, rec, settled, k) ==
  LET claim == ClaimOf(rec, k) IN
  ~InItems(claim) /\ (call.fetchContent \/ claim.index \in DOMAIN call.leaves)
    => LookedInto(settled[k])
SkipsNoted(call, rec, list) ==
  Skip \in Codes(list) <=> Rank(call) < PROFILE_RANK[detectConformanceProfile(rec)]
ClaimsInv ==
  /\ input \in Inputs
  /\ phase \in {"start", "resolve", "record"} => checks = << >> /\ cursor.claim = 1 /\ cursor.uri = 0
  /\ phase = "record" => input.entry = "resolved" \/ IsGenuine(resolved.tx)
  /\ phase = "claims" =>
       /\ IsRecord(record) /\ IsList(issues) /\ IsList(checks)
       /\ Len(checks) = cursor.claim - 1 /\ cursor.claim =< ClaimCount + 1
       /\ cursor.uri # 0 => SettledUnseen(input, ClaimOf(record, cursor.claim)) = "no"
       /\ ErrorsOf(issues) = {} =>
            \A k \in DOMAIN checks : Settled(input, record, checks, k)
       /\ \A k \in DOMAIN checks : Sought(input, record, checks, k)
       /\ SkipsNoted(input, record, issues)
  /\ phase = "done" => ValidMeansChecked /\ SkipsAreDeclared

(* The lists of a record.                                                  *)
LEMMA RecordLists ==
  ASSUME NEW rec \in Data
  PROVE  /\ ItemsOf(rec) \in Seq(Data) /\ MerkleOf(rec) \in Seq(Data)
         /\ Elems(Get(rec, "sigs")) \in Seq(Data)
BY DataAssumption, Parts DEF DataSet, ItemsOf, MerkleOf

(* A step within the claims: the issues gain a list of other than skips,   *)
(* and at most one more claim is settled.                                  *)
Within(list) ==
  /\ UNCHANGED << input, record >> /\ phase' = "claims"
  /\ IsList(list) /\ Skip \notin Codes(list) /\ issues' = issues \o list

LEMMA GoKeepsClaims ==
  ASSUME ClaimsInv, phase = "claims", NEW list, Within(list),
         UNCHANGED checks, cursor'.claim = cursor.claim,
         SettledUnseen(input, Claim) = "no"
  PROVE  ClaimsInv'
<1>1. /\ IsList(issues \o list) /\ ErrorsOf(issues \o list) = ErrorsOf(issues) \cup ErrorsOf(list)
      /\ Codes(issues \o list) = Codes(issues) \cup Codes(list)
  BY Appended DEF ClaimsInv, Within
<1>2. SkipsNoted(input, record, issues \o list)
  BY <1>1 DEF ClaimsInv, Within, SkipsNoted
<1>3. ClaimCount' = ClaimCount
  BY DEF ClaimCount, ClaimCountOf, Within
<1> QED
  BY <1>1, <1>2, <1>3 DEF ClaimsInv, Within, Claim

LEMMA SettleKeepsClaims ==
  ASSUME ClaimsInv, PlaceInv, phase = "claims", NEW list, Within(list),
         NEW check, NEW outcome,
         checks' = Append(checks, [check |-> check, outcome |-> outcome]),
         cursor.claim =< ClaimCount, cursor'.claim = cursor.claim + 1, cursor'.uri = 0,
         LET claim == ClaimOf(record, cursor.claim) IN
         \/ check = "checked"
         \/ ErrorsOf(list) # {}
         \/ InItems(claim) /\ ~HasSource(input, claim)
         \/ ~InItems(claim) /\ (~input.fetchContent \/ outcome \in {"limit", "unavailable"}),
         LET claim == ClaimOf(record, cursor.claim) IN
         ~InItems(claim) /\ (input.fetchContent \/ claim.index \in DOMAIN input.leaves)
           => LookedInto([check |-> check, outcome |-> outcome])
  PROVE  ClaimsInv'
<1> DEFINE one == [check |-> check, outcome |-> outcome]
           after == Append(checks, one)
<1>1. /\ IsList(issues \o list) /\ ErrorsOf(issues \o list) = ErrorsOf(issues) \cup ErrorsOf(list)
      /\ Codes(issues \o list) = Codes(issues) \cup Codes(list)
  BY Appended DEF ClaimsInv, Within
<1>2. SkipsNoted(input, record, issues \o list)
  BY <1>1 DEF ClaimsInv, Within, SkipsNoted
<1>3. cursor.claim \in Nat
  BY DEF PlaceInv, Cursors
<1>4. checks \in Seq(Range(checks) \cup {one}) /\ one \in Range(checks) \cup {one}
      /\ Len(checks) = cursor.claim - 1
  BY DEF ClaimsInv, IsList
<1>5. /\ one.check = check /\ one.outcome = outcome
      /\ LET claim == ClaimOf(record, cursor.claim) IN
         ~InItems(claim) /\ (input.fetchContent \/ claim.index \in DOMAIN input.leaves)
           => LookedInto(one)
  OBVIOUS
<1> HIDE DEF one
<1>6. /\ after \in Seq(Range(checks) \cup {one}) /\ Len(after) = cursor.claim
      /\ DOMAIN after = 1..cursor.claim /\ DOMAIN checks = 1..(cursor.claim - 1)
      /\ \A k \in DOMAIN checks : after[k] = checks[k]
      /\ after[cursor.claim] = one
  BY <1>3, <1>4
<1>7. checks' = after
  BY DEF one
<1> HIDE DEF after
<1>8. IsList(after)
  BY <1>6, ListIn
<1>9. ASSUME ErrorsOf(issues \o list) = {}, NEW k \in DOMAIN after
      PROVE  Settled(input, record, after, k)
  <2>1. CASE k \in DOMAIN checks
    BY <1>1, <1>6, <1>9, <2>1 DEF ClaimsInv, Settled
  <2>2. CASE k = cursor.claim
    BY <1>1, <1>5, <1>6, <1>9, <2>2 DEF Settled
  <2> QED
    BY <1>6, <2>1, <2>2, <1>3
<1>10. /\ phase' = "claims" /\ input' = input /\ record' = record /\ issues' = issues \o list
       /\ input \in Inputs /\ IsRecord(record)
  BY DEF ClaimsInv, Within
<1>11. Len(checks') = cursor'.claim - 1 /\ cursor'.claim =< ClaimCount' + 1
  <2>1. ItemsOf(record) \in Seq(Data) /\ MerkleOf(record) \in Seq(Data)
    BY <1>10, RecordLists DEF IsRecord
  <2>2. ClaimCount \in Nat
    BY <2>1 DEF ClaimCount, ClaimCountOf
  <2>3. ClaimCount' = ClaimCount
    BY <1>10 DEF ClaimCount, ClaimCountOf
  <2> QED
    BY <1>3, <1>6, <1>7, <2>2, <2>3
<1>12. ErrorsOf(issues') = {} =>
         \A k \in DOMAIN checks' : Settled(input', record', checks', k)
  BY <1>7, <1>9, <1>10
<1>13. ASSUME NEW k \in DOMAIN after
       PROVE  Sought(input, record, after, k)
  <2>1. CASE k \in DOMAIN checks
    BY <1>6, <1>13, <2>1 DEF ClaimsInv, Sought
  <2>2. CASE k = cursor.claim
    BY <1>5, <1>6, <1>13, <2>2 DEF Sought
  <2> QED
    BY <1>6, <2>1, <2>2, <1>3
<1>14. \A k \in DOMAIN checks' : Sought(input', record', checks', k)
  BY <1>7, <1>10, <1>13
<1> QED
  BY <1>1, <1>2, <1>7, <1>8, <1>10, <1>11, <1>12, <1>14 DEF ClaimsInv

(* The steps of a claim.                                                   *)
LEMMA NextSource ==
  ASSUME ClaimsInv, PlaceInv, phase = "claims", UNCHANGED << input, record, phase >>,
         NEW next \in {NextUri, NextGateway, [cursor EXCEPT !.limitExceeded = TRUE]},
         NEW list, Go(next, list), IsList(list), Skip \notin Codes(list),
         SettledUnseen(input, Claim) = "no"
  PROVE  ClaimsInv'
<1>1. cursor \in Cursors
  BY DEF PlaceInv
<1>2. next.claim = cursor.claim
  BY <1>1 DEF Cursors, NextUri, NextGateway
<1> QED
  BY <1>2, GoKeepsClaims DEF Go, Within

LEMMA NextClaim ==
  ASSUME ClaimsInv, PlaceInv, phase = "claims", UNCHANGED << input, record, phase >>,
         cursor.claim =< ClaimCount, NEW check, NEW outcome, NEW list, Settle(check, outcome, list),
         IsList(list), Skip \notin Codes(list),
         \/ check = "checked"
         \/ ErrorsOf(list) # {}
         \/ InItems(Claim) /\ ~HasSource(input, Claim)
         \/ ~InItems(Claim) /\ (~input.fetchContent \/ outcome \in {"limit", "unavailable"}),
         ~InItems(Claim) /\ (input.fetchContent \/ Claim.index \in DOMAIN input.leaves)
           => LookedInto([check |-> check, outcome |-> outcome])
  PROVE  ClaimsInv'
<1>1. Within(list)
  BY DEF Within, Settle
<1> QED
  BY <1>1, SettleKeepsClaims DEF Settle, Claim

LEMMA ConsumeKeepsClaims ==
  ASSUME ClaimsInv, PlaceInv, phase = "claims", UNCHANGED << input, record, phase >>,
         cursor.claim =< ClaimCount, NEW content, NEW isAttributable \in BOOLEAN, NEW path, NEW next \in {NextUri, NextGateway},
         Consume(content, isAttributable, path, next), SettledUnseen(input, Claim) = "no"
  PROVE  ClaimsInv'
<1> DEFINE judged == JudgeBlob(input, Claim, content, isAttributable, path)
<1>1. /\ Verdict(judged)
      /\ judged.on = FALSE /\ ~InItems(Claim) => judged.check # "not_checked"
  BY BlobVerdict, LeavesLookedInto DEF ClaimsInv
<1>2. IF judged.on THEN Go(next, judged.issues)
      ELSE Settle(judged.check, judged.outcome, judged.issues)
  BY DEF Consume
<1> HIDE DEF judged
<1>3. CASE judged.on = TRUE
  <2>1. Go(next, judged.issues)
    BY <1>2, <1>3
  <2> QED
    BY <1>1, <2>1, NextSource DEF Verdict
<1>4. CASE judged.on = FALSE
  <2>1. Settle(judged.check, judged.outcome, judged.issues)
    BY <1>2, <1>4
  <2> QED
    BY <1>1, <1>4, <2>1, NextClaim DEF Verdict, LookedInto
<1> QED
  BY <1>1, <1>3, <1>4 DEF Verdict

LEMMA SettleUnseenKeepsClaims ==
  ASSUME ClaimsInv, PlaceInv, SettleUnseen
  PROVE  ClaimsInv'
<1>1. phase = "claims" /\ UNCHANGED << input, record, phase >> /\ cursor.claim =< ClaimCount
  BY DEF SettleUnseen, AtClaim
<1> DEFINE why == SettledUnseen(input, Claim)
           path == BasePath(Claim) \o << "enc" >>
<1>2. /\ why # "no"
      /\ IF why = "not_checked" THEN Settle("not_checked", "none", << >>)
         ELSE Settle("not_checked", why, << issueOf(why, path) >>)
  BY DEF SettleUnseen
<1>3. /\ why \in {"no", "not_checked", "WRONG_DECRYPTION_INPUT_SHAPE"}
      /\ why = "not_checked" => \/ InItems(Claim) /\ ~HasSource(input, Claim)
                                \/ ~InItems(Claim) /\ ~input.fetchContent
      /\ ~InItems(Claim) => /\ why # "WRONG_DECRYPTION_INPUT_SHAPE"
                            /\ ~(input.fetchContent \/ Claim.index \in DOMAIN input.leaves)
  BY <1>2 DEF SettledUnseen, HasSource, Sealed, OutOfBand
<1> HIDE DEF why, path
<1>4. CASE why = "not_checked"
  <2>1. Settle("not_checked", "none", << >>)
    BY <1>2, <1>4
  <2> DEFINE none == << >>
  <2>2. IsList(none) /\ Codes(none) = {} /\ Settle("not_checked", "none", none)
    BY <2>1, NoIssues
  <2> HIDE DEF none
  <2> QED
    BY <1>1, <1>3, <1>4, <2>2, NextClaim
<1>5. CASE why = "WRONG_DECRYPTION_INPUT_SHAPE"
  <2>1. why \in Judging
    BY <1>5 DEF Judging
  <2> DEFINE one == << issueOf(why, path) >>
  <2>2. IsList(one) /\ ErrorsOf(one) = {why} /\ Skip \notin Codes(one)
    BY <2>1, OneJudging DEF Skip
  <2>3. Settle("not_checked", why, one)
    BY <1>2, <1>5
  <2> HIDE DEF one
  <2> QED
    BY <1>1, <1>3, <1>5, <2>2, <2>3, NextClaim
<1> QED
  BY <1>2, <1>3, <1>4, <1>5

LEMMA OutOfBandKeepsClaims ==
  ASSUME ClaimsInv, PlaceInv, OutOfBandBlob
  PROVE  ClaimsInv'
<1>1. /\ phase = "claims" /\ UNCHANGED << input, record, phase >>
      /\ SettledUnseen(input, Claim) = "no" /\ cursor.claim =< ClaimCount
  BY DEF OutOfBandBlob, AtClaim
<1> DEFINE none == << >>
<1>2. \/ Consume(OutOfBand(input, Claim)[Claim.index], TRUE, BasePath(Claim), NextUri)
      \/ Go(NextUri, none)
  BY DEF OutOfBandBlob
<1>3. IsList(none) /\ Codes(none) = {}
  BY NoIssues
<1> HIDE DEF none
<1> QED
  BY <1>1, <1>2, <1>3, ConsumeKeepsClaims, NextSource

LEMMA RefuseUriKeepsClaims ==
  ASSUME ClaimsInv, PlaceInv, RefuseUri
  PROVE  ClaimsInv'
<1>1. phase = "claims" /\ UNCHANGED << input, record, phase >> /\ cursor.uri # 0
  BY DEF RefuseUri, AtClaim
<1>2. SettledUnseen(input, Claim) = "no"
  BY <1>1 DEF ClaimsInv, Claim
<1> DEFINE one == << issueOf("URI_TARGET_FORBIDDEN", UriPath) >>
<1>3. Go(NextUri, one)
  BY DEF RefuseUri
<1>4. IsList(one) /\ Skip \notin Codes(one)
  <2>1. "URI_TARGET_FORBIDDEN" \in Judging
    BY DEF Judging
  <2> QED
    BY <2>1, OneJudging DEF Skip
<1> HIDE DEF one
<1> QED
  BY <1>1, <1>2, <1>3, <1>4, NextSource

LEMMA FetchBlobKeepsClaims ==
  ASSUME ClaimsInv, PlaceInv, FetchBlob
  PROVE  ClaimsInv'
<1>1. /\ phase = "claims" /\ UNCHANGED << input, record, phase >>
      /\ cursor.uri # 0 /\ cursor.claim =< ClaimCount
  BY DEF FetchBlob, AtClaim
<1>2. SettledUnseen(input, Claim) = "no"
  BY <1>1 DEF ClaimsInv, Claim
<1>3. PICK answer \in {[kind |-> k, claim |-> cursor.claim] : k \in {"denied", "failed", "too_large"}}
                        \cup {[kind |-> "body", claim |-> cursor.claim, content |-> c] :
                                c \in input.contents} :
        CASE answer.kind = "denied" ->
               Go(NextGateway, << issueOf("SERVICE_INDEPENDENCE_VIOLATION", UriPath) >>)
          [] answer.kind = "failed" ->
               Go(NextGateway, << issueOf("URI_FETCH_FAILED", UriPath) >>)
          [] answer.kind = "too_large" -> Go([cursor EXCEPT !.limitExceeded = TRUE], << >>)
          [] answer.kind = "body" ->
               Consume(answer.content, attributable(Uri, answer.content), UriPath, NextGateway)
  BY DEF FetchBlob
<1>4. answer.kind \in {"denied", "failed", "too_large", "body"}
  BY <1>3
<1> DEFINE denied == << issueOf("SERVICE_INDEPENDENCE_VIOLATION", UriPath) >>
           failed == << issueOf("URI_FETCH_FAILED", UriPath) >>
           none == << >>
           further == [cursor EXCEPT !.limitExceeded = TRUE]
<1>5. IsList(denied) /\ Skip \notin Codes(denied)
  <2>1. "SERVICE_INDEPENDENCE_VIOLATION" \in Judging
    BY DEF Judging
  <2> QED
    BY <2>1, OneJudging DEF Skip
<1>6. IsList(failed) /\ Skip \notin Codes(failed)
  <2>1. "URI_FETCH_FAILED" \in Noting
    BY DEF Noting
  <2> QED
    BY <2>1, OneNoting DEF Skip
<1>7. IsList(none) /\ Skip \notin Codes(none)
  BY NoIssues
<1>8. CASE answer.kind = "denied"
  <2>1. Go(NextGateway, denied)
    BY <1>3, <1>8
  <2> HIDE DEF denied
  <2> QED
    BY <1>1, <1>2, <1>5, <2>1, NextSource
<1>9. CASE answer.kind = "failed"
  <2>1. Go(NextGateway, failed)
    BY <1>3, <1>9
  <2> HIDE DEF failed
  <2> QED
    BY <1>1, <1>2, <1>6, <2>1, NextSource
<1>10. CASE answer.kind = "too_large"
  <2>1. Go(further, none)
    BY <1>3, <1>10
  <2>2. further \in {NextUri, NextGateway, [cursor EXCEPT !.limitExceeded = TRUE]}
    OBVIOUS
  <2> HIDE DEF none, further
  <2> QED
    BY <1>1, <1>2, <1>7, <2>1, <2>2, NextSource
<1>11. CASE answer.kind = "body"
  <2>1. Consume(answer.content, attributable(Uri, answer.content), UriPath, NextGateway)
    BY <1>3, <1>11
  <2>2. attributable(Uri, answer.content) \in BOOLEAN
    BY DEF attributable
  <2> QED
    BY <1>1, <1>2, <2>1, <2>2, ConsumeKeepsClaims
<1> QED
  BY <1>4, <1>8, <1>9, <1>10, <1>11

LEMMA EndOfSourcesKeepsClaims ==
  ASSUME ClaimsInv, PlaceInv, EndOfSources
  PROVE  ClaimsInv'
<1>1. phase = "claims" /\ UNCHANGED << input, record, phase >> /\ cursor.claim =< ClaimCount
  BY DEF EndOfSources, AtClaim
<1> DEFINE code == IF cursor.limitExceeded THEN "CONTENT_FETCH_LIMIT_EXCEEDED"
                   ELSE IF Sealed(Claim) THEN "CIPHERTEXT_UNAVAILABLE" ELSE "CONTENT_UNAVAILABLE"
           one == << issueOf(code, BasePath(Claim)) >>
           none == << >>
<1>2. code \in Judging
  BY DEF Judging
<1>3. IF InItems(Claim)
      THEN Settle("not_checked", IF Sealed(Claim) THEN code ELSE "none", one)
      ELSE Settle("not_checked", IF cursor.limitExceeded THEN "limit" ELSE "unavailable", none)
  BY DEF EndOfSources
<1> HIDE DEF code
<1>4. IsList(one) /\ ErrorsOf(one) = {code} /\ Skip \notin Codes(one)
  BY <1>2, OneJudging DEF Skip
<1>5. IsList(none) /\ Skip \notin Codes(none)
  BY NoIssues
<1> HIDE DEF one, none
<1>6. CASE InItems(Claim)
  <2> DEFINE outcome == IF Sealed(Claim) THEN code ELSE "none"
  <2>1. Settle("not_checked", outcome, one)
    BY <1>3, <1>6
  <2> HIDE DEF outcome
  <2> QED
    BY <1>1, <1>4, <1>6, <2>1, NextClaim
<1>7. CASE ~InItems(Claim)
  <2> DEFINE outcome == IF cursor.limitExceeded THEN "limit" ELSE "unavailable"
  <2>1. Settle("not_checked", outcome, none) /\ outcome \in {"limit", "unavailable"}
    BY <1>3, <1>7
  <2> HIDE DEF outcome
  <2> QED
    BY <1>1, <1>5, <1>7, <2>1, NextClaim DEF LookedInto
<1> QED
  BY <1>6, <1>7


-----------------------------------------------------------------------------
(* The profile's skips are noted when, and only when, the record asks for  *)
(* more than the profile checks.                                           *)
LEMMA SkipIssue ==
  ASSUME NEW path
  PROVE  issueOf(Skip, path).code = Skip
BY DEF issueOf, IssueAs

LEMMA PlannedSkips ==
  ASSUME NEW call \in Inputs, NEW rec, IsRecord(rec)
  PROVE  IsList(planProfileSkips(call, rec)) /\ SkipsNoted(call, rec, planProfileSkips(call, rec))
<1> DEFINE all == [i \in DOMAIN ItemsOf(rec) |-> i]
           sealed == Subsequence(all, SealedItems(rec))
           a == IF Rank(call) < 1 /\ Has(rec, "sigs")
                THEN << issueOf(Skip, << "sigs" >>) >> ELSE << >>
           each == [n \in DOMAIN sealed |-> issueOf(Skip, << "items", Idx(sealed[n]), "enc" >>)]
           b == IF Rank(call) >= 2 THEN << >> ELSE each
<1>1. planProfileSkips(call, rec) = a \o b
  BY DEF planProfileSkips, Skip
<1>2. Rank(call) \in Nat
  BY CallAssumption DEF Rank, PROFILE_RANK
<1>3. IsList(a) /\ (Skip \in Codes(a) <=> Rank(call) < 1 /\ Has(rec, "sigs"))
  <2> DEFINE one == << issueOf(Skip, << "sigs" >>) >>
             none == << >>
  <2>1. IsList(one) /\ Codes(one) = {Skip}
    BY OneIssue, SkipIssue
  <2>2. IsList(none) /\ Codes(none) = {}
    BY NoIssues
  <2>3. a = IF Rank(call) < 1 /\ Has(rec, "sigs") THEN one ELSE none
    OBVIOUS
  <2> HIDE DEF one, none, a
  <2> QED
    BY <2>1, <2>2, <2>3
<1>4. ItemsOf(rec) \in Seq(Data) /\ Elems(Get(rec, "sigs")) \in Seq(Data)
  BY RecordLists DEF IsRecord
<1>5. all \in Seq(Nat) /\ DOMAIN all = DOMAIN ItemsOf(rec) /\ \A i \in DOMAIN all : all[i] = i
  BY <1>4
<1>6. /\ sealed \in Seq(Nat)
      /\ sealed # << >> <=> SealedItems(rec) # {}
  <2> HIDE DEF all
  <2>1. /\ sealed \in Seq(Nat)
        /\ \A j \in DOMAIN sealed : \E i \in DOMAIN all : i \in SealedItems(rec) /\ sealed[j] = all[i]
        /\ \A i \in DOMAIN all : i \in SealedItems(rec) => \E j \in DOMAIN sealed : sealed[j] = all[i]
    BY <1>5, Subsequences
  <2>2. SealedItems(rec) \subseteq DOMAIN all
    BY <1>5 DEF SealedItems
  <2> HIDE DEF sealed
  <2>3. sealed # << >> <=> DOMAIN sealed # {}
    BY <2>1
  <2> QED
    BY <2>1, <2>2, <2>3
<1> HIDE DEF sealed, all
<1>7. IsList(each) /\ (Skip \in Codes(each) <=> sealed # << >>)
  <2>1. DOMAIN each = DOMAIN sealed /\ DOMAIN sealed = 1..Len(sealed) /\ Len(sealed) \in Nat
    BY <1>6
  <2>2. \A n \in DOMAIN each : each[n].code = Skip
    BY SkipIssue
  <2>3. each \in Seq(Range(each))
    <3>1. \A n \in DOMAIN each : each[n] \in Range(each)
      BY DEF Range
    <3>2. each = [n \in 1..Len(sealed) |-> each[n]]
      BY <2>1
    <3> HIDE DEF each
    <3>3. each \in [1..Len(sealed) -> Range(each)]
      BY <2>1, <3>1, <3>2
    <3> QED
      BY <2>1, <3>3
  <2>4. Skip \in Codes(each) <=> DOMAIN each # {}
    <3> HIDE DEF each
    <3> QED
      BY <2>2 DEF Codes
  <2>5. sealed # << >> <=> DOMAIN each # {}
    BY <1>6, <2>1
  <2> HIDE DEF each
  <2> QED
    BY <2>3, <2>4, <2>5 DEF IsList
<1> HIDE DEF each
<1>8. IsList(b) /\ (Skip \in Codes(b) <=> Rank(call) < 2 /\ sealed # << >>)
  <2> DEFINE none == << >>
  <2>1. IsList(none) /\ Codes(none) = {}
    BY NoIssues
  <2>2. b = IF Rank(call) >= 2 THEN none ELSE each
    OBVIOUS
  <2> HIDE DEF none, b
  <2> QED
    BY <1>2, <1>7, <2>1, <2>2
<1> HIDE DEF a, b
<1>9. IsList(a \o b) /\ Codes(a \o b) = Codes(a) \cup Codes(b)
  BY <1>3, <1>8, Appended
<1>10. Rank(call) < PROFILE_RANK[detectConformanceProfile(rec)]
         <=> \/ Rank(call) < 1 /\ Has(rec, "sigs")
             \/ Rank(call) < 2 /\ SealedItems(rec) # {}
  <2>1. PROFILE_RANK["sealed"] = 2 /\ PROFILE_RANK["signed"] = 1 /\ PROFILE_RANK["core"] = 0
    BY DEF PROFILE_RANK
  <2>2. Has(rec, "sigs") <=> Elems(Get(rec, "sigs")) # << >>
    <3>1. ~Has(rec, "sigs") => Elems(Get(rec, "sigs")) = << >>
      BY DEF Has, Get, Elems, Missing, Keys
    <3> QED
      BY <3>1 DEF IsRecord
  <2>3. CASE SealedItems(rec) # {}
    BY <1>2, <2>1, <2>3 DEF detectConformanceProfile
  <2>4. CASE SealedItems(rec) = {} /\ Elems(Get(rec, "sigs")) # << >>
    BY <1>2, <2>1, <2>2, <2>4 DEF detectConformanceProfile
  <2>5. CASE SealedItems(rec) = {} /\ Elems(Get(rec, "sigs")) = << >>
    BY <1>2, <2>1, <2>2, <2>5 DEF detectConformanceProfile
  <2> QED
    BY <2>3, <2>4, <2>5
<1> QED
  BY <1>1, <1>3, <1>6, <1>8, <1>9, <1>10 DEF SkipsNoted

(* A record the validator passes is one whose claims can be gone through.  *)
LEMMA ValidRecord ==
  ASSUME NEW call \in Inputs, NEW body, body.decodes => body.value \in Data,
         Validation(call, body).valid
  PROVE  /\ IsRecord(body.value)
         /\ IsList(Validation(call, body).issues)
         /\ Skip \notin Codes(Validation(call, body).issues)
<1> DEFINE opts == ValidatorOptions(call)
           all == ValidationIssues(body, opts)
           issuesOf == Validation(call, body).issues
           rec == body.value
           Empty(f) == Elems(Get(rec, f)) = << >>
<1>1. DataSet(Data)
  BY DataAssumption DEF DataSet
<1>2. /\ issuesOf \in Seq(all)
      /\ \A s \in all : s.severity # "error"
      /\ body.decodes /\ all = DomainIssues(rec, opts)
      /\ \A s \in all : s.code \in Opaque
  BY <1>1, ValidatedRecord DEF Validation
<1>3. IsList(issuesOf)
  BY <1>2, ListIn
<1>4. Skip \notin Codes(issuesOf)
  <2>1. \A i \in DOMAIN issuesOf : issuesOf[i] \in all
    BY <1>2
  <2> HIDE DEF all, issuesOf
  <2> QED
    BY <1>2, <2>1 DEF Codes, Opaque, Skip
<1>5. ~(Empty("items") /\ Empty("merkle"))
  <2>1. SUFFICES ASSUME Empty("items"), Empty("merkle") PROVE FALSE
    OBVIOUS
  <2>2. issueOf("SCHEMA_EMPTY_RECORD", << >>) \in all
    <3>1. checkContentCommitmentPresence(rec) = {issueOf("SCHEMA_EMPTY_RECORD", << >>)}
      BY <2>1 DEF checkContentCommitmentPresence
    <3>2. checkContentCommitmentPresence(rec) \subseteq DomainIssues(rec, opts)
      BY DEF DomainIssues
    <3> QED
      BY <1>2, <3>1, <3>2
  <2>3. issueOf("SCHEMA_EMPTY_RECORD", << >>).code = "SCHEMA_EMPTY_RECORD"
    BY DEF issueOf, IssueAs
  <2> HIDE DEF all
  <2> QED
    BY <1>2, <2>2, <2>3 DEF Opaque
<1>6. Has(rec, "sigs") => ~Empty("sigs")
  <2>1. SUFFICES ASSUME Has(rec, "sigs"), Empty("sigs") PROVE FALSE
    OBVIOUS
  <2> DEFINE s == issueOf("SCHEMA_TYPE_MISMATCH", << "sigs" >>)
  <2>2. s \in all
    <3>0. Has(rec, "sigs") /\ Elems(Get(rec, "sigs")) = << >>
      BY <2>1
    <3>1. OneWhen(Has(rec, "sigs") /\ Elems(Get(rec, "sigs")) = << >>, "SCHEMA_TYPE_MISMATCH",
                  << "sigs" >>) = {s}
      <4> HIDE DEF rec
      <4> QED
        BY <3>0 DEF OneWhen, When, s
    <3>2. OneWhen(Has(rec, "sigs") /\ Elems(Get(rec, "sigs")) = << >>, "SCHEMA_TYPE_MISMATCH",
                  << "sigs" >>) \subseteq DomainIssues(rec, opts)
      BY DEF DomainIssues
    <3> QED
      BY <1>2, <3>1, <3>2
  <2>3. s.code = "SCHEMA_TYPE_MISMATCH"
    BY DEF issueOf, IssueAs
  <2> HIDE DEF all, s
  <2> QED
    BY <1>2, <2>2, <2>3 DEF Opaque
<1> QED
  BY <1>2, <1>3, <1>4, <1>5, <1>6 DEF IsRecord, ItemsOf, MerkleOf

(* The body a run judges is one of the call's.                             *)
LEMMA CarriedIsData ==
  ASSUME ClaimsInv, phase = "record", CarriedBody.ok
  PROVE  CarriedBody.body.decodes => CarriedBody.body.value \in Data
<1>1. CASE input.entry = "resolved"
  <2>1. CarriedBody.body \in BodiesOf(input)
    BY <1>1 DEF CarriedBody, BodiesOf
  <2> QED
    BY <2>1, DataAssumption DEF ClaimsInv
<1>2. CASE input.entry # "resolved"
  <2>1. IsGenuine(resolved.tx) /\ CarriedBody = CarriedBodyOf(resolved.tx)
    BY <1>2 DEF ClaimsInv, CarriedBody
  <2>2. CarriedBody.body \in BodiesOf(input)
    BY <1>2, <2>1 DEF BodiesOf, IsGenuine
  <2> QED
    BY <2>2, DataAssumption DEF ClaimsInv
<1> QED
  BY <1>1, <1>2

(* A run that ends with no record judged claims nothing.                   *)
LEMMA Unreached ==
  ASSUME input' \in Inputs, phase' = "done",
         \/ "record" \notin DOMAIN report'
         \/ report'.record = Missing
         \/ report'.verdict = "pending"
  PROVE  ClaimsInv'
BY DEF ClaimsInv, ValidMeansChecked, SkipsAreDeclared, Reached, Done

LEMMA ConcludeUnreached ==
  ASSUME input' \in Inputs, NEW verdict, NEW list, Conclude(verdict, list)
  PROVE  ClaimsInv'
<1>1. phase' = "done" /\ report'.record = Missing
  BY DEF Conclude, assembleReport
<1> QED
  BY <1>1, Unreached

LEMMA JudgeRecordKeepsClaims ==
  ASSUME ClaimsInv, JudgeRecord
  PROVE  ClaimsInv'
<1> DEFINE body == CarriedBody.body
           rec == body.value
           validation == Validation(input, body)
           found == validation.issues \o planProfileSkips(input, rec)
<1>1. phase = "record" /\ UNCHANGED << input, cursor, checks >> /\ input \in Inputs
  BY DEF JudgeRecord, ClaimsInv
<1>2. \/ \E code : Refused(code)
      \/ CarriedBody.ok /\ JudgeBody(rec, validation)
  BY DEF JudgeRecord
<1>3. CASE \E code : Refused(code)
  BY <1>1, <1>3, ConcludeUnreached DEF Refused
<1>4. CASE CarriedBody.ok /\ JudgeBody(rec, validation) /\ ~validation.valid
  BY <1>1, <1>4, ConcludeUnreached DEF JudgeBody
<1>5. CASE /\ CarriedBody.ok /\ JudgeBody(rec, validation) /\ validation.valid
           /\ resolved.depth < input.threshold
  <2>1. phase' = "done" /\ report'.verdict = "pending"
    <3> HIDE DEF rec, validation
    <3> QED
      BY <1>5 DEF JudgeBody, assembleReport
  <2> QED
    BY <1>1, <2>1, Unreached
<1>6. CASE /\ CarriedBody.ok /\ JudgeBody(rec, validation) /\ validation.valid
           /\ ~(resolved.depth < input.threshold)
  <2>1. phase' = "claims" /\ record' = rec /\ JudgeSignatures(rec, found)
    <3> HIDE DEF rec, validation
    <3> QED
      BY <1>6 DEF JudgeBody
  <2>2. body.decodes => rec \in Data
    BY <1>1, <1>6, CarriedIsData
  <2>3. IsRecord(rec) /\ IsList(validation.issues) /\ Skip \notin Codes(validation.issues)
    <3> HIDE DEF body
    <3> QED
      BY <1>1, <1>6, <2>2, ValidRecord
  <2>4. IsList(found) /\ SkipsNoted(input, rec, found)
    <3> DEFINE skips == planProfileSkips(input, rec)
    <3>1. IsList(skips) /\ SkipsNoted(input, rec, skips)
      BY <1>1, <2>3, PlannedSkips
    <3> HIDE DEF skips, validation, rec
    <3>2. IsList(validation.issues \o skips)
          /\ Codes(validation.issues \o skips) = Codes(validation.issues) \cup Codes(skips)
      BY <2>3, <3>1, Appended
    <3> QED
      BY <2>3, <3>1, <3>2 DEF SkipsNoted, skips
  <2> HIDE DEF found, validation, body
  <2>5. Extended(found, issues')
    <3>1. CASE issues' = found
      BY <2>4, <3>1 DEF Extended
    <3>2. CASE issues' = verifyRecordSignatures(rec, input.network, found).issues
      BY <2>3, <2>4, <3>2, SignaturesExtend DEF IsRecord
    <3> QED
      BY <2>1, <3>1, <3>2 DEF JudgeSignatures
  <2>6. IsList(issues') /\ SkipsNoted(input, rec, issues')
    BY <2>4, <2>5 DEF Extended, SkipsNoted
  <2>7. checks' = << >> /\ cursor'.claim = 1 /\ cursor'.uri = 0
    BY <1>1 DEF ClaimsInv
  <2>8. /\ IsList(checks') /\ Len(checks') = cursor'.claim - 1 /\ cursor'.claim =< ClaimCount' + 1
        /\ \A k \in DOMAIN checks' : /\ Settled(input', record', checks', k)
                                     /\ Sought(input', record', checks', k)
    <3>1. ClaimCount' \in Nat
      <4>1. ItemsOf(rec) \in Seq(Data) /\ MerkleOf(rec) \in Seq(Data)
        BY <2>3, RecordLists DEF IsRecord
      <4> QED
        BY <2>1, <4>1 DEF ClaimCount, ClaimCountOf
    <3>2. IsList(checks')
      BY <2>7, NoIssues
    <3>3. Len(checks') = 0 /\ DOMAIN checks' = {}
      BY <2>7
    <3>4. Len(checks') = cursor'.claim - 1 /\ cursor'.claim =< ClaimCount' + 1
      <4>1. \A n \in Nat : 1 =< n + 1
        OBVIOUS
      <4>2. cursor'.claim = 1
        BY <2>7
      <4>3. Len(checks') = cursor'.claim - 1
        BY <3>3, <4>2
      <4> QED
        BY <3>1, <4>1, <4>2, <4>3
    <3>5. \A k \in DOMAIN checks' : /\ Settled(input', record', checks', k)
                                    /\ Sought(input', record', checks', k)
      BY <3>3
    <3> QED
      BY <3>2, <3>4, <3>5
  <2> QED
    BY <1>1, <2>1, <2>3, <2>6, <2>7, <2>8 DEF ClaimsInv
<1> QED
  BY <1>2, <1>3, <1>4, <1>5, <1>6


-----------------------------------------------------------------------------
(* The end of a run.                                                       *)
LEMMA ValidVerdict ==
  ASSUME NEW list
  PROVE  verdictFromIssues(list) = "valid" => ErrorsOf(list) = {}
BY DEF verdictFromIssues

LEMMA FloorListed ==
  ASSUME NEW settled, IsList(settled), NEW items \in Nat
  PROVE  LET floor == FloorIssues(settled, items) IN
         /\ IsList(floor) /\ Skip \notin Codes(floor)
         /\ \A k \in DOMAIN settled :
              /\ k > items /\ settled[k].outcome \in {"limit", "unavailable"}
              /\ \A j \in DOMAIN settled : settled[j].check # "checked"
              => ErrorsOf(floor) # {}
<1> DEFINE all == [k \in DOMAIN settled |-> k]
           lacks == {k \in DOMAIN settled : k > items /\ settled[k].outcome \in {"limit", "unavailable"}}
           lacking == Lacking(settled, items)
           any == \E k \in DOMAIN settled : settled[k].check = "checked"
           severity == IF any THEN SEVERITY["MERKLE_LEAVES_UNAVAILABLE"] ELSE "error"
           floor == [n \in DOMAIN lacking |-> FloorIssue(settled, items, lacking[n], severity)]
<1>1. FloorIssues(settled, items) = floor
  BY DEF FloorIssues
<1>2. DOMAIN settled = 1..Len(settled) /\ Len(settled) \in Nat
  BY DEF IsList
<1>3. all \in Seq(Nat) /\ DOMAIN all = DOMAIN settled /\ \A k \in DOMAIN all : all[k] = k
  BY <1>2
<1>4. /\ lacking \in Seq(Nat)
      /\ \A k \in lacks : \E n \in DOMAIN lacking : lacking[n] = k
  <2> HIDE DEF all
  <2>1. lacking = Subsequence(all, lacks)
    BY DEF Lacking, all
  <2> HIDE DEF lacks, lacking
  <2>2. /\ lacking \in Seq(Nat)
        /\ \A i \in DOMAIN all : i \in lacks => \E j \in DOMAIN lacking : lacking[j] = all[i]
    BY <1>3, <2>1, Subsequences
  <2>3. lacks \subseteq DOMAIN all
    BY <1>3 DEF lacks
  <2> QED
    BY <1>3, <2>2, <2>3
<1>5. \A k, s : /\ FloorIssue(settled, items, k, s).code # Skip
                /\ s = "error" => FloorIssue(settled, items, k, s).severity = "error"
  <2>1. "CONTENT_FETCH_LIMIT_EXCEEDED" \in Judging
    BY DEF Judging
  <2> QED
    BY <2>1, JudgingIsError DEF FloorIssue, issueOf, IssueAs, Skip
<1> HIDE DEF severity, lacking
<1>6. DOMAIN floor = 1..Len(lacking) /\ Len(lacking) \in Nat /\ DOMAIN lacking = DOMAIN floor
  BY <1>4
<1>7. \A n \in DOMAIN floor : floor[n] = FloorIssue(settled, items, lacking[n], severity)
  OBVIOUS
<1>8. floor = [n \in 1..Len(lacking) |-> floor[n]]
  BY <1>6
<1> HIDE DEF floor
<1>9. IsList(floor)
  <2>1. \A n \in DOMAIN floor : floor[n] \in Range(floor)
    BY DEF Range
  <2>2. floor \in [1..Len(lacking) -> Range(floor)]
    BY <1>6, <1>8, <2>1
  <2> QED
    BY <1>6, <2>2 DEF IsList
<1>10. Skip \notin Codes(floor)
  BY <1>5, <1>7 DEF Codes
<1>11. ASSUME NEW k \in DOMAIN settled, k > items, settled[k].outcome \in {"limit", "unavailable"},
              \A j \in DOMAIN settled : settled[j].check # "checked"
       PROVE  ErrorsOf(floor) # {}
  <2>1. severity = "error"
    BY <1>11 DEF severity
  <2>2. k \in lacks
    BY <1>11
  <2>3. PICK n \in DOMAIN lacking : lacking[n] = k
    BY <1>4, <2>2
  <2>4. n \in DOMAIN floor /\ floor[n].severity = "error"
    BY <1>5, <1>6, <1>7, <2>1, <2>3
  <2> QED
    BY <2>4 DEF ErrorsOf
<1> QED
  BY <1>1, <1>9, <1>10, <1>11

LEMMA FinishKeepsClaims ==
  ASSUME ClaimsInv, PlaceInv, Finish
  PROVE  ClaimsInv'
<1> DEFINE floor == FloorIssues(checks, NumItems)
           all == issues \o floor
           n == NumItems
           m == Len(MerkleOf(record))
<1>1. /\ phase = "claims" /\ phase' = "done" /\ UNCHANGED << input, record, checks >>
      /\ report' = assembleReport(verdictFromIssues(all), all, SubSeq(checks, 1, n),
                                  SubSeq(checks, n + 1, ClaimCount), record)
  BY DEF Finish
<1>2. /\ IsRecord(record) /\ IsList(issues) /\ IsList(checks) /\ input \in Inputs
      /\ Len(checks) = cursor.claim - 1 /\ cursor.claim =< ClaimCount + 1
      /\ cursor.claim > ClaimCount
      /\ ErrorsOf(issues) = {} => \A k \in DOMAIN checks : Settled(input, record, checks, k)
      /\ \A k \in DOMAIN checks : Sought(input, record, checks, k)
      /\ SkipsNoted(input, record, issues)
  BY <1>1 DEF ClaimsInv, Finish
<1>3. n \in Nat /\ m \in Nat /\ ClaimCount = n + m /\ n = Len(ItemsOf(record))
      /\ (n > 0 \/ m > 0)
  <2>1. ItemsOf(record) \in Seq(Data) /\ MerkleOf(record) \in Seq(Data)
    BY <1>2, RecordLists DEF IsRecord
  <2> QED
    BY <1>2, <2>1 DEF IsRecord, NumItems, ClaimCount, ClaimCountOf
<1>4. Len(checks) = n + m /\ DOMAIN checks = 1..(n + m)
  <2>1. cursor.claim \in Nat
    BY DEF PlaceInv, Cursors
  <2> QED
    BY <1>2, <1>3, <2>1 DEF IsList
<1>5. /\ IsList(floor) /\ Skip \notin Codes(floor)
      /\ \A k \in DOMAIN checks :
           /\ k > n /\ checks[k].outcome \in {"limit", "unavailable"}
           /\ \A j \in DOMAIN checks : checks[j].check # "checked"
           => ErrorsOf(floor) # {}
  BY <1>2, <1>3, FloorListed
<1>6. /\ IsList(all) /\ Codes(all) = Codes(issues) \cup Codes(floor)
      /\ ErrorsOf(all) = ErrorsOf(issues) \cup ErrorsOf(floor)
  <2> HIDE DEF floor
  <2> QED
    BY <1>2, <1>5, Appended
<1> HIDE DEF floor, all, n, m
<1>7. /\ report'.verdict = verdictFromIssues(all) /\ report'.record = record
      /\ report'.issues = sortIssues(all) /\ report'.items = SubSeq(checks, 1, n)
      /\ report'.merkle = SubSeq(checks, n + 1, n + m)
  BY <1>1, <1>3 DEF assembleReport
<1>8. Codes(report'.issues) = Codes(issues) \cup Codes(floor)
  BY <1>6, <1>7, SortedCodes DEF IsList
<1>9. Skip \in Codes(report'.issues)
        <=> Rank(input') < PROFILE_RANK[detectConformanceProfile(report'.record)]
  BY <1>1, <1>2, <1>5, <1>7, <1>8 DEF SkipsNoted
<1>10. /\ \A k \in 1..n : report'.items[k] = checks[k]
       /\ DOMAIN report'.merkle = 1..m
       /\ \A k \in 1..m : report'.merkle[k] = checks[n + k]
  <2>1. checks \in Seq(Range(checks))
    BY <1>2 DEF IsList
  <2>2. \A k \in 1..n : SubSeq(checks, 1, n)[k] = checks[k]
    BY <1>3, <1>4, <2>1
  <2> DEFINE rest == SubSeq(checks, n + 1, n + m)
  <2>3. DOMAIN rest = 1..m /\ \A k \in 1..m : rest[k] = checks[n + k]
    BY <1>3, <1>4, <2>1
  <2> HIDE DEF rest
  <2> QED
    BY <1>7, <2>2, <2>3 DEF rest
<1>11. ASSUME report'.verdict = "valid"
       PROVE  /\ \A k \in 1..n :
                   HasSource(input, ClaimOf(record, k)) => report'.items[k].check = "checked"
              /\ n = 0 /\ input.fetchContent =>
                   \E k \in DOMAIN report'.merkle : report'.merkle[k].check = "checked"
  <2>1. ErrorsOf(issues) = {} /\ ErrorsOf(floor) = {}
    BY <1>6, <1>7, <1>11, ValidVerdict
  <2>2. \A k \in 1..(n + m) : Settled(input, record, checks, k)
    BY <1>2, <1>4, <2>1
  <2>3. ASSUME NEW k \in 1..n, HasSource(input, ClaimOf(record, k))
        PROVE  report'.items[k].check = "checked"
    <3>1. Settled(input, record, checks, k) /\ InItems(ClaimOf(record, k))
      BY <1>3, <2>2, <2>3 DEF InItems, ClaimOf
    <3> QED
      BY <1>10, <2>3, <3>1 DEF Settled
  <2>4. ASSUME n = 0, input.fetchContent
        PROVE  \E k \in DOMAIN report'.merkle : report'.merkle[k].check = "checked"
    <3>1. SUFFICES ASSUME \A k \in 1..m : checks[k].check # "checked" PROVE FALSE
      BY <1>3, <1>10, <2>4
    <3>2. 1 \in 1..m /\ Settled(input, record, checks, 1) /\ ~InItems(ClaimOf(record, 1))
      BY <1>3, <2>2, <2>4 DEF InItems, ClaimOf
    <3>3. checks[1].outcome \in {"limit", "unavailable"}
      BY <2>4, <3>1, <3>2 DEF Settled
    <3>4. 1 \in DOMAIN checks /\ 1 > n /\ DOMAIN checks = 1..m
      BY <1>3, <1>4, <2>4, <3>2
    <3> QED
      BY <1>5, <2>1, <3>1, <3>3, <3>4
  <2> QED
    BY <2>3, <2>4
<1>12. ValidMeansChecked'
  BY <1>1, <1>3, <1>7, <1>11 DEF ValidMeansChecked
<1>13. ASSUME NEW k \in DOMAIN report'.merkle, input'.fetchContent \/ k \in DOMAIN input'.leaves
       PROVE  LookedInto(report'.merkle[k])
  <2>1. k \in 1..m /\ n + k \in DOMAIN checks /\ ~(n + k =< n) /\ (n + k) - n = k
    BY <1>3, <1>4, <1>10, <1>13
  <2>2. ClaimOf(record, n + k).index = k /\ ~InItems(ClaimOf(record, n + k))
    BY <1>3, <2>1 DEF ClaimOf, InItems
  <2>3. Sought(input, record, checks, n + k)
    BY <1>2, <2>1
  <2> QED
    BY <1>1, <1>10, <1>13, <2>1, <2>2, <2>3 DEF Sought
<1>14. SkipsAreDeclared'
  BY <1>9, <1>13 DEF SkipsAreDeclared, Skip
<1> QED
  BY <1>1, <1>2, <1>12, <1>14 DEF ClaimsInv

-----------------------------------------------------------------------------
LEMMA ClaimsInit == Init => ClaimsInv
BY DEF Init, ClaimsInv

(* The bytes a run comes to judge are a genuine transaction of the call.   *)
LEMMA ResolveKeepsClaims ==
  ASSUME ClaimsInv, GenuineInv, FetchTxCbor \/ FetchTxInfo \/ FetchTip
  PROVE  ClaimsInv'
<1>1. /\ phase = "resolve" /\ UNCHANGED << input, checks, cursor >> /\ input \in Inputs
      /\ checks = << >> /\ cursor.claim = 1 /\ cursor.uri = 0
      /\ attempt.step # "cbor" => IsGenuine(attempt.tx)
  BY DEF FetchTxCbor, FetchTxInfo, FetchTip, ResolveStep, GenuineInv, ClaimsInv
<1>2. CASE Denied
  BY <1>1, <1>2, ConcludeUnreached DEF Denied
<1>3. CASE phase' = phase
  BY <1>1, <1>3 DEF ClaimsInv
<1>4. CASE attempt.step # "cbor" /\ \E depth : Served(depth)
  <2>1. phase' = "record" /\ resolved'.tx = attempt.tx
    BY <1>4 DEF Served
  <2> QED
    BY <1>1, <1>4, <2>1 DEF ClaimsInv, IsGenuine
<1>5. CASE FetchTxCbor
  <2>1. Denied \/ phase' = phase
    BY <1>5 DEF FetchTxCbor, Unserved
  <2> QED
    BY <1>2, <1>3, <2>1
<1>6. CASE FetchTxInfo \/ FetchTip
  <2>1. attempt.step # "cbor"
    BY <1>6 DEF FetchTxInfo, FetchTip, ResolveStep
  <2>2. Denied \/ phase' = phase \/ \E depth : Served(depth)
    BY <1>6 DEF FetchTxInfo, FetchTip, Unserved
  <2> QED
    BY <1>2, <1>3, <1>4, <2>1, <2>2
<1> QED
  BY <1>5, <1>6

LEMMA ClaimsNext ==
  ASSUME ClaimsInv, PlaceInv, GenuineInv, [Next]_vars
  PROVE  ClaimsInv'
<1>1. CASE UNCHANGED vars
  <2>1. UNCHANGED << input, phase, resolved, record, issues, cursor, checks, report >>
    BY <1>1 DEF vars
  <2>2. ValidMeansChecked' = ValidMeansChecked /\ SkipsAreDeclared' = SkipsAreDeclared
    BY <2>1 DEF ValidMeansChecked, SkipsAreDeclared, Reached, Done
  <2> QED
    BY <2>1, <2>2 DEF ClaimsInv, IsGenuine, ClaimCount, ClaimCountOf
<1>2. CASE verifyTx
  <2>1. phase = "start" /\ phase' = "resolve" /\ UNCHANGED << input, checks, cursor >>
    BY <1>2 DEF verifyTx
  <2> QED
    BY <2>1 DEF ClaimsInv
<1>3. CASE verifyResolved
  <2>1. /\ phase = "start" /\ input.entry = "resolved" /\ UNCHANGED << input, checks, cursor >>
        /\ phase' = "record" \/ (phase' = "done" /\ "record" \notin DOMAIN report')
    BY <1>3 DEF verifyResolved
  <2>2. CASE phase' = "record"
    BY <2>1, <2>2 DEF ClaimsInv
  <2>3. CASE phase' = "done" /\ "record" \notin DOMAIN report'
    BY <2>1, <2>3, Unreached DEF ClaimsInv
  <2> QED
    BY <2>1, <2>2, <2>3
<1>4. CASE NoProviderLeft
  <2>1. input' = input /\ \E verdict, list : Conclude(verdict, list)
    BY <1>4 DEF NoProviderLeft
  <2> QED
    BY <2>1, ConcludeUnreached DEF ClaimsInv
<1>5. CASE SettleUnseen \/ OutOfBandBlob \/ RefuseUri \/ FetchBlob \/ EndOfSources
  BY <1>5, SettleUnseenKeepsClaims, OutOfBandKeepsClaims, RefuseUriKeepsClaims,
     FetchBlobKeepsClaims, EndOfSourcesKeepsClaims
<1>6. CASE Finish
  BY <1>6, FinishKeepsClaims
<1>7. CASE Reported
  BY <1>1, <1>7 DEF Reported
<1>8. CASE FetchTxCbor \/ FetchTxInfo \/ FetchTip \/ JudgeRecord
  BY <1>8, ResolveKeepsClaims, JudgeRecordKeepsClaims
<1> QED
  BY <1>1, <1>2, <1>3, <1>4, <1>5, <1>6, <1>7, <1>8 DEF Next

(* What is known of the claims while a run goes through them.              *)
THEOREM ClaimsKept == Spec => []ClaimsInv
<1>1. Init => PlaceInv /\ TrailInv /\ GenuineInv /\ ClaimsInv
  BY PlaceInit, TrailAndChainInit, GenuineInit, ClaimsInit
<1>2. PlaceInv /\ TrailInv /\ GenuineInv /\ ClaimsInv /\ [Next]_vars
        => (PlaceInv /\ TrailInv /\ GenuineInv /\ ClaimsInv)'
  BY NextAdvances, TrailNext, GenuineNext, ClaimsNext
<1> QED
  BY <1>1, <1>2, PTL DEF Spec

(* A valid verdict means that every item with a source to try was checked, *)
(* and of a record of commitments alone one was, whatever the gateways     *)
(* served and in whatever order (verify.ts, its commitment floor); and a   *)
(* report on a record says that a part was passed over exactly when the    *)
(* record's profile asks for more than the caller's (planProfileSkips),    *)
(* with no word of merkle, which no profile passes over.                   *)
THEOREM ValidIsEarnedHolds == Spec => []ValidIsEarned
<1>1. ClaimsInv /\ PlaceInv => ValidIsEarned
  BY DEF ClaimsInv, ValidIsEarned, ValidMeansChecked, SkipsAreDeclared, Reached, Done
<1> QED
  BY <1>1, ClaimsKept, PlaceKept, PTL


-----------------------------------------------------------------------------
(* What a run with keys decrypts: the checks of the validator, read        *)
(* strictly, entail those of the decrypting code.                          *)
Clean(found) == \A s \in found : s.severity # "error"

LEMMA CleanOf ==
  ASSUME NEW found, Sound(found, {}), Clean(found)
  PROVE  found = {}
BY DEF Sound, IsError, Clean

LEMMA CleanWhen ==
  ASSUME NEW code \in Structural, NEW path, NEW cond, Clean(OneWhen(cond, code, path))
  PROVE  ~cond
BY StructuralIsError DEF Clean, OneWhen, When

LEMMA NoneFailing ==
  ASSUME NEW rows, \A i \in DOMAIN rows : ~rows[i][1]
  PROVE  FirstFailing(rows) = "ok"
BY DEF FirstFailing

LEMMA TypedEnvelope ==
  ASSUME NEW enc \in Data, NEW opts, opts.role = "recipient_or_strict", NEW path,
         Clean(envelopeDisposition(enc, opts, path))
  PROVE  /\ UnsupportedIdentifiers(enc) = {} /\ EncScheme1Issues(enc) = {}
         /\ checkScheme1Envelope(enc, opts, path) = {}
<1> DEFINE unsupported == UnsupportedIdentifiers(enc)
           O == {IssueAs("ENC_UNSUPPORTED", path, "error")}
           U == {issueOf(u[2], path \o << u[1] >>) : u \in unsupported}
           D1 == {issueOf("SCHEMA_MISSING_REQUIRED", path \o << "scheme" >>)}
           D2 == {issueOf("SCHEMA_TYPE_MISMATCH", path \o << "scheme" >>)}
           D3 == {issueOf("UNAUTHENTICATED_CIPHER_FORBIDDEN", path \o << "aead" >>)}
           D4 == O \cup U
           P5 == encInternalNonTextKeyIssues(enc)
           P6 == EncScheme1Issues(enc)
           D7 == checkScheme1Envelope(enc, opts, path)
<1>1. envelopeDisposition(enc, opts, path)
        = IF ~Has(enc, "scheme") THEN D1 ELSE IF ~isUint(Get(enc, "scheme")) THEN D2
          ELSE IF TextIn(Get(enc, "aead"), UNAUTHENTICATED_CIPHERS) THEN D3
          ELSE IF unsupported # {} THEN D4
          ELSE IF P5 # {} THEN Moved(P5, path)
          ELSE IF P6 # {} THEN Moved(P6, path) ELSE D7
  BY DEF envelopeDisposition, Moved
<1>2. DataSet(Data)
  BY DataAssumption DEF DataSet
<1>3. ~Clean(D1) /\ ~Clean(D2) /\ ~Clean(D3)
  <2>1. /\ "SCHEMA_MISSING_REQUIRED" \in Structural /\ "SCHEMA_TYPE_MISMATCH" \in Structural
        /\ "UNAUTHENTICATED_CIPHER_FORBIDDEN" \in Structural
    BY DEF Structural
  <2> QED
    BY <2>1, StructuralIsError DEF Clean
<1>4. ~Clean(D4)
  <2>1. IssueAs("ENC_UNSUPPORTED", path, "error").severity = "error"
    BY DEF IssueAs
  <2> HIDE DEF U
  <2> QED
    BY <2>1 DEF Clean
<1>5. Sound(P5, {}) /\ Sound(P6, {})
  BY <1>2, EncPreGuardSound, EncSchemaSound
<1>6. ASSUME NEW P, Sound(P, {}), Clean(Moved(P, path)) PROVE P = {}
  <2>1. Moved(P, path) = {}
    BY <1>6, SoundMoved, CleanOf
  <2> QED
    BY <2>1 DEF Moved
<1>7. ASSUME unsupported = {}, P6 = {}, Clean(D7) PROVE D7 = {}
  <2>1. Sound(D7, {})
    BY <1>2, <1>7, Scheme1Sound
  <2> QED
    BY <1>7, <2>1, CleanOf
<1> HIDE DEF D1, D2, D3, D4, P5, P6, D7, unsupported
<1>8. unsupported = {} /\ P5 = {} /\ P6 = {} /\ Clean(D7)
  BY <1>1, <1>3, <1>4, <1>5, <1>6
<1> QED
  BY <1>7, <1>8 DEF unsupported, P6, D7

LEMMA SlotsShape ==
  ASSUME NEW enc, EncScheme1Issues(enc) = {}
  PROVE  /\ MapIssues(enc, EncScheme1Schema, TRUE, << >>) = {}
         /\ \A j \in DOMAIN Elems(Get(enc, "slots")) :
              MapIssues(Elems(Get(enc, "slots"))[j], SlotSchema, FALSE,
                        << "slots", Idx(j) >>) = {}
         /\ LengthIssues(Get(enc, "slots_mac"), 32, "ENC_SLOTS_MAC_INVALID_LENGTH",
                         << "slots_mac" >>) = {}
         /\ Get(enc, "passphrase").t = "map" =>
              /\ MapIssues(Get(enc, "passphrase"), PassphraseBlockSchema, TRUE,
                           << "passphrase" >>) = {}
              /\ SaltIssues(Get(Get(enc, "passphrase"), "salt"),
                            << "passphrase", "salt" >>) = {}
<1> DEFINE slots == Elems(Get(enc, "slots"))
           pp == Get(enc, "passphrase")
           Slot(j) == MapIssues(slots[j], SlotSchema, FALSE, << "slots", Idx(j) >>)
           A == MapIssues(enc, EncScheme1Schema, TRUE, << >>)
           B == UNION {Slot(j) : j \in DOMAIN slots}
           C == LengthIssues(Get(enc, "slots_mac"), 32, "ENC_SLOTS_MAC_INVALID_LENGTH",
                             << "slots_mac" >>)
           P == MapIssues(pp, PassphraseBlockSchema, TRUE, << "passphrase" >>)
           S == SaltIssues(Get(pp, "salt"), << "passphrase", "salt" >>)
           D == IF pp.t # "map" THEN {} ELSE P \cup S
<1>1. EncScheme1Issues(enc) = A \cup B \cup C \cup D
  BY DEF EncScheme1Issues
<1>2. A = {} /\ B = {} /\ C = {} /\ D = {}
  <2> HIDE DEF A, B, C, D
  <2> QED
    BY <1>1
<1>3. ASSUME NEW j \in DOMAIN slots PROVE Slot(j) = {}
  <2> HIDE DEF Slot
  <2>1. \A x \in Slot(j) : x \in B
    OBVIOUS
  <2> QED
    BY <1>2, <2>1
<1>4. pp.t = "map" => P = {} /\ S = {}
  <2> HIDE DEF P, S, pp
  <2> QED
    BY <1>2
<1> QED
  BY <1>2, <1>3, <1>4

LEMMA EncFields ==
  ASSUME NEW enc \in Data, EncScheme1Issues(enc) = {}, UnsupportedIdentifiers(enc) = {}
  PROVE  /\ enc.t = "map" /\ Get(enc, "scheme") = Num(1)
         /\ TextIn(Get(enc, "aead"), DOMAIN AEAD_NONCE_LENGTHS \cup Inherited)
         /\ Get(enc, "aead") = Text(Get(enc, "aead").s)
         /\ Get(enc, "nonce").t = "bytes"
         /\ Has(enc, "kem") => TextIn(Get(enc, "kem"), DOMAIN KEM_SLOT_DESCRIPTORS \cup Inherited)
         /\ Has(enc, "slots") => Get(enc, "slots").t = "array"
         /\ Has(enc, "slots_mac") =>
              Get(enc, "slots_mac").t = "bytes" /\ Get(enc, "slots_mac").len = 32
         /\ Has(enc, "passphrase") => Get(enc, "passphrase").t = "map"
<1> DEFINE kem == Get(enc, "kem")
           aead == Get(enc, "aead")
<1>1. /\ enc.t = "map"
      /\ \A f \in DOMAIN EncScheme1Schema :
           ~EncScheme1Schema[f][2] \/ Has(enc, f) => IsOfKind(Get(enc, f), EncScheme1Schema[f][1])
  BY SlotsShape, MapShape
<1>2. DOMAIN EncScheme1Schema
        = {"scheme", "aead", "kem", "nonce", "slots", "slots_mac", "passphrase"}
  BY DEF EncScheme1Schema
<1>3. /\ IsOfKind(Get(enc, "scheme"), "one") /\ IsOfKind(aead, "text")
      /\ IsOfKind(Get(enc, "nonce"), "bytes")
      /\ Has(enc, "kem") => IsOfKind(kem, "text")
      /\ Has(enc, "slots") => IsOfKind(Get(enc, "slots"), "array")
      /\ Has(enc, "slots_mac") => IsOfKind(Get(enc, "slots_mac"), "bytes")
      /\ Has(enc, "passphrase") => IsOfKind(Get(enc, "passphrase"), "map")
  <2>1. /\ EncScheme1Schema["scheme"] = << "one", FALSE >>
        /\ EncScheme1Schema["aead"] = << "text", FALSE >>
        /\ EncScheme1Schema["nonce"] = << "bytes", FALSE >>
        /\ EncScheme1Schema["kem"] = << "text", TRUE >>
        /\ EncScheme1Schema["slots"] = << "array", TRUE >>
        /\ EncScheme1Schema["slots_mac"] = << "bytes", TRUE >>
        /\ EncScheme1Schema["passphrase"] = << "map", TRUE >>
    BY DEF EncScheme1Schema
  <2> DEFINE ok(f, kind, optional) ==
               EncScheme1Schema[f] = << kind, optional >> /\ f \in DOMAIN EncScheme1Schema
                 => (~optional \/ Has(enc, f) => IsOfKind(Get(enc, f), kind))
  <2>2. \A f, kind, optional : ok(f, kind, optional)
    BY <1>1
  <2>3. /\ ok("scheme", "one", FALSE) /\ ok("aead", "text", FALSE) /\ ok("nonce", "bytes", FALSE)
        /\ ok("kem", "text", TRUE) /\ ok("slots", "array", TRUE)
        /\ ok("slots_mac", "bytes", TRUE) /\ ok("passphrase", "map", TRUE)
    BY <2>2
  <2> QED
    BY <1>2, <2>1, <2>3
<1>4. /\ Get(enc, "scheme") = Num(1) /\ aead.t = "text" /\ Get(enc, "nonce").t = "bytes"
      /\ Has(enc, "kem") => kem.t = "text"
      /\ Has(enc, "slots") => Get(enc, "slots").t = "array"
      /\ Has(enc, "slots_mac") => Get(enc, "slots_mac").t = "bytes"
      /\ Has(enc, "passphrase") => Get(enc, "passphrase").t = "map"
  BY <1>3 DEF IsOfKind
<1>5. /\ TextIn(aead, DOMAIN AEAD_NONCE_LENGTHS \cup Inherited)
      /\ Has(enc, "kem") => TextIn(kem, DOMAIN KEM_SLOT_DESCRIPTORS \cup Inherited)
  <2> DEFINE K == When(kem.t = "text" /\ ~TextIn(kem, DOMAIN KEM_SLOT_DESCRIPTORS \cup Inherited),
                       << "kem", "UNSUPPORTED_KEM_ALG" >>)
             L == When(aead.t = "text" /\ ~TextIn(aead, DOMAIN AEAD_NONCE_LENGTHS \cup Inherited),
                       << "aead", "UNSUPPORTED_AEAD_ALG" >>)
  <2>1. K \subseteq UnsupportedIdentifiers(enc) /\ L \subseteq UnsupportedIdentifiers(enc)
    BY DEF UnsupportedIdentifiers
  <2>2. K = {} /\ L = {}
    BY <2>1
  <2> HIDE DEF kem, aead
  <2> QED
    BY <1>4, <2>2 DEF When
<1>7. aead = Text(aead.s)
  <2>1. aead \in Data
    BY DataAssumption, Parts DEF DataSet
  <2> HIDE DEF aead
  <2> QED
    BY <1>5, <2>1, DataAssumption DEF TextIn
<1>8. Has(enc, "slots_mac") => Get(enc, "slots_mac").len = 32
  <2>1. LengthIssues(Get(enc, "slots_mac"), 32, "ENC_SLOTS_MAC_INVALID_LENGTH",
                     << "slots_mac" >>) = {}
    BY SlotsShape
  <2> QED
    BY <1>4, <2>1 DEF LengthIssues, OneWhen, When
<1> QED
  BY <1>1, <1>4, <1>5, <1>7, <1>8

LEMMA Scheme1Fields ==
  ASSUME NEW enc, NEW opts, NEW path, checkScheme1Envelope(enc, opts, path) = {}
  PROVE  LET slots == Elems(Get(enc, "slots"))
             kem == Get(enc, "kem").s IN
         /\ Get(enc, "nonce").len = LengthIn(AEAD_NONCE_LENGTHS, Get(enc, "aead").s)
         /\ Has(enc, "slots") \/ Has(enc, "passphrase")
         /\ Has(enc, "slots") =>
              /\ Has(enc, "slots_mac") /\ Has(enc, "kem")
              /\ slots # << >> /\ ~(Len(slots) > opts.maxSlots)
              /\ \A i \in DOMAIN slots :
                   /\ checkSlotShape(slots[i], kem, path \o << "slots" >> \o << Idx(i) >>) = {}
                   /\ ~(/\ Material(slots[i], kem) # Missing
                        /\ \E j \in 1..(i - 1) :
                             Material(slots[j], kem) = Material(slots[i], kem))
         /\ Has(enc, "passphrase") =>
              checkPassphraseBlock(Get(enc, "passphrase"), opts, path \o << "passphrase" >>) = {}
<1> DEFINE slots == Elems(Get(enc, "slots"))
           at == path \o << "slots" >>
           kem == Get(enc, "kem").s
           Repeats(i) == /\ Material(slots[i], kem) # Missing
                         /\ \E j \in 1..(i - 1) :
                              Material(slots[j], kem) = Material(slots[i], kem)
           Slot(i) == checkSlotShape(slots[i], kem, at \o << Idx(i) >>)
           Twice(i) == OneWhen(Repeats(i), "ENC_SLOTS_DUPLICATE_KEM_MATERIAL",
                               at \o << Idx(i), SlotField(kem) >>)
           Both(i) == Slot(i) \cup Twice(i)
           S == UNION {Both(i) : i \in DOMAIN slots}
           unlike == Get(enc, "nonce").len # LengthIn(AEAD_NONCE_LENGTHS, Get(enc, "aead").s)
           A == OneWhen(unlike, "NONCE_LENGTH_MISMATCH", path \o << "nonce" >>)
           B == KeyPathIssues(enc, path)
           E1 == {issueOf("ENC_SLOTS_EMPTY", at)}
           E2 == {issueOf("ENC_SLOTS_TOO_MANY", at)}
           C == IF ~Has(enc, "slots") THEN {}
                ELSE IF slots = << >> THEN E1
                ELSE IF Len(slots) > opts.maxSlots THEN E2
                ELSE IF ~Has(enc, "kem") THEN {} ELSE S
           P == checkPassphraseBlock(Get(enc, "passphrase"), opts, path \o << "passphrase" >>)
           D == IF ~Has(enc, "passphrase") THEN {} ELSE P
<1>1. checkScheme1Envelope(enc, opts, path) = A \cup B \cup C \cup D
  BY DEF checkScheme1Envelope
<1>2. A = {} /\ B = {} /\ C = {} /\ D = {}
  <2> HIDE DEF A, B, C, D
  <2> QED
    BY <1>1
<1>3. ~unlike
  <2> HIDE DEF unlike
  <2> QED
    BY <1>2 DEF OneWhen, When
<1>4. /\ Has(enc, "slots") => Has(enc, "slots_mac") /\ Has(enc, "kem")
      /\ Has(enc, "slots") \/ Has(enc, "passphrase")
  <2> DEFINE hasSlots == Has(enc, "slots")
             B1 == OneWhen(hasSlots /\ ~Has(enc, "slots_mac"), "ENC_SLOTS_MAC_REQUIRED", path)
             B2 == OneWhen(hasSlots /\ ~Has(enc, "kem"), "ENC_KEM_REQUIRED", path)
             B3 == OneWhen(~hasSlots /\ ~Has(enc, "passphrase"), "ENC_NO_KEY_PATH", path)
  <2>1. B1 \subseteq B /\ B2 \subseteq B /\ B3 \subseteq B
    BY DEF KeyPathIssues
  <2>2. B1 = {} /\ B2 = {} /\ B3 = {}
    BY <1>2, <2>1
  <2> HIDE DEF hasSlots
  <2>3. ~(hasSlots /\ ~Has(enc, "slots_mac")) /\ ~(hasSlots /\ ~Has(enc, "kem"))
        /\ ~(~hasSlots /\ ~Has(enc, "passphrase"))
    BY <2>2 DEF OneWhen, When
  <2> QED
    BY <2>3 DEF hasSlots
<1>5. Has(enc, "slots") => slots # << >> /\ ~(Len(slots) > opts.maxSlots) /\ S = {}
  <2> HIDE DEF slots, S
  <2> QED
    BY <1>2, <1>4
<1>6. ASSUME S = {}, NEW i \in DOMAIN slots PROVE Slot(i) = {} /\ ~Repeats(i)
  <2>1. Slot(i) = {} /\ Twice(i) = {}
    <3> HIDE DEF Slot, Twice, slots
    <3>1. \A x \in Both(i) : x \in S
      OBVIOUS
    <3> QED
      BY <1>6, <3>1
  <2> HIDE DEF Repeats
  <2> QED
    BY <2>1 DEF OneWhen, When
<1>7. Has(enc, "passphrase") => P = {}
  <2> HIDE DEF P
  <2> QED
    BY <1>2
<1> QED
  BY <1>3, <1>4, <1>5, <1>6, <1>7

LEMMA SlotFields ==
  ASSUME NEW slot, NEW kem \in {"x25519", "mlkem768x25519"}, NEW path,
         checkSlotShape(slot, kem, path) = {}
  PROVE  /\ Material(slot, kem) = Get(slot, KEM[kem].field)
         /\ KEM[kem].field \in {"epk", "kem_ct"} /\ KEM[kem].len \in Nat
         /\ Has(slot, KEM[kem].field) /\ Get(slot, KEM[kem].field).len = KEM[kem].len
         /\ Has(slot, "wrap") /\ Get(slot, "wrap").len = WRAP_LENGTH
<1> DEFINE d == KEM_SLOT_DESCRIPTORS[kem]
           InvalidAt(k) == issueOf("ENC_SLOT_INVALID_SHAPE", path \o << k >>)
           Field(f, len, code) ==
             IF ~Has(slot, f) THEN {InvalidAt(f)}
             ELSE OneWhen(Get(slot, f).len # len, code, path \o << f >>)
           C == Field(d.field, d.fieldLength, d.code)
           D == Field("wrap", d.wrapLength, "WRAP_LENGTH_MISMATCH")
<1>0. kem \in DOMAIN KEM_SLOT_DESCRIPTORS
  BY DEF KEM_SLOT_DESCRIPTORS
<1>1. C \subseteq checkSlotShape(slot, kem, path) /\ D \subseteq checkSlotShape(slot, kem, path)
  BY <1>0 DEF checkSlotShape, checkDescribedSlot
<1>2. C = {} /\ D = {}
  BY <1>1
<1>3. ASSUME NEW f, NEW len, NEW code, Field(f, len, code) = {}
      PROVE  Has(slot, f) /\ Get(slot, f).len = len
  BY <1>3 DEF OneWhen, When
<1>4. /\ KEM[kem].field = d.field /\ KEM[kem].len = d.fieldLength /\ WRAP_LENGTH = d.wrapLength
      /\ KEM[kem].field \in {"epk", "kem_ct"} /\ KEM[kem].len \in Nat
  BY DEF KEM, KEM_SLOT_DESCRIPTORS, WRAP_LENGTH
<1>5. Material(slot, kem) = Get(slot, KEM[kem].field)
  BY <1>0, <1>4 DEF Material, SlotField
<1> HIDE DEF d, Field
<1> QED
  BY <1>2, <1>3, <1>4, <1>5 DEF d

LEMMA PassphraseFields ==
  ASSUME NEW pp, NEW opts, NEW path, checkPassphraseBlock(pp, opts, path) = {}
  PROVE  \A name \in {"m", "t", "p"} :
           /\ Get(pp, "params").m[name].n \in 0..UINT32_MAX
           /\ ~(Get(pp, "params").m[name].n < ARGON2_FLOORS[name])
<1> DEFINE params == Get(pp, "params")
           Issue(code, name) == {issueOf(code, path \o << "params", name >>)}
           Param(name) ==
             IF Get(params, name) = Missing THEN Issue("SCHEMA_MISSING_REQUIRED", name)
             ELSE IF ~isUint(Get(params, name)) \/ ~uintWithin(Get(params, name), 0, UINT32_MAX)
             THEN Issue("SCHEMA_TYPE_MISMATCH", name)
             ELSE IF Get(params, name).n < ARGON2_FLOORS[name]
             THEN Issue("ENC_PASSPHRASE_ARGON2_PARAMS_TOO_LOW", name)
             ELSE IF \E c \in opts.ceilings : Get(params, name).n > c[name]
             THEN Issue("ENC_PASSPHRASE_PARAMS_EXCEED_POLICY", name) ELSE {}
           A == {issueOf("ENC_PASSPHRASE_ALG_UNSUPPORTED", path \o << "alg" >>)}
           others == Keys(params) \ DOMAIN ARGON2_FLOORS
           B == {issueOf("SCHEMA_UNKNOWN_FIELD", path \o << "params", k >>) : k \in others}
           C == UNION {Param(name) : name \in DOMAIN ARGON2_FLOORS}
<1>1. checkPassphraseBlock(pp, opts, path)
        = IF ~TextIn(Get(pp, "alg"), PASSPHRASE_KDF_ALGS) THEN A ELSE B \cup C
  BY DEF checkPassphraseBlock
<1>2. C = {}
  <2>1. A # {}
    OBVIOUS
  <2> HIDE DEF A, B, C
  <2> QED
    BY <1>1, <2>1
<1>3. DOMAIN ARGON2_FLOORS = {"m", "t", "p"}
  BY DEF ARGON2_FLOORS
<1>4. ASSUME NEW name \in {"m", "t", "p"} PROVE Param(name) = {}
  <2> HIDE DEF Param
  <2>1. \A x \in Param(name) : x \in C
    BY <1>3
  <2> QED
    BY <1>2, <2>1
<1>5. ASSUME NEW name \in {"m", "t", "p"}
      PROVE  /\ Get(params, name) = params.m[name]
             /\ Get(params, name).n \in 0..UINT32_MAX
             /\ ~(Get(params, name).n < ARGON2_FLOORS[name])
  <2>1. Param(name) = {}
    BY <1>4
  <2> HIDE DEF params
  <2>2. Get(params, name) # Missing /\ uintWithin(Get(params, name), 0, UINT32_MAX)
        /\ ~(Get(params, name).n < ARGON2_FLOORS[name])
    BY <2>1
  <2> QED
    BY <2>2 DEF Get, uintWithin
<1> QED
  BY <1>5

(* A slots path is as long as its slots' keys and wraps.                   *)
LEMMA SlotSize ==
  ASSUME NEW slot \in Data, NEW path, MapIssues(slot, SlotSchema, FALSE, path) = {},
         NEW field \in {"epk", "kem_ct"}, Has(slot, field), Has(slot, "wrap")
  PROVE  EncodedSize(slot) >= Get(slot, field).len + Get(slot, "wrap").len
         /\ Get(slot, field).len \in Nat /\ Get(slot, "wrap").len \in Nat
<1>1. slot.t = "map" /\ \A f \in DOMAIN SlotSchema :
        ~SlotSchema[f][2] \/ Has(slot, f) => IsOfKind(Get(slot, f), SlotSchema[f][1])
  BY MapShape
<1>2. DOMAIN SlotSchema = {"epk", "kem_ct", "wrap"}
      /\ \A f \in DOMAIN SlotSchema : SlotSchema[f] = << "bytes", TRUE >>
  <2>1. DOMAIN SlotSchema = {"epk", "kem_ct", "wrap"}
    BY DEF SlotSchema
  <2>2. /\ SlotSchema["epk"] = << "bytes", TRUE >>
        /\ SlotSchema["kem_ct"] = << "bytes", TRUE >>
        /\ SlotSchema["wrap"] = << "bytes", TRUE >>
    BY DEF SlotSchema
  <2> QED
    BY <2>1, <2>2
<1>3. \A f \in {field, "wrap"} : Get(slot, f) \in Data /\ Get(slot, f).t = "bytes"
                                 /\ f \in DOMAIN slot.m /\ Get(slot, f) = slot.m[f]
  <2>1. TAKE f \in {field, "wrap"}
  <2>2. IsOfKind(Get(slot, f), "bytes")
    BY <1>1, <1>2
  <2>3. Get(slot, f) \in Data
    BY DataAssumption, Parts DEF DataSet
  <2>4. f \in DOMAIN slot.m /\ Get(slot, f) = slot.m[f]
    BY DEF Has, Get, Keys
  <2> QED
    BY <2>2, <2>3, <2>4 DEF IsOfKind
<1>4. \A f \in {field, "wrap"} : /\ Get(slot, f).len \in Nat /\ EncodedSize(Get(slot, f)) \in Nat
                                 /\ EncodedSize(Get(slot, f)) >= Get(slot, f).len
  BY <1>3, DataAssumption, EncodingAssumption
<1>5. /\ EncodedSize(slot) \in Nat
      /\ EncodedSize(slot) >= EncodedSize(Get(slot, field)) + EncodedSize(Get(slot, "wrap"))
  <2>1. field # "wrap"
    OBVIOUS
  <2>2. \A k, l \in DOMAIN slot.m : k # l =>
          EncodedSize(slot) >= EncodedSize(slot.m[k]) + EncodedSize(slot.m[l])
    BY <1>1, EncodingAssumption
  <2> QED
    BY <1>3, <2>1, <2>2, EncodingAssumption
<1> DEFINE a == EncodedSize(Get(slot, field))  b == EncodedSize(Get(slot, "wrap"))
           c == Get(slot, field).len  d == Get(slot, "wrap").len  e == EncodedSize(slot)
<1>6. /\ a \in Nat /\ b \in Nat /\ c \in Nat /\ d \in Nat /\ e \in Nat
      /\ a >= c /\ b >= d /\ e >= a + b
  BY <1>4, <1>5
<1> HIDE DEF a, b, c, d, e
<1>7. e >= c + d
  BY <1>6
<1> QED
  BY <1>6, <1>7 DEF c, d, e

LEMMA Multiples ==
  ASSUME NEW n \in Nat, NEW x \in Nat, NEW c \in Nat, x >= c
  PROVE  n * x >= n * c /\ n * c \in Nat /\ n * x \in Nat
OBVIOUS

LEMMA ArraySize ==
  ASSUME NEW list \in Data, list.t = "array", list.a # << >>, NEW c \in Nat,
         \A i \in DOMAIN list.a : EncodedSize(list.a[i]) >= c
  PROVE  EncodedSize(list) >= Len(list.a) * c /\ Len(list.a) * c \in Nat
<1> DEFINE size(i) == EncodedSize(list.a[i])
           sizes == {size(i) : i \in DOMAIN list.a}
<1>1. list.a \in Seq(Data) /\ Len(list.a) \in Nat /\ DOMAIN list.a = 1..Len(list.a)
      /\ 1 \in DOMAIN list.a
  BY DataAssumption
<1>2. \A i \in DOMAIN list.a : size(i) \in Nat
  BY <1>1, EncodingAssumption
<1>3. PICK i \in DOMAIN list.a : \A j \in DOMAIN list.a : size(i) =< size(j)
  <2>1. sizes \subseteq Nat /\ sizes # {}
    BY <1>1, <1>2
  <2>2. PICK least \in sizes : \A s \in sizes : least =< s
    <3> HIDE DEF sizes
    <3> QED
      BY <2>1, Least
  <2> HIDE DEF size
  <2> QED
    BY <2>2
<1>4. EncodedSize(list) \in Nat /\ EncodedSize(list) >= Len(list.a) * size(i)
  BY <1>3, EncodingAssumption
<1>5. Len(list.a) * size(i) >= Len(list.a) * c /\ Len(list.a) * c \in Nat
      /\ Len(list.a) * size(i) \in Nat
  BY <1>1, <1>2, Multiples
<1> DEFINE p == Len(list.a) * size(i)  q == Len(list.a) * c  e == EncodedSize(list)
<1>6. p \in Nat /\ q \in Nat /\ e \in Nat /\ e >= p /\ p >= q
  BY <1>4, <1>5
<1> HIDE DEF p, q, e
<1>7. e >= q
  BY <1>6
<1> QED
  BY <1>6, <1>7 DEF q, e

LEMMA SlotsFit ==
  ASSUME NEW enc \in Data, enc.t = "map", {"nonce", "slots_mac", "slots"} \subseteq Keys(enc),
         Get(enc, "nonce").t = "bytes", Get(enc, "nonce").len = 24,
         Get(enc, "slots_mac").t = "bytes", Get(enc, "slots_mac").len = 32,
         Get(enc, "slots").t = "array", Elems(Get(enc, "slots")) # << >>,
         NEW c \in Nat,
         \A i \in DOMAIN Elems(Get(enc, "slots")) :
           EncodedSize(Elems(Get(enc, "slots"))[i]) >= c
  PROVE  /\ EncodedSize(enc) >= 24 + 32 + Len(Elems(Get(enc, "slots"))) * c
         /\ EncodedSize(enc) \in Nat /\ Len(Elems(Get(enc, "slots"))) * c \in Nat
<1> DEFINE list == Get(enc, "slots")  nonce == Get(enc, "nonce")  mac == Get(enc, "slots_mac")
<1>1. /\ \A f \in {"nonce", "slots_mac", "slots"} : f \in DOMAIN enc.m /\ Get(enc, f) = enc.m[f]
      /\ list \in Data /\ nonce \in Data /\ mac \in Data /\ Elems(list) = list.a
  <2>1. \A f \in {"nonce", "slots_mac", "slots"} : f \in DOMAIN enc.m /\ Get(enc, f) = enc.m[f]
    BY DEF Get, Keys
  <2>2. \A f : Get(enc, f) \in Data
    BY DataAssumption, Parts DEF DataSet
  <2> QED
    BY <2>1, <2>2 DEF Elems
<1>2. EncodedSize(list) >= Len(list.a) * c /\ Len(list.a) * c \in Nat
  BY <1>1, ArraySize
<1>3. EncodedSize(nonce) >= 24 /\ EncodedSize(mac) >= 32
  BY <1>1, EncodingAssumption
<1>4. /\ EncodedSize(enc) >= EncodedSize(nonce) + EncodedSize(mac) + EncodedSize(list)
      /\ EncodedSize(enc) \in Nat /\ EncodedSize(nonce) \in Nat /\ EncodedSize(mac) \in Nat
      /\ EncodedSize(list) \in Nat
  <2>1. \A k, l \in DOMAIN enc.m : k # l => \A n \in DOMAIN enc.m \ {k, l} :
          EncodedSize(enc) >= EncodedSize(enc.m[k]) + EncodedSize(enc.m[l]) + EncodedSize(enc.m[n])
    BY EncodingAssumption
  <2>2. "slots" \in DOMAIN enc.m \ {"nonce", "slots_mac"}
    BY <1>1
  <2> QED
    BY <1>1, <2>1, <2>2, EncodingAssumption
<1> DEFINE e == EncodedSize(enc)  a == EncodedSize(nonce)  b == EncodedSize(mac)
           l == EncodedSize(list)  p == Len(list.a) * c
<1>5. /\ e \in Nat /\ a \in Nat /\ b \in Nat /\ l \in Nat /\ p \in Nat
      /\ e >= a + b + l /\ a >= 24 /\ b >= 32 /\ l >= p
  BY <1>2, <1>3, <1>4
<1> HIDE DEF e, a, b, l, p
<1>6. e >= 24 + 32 + p
  BY <1>5
<1> QED
  BY <1>1, <1>5, <1>6 DEF e, p

(* The nonce is of the one registered length, so the cipher is the one.    *)
LEMMA CipherKnown ==
  ASSUME NEW enc \in Data, Get(enc, "nonce").t = "bytes",
         TextIn(Get(enc, "aead"), DOMAIN AEAD_NONCE_LENGTHS \cup Inherited),
         Get(enc, "aead") = Text(Get(enc, "aead").s),
         Get(enc, "nonce").len = LengthIn(AEAD_NONCE_LENGTHS, Get(enc, "aead").s)
  PROVE  Get(enc, "aead") = Text(SEALED_POE_AEAD) /\ Get(enc, "nonce").len = NONCE_LENGTH
<1>1. Get(enc, "nonce").len \in Nat
  <2>1. Get(enc, "nonce") \in Data
    BY DataAssumption, Parts DEF DataSet
  <2> QED
    BY <2>1, DataAssumption
<1>2. Get(enc, "aead").s \in DOMAIN AEAD_NONCE_LENGTHS
  BY <1>1 DEF LengthIn
<1>3. Get(enc, "aead").s = SEALED_POE_AEAD /\ AEAD_NONCE_LENGTHS[Get(enc, "aead").s] = 24
  BY <1>2 DEF AEAD_NONCE_LENGTHS, SEALED_POE_AEAD
<1> QED
  BY <1>2, <1>3 DEF LengthIn, NONCE_LENGTH

(* What the typed reading leaves of an envelope with slots.                *)
LEMMA SlotsReady ==
  ASSUME NEW enc \in Data, NEW opts, NEW path,
         UnsupportedIdentifiers(enc) = {}, EncScheme1Issues(enc) = {},
         checkScheme1Envelope(enc, opts, path) = {},
         opts.maxSlots = MAX_SLOTS,
         ~(EncodedSize(enc) > MAX_DECODED_ENVELOPE_BYTES),
         Get(enc, "slots").t = "array"
  PROVE  sealedEnvelopeFromParsed(enc) # Missing /\ assertEnvelopeStructure(enc, << >>) = "ok"
<1> DEFINE slots == Elems(Get(enc, "slots"))
           name == Get(enc, "kem").s
           kem == KEM[name]
           Carried(i) == Get(slots[i], kem.field)
           none == << >>
           Slot(i) == FirstFailing(
             << << Carried(i).len # kem.len, kem.code >>,
                << Get(slots[i], "wrap").len # WRAP_LENGTH, "WRAP_LENGTH_MISMATCH" >>,
                << \E j \in 1..(i - 1) : Carried(j) = Carried(i),
                   "ENC_SLOTS_DUPLICATE_KEM_MATERIAL" >> >>)
           badSlots == {i \in DOMAIN slots : Slot(i) # "ok"}
           decodedBytes == NONCE_LENGTH + SLOTS_MAC_LENGTH
                             + Len(slots) * (kem.len + WRAP_LENGTH)
           header == FirstFailing(
             << << Get(enc, "scheme") # Num(1), "UNSUPPORTED_ENVELOPE_SCHEME" >>,
                << Get(enc, "aead") # Text(SEALED_POE_AEAD), "UNSUPPORTED_AEAD_ALG" >>,
                << ~TextIn(Get(enc, "kem"), DOMAIN KEM), "UNSUPPORTED_KEM_ALG" >>,
                << slots = << >>, "ENC_SLOTS_EMPTY" >>,
                << Len(slots) > MAX_SLOTS, "ENC_SLOTS_TOO_MANY" >>,
                << Get(enc, "nonce").len # NONCE_LENGTH, "NONCE_LENGTH_MISMATCH" >>,
                << Get(enc, "slots_mac").len # SLOTS_MAC_LENGTH,
                   "ENC_SLOTS_MAC_INVALID_LENGTH" >> >>)
           last == FirstFailing(
             << << decodedBytes > MAX_DECODED_ENVELOPE_BYTES, "ENC_ENVELOPE_TOO_LARGE" >>,
                << \E k \in DOMAIN none : none[k].len # 32, "INVALID_RECIPIENT_KEY" >> >>)
<1>1. assertEnvelopeStructure(enc, << >>)
        = IF header # "ok" THEN header ELSE IF badSlots # {} THEN Slot(Min(badSlots)) ELSE last
  BY DEF assertEnvelopeStructure
<1>2. Has(enc, "slots")
  BY DEF Has, Get, Missing
<1>3. /\ enc.t = "map" /\ Get(enc, "scheme") = Num(1)
      /\ Get(enc, "nonce").t = "bytes"
      /\ TextIn(Get(enc, "aead"), DOMAIN AEAD_NONCE_LENGTHS \cup Inherited)
      /\ Get(enc, "aead") = Text(Get(enc, "aead").s)
      /\ Has(enc, "kem") => TextIn(Get(enc, "kem"), DOMAIN KEM_SLOT_DESCRIPTORS \cup Inherited)
      /\ Has(enc, "slots_mac") => Get(enc, "slots_mac").t = "bytes" /\ Get(enc, "slots_mac").len = 32
  BY EncFields
<1>4. /\ Get(enc, "nonce").len = LengthIn(AEAD_NONCE_LENGTHS, Get(enc, "aead").s)
      /\ Has(enc, "slots_mac") /\ Has(enc, "kem") /\ slots # << >> /\ ~(Len(slots) > MAX_SLOTS)
      /\ \A i \in DOMAIN slots :
           /\ checkSlotShape(slots[i], name, path \o << "slots" >> \o << Idx(i) >>) = {}
           /\ ~(/\ Material(slots[i], name) # Missing
                /\ \E j \in 1..(i - 1) : Material(slots[j], name) = Material(slots[i], name))
  BY <1>2, Scheme1Fields
<1>5. Get(enc, "aead") = Text(SEALED_POE_AEAD) /\ Get(enc, "nonce").len = NONCE_LENGTH
  BY <1>3, <1>4, CipherKnown
<1>6. TextIn(Get(enc, "kem"), DOMAIN KEM) /\ name \in {"x25519", "mlkem768x25519"}
  <2>1. 1 \in DOMAIN slots /\ slots[1] \in Data
    <3>1. Get(enc, "slots") \in Data
      BY DataAssumption, Parts DEF DataSet
    <3>2. slots \in Seq(Data)
      BY <3>1, DataAssumption, Parts DEF DataSet
    <3> HIDE DEF slots
    <3> QED
      BY <1>4, <3>2
  <2> DEFINE at == path \o << "slots" >> \o << Idx(1) >>
  <2>2. checkSlotShape(slots[1], name, at) = {} /\ checkInheritedSlot(slots[1], at) # {}
    BY <1>4, <2>1, DataAssumption, InheritedSlotSound DEF DataSet
  <2>3. name \in DOMAIN KEM_SLOT_DESCRIPTORS
    <3> HIDE DEF name, at, slots
    <3> QED
      BY <2>2 DEF checkSlotShape
  <2>4. DOMAIN KEM_SLOT_DESCRIPTORS = {"x25519", "mlkem768x25519"} /\ DOMAIN KEM = {"x25519", "mlkem768x25519"}
    BY DEF KEM_SLOT_DESCRIPTORS, KEM
  <2> QED
    BY <1>3, <1>4, <2>3, <2>4 DEF TextIn
<1>7. header = "ok"
  <2> HIDE DEF slots
  <2>1. SLOTS_MAC_LENGTH = 32
    BY DEF SLOTS_MAC_LENGTH
  <2> DEFINE rows ==
             << << Get(enc, "scheme") # Num(1), "UNSUPPORTED_ENVELOPE_SCHEME" >>,
                << Get(enc, "aead") # Text(SEALED_POE_AEAD), "UNSUPPORTED_AEAD_ALG" >>,
                << ~TextIn(Get(enc, "kem"), DOMAIN KEM), "UNSUPPORTED_KEM_ALG" >>,
                << slots = << >>, "ENC_SLOTS_EMPTY" >>,
                << Len(slots) > MAX_SLOTS, "ENC_SLOTS_TOO_MANY" >>,
                << Get(enc, "nonce").len # NONCE_LENGTH, "NONCE_LENGTH_MISMATCH" >>,
                << Get(enc, "slots_mac").len # SLOTS_MAC_LENGTH,
                   "ENC_SLOTS_MAC_INVALID_LENGTH" >> >>
  <2>2. DOMAIN rows = 1..7
    OBVIOUS
  <2>3. /\ ~rows[1][1] /\ ~rows[2][1] /\ ~rows[3][1] /\ ~rows[4][1] /\ ~rows[5][1]
        /\ ~rows[6][1] /\ ~rows[7][1]
    BY <1>3, <1>4, <1>5, <1>6, <2>1
  <2>4. \A i \in 1..7 : i = 1 \/ i = 2 \/ i = 3 \/ i = 4 \/ i = 5 \/ i = 6 \/ i = 7
    OBVIOUS
  <2> HIDE DEF rows
  <2>5. \A i \in DOMAIN rows : ~rows[i][1]
    BY <2>2, <2>3, <2>4
  <2>6. FirstFailing(rows) = "ok"
    BY <2>5, NoneFailing
  <2> QED
    BY <2>6 DEF rows
<1>8. ASSUME NEW i \in DOMAIN slots
      PROVE  /\ Material(slots[i], name) = Carried(i)
             /\ kem.field \in {"epk", "kem_ct"} /\ kem.len \in Nat
             /\ Has(slots[i], kem.field) /\ Carried(i).len = kem.len
             /\ Has(slots[i], "wrap") /\ Get(slots[i], "wrap").len = WRAP_LENGTH
  <2> DEFINE slot == slots[i]
             at == path \o << "slots" >> \o << Idx(i) >>
  <2>1. checkSlotShape(slot, name, at) = {}
    BY <1>4
  <2> HIDE DEF slots, name, slot, at
  <2>2. /\ Material(slot, name) = Get(slot, KEM[name].field)
        /\ KEM[name].field \in {"epk", "kem_ct"} /\ KEM[name].len \in Nat
        /\ Has(slot, KEM[name].field) /\ Get(slot, KEM[name].field).len = KEM[name].len
        /\ Has(slot, "wrap") /\ Get(slot, "wrap").len = WRAP_LENGTH
    BY <1>6, <2>1, SlotFields
  <2> QED
    BY <2>2 DEF slot
<1>9. ASSUME NEW i \in DOMAIN slots PROVE Slot(i) = "ok"
  <2>1. Carried(i) # Missing
    <3>1. Carried(i) \in {slots[i].m[kem.field]} /\ slots[i].m[kem.field] # Missing
      BY <1>8 DEF Has, Get, Keys
    <3> QED
      BY <3>1
  <2>2. ~(\E j \in 1..(i - 1) : Carried(j) = Carried(i))
    <3>1. DOMAIN slots = 1..Len(slots) /\ Len(slots) \in Nat
      <4>1. Get(enc, "slots") \in Data
        BY DataAssumption, Parts DEF DataSet
      <4>2. slots \in Seq(Data)
        BY <4>1, DataAssumption, Parts DEF DataSet
      <4> HIDE DEF slots
      <4> QED
        BY <4>2
    <3> HIDE DEF slots, Carried, name
    <3>2. ASSUME NEW j \in 1..(i - 1) PROVE j \in DOMAIN slots
      BY <3>1
    <3>3. \A j \in 1..(i - 1) : Material(slots[j], name) = Carried(j)
      BY <1>8, <3>2
    <3>4. ~(\E j \in 1..(i - 1) : Material(slots[j], name) = Material(slots[i], name))
      BY <1>4, <1>8, <2>1
    <3> QED
      BY <1>8, <3>3, <3>4
  <2> DEFINE rows ==
             << << Carried(i).len # kem.len, kem.code >>,
                << Get(slots[i], "wrap").len # WRAP_LENGTH, "WRAP_LENGTH_MISMATCH" >>,
                << \E j \in 1..(i - 1) : Carried(j) = Carried(i),
                   "ENC_SLOTS_DUPLICATE_KEM_MATERIAL" >> >>
  <2> HIDE DEF slots, Carried, kem
  <2>3. DOMAIN rows = 1..3
    OBVIOUS
  <2>4. ~rows[1][1] /\ ~rows[2][1] /\ ~rows[3][1]
    BY <1>8, <2>2
  <2> HIDE DEF rows
  <2>5. \A k \in DOMAIN rows : ~rows[k][1]
    BY <2>3, <2>4
  <2>6. FirstFailing(rows) = "ok"
    BY <2>5, NoneFailing
  <2> QED
    BY <2>6 DEF rows
<1>10. decodedBytes =< EncodedSize(enc) /\ EncodedSize(enc) \in Nat /\ decodedBytes \in Nat
  <2> DEFINE c == kem.len + WRAP_LENGTH
  <2>1. Get(enc, "slots") \in Data /\ 1 \in DOMAIN slots
    <3>1. Get(enc, "slots") \in Data
      BY DataAssumption, Parts DEF DataSet
    <3>2. slots \in Seq(Data)
      BY <3>1, DataAssumption, Parts DEF DataSet
    <3> QED
      BY <1>4, <3>1, <3>2
  <2>2. kem.len \in Nat /\ kem.field \in {"epk", "kem_ct"} /\ WRAP_LENGTH \in Nat /\ c \in Nat
    BY <1>8, <2>1 DEF WRAP_LENGTH
  <2>3. ASSUME NEW i \in DOMAIN slots PROVE EncodedSize(slots[i]) >= c
    <3>1. slots[i] \in Data
      BY <2>1, DataAssumption, Parts DEF DataSet
    <3>2. MapIssues(slots[i], SlotSchema, FALSE, << "slots", Idx(i) >>) = {}
      BY <2>3, SlotsShape
    <3> HIDE DEF slots, kem
    <3> QED
      BY <1>8, <2>2, <3>1, <3>2, SlotSize
  <2>4. {"nonce", "slots_mac", "slots"} \subseteq Keys(enc)
    BY <1>2, <1>3, <1>4 DEF Has, Get, Missing
  <2>5. Get(enc, "nonce").len = 24
    BY <1>5 DEF NONCE_LENGTH
  <2> HIDE DEF c
  <2>6. EncodedSize(enc) >= 24 + 32 + Len(slots) * c /\ EncodedSize(enc) \in Nat
        /\ Len(slots) * c \in Nat
    BY <1>3, <1>4, <2>2, <2>3, <2>4, <2>5, SlotsFit
  <2>7. decodedBytes = 24 + 32 + Len(slots) * c
    BY DEF c, NONCE_LENGTH, SLOTS_MAC_LENGTH
  <2> DEFINE p == Len(slots) * c  e == EncodedSize(enc)
  <2>8. p \in Nat /\ e \in Nat /\ e >= 24 + 32 + p /\ decodedBytes = 24 + 32 + p
    BY <2>6, <2>7
  <2> HIDE DEF p, e, decodedBytes
  <2>9. decodedBytes =< e /\ e \in Nat /\ decodedBytes \in Nat
    BY <2>8
  <2> QED
    BY <2>9 DEF e
<1>11. last = "ok"
  <2> DEFINE rows ==
             << << decodedBytes > MAX_DECODED_ENVELOPE_BYTES, "ENC_ENVELOPE_TOO_LARGE" >>,
                << \E k \in DOMAIN none : none[k].len # 32, "INVALID_RECIPIENT_KEY" >> >>
  <2>1. ~(decodedBytes > MAX_DECODED_ENVELOPE_BYTES)
    <3>1. MAX_DECODED_ENVELOPE_BYTES \in Nat
      BY EnvelopeAssumption
    <3> HIDE DEF decodedBytes
    <3> QED
      BY <1>10, <3>1
  <2>2. ~(\E k \in DOMAIN none : none[k].len # 32)
    OBVIOUS
  <2> HIDE DEF decodedBytes, none
  <2>3. DOMAIN rows = 1..2
    OBVIOUS
  <2>4. ~rows[1][1] /\ ~rows[2][1]
    BY <2>1, <2>2
  <2> HIDE DEF rows
  <2>5. \A k \in DOMAIN rows : ~rows[k][1]
    BY <2>3, <2>4
  <2>6. FirstFailing(rows) = "ok"
    BY <2>5, NoneFailing
  <2> QED
    BY <2>6 DEF rows
<1>12. sealedEnvelopeFromParsed(enc) = enc
  <2>1. {"nonce", "slots_mac"} \subseteq Keys(enc)
    BY <1>3, <1>4 DEF Has, Get, Missing
  <2>2. \A i \in DOMAIN slots : {KEM[Get(enc, "kem").s].field, "wrap"} \subseteq Keys(slots[i])
    BY <1>8 DEF Has
  <2> QED
    BY <1>3, <1>4, <1>5, <1>6, <2>1, <2>2 DEF sealedEnvelopeFromParsed
<1>13. enc # Missing
  BY <1>3 DEF Missing
<1> HIDE DEF header, badSlots, last
<1>14. badSlots = {}
  BY <1>9 DEF badSlots
<1> QED
  BY <1>1, <1>7, <1>11, <1>12, <1>13, <1>14

(* What the typed reading leaves of an envelope without slots.             *)
LEMMA PassphraseReady ==
  ASSUME NEW enc \in Data, NEW opts, NEW path,
         UnsupportedIdentifiers(enc) = {}, EncScheme1Issues(enc) = {},
         checkScheme1Envelope(enc, opts, path) = {},
         Get(enc, "slots").t # "array"
  PROVE  assertPassphraseBlock(SaltOf(enc), ParamsOf(enc), Get(enc, "nonce")) = "ok"
<1> DEFINE pp == Get(enc, "passphrase")
           salt == SaltOf(enc)
           params == ParamsOf(enc)
           floors == [m |-> 65536, t |-> 3, p |-> 1]
           rows ==
             << << Get(enc, "nonce").len # NONCE_LENGTH, "NONCE_LENGTH_MISMATCH" >>,
                << salt.len < 16, "ENC_PASSPHRASE_SALT_TOO_SHORT" >>,
                << salt.len > 64, "ENC_PASSPHRASE_SALT_TOO_LONG" >>,
                << \E f \in DOMAIN params : ~assertUint32(params[f]), "INVALID_PASSPHRASE_PARAMS" >>,
                << \E f \in DOMAIN floors : params[f] < floors[f],
                   "ENC_PASSPHRASE_ARGON2_PARAMS_TOO_LOW" >> >>
<1>1. assertPassphraseBlock(salt, params, Get(enc, "nonce")) = FirstFailing(rows)
  BY DEF assertPassphraseBlock
<1>2. /\ Get(enc, "nonce").t = "bytes"
      /\ TextIn(Get(enc, "aead"), DOMAIN AEAD_NONCE_LENGTHS \cup Inherited)
      /\ Get(enc, "aead") = Text(Get(enc, "aead").s)
      /\ Has(enc, "slots") => Get(enc, "slots").t = "array"
      /\ Has(enc, "passphrase") => pp.t = "map"
  BY EncFields
<1>3. /\ Get(enc, "nonce").len = LengthIn(AEAD_NONCE_LENGTHS, Get(enc, "aead").s)
      /\ Has(enc, "passphrase")
      /\ checkPassphraseBlock(pp, opts, path \o << "passphrase" >>) = {}
  BY <1>2, Scheme1Fields
<1>4. Get(enc, "nonce").len = NONCE_LENGTH
  BY <1>2, <1>3, CipherKnown
<1>5. /\ MapIssues(pp, PassphraseBlockSchema, TRUE, << "passphrase" >>) = {}
      /\ SaltIssues(Get(pp, "salt"), << "passphrase", "salt" >>) = {}
  BY <1>2, <1>3, SlotsShape
<1>6. salt = Get(pp, "salt") /\ salt.t = "bytes"
  <2> HIDE DEF pp
  <2>1. \A f \in DOMAIN PassphraseBlockSchema :
          ~PassphraseBlockSchema[f][2] \/ Has(pp, f)
            => IsOfKind(Get(pp, f), PassphraseBlockSchema[f][1])
    BY <1>5, MapShape
  <2>2. "salt" \in DOMAIN PassphraseBlockSchema
        /\ PassphraseBlockSchema["salt"] = << "bytes", FALSE >>
    BY DEF PassphraseBlockSchema
  <2>3. IsOfKind(Get(pp, "salt"), "bytes")
    <3>1. /\ PassphraseBlockSchema["salt"][1] = "bytes"
          /\ ~PassphraseBlockSchema["salt"][2]
      BY <2>2
    <3>2. IsOfKind(Get(pp, "salt"), PassphraseBlockSchema["salt"][1])
      BY <2>1, <2>2, <3>1
    <3> QED
      BY <3>1, <3>2
  <2>4. Get(pp, "salt").t = "bytes"
    BY <2>3 DEF IsOfKind
  <2> QED
    BY <2>4 DEF SaltOf, pp
<1>7. ~(salt.len < 16) /\ ~(salt.len > 64)
  <2> HIDE DEF salt, pp
  <2>1. SaltIssues(salt, << "passphrase", "salt" >>) = {}
    BY <1>5, <1>6
  <2> DEFINE short == salt.t = "bytes" /\ salt.len < 16
             long == salt.t = "bytes" /\ salt.len > 64
  <2>2. OneWhen(short, "ENC_PASSPHRASE_SALT_TOO_SHORT", << "passphrase", "salt" >>) = {}
        /\ OneWhen(long, "ENC_PASSPHRASE_SALT_TOO_LONG", << "passphrase", "salt" >>) = {}
    BY <2>1 DEF SaltIssues
  <2> HIDE DEF short, long
  <2>3. ~short /\ ~long
    BY <2>2 DEF OneWhen, When
  <2> QED
    BY <1>6, <2>3 DEF short, long
<1>8. /\ DOMAIN params = {"m", "t", "p"}
      /\ \A f \in {"m", "t", "p"} : params[f] = Get(pp, "params").m[f].n
  BY DEF ParamsOf
<1>9. \A f \in {"m", "t", "p"} : assertUint32(params[f]) /\ ~(params[f] < ARGON2_FLOORS[f])
  <2>1. \A f \in {"m", "t", "p"} : /\ Get(pp, "params").m[f].n \in 0..UINT32_MAX
                                   /\ ~(Get(pp, "params").m[f].n < ARGON2_FLOORS[f])
    BY <1>3, PassphraseFields
  <2> HIDE DEF params, pp
  <2> QED
    BY <1>8, <2>1 DEF assertUint32
<1>10. floors = ARGON2_FLOORS /\ DOMAIN floors = {"m", "t", "p"}
  BY DEF ARGON2_FLOORS
<1> HIDE DEF salt, params, pp, floors
<1>11. DOMAIN rows = 1..5
  OBVIOUS
<1>12. ~rows[1][1] /\ ~rows[2][1] /\ ~rows[3][1] /\ ~rows[4][1] /\ ~rows[5][1]
  BY <1>4, <1>7, <1>8, <1>9, <1>10
<1> HIDE DEF rows
<1>13. \A i \in 1..5 : i = 1 \/ i = 2 \/ i = 3 \/ i = 4 \/ i = 5
  OBVIOUS
<1>14. FirstFailing(rows) = "ok"
  BY <1>11, <1>12, <1>13, NoneFailing
<1> QED
  BY <1>1, <1>14 DEF salt, params

(* One envelope, as DecryptOnlyValidated has it.                           *)
Ready(enc) ==
  IF Get(enc, "slots").t = "array"
  THEN sealedEnvelopeFromParsed(enc) # Missing /\ assertEnvelopeStructure(enc, << >>) = "ok"
  ELSE assertPassphraseBlock(SaltOf(enc), ParamsOf(enc), Get(enc, "nonce")) = "ok"

LEMMA CleanEnvelope ==
  ASSUME NEW item \in Data, NEW opts, NEW path, opts.role = "recipient_or_strict",
         opts.maxSlots = MAX_SLOTS, opts.maxEncEnvelopeBytes = MAX_DECODED_ENVELOPE_BYTES,
         Clean(checkItemEnc(item, opts, path))
  PROVE  Ready(Get(item, "enc"))
<1> DEFINE enc == Get(item, "enc")
           A == OneWhen(\A k \in Keys(Get(item, "hashes")) : ~Registered(HASH_ALG_LENGTHS, k),
                        "ENC_REQUIRES_CONTENT_HASH", path)
           B == {issueOf("SCHEMA_TYPE_MISMATCH", path)}
           C == OneWhen(EncodedSize(enc) > opts.maxEncEnvelopeBytes,
                        "ENC_ENVELOPE_TOO_LARGE", path)
           D == envelopeDisposition(enc, opts, path)
<1>1. checkItemEnc(item, opts, path) = A \cup (IF enc.t # "map" THEN B ELSE C \cup D)
  BY DEF checkItemEnc
<1>2. ~Clean(B)
  <2>1. "SCHEMA_TYPE_MISMATCH" \in Structural
    BY DEF Structural
  <2> QED
    BY <2>1, StructuralIsError DEF Clean
<1>3. Clean(C) /\ Clean(D)
  <2> HIDE DEF A, B, C, D
  <2> QED
    BY <1>1, <1>2 DEF Clean
<1>4. enc \in Data
  BY DataAssumption, Parts DEF DataSet
<1>5. ~(EncodedSize(enc) > MAX_DECODED_ENVELOPE_BYTES)
  <2> DEFINE large == EncodedSize(enc) > opts.maxEncEnvelopeBytes
  <2>1. "ENC_ENVELOPE_TOO_LARGE" \in Structural
    BY DEF Structural
  <2>2. Clean(OneWhen(large, "ENC_ENVELOPE_TOO_LARGE", path))
    BY <1>3
  <2> HIDE DEF large
  <2>3. ~large
    BY <2>1, <2>2, CleanWhen
  <2> QED
    BY <2>3 DEF large
<1> HIDE DEF enc
<1>6. /\ UnsupportedIdentifiers(enc) = {} /\ EncScheme1Issues(enc) = {}
      /\ checkScheme1Envelope(enc, opts, path) = {}
  BY <1>3, <1>4, TypedEnvelope
<1>7. Ready(enc)
  BY <1>4, <1>5, <1>6, SlotsReady, PassphraseReady DEF Ready
<1> QED
  BY <1>7 DEF enc

LEMMA ValidItems ==
  ASSUME NEW call \in Inputs, willDecrypt(call), NEW body,
         body.decodes => body.value \in Data, Validation(call, body).valid
  PROVE  \A k \in DOMAIN ItemsOf(body.value) :
           LET enc == Get(ItemsOf(body.value)[k], "enc") IN enc # Missing => Ready(enc)
<1> DEFINE opts == ValidatorOptions(call)
           all == ValidationIssues(body, opts)
           rec == body.value
           items == Elems(Get(rec, "items"))
           Here(i) == << "items", Idx(i) >>
           ItemIssues(item, here) ==
             checkItemHashes(item, here)
               \cup checkUris(Get(item, "uris"), here \o << "uris" >>)
               \cup (IF Has(item, "enc")
                     THEN checkItemEnc(item, opts, here \o << "enc" >>) ELSE {})
           D == UNION {ItemIssues(items[i], Here(i)) : i \in DOMAIN items}
<1>1. DataSet(Data)
  BY DataAssumption DEF DataSet
<1>2. Validation(call, body) = validatePoeRecord(body, opts)
  BY DEF Validation
<1>3. body.decodes /\ all = DomainIssues(rec, opts) /\ Clean(all)
  BY <1>1, <1>2, ValidatedRecord DEF Clean
<1>4. Clean(D)
  <2>1. D \subseteq DomainIssues(rec, opts)
    BY DEF DomainIssues
  <2> HIDE DEF D, all
  <2> QED
    BY <1>3, <2>1 DEF Clean
<1>5. /\ opts.role = "recipient_or_strict" /\ opts.maxSlots = MAX_SLOTS
      /\ opts.maxEncEnvelopeBytes = MAX_DECODED_ENVELOPE_BYTES
  BY DEF ValidatorOptions, validatorRole, DefaultOptions
<1>6. \A i \in DOMAIN items : items[i] \in Data
  <2>1. items \in Seq(Data)
    BY <1>3, RecordLists DEF ItemsOf
  <2> QED
    BY <2>1
<1> HIDE DEF opts, rec
<1>7. ASSUME NEW i \in DOMAIN items, Get(items[i], "enc") # Missing
      PROVE  Ready(Get(items[i], "enc"))
  <2>1. Has(items[i], "enc")
    BY <1>7 DEF Get, Has
  <2> DEFINE E == checkItemEnc(items[i], opts, Here(i) \o << "enc" >>)
  <2>2. E \subseteq ItemIssues(items[i], Here(i))
    BY <2>1
  <2>3. Clean(E)
    <3> HIDE DEF E, Item, items
    <3>1. \A s \in E : s \in D
      BY <2>2
    <3> HIDE DEF D
    <3> QED
      BY <1>4, <3>1 DEF Clean
  <2> HIDE DEF items
  <2> QED
    BY <1>5, <1>6, <2>3, CleanEnvelope
<1> QED
  BY <1>7 DEF ItemsOf, rec

LEMMA DecryptNext ==
  ASSUME ClaimsInv, DecryptOnlyValidated, [Next]_vars
  PROVE  DecryptOnlyValidated'
<1> DEFINE AllReady == \A k \in 1..NumItems :
                         LET enc == Get(ItemsOf(record)[k], "enc") IN enc # Missing => Ready(enc)
<1>1. DecryptOnlyValidated <=> (phase = "claims" /\ willDecrypt(input) => AllReady)
  BY DEF DecryptOnlyValidated, Ready
<1>2. DecryptOnlyValidated' <=> (phase' = "claims" /\ willDecrypt(input') => AllReady')
  BY DEF DecryptOnlyValidated, Ready
<1>3. CASE phase' = "claims" /\ phase = "claims" /\ UNCHANGED << input, record >>
  <2>1. AllReady' <=> AllReady
    BY <1>3 DEF NumItems
  <2> QED
    BY <1>1, <1>2, <1>3, <2>1
<1>4. CASE JudgeRecord /\ phase' = "claims"
  <2> DEFINE body == CarriedBody.body
             validation == Validation(input, body)
  <2>1. phase = "record" /\ UNCHANGED input /\ input \in Inputs
    BY <1>4 DEF JudgeRecord, ClaimsInv
  <2>2. CarriedBody.ok /\ JudgeBody(body.value, validation)
    <3>1. \/ \E code : Refused(code)
          \/ CarriedBody.ok /\ JudgeBody(body.value, validation)
      BY <1>4 DEF JudgeRecord
    <3>2. ASSUME NEW code, Refused(code) PROVE phase' = "done"
      BY <3>2 DEF Refused, Conclude
    <3> QED
      BY <1>4, <3>1, <3>2
  <2>3. validation.valid /\ record' = body.value
    <3> HIDE DEF validation, body
    <3>1. phase' # "done"
      BY <1>4
    <3>2. ASSUME ~validation.valid PROVE FALSE
      BY <2>2, <3>1, <3>2 DEF JudgeBody, Conclude
    <3>3. ASSUME validation.valid, resolved.depth < input.threshold PROVE FALSE
      BY <2>2, <3>1, <3>3 DEF JudgeBody
    <3>4. ASSUME validation.valid, ~(resolved.depth < input.threshold)
          PROVE  record' = body.value
      BY <2>2, <3>4 DEF JudgeBody
    <3> QED
      BY <3>2, <3>3, <3>4
  <2>4. body.decodes => body.value \in Data
    BY <2>1, <2>2, CarriedIsData
  <2>5. ASSUME willDecrypt(input)
        PROVE  \A k \in DOMAIN ItemsOf(body.value) :
                 LET enc == Get(ItemsOf(body.value)[k], "enc") IN enc # Missing => Ready(enc)
    <3> HIDE DEF body
    <3> QED
      BY <2>1, <2>3, <2>4, <2>5, ValidItems
  <2>6. DOMAIN ItemsOf(body.value) = 1..Len(ItemsOf(body.value))
    <3>1. IsRecord(body.value)
      <4> HIDE DEF body
      <4> QED
        BY <2>1, <2>3, <2>4, ValidRecord
    <3>2. ItemsOf(body.value) \in Seq(Data)
      BY <3>1, RecordLists DEF IsRecord
    <3> QED
      BY <3>2
  <2>7. NumItems' = Len(ItemsOf(body.value))
    BY <2>3 DEF NumItems
  <2> HIDE DEF body
  <2> QED
    BY <1>2, <2>1, <2>3, <2>5, <2>6, <2>7
<1>5. phase' = "claims" => \/ JudgeRecord
                           \/ phase = "claims" /\ UNCHANGED << input, record >>
  <2> SUFFICES ASSUME phase' = "claims"
               PROVE  JudgeRecord \/ (phase = "claims" /\ UNCHANGED << input, record >>)
    OBVIOUS
  <2>1. CASE UNCHANGED vars \/ Reported
    BY <2>1 DEF vars, Reported
  <2>2. CASE verifyTx \/ verifyResolved
    BY <2>2 DEF verifyTx, verifyResolved, Conclude
  <2>3. CASE NoProviderLeft \/ FetchTxCbor \/ FetchTxInfo \/ FetchTip
    BY <2>3 DEF NoProviderLeft, FetchTxCbor, FetchTxInfo, FetchTip, ResolveStep, Denied,
                Conclude, Served, Unserved
  <2>4. CASE SettleUnseen \/ OutOfBandBlob \/ RefuseUri \/ FetchBlob \/ EndOfSources \/ Finish
    BY <2>4 DEF SettleUnseen, OutOfBandBlob, RefuseUri, FetchBlob, EndOfSources, Finish, AtClaim
  <2> QED
    BY <2>1, <2>2, <2>3, <2>4 DEF Next
<1> QED
  BY <1>2, <1>3, <1>4, <1>5

(* A run with keys decrypts nothing that the decrypting code would refuse  *)
(* on its structure: what the validator, read strictly, passes satisfies   *)
(* every check of unwrap.ts or of passphrase.ts.                           *)
THEOREM DecryptOnlyValidatedHolds == Spec => []DecryptOnlyValidated
<1>1. Init => DecryptOnlyValidated
  BY DEF Init, DecryptOnlyValidated
<1>2. ClaimsInv /\ DecryptOnlyValidated /\ [Next]_vars => DecryptOnlyValidated'
  BY DecryptNext
<1> QED
  BY <1>1, <1>2, ClaimsKept, PTL DEF Spec

=============================================================================
